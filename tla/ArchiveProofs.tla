---------------------------- MODULE ArchiveProofs ----------------------------
(***************************************************************************)
(* Proofs about the store of module Archive: its type invariant, the       *)
(* agreement of PENDING with BOOT, that nothing is kept for an address     *)
(* that is not watched, the exactness of the block index, and that the     *)
(* records are the chain's, under every order of watch, unwatch, apply,    *)
(* rollback, proof, expiry and backfill transactions.                      *)
(***************************************************************************)
EXTENDS Archive, WellFoundedInduction, TLAPS

-----------------------------------------------------------------------------
(* The tree and its values: the last change of a slot in a block and the  *)
(* value of a slot at a block are well defined.                            *)

\* A nonempty set of naturals has a least element.
LEMMA LeastNat ==
  ASSUME NEW T, T \subseteq Nat, T # {}
  PROVE  \E x \in T : \A y \in T : x <= y
<1> DEFINE R == OpToRel(<, Nat)
<1>1. IsWellFoundedOn(R, Nat) BY NatLessThanWellFounded
<1>2. ASSUME NEW x \in Nat, NEW y \in Nat, x < y PROVE <<x, y>> \in R BY <1>2 DEF OpToRel
<1> HIDE DEF R
<1>3. PICK x \in T : \A y \in T : ~ (<<y, x>> \in R) BY <1>1, WFMin
<1>4. ASSUME NEW y \in T PROVE x <= y
  <2>1. ~ (y < x) BY <1>2, <1>3
  <2> QED BY <2>1
<1> QED BY <1>4

\* A nonempty set of naturals that has an upper bound has a greatest element.
LEMMA GreatestNat ==
  ASSUME NEW N \in Nat, NEW T, T \subseteq 0 .. N, T # {}
  PROVE  \E x \in T : \A y \in T : y <= x
<1> DEFINE U == {N - x : x \in T}
<1>1. U \subseteq Nat
  <2> SUFFICES ASSUME NEW x \in T PROVE N - x \in Nat OBVIOUS
  <2>1. x \in 0 .. N OBVIOUS
  <2> QED BY <2>1
<1>2. U # {}
  <2>1. PICK x \in T : TRUE OBVIOUS
  <2>2. N - x \in U BY <2>1
  <2> QED BY <2>2
<1>3. PICK u \in U : \A v \in U : u <= v
  <2> HIDE DEF U
  <2> QED BY <1>1, <1>2, LeastNat
<1>4. PICK x \in T : u = N - x OBVIOUS
<1>5. ASSUME NEW y \in T PROVE y <= x
  <2>1. N - y \in U OBVIOUS
  <2>2. u <= N - y BY <1>3, <2>1
  <2>3. x \in Nat /\ y \in Nat OBVIOUS
  <2> QED BY <1>4, <2>2, <2>3
<1> QED BY <1>5

LEMMA MaxIsMember ==
  ASSUME NEW N \in Nat, NEW T, T \subseteq 0 .. N, T # {}
  PROVE  Max(T) \in T /\ \A y \in T : y <= Max(T)
<1>1. PICK x \in T : \A y \in T : y <= x BY GreatestNat
<1>2. \A y \in T : x >= y BY <1>1
<1>3. Max(T) \in T /\ \A y \in T : Max(T) >= y BY <1>2 DEF Max
<1>4. \A y \in T : y \in Int OBVIOUS
<1> QED BY <1>3, <1>4

LEMMA MinIsMember ==
  ASSUME NEW T, T \subseteq Nat, T # {}
  PROVE  Min(T) \in T /\ \A n \in T : Min(T) <= n
<1>1. PICK x \in T : \A y \in T : x <= y BY LeastNat
<1> QED BY <1>1 DEF Min

\* The smaller, and the larger, of a few numbers.
LEMMA MinOfThree ==
  ASSUME NEW x \in Int, NEW y \in Int, NEW z \in Int
  PROVE  /\ Min({x, y, z}) \in {x, y, z}
         /\ Min({x, y, z}) <= x /\ Min({x, y, z}) <= y /\ Min({x, y, z}) <= z
<1>1. PICK m \in {x, y, z} : m <= x /\ m <= y /\ m <= z
  <2>1. CASE x <= y /\ x <= z BY <2>1
  <2>2. CASE y <= x /\ y <= z BY <2>2
  <2>3. CASE z <= x /\ z <= y BY <2>3
  <2> QED BY <2>1, <2>2, <2>3
<1>2. \A n \in {x, y, z} : m <= n BY <1>1
<1>3. Min({x, y, z}) \in {x, y, z} /\ \A n \in {x, y, z} : Min({x, y, z}) <= n
  BY <1>1, <1>2 DEF Min
<1> QED BY <1>3

LEMMA MaxOfTwo ==
  ASSUME NEW x \in Int, NEW y \in Int
  PROVE  Max({x, y}) \in {x, y} /\ x <= Max({x, y}) /\ y <= Max({x, y})
<1>1. PICK m \in {x, y} : \A n \in {x, y} : m >= n
  <2>1. CASE x <= y BY <2>1
  <2>2. CASE y <= x BY <2>2
  <2> QED BY <2>1, <2>2
<1>2. Max({x, y}) \in {x, y} /\ \A n \in {x, y} : Max({x, y}) >= n BY <1>1 DEF Max
<1> QED BY <1>2

\* A slot a block writes has a last change there.
LEMMA FinalChangeExists ==
  ASSUME NEW h \in Hash, NEW a \in Addr, NEW s \in Written(h, a)
  PROVE  /\ FinalChange(h, a, s) \in Changes[h]
         /\ FinalChange(h, a, s).addr = a
         /\ FinalChange(h, a, s).slot = s
         /\ \A d \in Changes[h] :
              d.addr = a /\ d.slot = s => d.index <= FinalChange(h, a, s).index
<1> DEFINE all == {c \in Changes[h] : c.addr = a /\ c.slot = s}
           ixs == {c.index : c \in all}
<1>1. Changes[h] \subseteq Change BY DataAssumption
<1>2. all # {} BY DEF Written
<1>3. ixs \subseteq 0 .. MaxIndex - 1 /\ ixs # {} BY <1>1, <1>2 DEF Change
<1>4. MaxIndex - 1 \in Nat BY DataAssumption
<1>5. PICK i \in ixs : \A j \in ixs : j <= i
  <2> HIDE DEF ixs
  <2> QED BY <1>3, <1>4, GreatestNat
<1>6. PICK c \in all : c.index = i OBVIOUS
<1>7. \A d \in all : d.index <= c.index BY <1>5, <1>6
<1>8. /\ FinalChange(h, a, s) \in all
      /\ \A d \in all : d.index <= FinalChange(h, a, s).index
  BY <1>7 DEF FinalChange
<1> QED BY <1>8

\* Storage holds words.
LEMMA ValueAtType ==
  ASSUME NEW h \in Hash, NEW n \in Heights, n <= Num[h], NEW a \in Addr, NEW s \in Slot
  PROVE  ValueAt(h, n, a, s) \in Value
<1> DEFINE ws == WriteBlocks(h, n, a, s)
<1>1. CASE ws = {}
  BY <1>1, DataAssumption DEF ValueAt
<1>2. CASE ws # {}
  <2>1. n \in Nat /\ ws \subseteq 0 .. n BY TreeAssumption DEF Heights, WriteBlocks
  <2>2. Max(ws) \in ws BY <1>2, <2>1, MaxIsMember
  <2>3. Max(ws) \in Heights /\ Max(ws) <= n BY <2>1, <2>2, TreeAssumption DEF Heights
  <2>4. Line[h][Max(ws)] \in Hash
    BY <2>3, TreeAssumption DEF Heights
  <2>5. s \in Written(Line[h][Max(ws)], a) BY <2>2 DEF WriteBlocks
  <2>6. FinalChange(Line[h][Max(ws)], a, s) \in Changes[Line[h][Max(ws)]]
    BY <2>4, <2>5, FinalChangeExists
  <2>7. FinalChange(Line[h][Max(ws)], a, s) \in Change
    BY <2>4, <2>6, DataAssumption
  <2> QED BY <1>2, <2>7 DEF ValueAt, Change
<1> QED BY <1>1, <1>2

\* Lines that agree up to n have the same storage there.
LEMMA ValueAtSame ==
  ASSUME NEW h \in Hash, NEW k \in Hash, NEW n \in Heights, NEW a \in Addr, NEW s \in Slot,
         \A m \in Heights : m <= n => Line[h][m] = Line[k][m]
  PROVE  ValueAt(h, n, a, s) = ValueAt(k, n, a, s)
<1> DEFINE ws == WriteBlocks(h, n, a, s)
<1>1. MaxHeight \in Nat /\ n \in Nat /\ 0 .. n \subseteq Heights
  BY TreeAssumption DEF Heights
<1>2. \A m \in 0 .. n : Line[h][m] = Line[k][m] BY <1>1
<1>3. WriteBlocks(k, n, a, s) = ws BY <1>2 DEF WriteBlocks
<1>4. CASE ws = {} BY <1>3, <1>4 DEF ValueAt
<1>5. CASE ws # {}
  <2>1. ws \subseteq 0 .. n BY DEF WriteBlocks
  <2>2. Max(ws) \in 0 .. n BY <1>1, <1>5, <2>1, MaxIsMember
  <2> QED BY <1>2, <1>3, <1>5, <2>2 DEF ValueAt
<1> QED BY <1>4, <1>5

\* A slot keeps its value over blocks that do not write it.
LEMMA ValueAtStill ==
  ASSUME NEW h \in Hash, NEW n \in Heights, NEW m \in Heights, n <= m,
         NEW a \in Addr, NEW s \in Slot,
         \A k \in Heights : n < k /\ k <= m => s \notin Written(Line[h][k], a)
  PROVE  ValueAt(h, m, a, s) = ValueAt(h, n, a, s)
<1>1. n \in Nat /\ m \in Nat /\ 0 .. m \subseteq Heights BY TreeAssumption DEF Heights
<1>2. \A k \in 0 .. m : s \in Written(Line[h][k], a) => k \in 0 .. n BY <1>1
<1>3. WriteBlocks(h, m, a, s) = WriteBlocks(h, n, a, s) BY <1>1, <1>2 DEF WriteBlocks
<1> QED BY <1>3 DEF ValueAt

\* A block that writes a slot leaves its last change.
LEMMA ValueAtWrite ==
  ASSUME NEW h \in Hash, NEW n \in Heights, NEW a \in Addr, NEW s \in Slot,
         s \in Written(Line[h][n], a)
  PROVE  ValueAt(h, n, a, s) = FinalChange(Line[h][n], a, s).value
<1> DEFINE ws == WriteBlocks(h, n, a, s)
<1>1. n \in Nat BY TreeAssumption DEF Heights
<1>2. n \in ws /\ ws \subseteq 0 .. n BY <1>1 DEF WriteBlocks
<1>3. Max(ws) \in ws /\ n <= Max(ws)
  <2> HIDE DEF ws
  <2> QED BY <1>1, <1>2, MaxIsMember
<1>4. Max(ws) = n BY <1>1, <1>2, <1>3
<1> QED BY <1>2, <1>4 DEF ValueAt

\* A slot that was never written has the value it had before the tree.
LEMMA ValueAtNever ==
  ASSUME NEW h \in Hash, NEW n \in Heights, NEW a \in Addr, NEW s \in Slot,
         \A k \in Heights : k <= n => s \notin Written(Line[h][k], a)
  PROVE  ValueAt(h, n, a, s) = Genesis[a][s]
<1>1. n \in Nat /\ 0 .. n \subseteq Heights BY TreeAssumption DEF Heights
<1>2. \A k \in 0 .. n : s \notin Written(Line[h][k], a) BY <1>1
<1>3. WriteBlocks(h, n, a, s) = {} BY <1>2 DEF WriteBlocks
<1> QED BY <1>3 DEF ValueAt

USE DEF Heights

-----------------------------------------------------------------------------
(* Facts about the data *)

LEMMA HeightsFact == /\ MaxHeight \in Nat /\ Heights \subseteq Nat /\ 0 \in Heights
                     /\ NoHash \notin Hash
                     /\ \A h \in Hash : Num[h] \in Heights
BY TreeAssumption

LEMMA BootFact ==
  /\ Unseen \in BootState /\ Done \in BootState
  /\ \A n \in Heights : Pending(n) \in BootState /\ Lost(n) \in BootState
BY HeightsFact DEF Unseen, Done, Pending, Lost, BootState

\* An access list turns into records of the block it belongs to.
LEMMA BalRecordsType ==
  ASSUME NEW h \in Hash, NEW a \in Addr, NEW p \in {"bal", "unverified"}
  PROVE  BalRecords(h, a, p) \subseteq Record
<1> SUFFICES ASSUME NEW c \in Changes[h]
             PROVE  [addr |-> a, slot |-> c.slot, block |-> Num[h], index |-> c.index,
                     value |-> c.value, prov |-> p] \in Record
  BY DEF BalRecords
<1>1. c \in Change BY DataAssumption
<1>2. c.index \in 0 .. MaxIndex BY <1>1, DataAssumption DEF Change
<1> QED BY <1>1, <1>2, HeightsFact DEF Change, Record

LEMMA IndexOfType ==
  ASSUME NEW h \in Hash, NEW a \in Addr
  PROVE  IndexOf(h, a) \subseteq IndexEntry
<1>1. Changes[h] \subseteq Change BY DataAssumption
<1>2. Written(h, a) \subseteq Slot BY <1>1 DEF Written, Change
<1> QED BY <1>2, HeightsFact DEF IndexOf, IndexEntry

\* Only the records in new are added by an insert.
LEMMA InsertType ==
  ASSUME NEW T, NEW new, T \subseteq Record, new \subseteq Record
  PROVE  Insert(T, new) \subseteq Record
BY DEF Insert

-----------------------------------------------------------------------------
(* Type correctness, one lemma per transaction *)

LEMMA InitType == Init => TypeOK
<1> SUFFICES ASSUME Init PROVE TypeOK OBVIOUS
<1> USE HeightsFact, BootFact DEF Init
<1>1. slots \subseteq Record /\ blockidx \subseteq IndexEntry OBVIOUS
<1>2. boot \in [Addr -> [Slot -> BootState]] OBVIOUS
<1>3. pending \in [Addr -> [Slot -> Heights]] OBVIOUS
<1>4. watch \in [Addr -> Heights] /\ created \in [Addr -> Heights] OBVIOUS
<1>5. anchor \in [Addr -> Hash \cup {NoHash}] /\ hashes \in [Heights -> Hash \cup {NoHash}]
  OBVIOUS
<1>6. \A n \in Heights : hashes[n] # NoHash => Num[hashes[n]] = n OBVIOUS
<1>7. head \in Hash \cup {NoHash} /\ inFlight \in 0 .. MaxHeight + 1 OBVIOUS
<1>8. syncing \in BOOLEAN /\ gate \in BOOLEAN OBVIOUS
<1> QED BY <1>1, <1>2, <1>3, <1>4, <1>5, <1>6, <1>7, <1>8 DEF TypeOK

LEMMA WatchType ==
  ASSUME TypeOK, NEW a \in Addr, NEW n \in Heights, StartWatch(a, n)
  PROVE  TypeOK'
BY DEF TypeOK, StartWatch, Watch, volatile

LEMMA UnwatchType ==
  ASSUME TypeOK, NEW a \in Addr, Unwatch(a)
  PROVE  TypeOK'
BY HeightsFact, BootFact DEF TypeOK, Unwatch, volatile

LEMMA ApplyType ==
  ASSUME TypeOK, NEW h \in Hash, NEW below \in Heights, NEW snap, ApplyBlock(h, snap, below)
  PROVE  TypeOK'
<1> USE DEF TypeOK
<1>1. Live(h, snap) \subseteq Addr BY DEF Live
<1>2. Num[h] \in Heights /\ MaxHeight \in Nat BY HeightsFact
<1>3. slots' \subseteq Record
  <2> DEFINE prov == IF h \in Committed THEN "bal" ELSE "unverified"
             new == UNION {BalRecords(h, a, prov) : a \in Live(h, snap)}
  <2>1. \A a \in Live(h, snap) : BalRecords(h, a, prov) \subseteq Record
    BY <1>1, BalRecordsType
  <2>2. new \subseteq Record
    <3> HIDE DEF prov
    <3> QED BY <2>1
  <2>3. slots' = Insert(slots, new) BY DEF ApplyBlock
  <2> HIDE DEF new
  <2> QED BY <2>2, <2>3, InsertType
<1>4. blockidx' \subseteq IndexEntry
  <2>1. \A a \in Live(h, snap) : IndexOf(h, a) \subseteq IndexEntry BY <1>1, IndexOfType
  <2> QED BY <2>1 DEF ApplyBlock, IndexAfter
<1>5. boot' \in [Addr -> [Slot -> BootState]]
  <2>1. \A a \in Addr, s \in Slot : boot[a][s] \in BootState OBVIOUS
  <2>2. \A a \in Addr, s \in Slot : BootAfter(h, a, s) \in BootState
    BY <2>1, <1>2, BootFact DEF BootAfter
  <2> QED BY <2>1, <2>2 DEF ApplyBlock
<1>6. pending' \in [Addr -> [Slot -> Heights]]
  <2>1. \A a \in Addr, s \in Slot : pending[a][s] \in Heights OBVIOUS
  <2>2. \A a \in Addr, s \in Slot : PendingAfter(h, a, s) \in Heights
    BY <2>1, <1>2, HeightsFact DEF PendingAfter
  <2> QED BY <2>1, <2>2 DEF ApplyBlock
<1>7. created' \in [Addr -> Heights] BY <1>2 DEF ApplyBlock
<1>8. /\ hashes' \in [Heights -> Hash \cup {NoHash}]
      /\ \A n \in Heights : hashes'[n] # NoHash => Num[hashes'[n]] = n
  BY DEF ApplyBlock, HashesAfter
<1>9. head' \in Hash \cup {NoHash} BY DEF ApplyBlock
<1>10. UNCHANGED <<watch, anchor, inFlight, syncing, gate>> BY DEF ApplyBlock, volatile
<1> QED BY <1>3, <1>4, <1>5, <1>6, <1>7, <1>8, <1>9, <1>10

LEMMA RollbackType ==
  ASSUME TypeOK, NEW b \in Heights, NEW snap, RollbackTo(b, snap)
  PROVE  TypeOK'
<1> USE DEF TypeOK
<1>1. slots' \subseteq Record /\ blockidx' \subseteq IndexEntry BY DEF RollbackTo
<1>2. boot' \in [Addr -> [Slot -> BootState]] BY BootFact DEF RollbackTo
<1>3. pending' \in [Addr -> [Slot -> Heights]] BY HeightsFact DEF RollbackTo
<1>4. created' \in [Addr -> Heights] BY HeightsFact DEF RollbackTo
<1>5. /\ hashes' \in [Heights -> Hash \cup {NoHash}]
      /\ \A n \in Heights : hashes'[n] # NoHash => Num[hashes'[n]] = n
  BY DEF RollbackTo
<1>6. head' \in Hash \cup {NoHash} BY DEF RollbackTo
<1>7. UNCHANGED <<watch, anchor, inFlight, syncing, gate>> BY DEF RollbackTo, volatile
<1> QED BY <1>1, <1>2, <1>3, <1>4, <1>5, <1>6, <1>7

LEMMA HeaderType ==
  ASSUME TypeOK, NEW h \in Hash, RememberHeader(h)
  PROVE  TypeOK'
<1>1. hashes' = [hashes EXCEPT ![Num[h]] = h] \/ hashes' = hashes BY DEF RememberHeader
<1>2. Num[h] \in Heights BY HeightsFact
<1> QED BY <1>1, <1>2 DEF TypeOK, RememberHeader, volatile

LEMMA RememberType ==
  ASSUME TypeOK, NEW n \in Heights, Remember(n)
  PROVE  TypeOK'
<1>1. head \in Hash /\ n < Num[head] BY DEF TypeOK, Remember
<1>2. Line[head][n] \in Hash BY <1>1, HeightsFact, TreeAssumption
<1> QED BY <1>2, HeaderType DEF Remember

\* A proof of some slots is one record for each of them.
LEMMA PutType ==
  ASSUME TypeOK, NEW a \in Addr, NEW start \in Heights \ {0}, NEW at, NEW hash,
         NEW D \in SUBSET Slot, NEW vals \in [D -> Value],
         PutBootstrap(a, start, at, hash, vals)
  PROVE  TypeOK'
<1> DEFINE ok == {t \in DOMAIN vals : Accepts(a, t, at)}
           new == {[addr |-> a, slot |-> t, block |-> start - 1, index |-> MaxIndex,
                    value |-> vals[t], prov |-> "proof"] : t \in ok}
<1>1. DOMAIN vals = D /\ \A t \in D : vals[t] \in Value OBVIOUS
<1>2. start - 1 \in Heights /\ MaxIndex \in 0 .. MaxIndex
  BY HeightsFact, DataAssumption
<1>3. new \subseteq Record BY <1>1, <1>2 DEF Record
<1>4. slots' = Insert(slots, new) BY DEF PutBootstrap
<1> HIDE DEF ok, new
<1>5. slots' \subseteq Record BY <1>3, <1>4, InsertType DEF TypeOK
<1>6. boot' \in [Addr -> [Slot -> BootState]] BY BootFact DEF TypeOK, PutBootstrap
<1>7. pending' \in [Addr -> [Slot -> Heights]] BY HeightsFact DEF TypeOK, PutBootstrap
<1> QED BY <1>5, <1>6, <1>7 DEF TypeOK, PutBootstrap, volatile

LEMMA ProveType ==
  ASSUME TypeOK, NEW a \in Addr, NEW S \in SUBSET Slot, NEW at \in Heights, Prove(a, S, at)
  PROVE  TypeOK'
<1> DEFINE vals == [t \in S |-> ValueAt(hashes[at], at, a, t)]
<1>1. hashes[at] \in Hash /\ Num[hashes[at]] = at BY DEF TypeOK, Prove
<1>2. vals \in [S -> Value] BY <1>1, HeightsFact, ValueAtType
<1>3. watch[a] \in Heights \ {0} /\ PutBootstrap(a, watch[a], at, hashes[at], vals)
  BY DEF TypeOK, Prove
<1> HIDE DEF vals
<1> QED BY <1>2, <1>3, PutType

LEMMA LostType ==
  ASSUME TypeOK, NEW a \in Addr, NEW lost, NEW n \in Heights, MarkLost(a, lost, n)
  PROVE  TypeOK'
BY HeightsFact, BootFact DEF TypeOK, MarkLost, volatile

LEMMA ExpireType ==
  ASSUME TypeOK, NEW a \in Addr, NEW n \in Heights, Expire(a, n)
  PROVE  TypeOK'
BY LostType DEF Expire

LEMMA LowerType ==
  ASSUME TypeOK, NEW a \in Addr, Lower(a)
  PROVE  TypeOK'
<1> DEFINE n == watch[a] - 1
           h == Line[head][n]
           next == [s \in Slot |->
             IF s \in Written(h, a) THEN Lowered(boot[a][s], n) ELSE boot[a][s]]
<1>1. n \in Heights /\ n >= 1 /\ head \in Hash /\ n <= Num[head]
  BY HeightsFact DEF TypeOK, Lower
<1>2. h \in Hash /\ Num[h] = n BY <1>1, TreeAssumption
<1>3. BackfillBlock(a, h) BY DEF Lower
<1> HIDE DEF n, h
<1>4. slots' \subseteq Record
  <2>1. BalRecords(h, a, "bal") \subseteq Record BY <1>2, BalRecordsType
  <2> QED BY <1>3, <2>1, InsertType DEF TypeOK, BackfillBlock
<1>5. blockidx' \subseteq IndexEntry
  <2>1. IndexOf(h, a) \subseteq IndexEntry BY <1>2, IndexOfType
  <2> QED BY <1>3, <2>1 DEF TypeOK, BackfillBlock, IndexAfter
<1>6. boot' \in [Addr -> [Slot -> BootState]]
  <2>1. \A s \in Slot : boot[a][s] \in BootState BY DEF TypeOK
  <2>2. \A b \in BootState : Lowered(b, n) \in BootState BY <1>1, BootFact DEF Lowered
  <2>3. next \in [Slot -> BootState] BY <2>1, <2>2
  <2> DEFINE settled == [s \in Slot |-> IF next[s] = Unseen THEN Unseen ELSE Done]
  <2>4. settled \in [Slot -> BootState] BY BootFact
  <2>5. boot' = [boot EXCEPT ![a] = IF a \in Deploys[h] THEN settled ELSE next]
    BY <1>2, <1>3 DEF BackfillBlock
  <2> HIDE DEF next, settled
  <2> QED BY <2>3, <2>4, <2>5 DEF TypeOK
<1>7. pending' \in [Addr -> [Slot -> Heights]]
  BY <1>1, <1>2, <1>3, HeightsFact DEF TypeOK, BackfillBlock
<1>8. created' \in [Addr -> Heights] /\ watch' \in [Addr -> Heights]
      /\ anchor' \in [Addr -> Hash \cup {NoHash}]
  BY <1>1, <1>2, <1>3 DEF TypeOK, BackfillBlock
<1> QED BY <1>3, <1>4, <1>5, <1>6, <1>7, <1>8 DEF TypeOK, BackfillBlock, volatile

LEMMA TypeStep ==
  ASSUME TypeOK, [Next]_archiveVars
  PROVE  TypeOK'
<1>1. CASE UNCHANGED archiveVars
  BY <1>1 DEF archiveVars, tables, volatile, TypeOK
<1>2. CASE Forward
  <2>1. ASSUME NEW h \in Hash, NEW below \in Heights, Extend(h, below) PROVE TypeOK'
    BY <2>1, ApplyType DEF Extend
  <2>2. ASSUME NEW b \in Heights, Reorg(b) PROVE TypeOK'
    BY <2>2, RollbackType DEF Reorg
  <2>3. ASSUME NEW a \in Addr, EndWatch(a) PROVE TypeOK'
    BY <2>3, UnwatchType DEF EndWatch
  <2> QED BY <1>2, <2>1, <2>2, <2>3, WatchType DEF Forward
<1>3. CASE Proofs
  <2>1. ASSUME NEW a \in Addr, NEW n \in Heights, NEW S \in SUBSET Slot, ProveBefore(a, n, S)
        PROVE TypeOK'
    <3>1. n - 1 \in Heights BY <2>1, HeightsFact DEF ProveBefore
    <3> QED BY <2>1, <3>1, ProveType DEF ProveBefore
  <2>2. ASSUME NEW a \in Addr, NEW s \in Slot, NEW at \in Heights, ProveHead(a, s, at)
        PROVE TypeOK'
    BY <2>2, ProveType DEF ProveHead
  <2> QED BY <1>3, <2>1, <2>2, RememberType, ExpireType DEF Proofs
<1>4. CASE Backfills
  BY <1>4, LowerType DEF Backfills
<1> QED BY <1>1, <1>2, <1>3, <1>4 DEF Next

\* The tables hold what their row types say (keys.rs), whatever the order of
\* the store's transactions.
THEOREM TypeCorrect == Spec => []TypeOK
<1>1. TypeOK /\ [Next]_archiveVars => TypeOK' BY TypeStep
<1> QED BY InitType, <1>1, PTL DEF Spec

-----------------------------------------------------------------------------
(* PENDING mirrors BOOT.  TypeOK is all the strengthening it needs: each     *)
(* transaction writes both tables from the same facts.                       *)

\* One slot of one address.
Mirrors(b, p) ==
  IF b.tag = "pending" THEN p = b.seen /\ p # 0 ELSE p = 0

LEMMA MirrorsStates ==
  /\ Mirrors(Unseen, 0) /\ Mirrors(Done, 0)
  /\ \A n \in Nat : Mirrors(Lost(n), 0)
  /\ \A n \in Nat \ {0} : Mirrors(Pending(n), n)
BY DEF Mirrors, Unseen, Done, Lost, Pending

LEMMA MirrorsSplit ==
  PendingMirrorsBoot <=> \A a \in Addr, s \in Slot : Mirrors(boot[a][s], pending[a][s])
BY DEF PendingMirrorsBoot, Mirrors

LEMMA ApplyMirrors ==
  ASSUME TypeOK, PendingMirrorsBoot, NEW h \in Hash, NEW snap \in [Addr -> Nat], NEW below,
         ApplyBlock(h, snap, below), NEW a \in Addr, NEW s \in Slot
  PROVE  Mirrors(boot'[a][s], pending'[a][s])
<1>1. Mirrors(boot[a][s], pending[a][s]) BY MirrorsSplit
<1>2. CASE a \notin Live(h, snap)
  BY <1>1, <1>2 DEF ApplyBlock, TypeOK
<1>3. CASE a \in Live(h, snap)
  <2>1. Num[h] \in Nat \ {0}
    BY <1>3, HeightsFact DEF Live
  <2>2. boot'[a][s] = BootAfter(h, a, s) /\ pending'[a][s] = PendingAfter(h, a, s)
    BY <1>3 DEF ApplyBlock
  <2>3. CASE boot[a][s] = Unseen
    <3>1. pending[a][s] = 0 BY <1>1, <2>3 DEF Mirrors, Unseen
    <3> QED BY <2>1, <2>2, <2>3, <3>1, MirrorsStates
      DEF BootAfter, PendingAfter, FreshSlots, IsCreated
  <2>4. CASE boot[a][s] # Unseen
    BY <1>1, <2>2, <2>4, MirrorsStates DEF BootAfter, PendingAfter, FreshSlots
  <2> QED BY <2>3, <2>4
<1> QED BY <1>2, <1>3

LEMMA RollbackMirrors ==
  ASSUME TypeOK, PendingMirrorsBoot, NEW b \in Heights, NEW snap, RollbackTo(b, snap),
         NEW a \in Addr, NEW s \in Slot
  PROVE  Mirrors(boot'[a][s], pending'[a][s])
<1>1. Mirrors(boot[a][s], pending[a][s]) BY MirrorsSplit
<1>2. /\ boot'[a][s] = IF Forgotten(b, snap, a, s) THEN Unseen ELSE boot[a][s]
      /\ pending'[a][s] = IF Forgotten(b, snap, a, s) THEN 0 ELSE pending[a][s]
  BY DEF RollbackTo
<1> QED BY <1>1, <1>2, MirrorsStates

LEMMA ProveMirrors ==
  ASSUME TypeOK, PendingMirrorsBoot, NEW c \in Addr, NEW start, NEW at, NEW hash, NEW vals,
         PutBootstrap(c, start, at, hash, vals), NEW a \in Addr, NEW s \in Slot
  PROVE  Mirrors(boot'[a][s], pending'[a][s])
<1>1. Mirrors(boot[a][s], pending[a][s]) BY MirrorsSplit
<1>2. \/ boot'[a][s] = Done /\ pending'[a][s] = 0
      \/ boot'[a][s] = boot[a][s] /\ pending'[a][s] = pending[a][s]
  BY DEF PutBootstrap, TypeOK
<1> QED BY <1>1, <1>2, MirrorsStates

LEMMA LostMirrors ==
  ASSUME TypeOK, PendingMirrorsBoot, NEW c \in Addr, NEW lost, NEW n \in Heights,
         MarkLost(c, lost, n), NEW a \in Addr, NEW s \in Slot
  PROVE  Mirrors(boot'[a][s], pending'[a][s])
<1>1. Mirrors(boot[a][s], pending[a][s]) BY MirrorsSplit
<1>2. \/ boot'[a][s] = Lost(n) /\ pending'[a][s] = 0
      \/ boot'[a][s] = boot[a][s] /\ pending'[a][s] = pending[a][s]
  BY DEF MarkLost, TypeOK
<1> QED BY <1>1, <1>2, HeightsFact, MirrorsStates

LEMMA LowerMirrors ==
  ASSUME TypeOK, PendingMirrorsBoot, NEW c \in Addr, Lower(c),
         NEW a \in Addr, NEW s \in Slot
  PROVE  Mirrors(boot'[a][s], pending'[a][s])
<1>1. Mirrors(boot[a][s], pending[a][s]) BY MirrorsSplit
<1> DEFINE n == watch[c] - 1
           h == Line[head][n]
           new == IF s \in Written(h, c) THEN Lowered(boot[c][s], n) ELSE boot[c][s]
<1>2. n \in Nat \ {0} /\ n \in Heights /\ head \in Hash /\ n <= Num[head]
  BY HeightsFact DEF TypeOK, Lower
<1>3. Num[h] = n BY <1>2, TreeAssumption
<1>4. BackfillBlock(c, h) BY DEF Lower
<1> HIDE DEF n, h
<1>5. CASE a # c
  BY <1>1, <1>4, <1>5 DEF BackfillBlock, TypeOK
<1>6. CASE a = c /\ c \in Deploys[h]
  <2>1. boot'[a][s] \in {Unseen, Done} /\ pending'[a][s] = 0
    BY <1>4, <1>6 DEF BackfillBlock, TypeOK
  <2> QED BY <2>1, MirrorsStates
<1>7. CASE a = c /\ c \notin Deploys[h]
  <2>1. boot'[a][s] = new BY <1>3, <1>4, <1>7 DEF BackfillBlock, TypeOK
  <2>2. pending'[a][s] = IF s \in Written(h, c) /\ new.tag = "pending" THEN n
                         ELSE pending[a][s]
    BY <1>3, <1>4, <1>7 DEF BackfillBlock, TypeOK
  <2>3. CASE s \notin Written(h, c) BY <1>1, <1>7, <2>1, <2>2, <2>3
  <2>4. CASE s \in Written(h, c) /\ boot[c][s].tag \in {"done", "lost"}
    <3>1. pending[a][s] = 0 BY <1>1, <1>7, <2>4 DEF Mirrors
    <3>2. new = boot[c][s] \/ new = Lost(n) BY <2>4 DEF Lowered
    <3>3. new.tag \in {"done", "lost"} BY <2>4, <3>2 DEF Lost
    <3> QED BY <1>2, <2>1, <2>2, <3>1, <3>3 DEF Mirrors
  <2>5. CASE s \in Written(h, c) /\ boot[c][s].tag \notin {"done", "lost"}
    <3>1. new = Pending(n) BY <2>5 DEF Lowered
    <3>2. new.tag = "pending" BY <3>1 DEF Pending
    <3> QED BY <1>2, <2>1, <2>2, <2>5, <3>1, <3>2, MirrorsStates
  <2> QED BY <2>3, <2>4, <2>5
<1> QED BY <1>5, <1>6, <1>7

LEMMA MirrorStep ==
  ASSUME TypeOK, PendingMirrorsBoot, [Next]_archiveVars
  PROVE  PendingMirrorsBoot'
<1> SUFFICES ASSUME NEW a \in Addr, NEW s \in Slot
             PROVE  Mirrors(boot'[a][s], pending'[a][s])
  BY DEF PendingMirrorsBoot, Mirrors
<1>0. Mirrors(boot[a][s], pending[a][s]) BY MirrorsSplit
<1>1. CASE UNCHANGED archiveVars
  BY <1>0, <1>1 DEF archiveVars, tables
<1>2. CASE Forward
  <2>1. ASSUME NEW c \in Addr, NEW n \in Heights, StartWatch(c, n)
        PROVE  Mirrors(boot'[a][s], pending'[a][s])
    BY <1>0, <2>1 DEF StartWatch, Watch
  <2>2. ASSUME NEW c \in Addr, EndWatch(c) PROVE Mirrors(boot'[a][s], pending'[a][s])
    <3>1. \/ boot'[a][s] = Unseen /\ pending'[a][s] = 0
          \/ boot'[a][s] = boot[a][s] /\ pending'[a][s] = pending[a][s]
      BY <2>2 DEF EndWatch, Unwatch, TypeOK
    <3> QED BY <1>0, <3>1, MirrorsStates
  <2>3. ASSUME NEW b \in Heights, Reorg(b) PROVE Mirrors(boot'[a][s], pending'[a][s])
    BY <2>3, RollbackMirrors DEF Reorg
  <2>4. ASSUME NEW h \in Hash, NEW below \in Heights, Extend(h, below)
        PROVE  Mirrors(boot'[a][s], pending'[a][s])
    <3>1. watch \in [Addr -> Nat] BY HeightsFact DEF TypeOK
    <3> QED BY <2>4, <3>1, ApplyMirrors DEF Extend
  <2> QED BY <1>2, <2>1, <2>2, <2>3, <2>4 DEF Forward
<1>3. CASE Proofs
  <2>1. ASSUME NEW n \in Heights, Remember(n) PROVE Mirrors(boot'[a][s], pending'[a][s])
    BY <1>0, <2>1 DEF Remember, RememberHeader
  <2>2. ASSUME NEW c \in Addr, NEW S, NEW at, Prove(c, S, at)
        PROVE  Mirrors(boot'[a][s], pending'[a][s])
    BY <2>2, ProveMirrors DEF Prove
  <2>3. ASSUME NEW c \in Addr, NEW n \in Heights, Expire(c, n)
        PROVE  Mirrors(boot'[a][s], pending'[a][s])
    BY <2>3, LostMirrors DEF Expire
  <2> QED BY <1>3, <2>1, <2>2, <2>3 DEF Proofs, ProveBefore, ProveHead
<1>4. CASE Backfills
  BY <1>4, LowerMirrors DEF Backfills
<1> QED BY <1>1, <1>2, <1>3, <1>4 DEF Next

\* The retry path of a pass scans PENDING, reads look at BOOT: at every moment
\* the two name the same slots and the same blocks.
THEOREM MirrorHolds == Spec => []PendingMirrorsBoot
<1>1. Init => PendingMirrorsBoot BY DEF Init, PendingMirrorsBoot, Unseen
<1>2. TypeOK /\ PendingMirrorsBoot /\ [Next]_archiveVars => PendingMirrorsBoot' BY MirrorStep
<1> QED BY TypeCorrect, <1>1, <1>2, PTL DEF Spec

-----------------------------------------------------------------------------
(* Nothing is kept for an address without a watch.  Whatever adds to a table *)
(* does so for an address it has just found in WATCH.                        *)

\* The same for one address.
Empty(a) ==
  /\ \A r \in slots : r.addr # a
  /\ \A e \in blockidx : e.addr # a
  /\ \A s \in Slot : boot[a][s] = Unseen
  /\ created[a] = 0 /\ anchor[a] = NoHash

LEMMA EmptySplit == NothingForUnwatched <=> \A a \in Addr : watch[a] = 0 => Empty(a)
BY DEF NothingForUnwatched, Empty

LEMMA UnwatchEmpty ==
  ASSUME TypeOK, NEW c \in Addr, Unwatch(c), NEW a \in Addr, a = c \/ Empty(a)
  PROVE  Empty(a)'
BY DEF TypeOK, Unwatch, Empty

\* apply_block writes for live addresses only, and those are watched.
LEMMA ApplyEmpty ==
  ASSUME TypeOK, NEW h \in Hash, NEW snap, NEW below, ApplyBlock(h, snap, below),
         NEW a \in Addr, watch[a] = 0, Empty(a)
  PROVE  Empty(a)'
<1>1. a \notin Live(h, snap) BY DEF Live
<1>2. \A r \in slots' : r.addr # a
  <2> DEFINE prov == IF h \in Committed THEN "bal" ELSE "unverified"
  <2>1. \A c \in Live(h, snap) : \A r \in BalRecords(h, c, prov) : r.addr = c
    BY DEF BalRecords
  <2>2. slots' = Insert(slots, UNION {BalRecords(h, c, prov) : c \in Live(h, snap)})
    BY DEF ApplyBlock
  <2> HIDE DEF prov
  <2> QED BY <1>1, <2>1, <2>2 DEF Insert, Empty
<1>3. \A e \in blockidx' : e.addr # a
  <2>1. \A c \in Live(h, snap) : \A e \in IndexOf(h, c) : e.addr = c BY DEF IndexOf
  <2> QED BY <1>1, <2>1 DEF ApplyBlock, IndexAfter, Empty
<1>4. \A s \in Slot : boot'[a][s] = Unseen BY <1>1 DEF ApplyBlock, Empty
<1>5. created'[a] = 0 /\ anchor'[a] = NoHash BY <1>1 DEF ApplyBlock, Empty
<1> QED BY <1>2, <1>3, <1>4, <1>5 DEF Empty

\* A rollback deletes, and forgets what it does not delete.
LEMMA RollbackEmpty ==
  ASSUME TypeOK, NEW b \in Heights, NEW snap, RollbackTo(b, snap), NEW a \in Addr, Empty(a)
  PROVE  Empty(a)'
<1>1. slots' \subseteq slots /\ blockidx' \subseteq blockidx BY DEF RollbackTo
<1>2. \A s \in Slot : boot'[a][s] = Unseen BY DEF RollbackTo, Empty
<1>3. created'[a] = 0 /\ anchor'[a] = NoHash BY DEF RollbackTo, Empty
<1> QED BY <1>1, <1>2, <1>3 DEF Empty

LEMMA ProveEmpty ==
  ASSUME TypeOK, NEW c \in Addr, NEW start, NEW at, NEW hash, NEW vals,
         PutBootstrap(c, start, at, hash, vals), NEW a \in Addr, a # c, Empty(a)
  PROVE  Empty(a)'
<1>1. \A r \in slots' : r.addr # a BY DEF PutBootstrap, Insert, Empty
<1>2. \A s \in Slot : boot'[a][s] = Unseen BY DEF PutBootstrap, TypeOK, Empty
<1> QED BY <1>1, <1>2 DEF PutBootstrap, Empty

LEMMA LostEmpty ==
  ASSUME TypeOK, NEW c \in Addr, NEW lost, NEW n, MarkLost(c, lost, n),
         NEW a \in Addr, a # c, Empty(a)
  PROVE  Empty(a)'
BY DEF MarkLost, TypeOK, Empty

LEMMA LowerEmpty ==
  ASSUME TypeOK, NEW c \in Addr, NEW h \in Hash, BackfillBlock(c, h),
         NEW a \in Addr, a # c, Empty(a)
  PROVE  Empty(a)'
<1>1. \A r \in slots' : r.addr # a
  <2>1. \A r \in BalRecords(h, c, "bal") : r.addr = c BY DEF BalRecords
  <2> QED BY <2>1 DEF BackfillBlock, Insert, Empty
<1>2. \A e \in blockidx' : e.addr # a
  BY DEF BackfillBlock, IndexAfter, IndexOf, Empty
<1>3. \A s \in Slot : boot'[a][s] = Unseen BY DEF BackfillBlock, TypeOK, Empty
<1>4. created'[a] = 0 /\ anchor'[a] = NoHash BY DEF BackfillBlock, TypeOK, Empty
<1> QED BY <1>1, <1>2, <1>3, <1>4 DEF Empty

\* unwatch() leaves nothing behind, and no later transaction brings anything
\* back before the address is watched again.
THEOREM UnwatchedHolds == Spec => []NothingForUnwatched
<1>1. Init => NothingForUnwatched BY DEF Init, NothingForUnwatched
<1>2. TypeOK /\ NothingForUnwatched /\ [Next]_archiveVars => NothingForUnwatched'
  <2> SUFFICES ASSUME TypeOK, NothingForUnwatched, [Next]_archiveVars,
                      NEW a \in Addr, watch'[a] = 0
               PROVE  Empty(a)'
    BY DEF NothingForUnwatched, Empty
  <2>0. watch[a] = 0 => Empty(a) BY EmptySplit
  <2>1. CASE UNCHANGED archiveVars
    BY <2>0, <2>1 DEF archiveVars, tables, Empty
  <2>2. CASE Forward
    <3>1. ASSUME NEW c \in Addr, NEW n \in Heights, StartWatch(c, n) PROVE Empty(a)'
      <4>1. watch[a] = 0 BY <3>1, HeightsFact DEF StartWatch, Watch, TypeOK
      <4> QED BY <2>0, <3>1, <4>1 DEF StartWatch, Watch, Empty
    <3>2. ASSUME NEW c \in Addr, EndWatch(c) PROVE Empty(a)'
      <4>1. a = c \/ watch[a] = 0 BY <3>2 DEF EndWatch, Unwatch, TypeOK
      <4> QED BY <2>0, <3>2, <4>1, UnwatchEmpty DEF EndWatch
    <3>3. ASSUME NEW h \in Hash, NEW below \in Heights, Extend(h, below) PROVE Empty(a)'
      <4>1. watch[a] = 0 BY <3>3 DEF Extend, ApplyBlock
      <4> QED BY <2>0, <3>3, <4>1, ApplyEmpty DEF Extend
    <3>4. ASSUME NEW b \in Heights, Reorg(b) PROVE Empty(a)'
      <4>1. watch[a] = 0 BY <3>4 DEF Reorg, RollbackTo
      <4> QED BY <2>0, <3>4, <4>1, RollbackEmpty DEF Reorg
    <3> QED BY <2>2, <3>1, <3>2, <3>3, <3>4 DEF Forward
  <2>3. CASE Proofs
    <3>1. ASSUME NEW n \in Heights, Remember(n) PROVE Empty(a)'
      BY <2>0, <3>1 DEF Remember, RememberHeader, Empty
    <3>2. ASSUME NEW c \in Addr, NEW S, NEW at, Prove(c, S, at) PROVE Empty(a)'
      <4>1. watch[a] = 0 /\ a # c BY <3>2 DEF Prove, PutBootstrap
      <4> QED BY <2>0, <3>2, <4>1, ProveEmpty DEF Prove
    <3>3. ASSUME NEW c \in Addr, NEW n \in Heights, Expire(c, n) PROVE Empty(a)'
      <4>1. watch[a] = 0 /\ a # c BY <3>3 DEF Expire, MarkLost
      <4> QED BY <2>0, <3>3, <4>1, LostEmpty DEF Expire
    <3> QED BY <2>3, <3>1, <3>2, <3>3 DEF Proofs, ProveBefore, ProveHead
  <2>4. CASE Backfills
    <3>1. ASSUME NEW c \in Addr, Lower(c) PROVE Empty(a)'
      <4> DEFINE h == Line[head][watch[c] - 1]
      <4>1. watch[c] - 1 \in Heights /\ watch[c] - 1 <= Num[head] /\ head \in Hash
        BY <3>1, HeightsFact DEF Lower, TypeOK
      <4>2. h \in Hash /\ Num[h] = watch[c] - 1 BY <4>1, TreeAssumption
      <4>3. BackfillBlock(c, h) BY <3>1 DEF Lower
      <4> HIDE DEF h
      <4>4. watch'[c] # 0 BY <3>1, <4>2, <4>3, HeightsFact DEF Lower, BackfillBlock, TypeOK
      <4>5. a # c /\ watch[a] = 0 BY <4>3, <4>4 DEF BackfillBlock, TypeOK
      <4> QED BY <2>0, <4>2, <4>3, <4>5, LowerEmpty
    <3> QED BY <2>4, <3>1 DEF Backfills
  <2> QED BY <2>1, <2>2, <2>3, <2>4 DEF Next
<1> QED BY TypeCorrect, <1>1, <1>2, PTL DEF Spec

-----------------------------------------------------------------------------
(* What the records are.  First the block index: rollback_to deletes only  *)
(* what BLOCKIDX lists, so a record the index misses would survive every   *)
(* reorg.  The equality of the two is not inductive alone: writing the     *)
(* index of a block replaces the entry a block of that number had, which   *)
(* is harmless only because no record of the address is there yet.         *)
(* RecordsInRange says so, and the two are inductive together.             *)
(*                                                                         *)
(* Then the chain: over start .. head the store holds the blocks of the    *)
(* head's chain.  The invariant is said block by block: the records of an  *)
(* address at a block are those the list of that block leaves.  It needs   *)
(* the range of the records, because a block is written where none may be  *)
(* yet, and their index, because that is how a rollback finds them.        *)

USE DEF Heights

\* The two halves of the equality, record by record and entry by entry.
Entry(r) == [addr |-> r.addr, block |-> r.block, slot |-> r.slot]
IndexCovers == \A r \in BlockRecords : Entry(r) \in blockidx
IndexIsBacked ==
  \A e \in blockidx : \E r \in BlockRecords :
    r.addr = e.addr /\ r.block = e.block /\ r.slot = e.slot

LEMMA IndexSplit ==
  ASSUME blockidx \subseteq IndexEntry
  PROVE  IndexMatchesRecords <=> IndexCovers /\ IndexIsBacked
<1> DEFINE listed == {Entry(r) : r \in BlockRecords}
<1>1. IndexMatchesRecords <=> listed = blockidx BY DEF IndexMatchesRecords, Entry
<1>2. listed \subseteq blockidx <=> IndexCovers BY DEF IndexCovers
<1>3. blockidx \subseteq listed <=> IndexIsBacked
  <2>1. \A e \in IndexEntry : e = [addr |-> e.addr, block |-> e.block, slot |-> e.slot]
    BY DEF IndexEntry
  <2>2. \A e \in blockidx, r \in BlockRecords :
          e = Entry(r) <=> r.addr = e.addr /\ r.block = e.block /\ r.slot = e.slot
    BY <2>1 DEF Entry
  <2> QED BY <2>2 DEF IndexIsBacked
<1> QED BY <1>1, <1>2, <1>3

\* What the theorem carries from step to step.
IndexInv == TypeOK /\ IndexCovers /\ IndexIsBacked /\ RecordsInRange

-----------------------------------------------------------------------------
(* Writing a block: the records and the index entries it adds *)

LEMMA BalRecordsFact ==
  ASSUME NEW h \in Hash, NEW a \in Addr, NEW p \in {"bal", "unverified"}
  PROVE  /\ \A r \in BalRecords(h, a, p) :
              /\ r.addr = a /\ r.block = Num[h] /\ r.prov = p
              /\ r.slot \in Written(h, a)
              /\ r.index < MaxIndex
         /\ \A s \in Written(h, a) : \E r \in BalRecords(h, a, p) : r.slot = s
<1>1. Changes[h] \subseteq Change /\ MaxIndex \in Nat BY DataAssumption
<1>2. ASSUME NEW r \in BalRecords(h, a, p)
      PROVE  /\ r.addr = a /\ r.block = Num[h] /\ r.prov = p
             /\ r.slot \in Written(h, a)
             /\ r.index < MaxIndex
  <2>1. PICK c \in Changes[h] :
          /\ c.addr = a
          /\ r = [addr |-> a, slot |-> c.slot, block |-> Num[h], index |-> c.index,
                  value |-> c.value, prov |-> p]
    BY DEF BalRecords
  <2>2. c.index \in 0 .. MaxIndex - 1 BY <1>1, <2>1 DEF Change
  <2>3. r.slot \in Written(h, a) BY <2>1 DEF Written
  <2> QED BY <1>1, <2>1, <2>2, <2>3
<1>3. ASSUME NEW s \in Written(h, a) PROVE \E r \in BalRecords(h, a, p) : r.slot = s
  <2> DEFINE c == FinalChange(h, a, s)
             r == [addr |-> a, slot |-> c.slot, block |-> Num[h], index |-> c.index,
                   value |-> c.value, prov |-> p]
  <2>1. c \in Changes[h] /\ c.addr = a /\ c.slot = s BY FinalChangeExists
  <2>2. r \in BalRecords(h, a, p) BY <2>1 DEF BalRecords
  <2>3. r.slot = s BY <2>1
  <2> HIDE DEF r
  <2> QED BY <2>2, <2>3
<1> QED BY <1>2, <1>3

\* Where no address of as has an entry at the block, nothing is replaced: the
\* records and the index grow by the same triples.
LEMMA BlockWritten ==
  ASSUME IndexCovers, IndexIsBacked, NEW h \in Hash, NEW as \in SUBSET Addr,
         NEW p \in {"bal", "unverified"},
         slots' = Insert(slots, UNION {BalRecords(h, a, p) : a \in as}),
         blockidx' = IndexAfter(h, as),
         \A r \in BlockRecords : ~ (r.addr \in as /\ r.block = Num[h])
  PROVE  /\ IndexCovers' /\ IndexIsBacked'
         /\ \A r \in BlockRecords' :
              \/ r \in BlockRecords
              \/ r.addr \in as /\ r.block = Num[h] /\ r.index < MaxIndex
<1> DEFINE new == UNION {BalRecords(h, a, p) : a \in as}
<1>1. \A r \in new :
        /\ r.addr \in as /\ r.block = Num[h] /\ r.prov # "proof"
        /\ r.slot \in Written(h, r.addr) /\ r.index < MaxIndex
  <2> TAKE r \in new
  <2>1. PICK a \in as : r \in BalRecords(h, a, p) OBVIOUS
  <2>2. a \in Addr OBVIOUS
  <2> HIDE DEF new
  <2>3. /\ r.addr = a /\ r.block = Num[h] /\ r.prov = p
        /\ r.slot \in Written(h, a) /\ r.index < MaxIndex
    BY <2>1, <2>2, BalRecordsFact
  <2> QED BY <2>3
<1>2. \A a \in as : \A s \in Written(h, a) : \E r \in new : r.addr = a /\ r.slot = s
  <2> TAKE a \in as
  <2> TAKE s \in Written(h, a)
  <2>1. a \in Addr OBVIOUS
  <2>2. PICK r \in BalRecords(h, a, p) : r.slot = s BY <2>1, BalRecordsFact
  <2>3. r.addr = a BY <2>1, <2>2, BalRecordsFact
  <2> QED BY <2>2, <2>3
<1>3. slots' = Insert(slots, new) OBVIOUS
<1> HIDE DEF new
<1>4. \A r \in BlockRecords' : r \in BlockRecords \/ r \in new
  BY <1>3 DEF Insert, BlockRecords
<1>5. new \subseteq BlockRecords' BY <1>1, <1>3 DEF Insert, BlockRecords
<1>6. BlockRecords \subseteq BlockRecords'
  BY <1>1, <1>3 DEF Insert, BlockRecords
<1>7. IndexCovers'
  <2> SUFFICES ASSUME NEW r \in BlockRecords' PROVE Entry(r) \in blockidx'
    BY DEF IndexCovers, Entry
  <2>1. CASE r \in BlockRecords
    <3>1. Entry(r) \in blockidx BY <2>1 DEF IndexCovers
    <3> QED BY <2>1, <3>1 DEF IndexAfter, Entry
  <2>2. CASE r \in new
    <3>1. Entry(r) \in IndexOf(h, r.addr) BY <1>1, <2>2 DEF IndexOf, Entry
    <3> QED BY <1>1, <2>2, <3>1 DEF IndexAfter
  <2> QED BY <1>4, <2>1, <2>2
<1>8. IndexIsBacked'
  <2> SUFFICES ASSUME NEW e \in blockidx'
               PROVE  \E r \in BlockRecords' :
                        r.addr = e.addr /\ r.block = e.block /\ r.slot = e.slot
    BY DEF IndexIsBacked
  <2>1. CASE e \in blockidx
    BY <1>6, <2>1 DEF IndexIsBacked
  <2>2. CASE \E a \in as : e \in IndexOf(h, a)
    <3>1. PICK a \in as : e \in IndexOf(h, a) BY <2>2
    <3>2. e.addr = a /\ e.block = Num[h] /\ e.slot \in Written(h, a)
      BY <3>1 DEF IndexOf
    <3>3. PICK r \in new : r.addr = a /\ r.slot = e.slot BY <1>2, <3>2
    <3> QED BY <1>1, <1>5, <3>2, <3>3
  <2> QED BY <2>1, <2>2 DEF IndexAfter
<1> QED BY <1>1, <1>4, <1>7, <1>8

-----------------------------------------------------------------------------
(* The transactions *)

LEMMA ApplyIndex ==
  ASSUME IndexInv, NEW h \in Hash, NEW below, Extend(h, below)
  PROVE  IndexCovers' /\ IndexIsBacked' /\ RecordsInRange'
<1> DEFINE live == Live(h, watch)
           prov == IF h \in Committed THEN "bal" ELSE "unverified"
<1>1. live \subseteq Addr /\ \A a \in live : watch[a] # 0 /\ watch[a] <= Num[h]
  BY HeightsFact DEF Live, IndexInv, TypeOK
<1>2. /\ slots' = Insert(slots, UNION {BalRecords(h, a, prov) : a \in live})
      /\ blockidx' = IndexAfter(h, live)
      /\ head' = h /\ watch' = watch
  BY DEF Extend, ApplyBlock
<1>3. \A r \in BlockRecords : r.block < Num[h]
  <2>1. SUFFICES ASSUME NEW r \in BlockRecords PROVE r.block < Num[h] OBVIOUS
  <2>2. head # NoHash /\ r.block <= Num[head] /\ head \in Hash
    BY DEF IndexInv, RecordsInRange, TypeOK
  <2>3. r.block \in Heights BY DEF IndexInv, TypeOK, BlockRecords, Record
  <2>4. Num[h] = Num[head] + 1 BY <2>2 DEF Extend, Follows, FirstBlock
  <2> QED BY <2>2, <2>3, <2>4, HeightsFact
<1> HIDE DEF live, prov
<1>4. \A r \in BlockRecords : ~ (r.addr \in live /\ r.block = Num[h])
  BY <1>3, HeightsFact DEF IndexInv, TypeOK, BlockRecords, Record
<1>5. prov \in {"bal", "unverified"} BY DEF prov
<1>6. /\ IndexCovers' /\ IndexIsBacked'
      /\ \A r \in BlockRecords' :
           \/ r \in BlockRecords
           \/ r.addr \in live /\ r.block = Num[h] /\ r.index < MaxIndex
  BY <1>1, <1>2, <1>4, <1>5, BlockWritten DEF IndexInv
<1>7. RecordsInRange'
  <2>1. SUFFICES ASSUME NEW r \in BlockRecords'
                 PROVE  /\ h # NoHash /\ r.block <= Num[h]
                        /\ watch[r.addr] # 0 /\ watch[r.addr] <= r.block
                        /\ r.index < MaxIndex
    BY <1>2 DEF RecordsInRange
  <2>2. CASE r \in BlockRecords
    BY <1>3, <2>2, HeightsFact DEF IndexInv, RecordsInRange, TypeOK, BlockRecords, Record
  <2>3. CASE r.addr \in live /\ r.block = Num[h] /\ r.index < MaxIndex
    BY <1>1, <2>3, HeightsFact
  <2> QED BY <1>6, <2>2, <2>3
<1> QED BY <1>6, <1>7

\* A rollback walks the index above the fork, whatever the watchlist it has read.
LEMMA RollbackListed ==
  ASSUME IndexCovers, IndexIsBacked, NEW b \in Heights, NEW snap, RollbackTo(b, snap)
  PROVE  /\ IndexCovers' /\ IndexIsBacked'
         /\ \A r \in BlockRecords' : r \in BlockRecords /\ Entry(r) \notin Victims(b, snap)
<1>1. /\ BlockRecords' = {r \in BlockRecords :
           /\ ~ Wiped(b, snap, r.addr)
           /\ \A e \in Victims(b, snap) :
                <<e.addr, e.block, e.slot>> # <<r.addr, r.block, r.slot>>}
      /\ blockidx' = {e \in blockidx : ~ Wiped(b, snap, e.addr)} \ Victims(b, snap)
  BY DEF RollbackTo, BlockRecords
<1>2. \A r \in BlockRecords' : r \in BlockRecords /\ Entry(r) \notin Victims(b, snap)
  BY <1>1 DEF Entry
<1>3. IndexCovers'
  <2> SUFFICES ASSUME NEW r \in BlockRecords' PROVE Entry(r) \in blockidx'
    BY DEF IndexCovers, Entry
  <2>1. Entry(r) \in blockidx BY <1>1 DEF IndexCovers
  <2>2. ~ Wiped(b, snap, Entry(r).addr) BY <1>1 DEF Entry
  <2> QED BY <1>1, <1>2, <2>1, <2>2
<1>4. IndexIsBacked'
  <2> SUFFICES ASSUME NEW e \in blockidx'
               PROVE  \E r \in BlockRecords' :
                        r.addr = e.addr /\ r.block = e.block /\ r.slot = e.slot
    BY DEF IndexIsBacked
  <2>1. e \in blockidx /\ e \notin Victims(b, snap) /\ ~ Wiped(b, snap, e.addr)
    BY <1>1
  <2>2. PICK r \in BlockRecords : r.addr = e.addr /\ r.block = e.block /\ r.slot = e.slot
    BY <2>1 DEF IndexIsBacked
  <2>3. ASSUME NEW v \in Victims(b, snap),
               <<v.addr, v.block, v.slot>> = <<r.addr, r.block, r.slot>>
        PROVE  FALSE
    <3>1. v.block > b /\ snap[v.addr] # 0 BY DEF Victims
    <3>2. e \in Victims(b, snap) BY <2>1, <2>2, <2>3, <3>1 DEF Victims
    <3> QED BY <2>1, <3>2
  <2> QED BY <1>1, <2>1, <2>2, <2>3
<1> QED BY <1>2, <1>3, <1>4

\* What a rollback leaves of a table whose addresses are all in the watchlist it
\* has read is at or under the fork.
LEMMA RollbackUnder ==
  ASSUME TypeOK, IndexCovers, IndexIsBacked, NEW b \in Heights, NEW snap, RollbackTo(b, snap),
         \A e \in blockidx : snap[e.addr] # 0,
         NEW r \in BlockRecords'
  PROVE  r.block <= b
<1> SUFFICES ASSUME r.block > b PROVE FALSE
  <2>1. r \in BlockRecords BY RollbackListed
  <2> QED BY <2>1, HeightsFact DEF TypeOK, BlockRecords, Record
<1>1. r \in BlockRecords /\ Entry(r) \notin Victims(b, snap) BY RollbackListed
<1>2. Entry(r) \in blockidx BY <1>1 DEF IndexCovers
<1> QED BY <1>1, <1>2 DEF Victims, Entry

LEMMA RollbackIndex ==
  ASSUME IndexInv, NEW b \in Heights, Reorg(b)
  PROVE  IndexCovers' /\ IndexIsBacked' /\ RecordsInRange'
<1>1. RollbackTo(b, watch) /\ TypeOK /\ IndexCovers /\ IndexIsBacked BY DEF Reorg, IndexInv
<1>2. /\ Num[head'] = b /\ head' # NoHash /\ watch' = watch
  BY <1>1 DEF RollbackTo, TypeOK
<1>3. /\ IndexCovers' /\ IndexIsBacked' /\ \A r \in BlockRecords' : r \in BlockRecords
  BY <1>1, RollbackListed
<1>4. \A e \in blockidx : watch[e.addr] # 0
  BY DEF IndexInv, IndexIsBacked, RecordsInRange
<1>5. \A r \in BlockRecords' : r.block <= b BY <1>1, <1>4, RollbackUnder
<1>6. RecordsInRange' BY <1>2, <1>3, <1>5 DEF IndexInv, RecordsInRange
<1> QED BY <1>3, <1>6

\* A pre-value has the greatest index of its block, which no block record has.
LEMMA ProveKeepsBlockRecords ==
  ASSUME TypeOK, \A r \in BlockRecords : r.index < MaxIndex,
         NEW c \in Addr, NEW start, NEW at, NEW hash, NEW vals,
         PutBootstrap(c, start, at, hash, vals)
  PROVE  BlockRecords' = BlockRecords
<1>1. MaxIndex \in Nat BY DataAssumption
<1>2. \A r \in BlockRecords : r.index < MaxIndex /\ r.index \in Nat
  BY <1>1 DEF TypeOK, BlockRecords, Record
<1>3. \A r \in BlockRecords : r.index # MaxIndex BY <1>1, <1>2
<1>4. PICK new : /\ slots' = Insert(slots, new)
                 /\ \A t \in new : t.index = MaxIndex /\ t.prov = "proof"
  BY DEF PutBootstrap
<1> QED BY <1>3, <1>4 DEF Insert, BlockRecords

LEMMA ProveIndex ==
  ASSUME IndexInv, NEW c \in Addr, NEW start, NEW at, NEW hash, NEW vals,
         PutBootstrap(c, start, at, hash, vals)
  PROVE  IndexCovers' /\ IndexIsBacked' /\ RecordsInRange'
<1>1. BlockRecords' = BlockRecords BY ProveKeepsBlockRecords DEF IndexInv, RecordsInRange
<1>2. blockidx' = blockidx /\ head' = head /\ watch' = watch BY DEF PutBootstrap
<1> QED BY <1>1, <1>2 DEF IndexInv, IndexCovers, IndexIsBacked, RecordsInRange, Entry

\* An older block goes in under the start of the watch.
LEMMA LowerIndex ==
  ASSUME IndexInv, NEW c \in Addr, Lower(c)
  PROVE  IndexCovers' /\ IndexIsBacked' /\ RecordsInRange'
<1> DEFINE n == watch[c] - 1
           h == Line[head][n]
<1>1. n \in Nat \ {0} /\ head # NoHash /\ head \in Hash /\ n <= Num[head] /\ watch[c] = n + 1
  BY HeightsFact DEF IndexInv, TypeOK, Lower
<1>2. h \in Hash /\ Num[h] = n BY <1>1, HeightsFact, TreeAssumption
<1>3. BackfillBlock(c, h) BY DEF Lower
<1> HIDE DEF n, h
<1>4. /\ slots' = Insert(slots, UNION {BalRecords(h, a, "bal") : a \in {c}})
      /\ blockidx' = IndexAfter(h, {c})
      /\ head' = head
  BY <1>3 DEF BackfillBlock
<1>5. \A a \in Addr : watch'[a] = IF a = c THEN n ELSE watch[a]
  BY <1>2, <1>3 DEF BackfillBlock, IndexInv, TypeOK
<1>6. \A r \in BlockRecords : r.addr = c => r.block > n
  BY <1>1, HeightsFact DEF IndexInv, RecordsInRange, TypeOK, BlockRecords, Record
<1>7. /\ IndexCovers' /\ IndexIsBacked'
      /\ \A r \in BlockRecords' :
           \/ r \in BlockRecords
           \/ r.addr \in {c} /\ r.block = Num[h] /\ r.index < MaxIndex
  <2>1. \A r \in BlockRecords : ~ (r.addr \in {c} /\ r.block = Num[h])
    BY <1>1, <1>2, <1>6
  <2>2. IndexCovers /\ IndexIsBacked BY DEF IndexInv
  <2> QED BY <1>2, <1>4, <2>1, <2>2, BlockWritten
<1>8. RecordsInRange'
  <2> SUFFICES ASSUME NEW r \in BlockRecords'
               PROVE  /\ head # NoHash /\ r.block <= Num[head]
                      /\ watch'[r.addr] # 0 /\ watch'[r.addr] <= r.block
                      /\ r.index < MaxIndex
    BY <1>4 DEF RecordsInRange
  <2>1. CASE r \in BlockRecords
    <3>1. /\ r.block <= Num[head] /\ watch[r.addr] # 0 /\ watch[r.addr] <= r.block
          /\ r.index < MaxIndex /\ r.addr \in Addr /\ r.block \in Nat
      BY <2>1, HeightsFact DEF IndexInv, RecordsInRange, TypeOK, BlockRecords, Record
    <3> QED BY <1>1, <1>5, <1>6, <2>1, <3>1
  <2>2. CASE r.addr = c /\ r.block = Num[h] /\ r.index < MaxIndex
    BY <1>1, <1>2, <1>5, <2>2
  <2> QED BY <1>7, <2>1, <2>2
<1> QED BY <1>7, <1>8

LEMMA UnwatchIndex ==
  ASSUME IndexInv, NEW c \in Addr, Unwatch(c)
  PROVE  IndexCovers' /\ IndexIsBacked' /\ RecordsInRange'
<1>1. /\ BlockRecords' = {r \in BlockRecords : r.addr # c}
      /\ blockidx' = {e \in blockidx : e.addr # c}
      /\ head' = head
      /\ \A a \in Addr : a # c => watch'[a] = watch[a]
  BY DEF Unwatch, BlockRecords, IndexInv, TypeOK
<1>2. \A r \in BlockRecords : r.addr \in Addr BY DEF IndexInv, TypeOK, BlockRecords, Record
<1>3. IndexCovers' BY <1>1 DEF IndexInv, IndexCovers, Entry
<1>4. IndexIsBacked' BY <1>1 DEF IndexInv, IndexIsBacked
<1>5. RecordsInRange' BY <1>1, <1>2 DEF IndexInv, RecordsInRange
<1> QED BY <1>3, <1>4, <1>5

\* A new watch starts above the head, and its address has no record.
LEMMA WatchIndex ==
  ASSUME IndexInv, NEW c \in Addr, NEW n \in Heights, Watch(c, n, HeadNumber)
  PROVE  IndexCovers' /\ IndexIsBacked' /\ RecordsInRange'
<1>1. /\ BlockRecords' = BlockRecords /\ blockidx' = blockidx /\ head' = head
      /\ watch[c] = 0
      /\ \A a \in Addr : a # c => watch'[a] = watch[a]
  BY DEF Watch, BlockRecords, IndexInv, TypeOK
<1>2. \A r \in BlockRecords : r.addr \in Addr /\ r.addr # c
  BY <1>1 DEF IndexInv, RecordsInRange, TypeOK, BlockRecords, Record
<1> QED BY <1>1, <1>2 DEF IndexInv, IndexCovers, IndexIsBacked, RecordsInRange, Entry

\* The transactions that touch neither the records, the index, the watchlist
\* nor the head.
LEMMA OtherIndex ==
  ASSUME IndexInv, slots' = slots, blockidx' = blockidx, watch' = watch, head' = head
  PROVE  IndexCovers' /\ IndexIsBacked' /\ RecordsInRange'
BY DEF IndexInv, IndexCovers, IndexIsBacked, RecordsInRange, Entry, BlockRecords

-----------------------------------------------------------------------------

LEMMA IndexStep ==
  ASSUME IndexInv, [Next]_archiveVars
  PROVE  IndexCovers' /\ IndexIsBacked' /\ RecordsInRange'
<1>1. CASE UNCHANGED archiveVars
  BY <1>1, OtherIndex DEF archiveVars, tables
<1>2. CASE Forward
  <2>1. ASSUME NEW a \in Addr, EndWatch(a)
        PROVE  IndexCovers' /\ IndexIsBacked' /\ RecordsInRange'
    BY <2>1, UnwatchIndex DEF EndWatch
  <2> QED BY <1>2, <2>1, WatchIndex, ApplyIndex, RollbackIndex
         DEF Forward, StartWatch
<1>3. CASE Proofs
  <2>1. ASSUME NEW n \in Heights, Remember(n)
        PROVE  IndexCovers' /\ IndexIsBacked' /\ RecordsInRange'
    BY <2>1, OtherIndex DEF Remember, RememberHeader
  <2>2. ASSUME NEW a \in Addr, NEW S, NEW at, Prove(a, S, at)
        PROVE  IndexCovers' /\ IndexIsBacked' /\ RecordsInRange'
    BY <2>2, ProveIndex DEF Prove
  <2>3. ASSUME NEW a \in Addr, NEW n \in Heights, Expire(a, n)
        PROVE  IndexCovers' /\ IndexIsBacked' /\ RecordsInRange'
    BY <2>3, OtherIndex DEF Expire, MarkLost
  <2> QED BY <1>3, <2>1, <2>2, <2>3 DEF Proofs, ProveBefore, ProveHead
<1>4. CASE Backfills
  BY <1>4, LowerIndex DEF Backfills
<1> QED BY <1>1, <1>2, <1>3, <1>4 DEF Next

LEMMA IndexInvHolds == Spec => []IndexInv
<1>1. Init => IndexCovers /\ IndexIsBacked /\ RecordsInRange
  BY DEF Init, IndexCovers, IndexIsBacked, RecordsInRange, BlockRecords
<1>2. TypeOK /\ TypeOK' /\ (IndexCovers /\ IndexIsBacked /\ RecordsInRange) /\ [Next]_archiveVars
        => (IndexCovers /\ IndexIsBacked /\ RecordsInRange)'
  BY IndexStep DEF IndexInv
<1>3. Spec => [](IndexCovers /\ IndexIsBacked /\ RecordsInRange)
  BY TypeCorrect, <1>1, <1>2, PTL DEF Spec
<1>4. TypeOK /\ (IndexCovers /\ IndexIsBacked /\ RecordsInRange) => IndexInv
  BY DEF IndexInv
<1> QED BY TypeCorrect, <1>3, <1>4, PTL

\* rollback_to finds everything it has to delete: the block index lists
\* exactly the records that blocks left.
THEOREM IndexHolds == Spec => []IndexMatchesRecords
<1>1. IndexInv => IndexMatchesRecords BY IndexSplit DEF IndexInv, TypeOK
<1> QED BY IndexInvHolds, <1>1, PTL

\* No transaction of a single caller writes a block record outside the range
\* its address is watched over.
THEOREM RangeHolds == Spec => []RecordsInRange
<1>1. IndexInv => RecordsInRange BY DEF IndexInv
<1> QED BY IndexInvHolds, <1>1, PTL

-----------------------------------------------------------------------------
(* The chain *)

\* The records of a at block n, and that they are what block h leaves.
RecordsAt(T, a, n) == {r \in T : r.addr = a /\ r.block = n}
Holds(T, a, n, h) == \E p \in {"bal", "unverified"} : RecordsAt(T, a, n) = BalRecords(h, a, p)

\* Block n lies between the start of a in the watchlist w and the head top.
Covered(w, top, a, n) == w[a] # 0 /\ w[a] <= n /\ top # NoHash /\ n <= Num[top]

ChainHeld ==
  \A a \in Addr, n \in Heights :
    Covered(watch, head, a, n) => Holds(BlockRecords, a, n, Line[head][n])

HoldInv == IndexInv /\ ChainHeld

-----------------------------------------------------------------------------
(* The tree *)

LEMMA LineFact ==
  ASSUME NEW h \in Hash, NEW n \in Heights, n <= Num[h]
  PROVE  /\ Line[h][n] \in Hash /\ Num[Line[h][n]] = n
         /\ \A m \in Heights : m <= n => Line[Line[h][n]][m] = Line[h][m]
<1>1. \A m \in Heights : m <= n => m \in 0 .. n BY HeightsFact
<1> QED BY <1>1, TreeAssumption

LEMMA ParentFact ==
  ASSUME NEW h \in Hash
  PROVE  /\ Parent(h) \in Hash \cup {NoHash}
         /\ Num[h] # 0 => /\ Parent(h) \in Hash /\ Num[Parent(h)] = Num[h] - 1
                          /\ Parent(h) = Line[h][Num[h] - 1]
                          /\ \A n \in Heights : n < Num[h] => Line[Parent(h)][n] = Line[h][n]
<1>1. Num[h] \in Heights /\ Num[h] \in Nat BY HeightsFact
<1>2. CASE Num[h] = 0 BY <1>2 DEF Parent
<1>3. CASE Num[h] # 0
  <2>1. Num[h] - 1 \in Heights /\ Num[h] - 1 <= Num[h] /\ \A n \in Heights : n < Num[h] => n <= Num[h] - 1
    BY <1>1, <1>3, HeightsFact
  <2>2. Parent(h) = Line[h][Num[h] - 1] BY <1>3 DEF Parent
  <2> QED BY <2>1, <2>2, LineFact
<1> QED BY <1>2, <1>3

\* A block that follows the head has the head's line under it.
LEMMA FollowsFact ==
  ASSUME TypeOK, NEW h \in Hash, Follows(h)
  PROVE  /\ Line[h][Num[h]] = h
         /\ head # NoHash => /\ Num[h] = Num[head] + 1
                             /\ \A n \in Heights : n <= Num[head] => Line[h][n] = Line[head][n]
         /\ head = NoHash => \A a \in Addr : watch[a] # 0 => Num[h] <= watch[a]
<1>1. Line[h][Num[h]] = h BY TreeAssumption
<1>2. ASSUME head # NoHash
      PROVE  /\ Num[h] = Num[head] + 1
             /\ \A n \in Heights : n <= Num[head] => Line[h][n] = Line[head][n]
  <2>1. head \in Hash /\ Num[head] \in Heights /\ Num[h] \in Heights
    BY <1>2, HeightsFact DEF TypeOK
  <2>2. Num[h] = Num[head] + 1 BY <1>2 DEF Follows, FirstBlock
  <2>3. Parent(h) = head BY <1>2 DEF Follows
  <2>4. Line[h][Num[head]] = head BY <2>1, <2>2, <2>3, HeightsFact DEF Parent
  <2>5. Num[head] <= Num[h] BY <2>1, <2>2, HeightsFact
  <2> QED BY <2>1, <2>2, <2>4, <2>5, LineFact
<1>3. ASSUME head = NoHash, NEW a \in Addr, watch[a] # 0 PROVE Num[h] <= watch[a]
  <2> DEFINE starts == {watch[b] : b \in Watched}
  <2>1. starts \subseteq Nat BY HeightsFact DEF TypeOK, Watched
  <2>2. watch[a] \in starts BY <1>3 DEF Watched
  <2>3. Num[h] = Min(starts) BY <1>3 DEF Follows, FirstBlock
  <2> HIDE DEF starts
  <2>4. PICK x \in starts : \A y \in starts : x <= y BY <2>1, <2>2, LeastNat
  <2>5. \A y \in starts : Min(starts) <= y BY <2>4 DEF Min
  <2> QED BY <2>2, <2>3, <2>5
<1> QED BY <1>1, <1>2, <1>3

-----------------------------------------------------------------------------
(* The transactions *)

\* What a block adds to the block records, where it finds none of its own.
LEMMA AtAfterInsert ==
  ASSUME TypeOK, NEW h \in Hash, NEW as \in SUBSET Addr, NEW p \in {"bal", "unverified"},
         slots' = Insert(slots, UNION {BalRecords(h, c, p) : c \in as}),
         \A r \in BlockRecords : ~ (r.addr \in as /\ r.block = Num[h])
  PROVE  \A a \in Addr, n \in Heights :
           /\ a \in as /\ n = Num[h] => RecordsAt(BlockRecords', a, n) = BalRecords(h, a, p)
           /\ ~ (a \in as /\ n = Num[h]) => RecordsAt(BlockRecords', a, n) = RecordsAt(BlockRecords, a, n)
<1> DEFINE new == UNION {BalRecords(h, c, p) : c \in as}
<1>1. \A r \in new : /\ r.addr \in as /\ r.block = Num[h] /\ r.prov # "proof"
                     /\ r \in BalRecords(h, r.addr, p)
  <2> TAKE r \in new
  <2>1. PICK c \in as : r \in BalRecords(h, c, p) OBVIOUS
  <2>2. c \in Addr OBVIOUS
  <2> HIDE DEF new
  <2>3. r.addr = c /\ r.block = Num[h] /\ r.prov = p BY <2>1, <2>2, BalRecordsFact
  <2> QED BY <2>1, <2>3
<1>2. \A c \in as : /\ BalRecords(h, c, p) \subseteq new
                    /\ \A r \in BalRecords(h, c, p) : r.addr = c
  <2> TAKE c \in as
  <2>1. c \in Addr OBVIOUS
  <2>2. \A r \in BalRecords(h, c, p) : r.addr = c BY <2>1, BalRecordsFact
  <2> QED BY <2>2
<1>3. slots' = Insert(slots, new) OBVIOUS
<1> HIDE DEF new
<1>4. BlockRecords' = BlockRecords \cup new
  <2>1. \A r \in BlockRecords, t \in new :
          <<r.addr, r.slot, r.block, r.index>> # <<t.addr, t.slot, t.block, t.index>>
    BY <1>1
  <2> QED BY <1>1, <1>3, <2>1 DEF Insert, BlockRecords
<1> TAKE a \in Addr, n \in Heights
<1>5. CASE a \in as /\ n = Num[h]
  <2>1. RecordsAt(BlockRecords, a, n) = {} BY <1>5 DEF RecordsAt
  <2> QED BY <1>1, <1>2, <1>4, <1>5, <2>1 DEF RecordsAt
<1>6. CASE ~ (a \in as /\ n = Num[h])
  BY <1>1, <1>4, <1>6 DEF RecordsAt
<1> QED BY <1>5, <1>6

LEMMA ApplyHolds ==
  ASSUME HoldInv, NEW h \in Hash, NEW below, Extend(h, below)
  PROVE  ChainHeld'
<1> DEFINE live == Live(h, watch)
           prov == IF h \in Committed THEN "bal" ELSE "unverified"
<1>1. TypeOK /\ Follows(h) BY DEF HoldInv, IndexInv, Extend
<1>2. live \in SUBSET Addr /\ prov \in {"bal", "unverified"} BY DEF Live
<1>3. /\ slots' = Insert(slots, UNION {BalRecords(h, c, prov) : c \in live})
      /\ head' = h /\ watch' = watch
  BY DEF Extend, ApplyBlock
<1>4. \A r \in BlockRecords : r.block < Num[h]
  <2> TAKE r \in BlockRecords
  <2>1. head # NoHash /\ r.block <= Num[head] BY DEF HoldInv, IndexInv, RecordsInRange
  <2>2. head \in Hash /\ r.block \in Nat
    BY <1>1, <2>1, HeightsFact DEF TypeOK, BlockRecords, Record
  <2> QED BY <1>1, <2>1, <2>2, FollowsFact, HeightsFact
<1> SUFFICES ASSUME NEW a \in Addr, NEW n \in Heights,
                    watch[a] # 0, watch[a] <= n, n <= Num[h]
             PROVE  Holds(BlockRecords', a, n, Line[h][n])
  BY <1>3 DEF ChainHeld, Covered, Holds
<1>5. a \in live <=> Num[h] >= watch[a] BY DEF Live
<1> HIDE DEF live, prov
<1>6. /\ a \in live /\ n = Num[h] => RecordsAt(BlockRecords', a, n) = BalRecords(h, a, prov)
      /\ ~ (a \in live /\ n = Num[h]) => RecordsAt(BlockRecords', a, n) = RecordsAt(BlockRecords, a, n)
  <2>1. \A r \in BlockRecords : ~ (r.addr \in live /\ r.block = Num[h])
    BY <1>1, <1>4, HeightsFact DEF TypeOK, BlockRecords, Record
  <2> QED BY <1>1, <1>2, <1>3, <2>1, AtAfterInsert
<1>7. watch[a] \in Nat /\ Num[h] \in Nat /\ n \in Nat BY <1>1, HeightsFact DEF TypeOK
<1>8. CASE n = Num[h]
  <2>1. a \in live /\ Line[h][n] = h BY <1>1, <1>5, <1>7, <1>8, FollowsFact
  <2> QED BY <1>2, <1>6, <1>8, <2>1 DEF Holds
<1>9. CASE n < Num[h]
  <2>1. head # NoHash BY <1>1, <1>7, <1>9, FollowsFact
  <2>2. head \in Hash /\ Num[head] \in Nat BY <1>1, <2>1, HeightsFact DEF TypeOK
  <2>3. n <= Num[head] /\ Line[h][n] = Line[head][n]
    BY <1>1, <1>7, <1>9, <2>1, <2>2, FollowsFact
  <2>4. Holds(BlockRecords, a, n, Line[head][n]) BY <2>1, <2>3 DEF HoldInv, ChainHeld, Covered
  <2>5. n # Num[h] BY <1>7, <1>9
  <2> QED BY <1>6, <2>3, <2>4, <2>5 DEF Holds
<1> QED BY <1>7, <1>8, <1>9

\* Under the fork nothing is deleted of an address whose start is there.
LEMMA RollbackHolds ==
  ASSUME HoldInv, NEW b \in Heights, Reorg(b)
  PROVE  ChainHeld'
<1>1. TypeOK BY DEF HoldInv, IndexInv
<1>2. /\ head # NoHash /\ b <= Num[head] /\ head' = Line[head][b] /\ watch' = watch
      /\ BlockRecords' = {r \in BlockRecords :
           /\ ~ Wiped(b, watch, r.addr)
           /\ \A e \in Victims(b, watch) :
                <<e.addr, e.block, e.slot>> # <<r.addr, r.block, r.slot>>}
  BY DEF Reorg, RollbackTo, BlockRecords
<1>3. head \in Hash /\ Num[head] \in Nat BY <1>1, <1>2, HeightsFact DEF TypeOK
<1>5. /\ head' \in Hash /\ Num[head'] = b
      /\ \A n \in Heights : n <= b => Line[head'][n] = Line[head][n]
  BY <1>2, <1>3, LineFact
<1> SUFFICES ASSUME NEW a \in Addr, NEW n \in Heights,
                    watch[a] # 0, watch[a] <= n, n <= b
             PROVE  Holds(BlockRecords', a, n, Line[head'][n])
  BY <1>2, <1>5 DEF ChainHeld, Covered, Holds
<1>6. Holds(BlockRecords, a, n, Line[head][n])
  BY <1>2, <1>3, HeightsFact DEF HoldInv, ChainHeld, Covered
<1>7. ~ Wiped(b, watch, a) BY <1>1, HeightsFact DEF Wiped, TypeOK
<1>8. \A e \in Victims(b, watch) : e.block # n BY HeightsFact DEF Victims
<1>9. RecordsAt(BlockRecords', a, n) = RecordsAt(BlockRecords, a, n) BY <1>2, <1>7, <1>8 DEF RecordsAt
<1> QED BY <1>5, <1>6, <1>9 DEF Holds

LEMMA LowerHolds ==
  ASSUME HoldInv, NEW c \in Addr, Lower(c)
  PROVE  ChainHeld'
<1> DEFINE m == watch[c] - 1
           h == Line[head][m]
<1>1. TypeOK BY DEF HoldInv, IndexInv
<1>2. m \in Heights /\ head # NoHash /\ head \in Hash /\ m <= Num[head] /\ watch[c] = m + 1
  BY <1>1, HeightsFact DEF TypeOK, Lower
<1>3. h \in Hash /\ Num[h] = m BY <1>2, LineFact
<1>4. BackfillBlock(c, h) BY DEF Lower
<1>5. h = Line[head][m] OBVIOUS
<1> HIDE DEF m, h
<1>6. /\ slots' = Insert(slots, UNION {BalRecords(h, x, "bal") : x \in {c}})
      /\ head' = head
      /\ \A a \in Addr : watch'[a] = IF a = c THEN m ELSE watch[a]
  BY <1>1, <1>3, <1>4 DEF BackfillBlock, TypeOK
<1>7. \A r \in BlockRecords : ~ (r.addr \in {c} /\ r.block = Num[h])
  BY <1>1, <1>2, <1>3, HeightsFact DEF HoldInv, IndexInv, RecordsInRange, TypeOK, BlockRecords, Record
<1> SUFFICES ASSUME NEW a \in Addr, NEW n \in Heights, Covered(watch', head', a, n)
             PROVE  Holds(BlockRecords', a, n, Line[head][n])
  BY <1>6 DEF ChainHeld, Holds
<1>8. /\ a \in {c} /\ n = Num[h] => RecordsAt(BlockRecords', a, n) = BalRecords(h, a, "bal")
      /\ ~ (a \in {c} /\ n = Num[h]) => RecordsAt(BlockRecords', a, n) = RecordsAt(BlockRecords, a, n)
  BY <1>1, <1>3, <1>6, <1>7, AtAfterInsert
<1>9. CASE a = c /\ n = m
  BY <1>3, <1>5, <1>8, <1>9 DEF Holds
<1>10. CASE ~ (a = c /\ n = m)
  <2>1. Covered(watch, head, a, n)
    BY <1>1, <1>2, <1>6, <1>10, HeightsFact DEF Covered, TypeOK
  <2>2. Holds(BlockRecords, a, n, Line[head][n]) BY <2>1 DEF HoldInv, ChainHeld
  <2> QED BY <1>3, <1>8, <1>10, <2>2 DEF Holds
<1> QED BY <1>9, <1>10

LEMMA UnwatchHolds ==
  ASSUME HoldInv, NEW c \in Addr, Unwatch(c)
  PROVE  ChainHeld'
<1>1. /\ head' = head /\ watch'[c] = 0
      /\ BlockRecords' = {r \in BlockRecords : r.addr # c}
      /\ \A a \in Addr : a # c => watch'[a] = watch[a]
  BY DEF Unwatch, BlockRecords, HoldInv, IndexInv, TypeOK
<1>2. \A a \in Addr, n \in Heights : a # c => RecordsAt(BlockRecords', a, n) = RecordsAt(BlockRecords, a, n) BY <1>1 DEF RecordsAt
<1> QED BY <1>1, <1>2 DEF HoldInv, ChainHeld, Covered, Holds

\* A watch starts above the head, where nothing is held yet.
LEMMA WatchHolds ==
  ASSUME HoldInv, NEW c \in Addr, NEW n \in Heights, Watch(c, n, HeadNumber)
  PROVE  ChainHeld'
<1>1. /\ BlockRecords' = BlockRecords /\ head' = head
      /\ \A a \in Addr : watch'[a] = IF a = c THEN n ELSE watch[a]
      /\ n > HeadNumber
  BY DEF Watch, BlockRecords, HoldInv, IndexInv, TypeOK
<1>2. \A a \in Addr, m \in Heights : Covered(watch', head', a, m) => Covered(watch, head, a, m)
  <2>1. n \in Nat /\ head # NoHash => n > Num[head] BY <1>1, HeightsFact DEF HeadNumber
  <2>2. head # NoHash => Num[head] \in Nat
    BY HeightsFact DEF HoldInv, IndexInv, TypeOK
  <2> QED BY <1>1, <2>1, <2>2, HeightsFact DEF Covered
<1> QED BY <1>1, <1>2 DEF HoldInv, ChainHeld, Holds, RecordsAt

LEMMA OtherHolds ==
  ASSUME HoldInv, BlockRecords' = BlockRecords, watch' = watch, head' = head
  PROVE  ChainHeld'
BY DEF HoldInv, ChainHeld, Covered, Holds, RecordsAt

-----------------------------------------------------------------------------

LEMMA HoldStep ==
  ASSUME HoldInv, [Next]_archiveVars
  PROVE  ChainHeld'
<1>1. CASE UNCHANGED archiveVars
  BY <1>1, OtherHolds DEF archiveVars, tables, BlockRecords
<1>2. CASE Forward
  <2>1. ASSUME NEW a \in Addr, EndWatch(a) PROVE ChainHeld'
    BY <2>1, UnwatchHolds DEF EndWatch
  <2> QED BY <1>2, <2>1, WatchHolds, ApplyHolds, RollbackHolds DEF Forward, StartWatch
<1>3. CASE Proofs
  <2>1. ASSUME NEW n \in Heights, Remember(n) PROVE ChainHeld'
    BY <2>1, OtherHolds DEF Remember, RememberHeader, BlockRecords
  <2>2. ASSUME NEW a \in Addr, NEW S, NEW at, Prove(a, S, at) PROVE ChainHeld'
    <3>1. BlockRecords' = BlockRecords
      BY <2>2, ProveKeepsBlockRecords DEF HoldInv, IndexInv, RecordsInRange, Prove
    <3> QED BY <2>2, <3>1, OtherHolds DEF Prove, PutBootstrap
  <2>3. ASSUME NEW a \in Addr, NEW n \in Heights, Expire(a, n) PROVE ChainHeld'
    BY <2>3, OtherHolds DEF Expire, MarkLost, BlockRecords
  <2> QED BY <1>3, <2>1, <2>2, <2>3 DEF Proofs, ProveBefore, ProveHead
<1>4. CASE Backfills
  BY <1>4, LowerHolds DEF Backfills
<1> QED BY <1>1, <1>2, <1>3, <1>4 DEF Next

LEMMA HoldInvHolds == Spec => []HoldInv
<1>1. Init => ChainHeld BY DEF Init, ChainHeld, Covered
<1>2. IndexInv /\ ChainHeld /\ [Next]_archiveVars => ChainHeld' BY HoldStep DEF HoldInv
<1>3. Spec => []ChainHeld BY IndexInvHolds, <1>1, <1>2, PTL DEF Spec
<1>4. IndexInv /\ ChainHeld => HoldInv BY DEF HoldInv
<1> QED BY IndexInvHolds, <1>3, <1>4, PTL

\* What the records of a covered block say of one slot.
LEMMA HeldSlot ==
  ASSUME NEW h \in Hash, NEW a \in Addr, NEW n, Holds(BlockRecords, a, n, h), NEW s \in Slot
  PROVE  LET held == {r \in BlockRecords : r.addr = a /\ r.block = n /\ r.slot = s}
         IN  /\ (held = {}) <=> (s \notin Written(h, a))
             /\ held # {} => FinalChange(h, a, s).value \in {r.value : r \in held}
<1> DEFINE held == {r \in BlockRecords : r.addr = a /\ r.block = n /\ r.slot = s}
<1>1. PICK p \in {"bal", "unverified"} : RecordsAt(BlockRecords, a, n) = BalRecords(h, a, p) BY DEF Holds
<1>2. held = {r \in BalRecords(h, a, p) : r.slot = s} BY <1>1 DEF RecordsAt
<1>3. held # {} => s \in Written(h, a)
  <2> HIDE DEF held
  <2> QED BY <1>2, BalRecordsFact
<1>4. ASSUME s \in Written(h, a) PROVE \E r \in held : r.value = FinalChange(h, a, s).value
  <2> DEFINE c == FinalChange(h, a, s)
             r == [addr |-> a, slot |-> c.slot, block |-> Num[h], index |-> c.index,
                   value |-> c.value, prov |-> p]
  <2>1. c \in Changes[h] /\ c.addr = a /\ c.slot = s BY <1>4, FinalChangeExists
  <2>2. r \in BalRecords(h, a, p) BY <2>1 DEF BalRecords
  <2>3. r.slot = s /\ r.value = c.value BY <2>1
  <2> HIDE DEF r, c
  <2>4. r \in held BY <1>2, <2>2, <2>3
  <2> QED BY <2>3, <2>4 DEF c
<1> HIDE DEF held
<1> QED BY <1>3, <1>4 DEF held

LEMMA ChainFollows == HoldInv => HoldsTheChain
<1> SUFFICES ASSUME HoldInv, head # NoHash, NEW a \in Watched,
                    NEW n \in watch[a] .. Num[head], NEW s \in Slot
             PROVE  LET held == {r \in BlockRecords : r.addr = a /\ r.block = n /\ r.slot = s}
                        h == Line[head][n]
                    IN  /\ (held = {}) <=> (s \notin Written(h, a))
                        /\ held # {} => FinalChange(h, a, s).value \in {r.value : r \in held}
  BY DEF HoldsTheChain
<1>1. a \in Addr /\ watch[a] # 0 /\ head \in Hash /\ watch[a] \in Nat /\ Num[head] \in Heights
  BY HeightsFact DEF Watched, HoldInv, IndexInv, TypeOK
<1>2. n \in Heights /\ watch[a] <= n /\ n <= Num[head] BY <1>1, HeightsFact
<1>3. Line[head][n] \in Hash BY <1>1, <1>2, LineFact
<1>4. Holds(BlockRecords, a, n, Line[head][n]) BY <1>1, <1>2 DEF HoldInv, ChainHeld, Covered
<1> QED BY <1>1, <1>3, <1>4, HeldSlot

\* Over start .. head the store holds the writes of the head's chain and no
\* others, for every order of blocks, reorgs, watches, proofs and backfill.
THEOREM ChainHolds == Spec => []HoldsTheChain
BY HoldInvHolds, ChainFollows, PTL
=============================================================================
