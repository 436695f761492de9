------------------------------ MODULE ReaderProofs ------------------------------
(***************************************************************************)
(* A caller whose reads are several transactions, beside blocks, reorgs,   *)
(* walks and watches: what one seek finds is true, and what a call answers *)
(* is what a single transaction would have answered.                       *)
(***************************************************************************)
EXTENDS Reads, ReadsProofs

Kinds == {"value", "NotWatched", "BeforeStart", "NotSynced", "AfterHead",
          "UnknownBefore", "NeverRecorded", "Internal"}
Reply == [kind : Kinds, value : Value, at : Heights]

ReaderTypeOK ==
  reader \in [at : {"idle", "start", "head", "seek", "done"}, addr : Addr \cup {NoHash},
              wanted : Seq(Slot), block : Nat, got : Seq(Reply), remote : BOOLEAN,
              again : BOOLEAN, could : SUBSET Reply, steady : BOOLEAN]

\* What a call in progress has found so far still holds, and so do the checks it
\* made, as long as nothing was reorged or unwatched.
FindingsHold ==
  /\ StorageAt(reader.addr, Target, reader.block) \in reader.could
  /\ reader.at \in {"head", "seek"} => watch[reader.addr] # 0 /\ watch[reader.addr] <= reader.block
  /\ reader.at = "seek" \/ reader.got # <<>> => head # NoHash /\ reader.block <= Num[head]
  /\ \A n \in 1 .. Len(reader.got) :
       reader.got[n].value = ValueAt(head, reader.block, reader.addr, reader.wanted[n])
  /\ reader.again => \E x \in reader.could : x.kind # "value"

CallInProgress ==
  Reading =>
    /\ reader.addr \in Addr /\ Len(reader.got) < Len(reader.wanted)
    /\ reader.remote => Len(reader.wanted) = 1
    /\ reader.again => reader.remote
    /\ \A n \in 1 .. Len(reader.got) : reader.got[n].kind = "value"
    /\ reader.steady => FindingsHold

ReaderInv == ReaderTypeOK /\ CallInProgress /\ AnswersUnlessReorged

StoreInv == StateInv /\ NoneProven

LEMMA StoreTyped == StoreInv => TypeOK /\ HoldInv /\ RecordsInRange /\ PreValuesAreTrue
BY DEF StoreInv, StateInv, HoldInv, IndexInv, NoneProven, PreValuesAreTrue, PreValue

-----------------------------------------------------------------------------
(* What a single transaction answers *)

LEMMA MissFact ==
  ASSUME NEW why \in Kinds
  PROVE  Miss(why) \in Reply /\ Miss(why).kind = why
BY HeightsFact, DataAssumption DEF Miss, Reply

LEMMA LookupType ==
  ASSUME TypeOK, NEW a \in Addr, NEW s \in Slot, NEW n
  PROVE  Lookup(a, s, n) \in Reply
<1>1. CASE Readable(a, s, n) # {}
  <2>1. LastRecord(a, s, n) \in slots BY <1>1, LastRecordIs DEF Readable
  <2>2. LastRecord(a, s, n).value \in Value /\ LastRecord(a, s, n).block \in Heights
    BY <2>1 DEF TypeOK, Record
  <2> QED BY <1>1, <2>2, LookupCases DEF Hit, Reply, Kinds
<1>2. CASE Readable(a, s, n) = {} /\ created[a] # 0
  <2>1. created[a] \in Heights BY DEF TypeOK
  <2> QED BY <1>2, <2>1, LookupCases, DataAssumption DEF Hit, Reply, Kinds
<1>3. CASE Readable(a, s, n) = {} /\ created[a] = 0 /\ Unresolved(boot[a][s])
  <2>1. boot[a][s].seen \in Heights BY DEF TypeOK, BootState
  <2> QED BY <1>3, <2>1, LookupCases, DataAssumption DEF Reply, Kinds
<1>4. CASE Readable(a, s, n) = {} /\ created[a] = 0 /\ ~ Unresolved(boot[a][s])
  <2>1. Lookup(a, s, n) \in {Miss("Internal"), Miss("NeverRecorded")}
    BY <1>4 DEF Lookup, Readable
  <2> QED BY <2>1, MissFact DEF Kinds
<1> QED BY <1>1, <1>2, <1>3, <1>4

LEMMA StorageType ==
  ASSUME TypeOK, NEW a \in Addr, NEW s \in Slot, NEW n
  PROVE  StorageAt(a, s, n) \in Reply
<1>1. CheckRange(a, n) \in Kinds \cup {"ok"} BY DEF CheckRange, Kinds
<1> QED BY <1>1, LookupType, MissFact DEF StorageAt

\* A single read that finds a value is of a covered block, and finds the chain's value.
LEMMA StorageIsTrue ==
  ASSUME StoreInv, NEW a \in Addr, NEW s \in Slot, NEW n \in Nat, StorageAt(a, s, n).kind = "value"
  PROVE  /\ head # NoHash /\ n <= Num[head]
         /\ StorageAt(a, s, n).value = ValueAt(head, n, a, s)
<1>1. TypeOK BY StoreTyped
<1>2. CheckRange(a, n) = "ok"
  <2>1. CheckRange(a, n) \in {"NotWatched", "BeforeStart", "NotSynced", "AfterHead", "ok"}
    BY DEF CheckRange
  <2> QED BY <2>1 DEF StorageAt, Miss
<1>3. head # NoHash /\ ~ (n > Num[head]) BY <1>2 DEF CheckRange
<1>4. Num[head] \in Heights /\ Num[head] \in Nat BY <1>1, <1>3, HeightsFact DEF TypeOK
<1>5. n <= Num[head] /\ n \in Heights BY <1>3, <1>4, TreeAssumption DEF Heights
<1> QED BY <1>3, <1>5, StoreTyped, ReadsFollow DEF StoreInv, ReadsAreTrue

LEMMA StillReads ==
  ASSUME UNCHANGED archiveVars, NEW a, NEW s, NEW n
  PROVE  StorageAt(a, s, n)' = StorageAt(a, s, n)
<1>1. CheckRange(a, n)' = CheckRange(a, n) BY DEF archiveVars, tables, CheckRange
<1>2. LastRecord(a, s, n)' = LastRecord(a, s, n) BY DEF archiveVars, tables, LastRecord
<1>3. Lookup(a, s, n)' = Lookup(a, s, n) BY <1>2 DEF archiveVars, tables, Lookup
<1> QED BY <1>1, <1>3 DEF StorageAt

-----------------------------------------------------------------------------
(* What a seek finds, whatever became of the range that was checked *)

\* Under its start, an archive without pre-values only knows of creations.
LEMMA NothingUnderStart ==
  ASSUME StoreInv, NEW a \in Addr, NEW s \in Slot, NEW n \in Heights, n <= HeadNumber,
         ~ Covered(watch, head, a, n)
  PROVE  /\ Readable(a, s, n) = {}
         /\ created[a] # 0 => ValueAt(head, n, a, s) = Zero
<1>1. TypeOK /\ HoldInv /\ RecordsInRange BY StoreTyped
<1>2. n \in Nat /\ watch[a] \in Nat BY <1>1, HeightsFact DEF TypeOK
<1>3. ASSUME head # NoHash, watch[a] # 0 PROVE n < watch[a]
  BY <1>2, <1>3 DEF Covered, HeadNumber
<1>4. Readable(a, s, n) = {}
  <2> SUFFICES ASSUME NEW r \in slots, r.addr = a, r.block <= n PROVE FALSE BY DEF Readable
  <2>1. r \in BlockRecords BY DEF StoreInv, NoneProven, BlockRecords
  <2>2. head # NoHash /\ watch[a] # 0 /\ watch[a] <= r.block BY <1>1, <2>1 DEF RecordsInRange
  <2>3. r.block \in Nat BY <1>1, HeightsFact DEF TypeOK, Record
  <2> QED BY <1>2, <1>3, <2>2, <2>3
<1>5. ASSUME created[a] # 0 PROVE ValueAt(head, n, a, s) = Zero
  <2> DEFINE born == created[a]
             h == Line[head][born]
  <2>1. born \in Heights /\ Covered(watch, head, a, born) /\ a \in Deploys[h]
    BY <1>1, <1>5 DEF StoreInv, StateInv, CreationsAreTrue, Born, TypeOK
  <2>2. head \in Hash /\ watch[a] # 0 /\ watch[a] <= born /\ born <= Num[head]
    BY <1>1, <2>1 DEF Covered, TypeOK
  <2>3. born \in Nat /\ n < born BY <1>2, <1>3, <2>1, <2>2, HeightsFact
  <2>4. /\ h \in Hash /\ Num[h] = born
        /\ \A k \in Heights : k <= born => Line[h][k] = Line[head][k]
    BY <2>1, <2>2, LineFact
  <2>5. /\ Genesis[a][s] = Zero
        /\ \A k \in Heights : k < born => ~ \E c \in Changes[Line[h][k]] : c.addr = a /\ c.slot = s
    BY <2>1, <2>4, DeployAssumption
  <2> HIDE DEF born, h
  <2>6. \A k \in Heights : k <= n => k < born /\ k <= born BY <1>2, <2>3, HeightsFact
  <2>7. \A k \in Heights : k <= n => s \notin Written(Line[head][k], a)
    BY <2>4, <2>5, <2>6 DEF Written
  <2> QED BY <2>2, <2>5, <2>7, ValueAtNever
<1> QED BY <1>4, <1>5

\* The second half of storage_at by itself.
LEMMA SeekFinds ==
  ASSUME StoreInv, NEW a \in Addr, NEW s \in Slot, NEW n \in Heights, n <= HeadNumber,
         Lookup(a, s, n).kind = "value"
  PROVE  Lookup(a, s, n).value = ValueAt(head, n, a, s)
<1>1. StateInv /\ PreValuesAreTrue BY StoreTyped DEF StoreInv
<1>2. CASE Readable(a, s, n) # {}
  <2>1. Covered(watch, head, a, n) BY <1>2, NothingUnderStart
  <2>2. Lookup(a, s, n).value = LastRecord(a, s, n).value BY <1>2, LookupCases DEF Hit
  <2> QED BY <1>1, <1>2, <2>1, <2>2, LookupIsTrue
<1>3. CASE Readable(a, s, n) = {} /\ created[a] # 0
  <2>1. Lookup(a, s, n).value = Zero BY <1>3, LookupCases DEF Hit
  <2> QED BY <1>1, <1>3, <2>1, CreatedIsZero, NothingUnderStart
<1>4. CASE Readable(a, s, n) = {} /\ created[a] = 0
  <2>1. Lookup(a, s, n).kind \in {"UnknownBefore", "Internal", "NeverRecorded"}
    BY <1>4, LookupCases
  <2> QED BY <2>1
<1> QED BY <1>2, <1>3, <1>4

-----------------------------------------------------------------------------
(* The reader *)

LEMMA StoreUnread ==
  ASSUME [ReadNext]_readVars
  PROVE  [Forward \/ Backfills]_archiveVars
BY DEF ReadNext, readVars, Elsewhere

\* Between two transactions of other callers.
LEMMA StillHolds ==
  ASSUME UNCHANGED archiveVars, NEW a, NEW s, NEW n
  PROVE  /\ StorageAt(a, s, n)' = StorageAt(a, s, n)
         /\ ValueAt(head, n, a, s)' = ValueAt(head, n, a, s)
         /\ head' = head /\ watch' = watch
BY StillReads DEF archiveVars, tables

LEMMA BeginKeeps ==
  ASSUME StoreInv, NEW call \in Calls, Begin(call), UNCHANGED archiveVars
  PROVE  ReaderInv'
<1> DEFINE none == <<>>
           no == FALSE
           yes == TRUE
           first == call.wanted[1]
           could == {StorageAt(call.addr, call.wanted[1], call.block)}
<1>1. none \in Seq(Reply) /\ Len(none) = 0 /\ no \in BOOLEAN /\ yes \in BOOLEAN OBVIOUS
<1>2. /\ call.addr \in Addr /\ call.wanted \in Seq(Slot) /\ call.block \in Nat
      /\ call.remote \in BOOLEAN /\ call.wanted # <<>> /\ (call.remote => Len(call.wanted) = 1)
  BY CallsAssumption
<1>3. Len(call.wanted) \in Nat \ {0} /\ first \in Slot BY <1>2
<1>4. could \in SUBSET Reply BY <1>2, <1>3, StoreTyped, StorageType
<1>5. reader' = [at |-> "start", addr |-> call.addr, wanted |-> call.wanted, block |-> call.block,
                 got |-> none, remote |-> call.remote, again |-> no, could |-> could, steady |-> yes]
  BY DEF Begin
<1>6. StorageAt(call.addr, first, call.block)' \in could BY StillReads
<1>7. ~ no OBVIOUS
<1> HIDE DEF none, no, yes
<1>8. ReaderTypeOK' BY <1>1, <1>2, <1>4, <1>5 DEF ReaderTypeOK
<1>9. Target' = first BY <1>1, <1>5 DEF Target
<1> HIDE DEF first, could
<1>10. StorageAt(reader.addr, Target, reader.block)' \in could
  BY <1>5, <1>6, <1>9
<1>11. FindingsHold' BY <1>1, <1>5, <1>7, <1>10 DEF FindingsHold
<1>12. CallInProgress' BY <1>1, <1>2, <1>3, <1>5, <1>7, <1>11 DEF CallInProgress
<1>13. AnswersUnlessReorged' BY <1>5 DEF AnswersUnlessReorged
<1> QED BY <1>8, <1>12, <1>13 DEF ReaderInv

\* How the read of one slot ends, when what it found is what a single read would.
LEMMA EndReadKeeps ==
  ASSUME StoreInv, ReaderInv, Reading, UNCHANGED archiveVars, NEW res \in Reply, EndRead(res),
         reader.steady => res = StorageAt(reader.addr, Target, reader.block)
  PROVE  ReaderInv'
<1> DEFINE a == reader.addr
           n == reader.block
           got == Append(reader.got, res)
           k == Len(reader.got) + 1
<1> USE DEF ReaderInv
<1>1. /\ a \in Addr /\ n \in Nat /\ reader.wanted \in Seq(Slot) /\ reader.got \in Seq(Reply)
      /\ reader.again \in BOOLEAN /\ reader.remote \in BOOLEAN /\ reader.steady \in BOOLEAN
      /\ reader.could \in SUBSET Reply
  BY DEF CallInProgress, ReaderTypeOK
<1>2. Len(reader.got) < Len(reader.wanted) BY DEF CallInProgress
<1>3. /\ k \in 1 .. Len(reader.wanted) /\ Target = reader.wanted[k] /\ Target \in Slot
  BY <1>1, <1>2 DEF Target
<1>4. /\ got \in Seq(Reply) /\ Len(got) = k /\ got[k] = res
      /\ \A m \in 1 .. Len(reader.got) : got[m] = reader.got[m]
      /\ \A m \in 1 .. k : m = k \/ m \in 1 .. Len(reader.got)
  BY <1>1
<1> HIDE DEF got, k
\* A value is true, and every one before it.
<1>5. ASSUME reader.steady, res.kind = "value"
      PROVE  /\ head # NoHash /\ n <= Num[head]
             /\ \A m \in 1 .. k : got[m].value = ValueAt(head, n, a, reader.wanted[m])
  <2>1. head # NoHash /\ n <= Num[head] /\ res.value = ValueAt(head, n, a, Target)
    BY <1>1, <1>3, <1>5, StorageIsTrue
  <2>2. \A m \in 1 .. Len(reader.got) : reader.got[m].value = ValueAt(head, n, a, reader.wanted[m])
    BY <1>5 DEF CallInProgress, FindingsHold
  <2> QED BY <1>3, <1>4, <2>1, <2>2
<1>6. ASSUME reader.steady PROVE res \in reader.could
  BY <1>6 DEF CallInProgress, FindingsHold
<1>7. \A m \in 1 .. Len(reader.got) : reader.got[m].kind = "value" BY DEF CallInProgress
<1>8. CASE reader.remote /\ ~ reader.again /\ res.kind # "value"
  <2> DEFINE yes == TRUE
  <2>1. reader' = [reader EXCEPT !.at = "start", !.again = yes] BY <1>8 DEF EndRead
  <2>2. yes \in BOOLEAN OBVIOUS
  <2> HIDE DEF yes
  <2>3. ReaderTypeOK' BY <2>1, <2>2 DEF ReaderTypeOK
  <2>4. /\ reader'.at = "start" /\ reader'.addr = a /\ reader'.wanted = reader.wanted
        /\ reader'.got = reader.got /\ reader'.could = reader.could /\ reader'.block = n
        /\ reader'.remote = reader.remote /\ reader'.steady = reader.steady
    BY <2>1 DEF ReaderTypeOK
  <2>5. Target' = Target BY <2>4 DEF Target
  <2>6. ASSUME reader.steady PROVE FindingsHold'
    <3>1. FindingsHold BY <2>6 DEF CallInProgress
    <3>2. StorageAt(reader.addr, Target, reader.block)' \in reader.could
      BY <2>4, <2>5, <3>1, StillReads DEF FindingsHold
    <3> QED BY <1>6, <1>8, <2>4, <2>6, <3>1, <3>2 DEF FindingsHold, archiveVars, tables
  <2>7. CallInProgress' BY <1>1, <1>2, <1>7, <1>8, <2>4, <2>6 DEF CallInProgress
  <2>8. AnswersUnlessReorged' BY <2>4 DEF AnswersUnlessReorged
  <2> QED BY <2>3, <2>7, <2>8
<1>9. CASE /\ ~ (reader.remote /\ ~ reader.again /\ res.kind # "value")
           /\ res.kind # "value" \/ Len(got) = Len(reader.wanted)
  <2> DEFINE end == IF reader.again /\ res.kind = "value"
                    THEN Append(reader.got, Miss("Internal")) ELSE got
  <2>1. reader' = [reader EXCEPT !.at = "done", !.got = end] BY <1>9 DEF EndRead, got
  <2>2. Miss("Internal") \in Reply /\ Miss("Internal").kind = "Internal" BY MissFact DEF Kinds
  <2>3. /\ end \in Seq(Reply) /\ Len(end) = k
        /\ \A m \in 1 .. Len(reader.got) : end[m] = reader.got[m]
        /\ end[k] = IF reader.again /\ res.kind = "value" THEN Miss("Internal") ELSE res
    BY <1>1, <1>4, <2>2 DEF k
  <2> HIDE DEF end
  <2>4. ReaderTypeOK' BY <2>1, <2>3 DEF ReaderTypeOK
  <2>5. /\ reader'.at = "done" /\ reader'.addr = a /\ reader'.wanted = reader.wanted
        /\ reader'.got = end /\ reader'.could = reader.could /\ reader'.block = n
        /\ reader'.again = reader.again /\ reader'.steady = reader.steady
    BY <2>1 DEF ReaderTypeOK
  <2>6. ASSUME reader.steady
        PROVE  \/ end[k] \in reader.could
               \/ end[k].kind = "Internal" /\ reader.again
                  /\ \E x, y \in reader.could : x.kind # y.kind
    <3>1. CASE reader.again /\ res.kind = "value"
      <4>1. PICK x \in reader.could : x.kind # "value"
        BY <2>6, <3>1 DEF CallInProgress, FindingsHold
      <4> QED BY <1>6, <2>2, <2>3, <2>6, <3>1, <4>1
    <3>2. CASE ~ (reader.again /\ res.kind = "value") BY <1>6, <2>3, <2>6, <3>2
    <3> QED BY <3>1, <3>2
  <2>7. ASSUME reader.steady, NEW m \in 1 .. k, end[m].kind = "value"
        PROVE  end[m].value = ValueAt(head, n, a, reader.wanted[m])
    <3>1. CASE m = k
      <4>1. end[m] = res /\ res.kind = "value" BY <2>2, <2>3, <2>7, <3>1
      <4> QED BY <1>4, <1>5, <2>7, <3>1, <4>1
    <3>2. CASE m # k
      <4>1. m \in 1 .. Len(reader.got) BY <1>4, <2>7, <3>2
      <4> QED BY <2>3, <2>7, <4>1 DEF CallInProgress, FindingsHold
    <3> QED BY <3>1, <3>2
  <2>8. \A m \in 1 .. k : ValueAt(head, n, a, reader.wanted[m])'
                            = ValueAt(head, n, a, reader.wanted[m])
    BY <2>5 DEF archiveVars, tables
  <2>9. AnswersUnlessReorged' BY <2>3, <2>5, <2>6, <2>7, <2>8 DEF AnswersUnlessReorged, archiveVars, tables
  <2>10. CallInProgress' BY <2>5 DEF CallInProgress, Reading
  <2> QED BY <2>4, <2>9, <2>10
<1>10. CASE res.kind = "value" /\ Len(got) # Len(reader.wanted)
  <2> DEFINE could == IF reader.steady THEN {StorageAt(a, reader.wanted[Len(got) + 1], n)} ELSE {}
  <2>1. reader' = [reader EXCEPT !.at = "start", !.got = got, !.could = could]
    BY <1>10 DEF EndRead, got
  <2>2. Len(got) < Len(reader.wanted) /\ reader.wanted[Len(got) + 1] \in Slot
    BY <1>1, <1>3, <1>4, <1>10
  <2>3. could \in SUBSET Reply BY <1>1, <2>2, StoreTyped, StorageType
  <2> HIDE DEF could
  <2>4. ReaderTypeOK' BY <1>4, <2>1, <2>3 DEF ReaderTypeOK
  <2>5. /\ reader'.at = "start" /\ reader'.addr = a /\ reader'.wanted = reader.wanted
        /\ reader'.got = got /\ reader'.could = could /\ reader'.block = n
        /\ reader'.remote = reader.remote /\ reader'.again = reader.again
        /\ reader'.steady = reader.steady
    BY <2>1 DEF ReaderTypeOK
  <2>6. ~ reader.again
    <3>1. Len(reader.wanted) # 1 BY <1>1, <1>3, <1>4, <2>2 DEF k
    <3>2. reader.again => Len(reader.wanted) = 1 BY Zenon DEF CallInProgress
    <3> QED BY <3>1, <3>2
  <2>7. ASSUME reader.steady PROVE FindingsHold'
    <3>1. Target' = reader.wanted[Len(got) + 1] BY <2>5 DEF Target
    <3>2. StorageAt(reader.addr, Target, reader.block)' \in could
      BY <2>5, <2>7, <3>1, StillReads DEF could
    <3> QED BY <1>4, <1>5, <1>10, <2>5, <2>6, <2>7, <3>2 DEF FindingsHold, archiveVars, tables
  <2>8. \A m \in 1 .. k : got[m].kind = "value" BY <1>4, <1>7, <1>10
  <2>9. CallInProgress' BY <1>1, <1>4, <2>2, <2>5, <2>6, <2>7, <2>8 DEF CallInProgress
  <2>10. AnswersUnlessReorged' BY <2>5 DEF AnswersUnlessReorged
  <2> QED BY <2>4, <2>9, <2>10
<1> QED BY <1>8, <1>9, <1>10

\* The checks of the range, and what the seek finds in it.
LEMMA RangeFact ==
  ASSUME StoreInv, ReaderInv, Reading
  PROVE  /\ reader.addr \in Addr /\ Target \in Slot /\ reader.block \in Nat
         /\ watch[reader.addr] \in Nat /\ (head # NoHash => Num[head] \in Nat)
         /\ reader.steady => FindingsHold
<1>1. /\ reader.addr \in Addr /\ reader.block \in Nat /\ reader.wanted \in Seq(Slot)
      /\ reader.got \in Seq(Reply) /\ Len(reader.got) < Len(reader.wanted)
  BY DEF ReaderInv, CallInProgress, ReaderTypeOK
<1>2. Target \in Slot BY <1>1 DEF Target
<1>3. watch[reader.addr] \in Nat /\ (head # NoHash => Num[head] \in Nat)
  BY <1>1, StoreTyped, HeightsFact DEF TypeOK
<1> QED BY <1>1, <1>2, <1>3 DEF ReaderInv, CallInProgress

\* One more check made, and it holds now.
LEMMA CheckKeeps ==
  ASSUME StoreInv, ReaderInv, UNCHANGED archiveVars, NEW next \in {"head", "seek"},
         Reading, reader' = [reader EXCEPT !.at = next],
         reader.steady => watch[reader.addr] # 0 /\ watch[reader.addr] <= reader.block,
         next = "seek" => head # NoHash /\ reader.block <= Num[head]
  PROVE  ReaderInv'
<1>1. /\ reader'.at = next /\ reader'.addr = reader.addr /\ reader'.wanted = reader.wanted
      /\ reader'.got = reader.got /\ reader'.could = reader.could /\ reader'.block = reader.block
      /\ reader'.remote = reader.remote /\ reader'.again = reader.again
      /\ reader'.steady = reader.steady
  BY DEF ReaderInv, ReaderTypeOK
<1>2. ReaderTypeOK' BY DEF ReaderInv, ReaderTypeOK
<1>3. Target' = Target BY <1>1 DEF Target
<1>4. ASSUME reader.steady PROVE FindingsHold'
  <2>1. FindingsHold BY <1>4, RangeFact
  <2>2. StorageAt(reader.addr, Target, reader.block)' \in reader.could
    BY <1>1, <1>3, <2>1, StillReads DEF FindingsHold
  <2> QED BY <1>1, <1>4, <2>1, <2>2 DEF FindingsHold, archiveVars, tables
<1>5. CallInProgress' BY <1>1, <1>4 DEF ReaderInv, CallInProgress
<1>6. AnswersUnlessReorged' BY <1>1 DEF AnswersUnlessReorged
<1> QED BY <1>2, <1>5, <1>6 DEF ReaderInv

LEMMA ReadStartKeeps ==
  ASSUME StoreInv, ReaderInv, ReadStart, UNCHANGED archiveVars
  PROVE  ReaderInv'
<1>1. Reading BY DEF ReadStart, Reading
<1> DEFINE a == reader.addr
           n == reader.block
<1>2. a \in Addr /\ n \in Nat /\ watch[a] \in Nat BY <1>1, RangeFact
<1>3. CASE watch[a] = 0
  <2>1. EndRead(Miss("NotWatched")) BY <1>3 DEF ReadStart
  <2>2. StorageAt(a, Target, n) = Miss("NotWatched") BY <1>3 DEF StorageAt, CheckRange
  <2> QED BY <1>1, <2>1, <2>2, MissFact, EndReadKeeps DEF Kinds
<1>4. CASE watch[a] # 0 /\ n < watch[a]
  <2>1. EndRead(Miss("BeforeStart")) BY <1>4 DEF ReadStart
  <2>2. StorageAt(a, Target, n) = Miss("BeforeStart") BY <1>4 DEF StorageAt, CheckRange
  <2> QED BY <1>1, <2>1, <2>2, MissFact, EndReadKeeps DEF Kinds
<1>5. CASE watch[a] # 0 /\ ~ (n < watch[a])
  <2>1. reader' = [reader EXCEPT !.at = "head"] BY <1>5 DEF ReadStart
  <2> QED BY <1>1, <1>2, <1>5, <2>1, CheckKeeps
<1> QED BY <1>3, <1>4, <1>5

LEMMA ReadHeadKeeps ==
  ASSUME StoreInv, ReaderInv, ReadHead, UNCHANGED archiveVars
  PROVE  ReaderInv'
<1>1. Reading /\ reader.at = "head" BY DEF ReadHead, Reading
<1> DEFINE a == reader.addr
           n == reader.block
<1>2. a \in Addr /\ n \in Nat /\ watch[a] \in Nat /\ (head # NoHash => Num[head] \in Nat)
  BY <1>1, RangeFact
<1>3. reader.steady => watch[a] # 0 /\ watch[a] <= n
  BY <1>1, RangeFact DEF FindingsHold
<1>4. CASE head = NoHash
  <2>1. EndRead(Miss("NotSynced")) BY <1>4 DEF ReadHead
  <2>2. reader.steady => StorageAt(a, Target, n) = Miss("NotSynced")
    BY <1>2, <1>3, <1>4 DEF StorageAt, CheckRange
  <2> QED BY <1>1, <2>1, <2>2, MissFact, EndReadKeeps DEF Kinds
<1>5. CASE head # NoHash /\ n > Num[head]
  <2>1. EndRead(Miss("AfterHead")) BY <1>5 DEF ReadHead
  <2>2. reader.steady => StorageAt(a, Target, n) = Miss("AfterHead")
    BY <1>2, <1>3, <1>5 DEF StorageAt, CheckRange
  <2> QED BY <1>1, <2>1, <2>2, MissFact, EndReadKeeps DEF Kinds
<1>6. CASE head # NoHash /\ ~ (n > Num[head])
  <2>1. reader' = [reader EXCEPT !.at = "seek"] BY <1>6 DEF ReadHead
  <2>2. n <= Num[head] BY <1>2, <1>6
  <2> QED BY <1>1, <1>3, <1>6, <2>1, <2>2, CheckKeeps
<1> QED BY <1>4, <1>5, <1>6

LEMMA SeekKeeps ==
  ASSUME StoreInv, ReaderInv, Seek, UNCHANGED archiveVars
  PROVE  ReaderInv'
<1>1. Reading /\ reader.at = "seek" BY DEF Seek, Reading
<1> DEFINE a == reader.addr
           n == reader.block
<1>2. /\ a \in Addr /\ n \in Nat /\ watch[a] \in Nat /\ (head # NoHash => Num[head] \in Nat)
      /\ Target \in Slot /\ (reader.steady => FindingsHold)
  BY <1>1, RangeFact
<1>3. ASSUME reader.steady PROVE Lookup(a, Target, n) = StorageAt(a, Target, n)
  <2>1. /\ watch[a] # 0 /\ ~ (n < watch[a])
        /\ head # NoHash /\ ~ (n > Num[head])
    BY <1>1, <1>2, <1>3 DEF FindingsHold
  <2>2. CheckRange(a, n) = "ok" BY <2>1 DEF CheckRange
  <2> QED BY <2>2 DEF StorageAt
<1>4. EndRead(Lookup(a, Target, n)) BY DEF Seek
<1>5. Lookup(a, Target, n) \in Reply BY <1>2, StoreTyped, LookupType
<1> QED BY <1>1, <1>3, <1>4, <1>5, EndReadKeeps

LEMMA RestKeeps ==
  ASSUME ReaderInv, Rest
  PROVE  ReaderInv'
<1> DEFINE none == <<>>
           no == FALSE
           yes == TRUE
<1>1. /\ none \in Seq(Reply) /\ none \in Seq(Slot) /\ no \in BOOLEAN /\ yes \in BOOLEAN
      /\ {} \in SUBSET Reply /\ 0 \in Nat
  OBVIOUS
<1>2. reader' = [at |-> "idle", addr |-> NoHash, wanted |-> none, block |-> 0, got |-> none,
                 remote |-> no, again |-> no, could |-> {}, steady |-> yes]
  BY DEF Rest, Idle
<1> HIDE DEF none, no, yes
<1>3. ReaderTypeOK' BY <1>1, <1>2 DEF ReaderTypeOK
<1>4. reader'.at = "idle" BY <1>2
<1> QED BY <1>3, <1>4 DEF ReaderInv, CallInProgress, Reading, AnswersUnlessReorged

LEMMA AfterStep ==
  (StoreInv => TypeOK /\ \A a \in Addr, s \in Slot, n \in Nat : StorageAt(a, s, n) \in Reply)'
<1>1. StoreInv => TypeOK /\ \A a \in Addr, s \in Slot, n \in Nat : StorageAt(a, s, n) \in Reply
  BY StoreTyped, StorageType
<1> QED BY <1>1, PTL

\* A transaction of somebody else.
LEMMA ElsewhereKeeps ==
  ASSUME StoreInv, StoreInv', ReaderInv, Elsewhere
  PROVE  ReaderInv'
<1> DEFINE a == reader.addr
           n == reader.block
<1>1. CASE ~ Reading
  <2>1. reader' = reader /\ reader.at = "idle" BY <1>1 DEF Elsewhere, Reading
  <2> QED BY <2>1 DEF ReaderInv, ReaderTypeOK, CallInProgress, Reading, AnswersUnlessReorged
<1>2. CASE Reading /\ ~ (reader.steady /\ Steady)
  <2> DEFINE no == FALSE
  <2>1. reader' = [reader EXCEPT !.steady = no, !.could = {}] BY <1>2 DEF Elsewhere
  <2>2. no \in BOOLEAN /\ ~ no OBVIOUS
  <2> HIDE DEF no
  <2>3. ReaderTypeOK' BY <2>1, <2>2 DEF ReaderInv, ReaderTypeOK
  <2>4. /\ reader'.at = reader.at /\ reader'.addr = a /\ reader'.wanted = reader.wanted
        /\ reader'.got = reader.got /\ reader'.remote = reader.remote
        /\ reader'.again = reader.again /\ ~ reader'.steady
    BY <2>1, <2>2 DEF ReaderInv, ReaderTypeOK
  <2>5. CallInProgress' BY <1>2, <2>4 DEF ReaderInv, CallInProgress, Reading
  <2>6. AnswersUnlessReorged' BY <2>4 DEF AnswersUnlessReorged
  <2> QED BY <2>3, <2>5, <2>6 DEF ReaderInv
<1>3. CASE Reading /\ reader.steady /\ Steady
  <2> DEFINE seen == {StorageAt(b, s, m)' : b \in {reader.addr}, s \in {Target}, m \in {reader.block}}
             could == reader.could \cup seen
  <2>1. reader' = [reader EXCEPT !.could = could] BY <1>3 DEF Elsewhere
  <2>2. /\ a \in Addr /\ n \in Nat /\ Target \in Slot /\ FindingsHold
        /\ watch[a] \in Nat /\ watch'[a] \in Nat
    <3>1. watch'[a] \in Nat BY <1>3, RangeFact, AfterStep, HeightsFact DEF TypeOK
    <3> QED BY <1>3, <3>1, RangeFact
  <2>3. StorageAt(a, Target, n)' \in seen
    <3>1. reader'.addr = a /\ Target' = Target /\ reader'.block = n
      BY <2>1 DEF ReaderInv, ReaderTypeOK, Target
    <3> QED BY <3>1
  <2>4. could \in SUBSET Reply
    <3>1. seen \subseteq Reply BY <2>2, AfterStep
    <3> QED BY <3>1 DEF ReaderInv, ReaderTypeOK
  <2> HIDE DEF seen, could
  <2>5. ReaderTypeOK' BY <2>1, <2>4 DEF ReaderInv, ReaderTypeOK
  <2>6. /\ reader'.at = reader.at /\ reader'.addr = a /\ reader'.wanted = reader.wanted
        /\ reader'.got = reader.got /\ reader'.remote = reader.remote /\ reader'.block = n
        /\ reader'.again = reader.again /\ reader'.steady = reader.steady /\ reader'.could = could
    BY <2>1 DEF ReaderInv, ReaderTypeOK
  <2>7. watch[a] # 0 => watch'[a] # 0 /\ watch'[a] <= watch[a] BY <1>3, <2>2 DEF Steady
  <2>8. ASSUME head # NoHash, n <= Num[head]
        PROVE  /\ head' # NoHash /\ n <= Num[head']
               /\ \A s \in Slot : ValueAt(head', n, a, s) = ValueAt(head, n, a, s)
    <3>1. /\ head \in Hash /\ head' \in Hash /\ Num[head] <= Num[head']
          /\ Line[head'][Num[head]] = head
      BY <1>3, <2>8, StoreTyped, AfterStep DEF Steady, Goes, TypeOK
    <3>2. Num[head] \in Heights /\ Num[head] \in Nat /\ Num[head'] \in Nat
      BY <3>1, HeightsFact
    <3>3. n \in Heights BY <2>2, <2>8, <3>2, TreeAssumption DEF Heights
    <3>4. \A k \in Heights : k <= n => Line[head'][k] = Line[head][k]
      <4>1. \A k \in Heights : k <= Num[head] => Line[head'][k] = Line[head][k]
        BY <3>1, <3>2, LineFact
      <4> QED BY <2>2, <2>8, <3>2, <4>1, HeightsFact
    <3>5. \A s \in Slot : ValueAt(head', n, a, s) = ValueAt(head, n, a, s)
      BY <2>2, <3>1, <3>3, <3>4, ValueAtSame
    <3>6. head' # NoHash BY <3>1, TreeAssumption
    <3> QED BY <2>2, <2>8, <3>1, <3>2, <3>5, <3>6
  <2>9. FindingsHold'
    <3> USE <2>2 DEF FindingsHold
    <3>1. StorageAt(reader.addr, Target, reader.block)' \in reader'.could BY <2>3, <2>6 DEF could
    <3>2. reader'.at \in {"head", "seek"} => watch'[a] # 0 /\ watch'[a] <= n BY <2>6, <2>7
    <3>3. reader'.at = "seek" \/ reader'.got # <<>> => head' # NoHash /\ n <= Num[head']
      BY <2>6, <2>8
    <3>4. ASSUME NEW m \in 1 .. Len(reader.got)
          PROVE  reader.got[m].value = ValueAt(head', n, a, reader.wanted[m])
      <4>1. reader.got # <<>> /\ reader.wanted[m] \in Slot
        BY <1>3 DEF ReaderInv, ReaderTypeOK, CallInProgress
      <4> QED BY <2>8, <3>4, <4>1
    <3>5. reader'.again => \E x \in reader'.could : x.kind # "value" BY <2>6 DEF could
    <3> QED BY <2>6, <3>1, <3>2, <3>3, <3>4, <3>5
  <2>10. CallInProgress' BY <1>3, <2>6, <2>9 DEF ReaderInv, CallInProgress, Reading
  <2>11. AnswersUnlessReorged' BY <1>3, <2>6 DEF AnswersUnlessReorged, Reading
  <2> QED BY <2>5, <2>10, <2>11 DEF ReaderInv
<1> QED BY <1>1, <1>2, <1>3

LEMMA ReaderStep ==
  ASSUME StoreInv, StoreInv', ReaderInv, [ReadNext]_readVars
  PROVE  ReaderInv'
<1>1. CASE UNCHANGED readVars
  BY <1>1 DEF readVars, archiveVars, tables, ReaderInv, ReaderTypeOK, CallInProgress,
    Reading, Target, FindingsHold, AnswersUnlessReorged, StorageAt, CheckRange, Lookup, LastRecord
<1>2. CASE Elsewhere BY <1>2, ElsewhereKeeps
<1>3. CASE UNCHANGED archiveVars /\ \E call \in Calls : Begin(call) BY <1>3, BeginKeeps
<1>4. CASE UNCHANGED archiveVars /\ (ReadStart \/ ReadHead \/ Seek \/ Rest)
  BY <1>4, ReadStartKeeps, ReadHeadKeeps, SeekKeeps, RestKeeps
<1> QED BY <1>1, <1>2, <1>3, <1>4 DEF ReadNext

LEMMA ReaderKeeps == ReadSpec => [](StoreInv /\ ReaderInv)
<1>1. ReadInit => ReaderInv
  <2> DEFINE none == <<>>
             no == FALSE
             yes == TRUE
  <2>1. /\ none \in Seq(Reply) /\ none \in Seq(Slot) /\ no \in BOOLEAN /\ yes \in BOOLEAN
        /\ {} \in SUBSET Reply /\ 0 \in Nat
    OBVIOUS
  <2>2. Idle = [at |-> "idle", addr |-> NoHash, wanted |-> none, block |-> 0, got |-> none,
                remote |-> no, again |-> no, could |-> {}, steady |-> yes]
    BY DEF Idle
  <2> HIDE DEF none, no, yes
  <2> QED BY <2>1, <2>2 DEF ReadInit, ReaderInv, ReaderTypeOK, CallInProgress, Reading, AnswersUnlessReorged
<1>2. ReadSpec => BackfillSpec
  <2>1. [ReadNext]_readVars => [Forward \/ Backfills]_archiveVars BY StoreUnread
  <2> QED BY <2>1, PTL DEF ReadSpec, ReadInit, BackfillSpec
<1>3. StoreInv /\ StoreInv' /\ ReaderInv /\ [ReadNext]_readVars => ReaderInv' BY ReaderStep
<1>4. StateInv /\ NoneProven => StoreInv BY DEF StoreInv
<1> QED BY BackfillsHold, <1>1, <1>2, <1>3, <1>4, PTL DEF ReadSpec

\* While nothing is reorged or unwatched, the many transactions of a call to serve answer
\* as one would (reads.rs:25, serve.rs handle), whatever is applied, backfilled or
\* watched between them.
THEOREM CallsReadAsOne == ReadSpec => []AnswersUnlessReorged
<1>1. ReaderInv => AnswersUnlessReorged BY DEF ReaderInv
<1> QED BY ReaderKeeps, <1>1, PTL

\* What the last transaction of storage_at finds is the head's value at the block asked
\* for, however old its range check is: even the watch it checked may be another by now.
THEOREM SeeksAreTrue == ReadSpec => SeekIsTrue
<1> DEFINE Found ==
       reader.at = "seek" /\ reader'.at # "seek" /\ UNCHANGED archiveVars
       /\ ~ reader.again /\ Len(reader'.got) > Len(reader.got)
       /\ reader'.got[Len(reader'.got)].kind = "value" /\ reader.block <= HeadNumber
<1>1. ASSUME StoreInv, ReaderInv, [ReadNext]_readVars, Found
      PROVE  reader'.got[Len(reader'.got)].value = ValueAt(head, reader.block, reader.addr, Target)
  <2> DEFINE res == Lookup(reader.addr, Target, reader.block)
  <2>1. /\ reader.addr \in Addr /\ Target \in Slot /\ reader.block \in Nat
        /\ reader.got \in Seq(Reply) /\ reader.wanted \in Seq(Slot)
    BY <1>1, RangeFact DEF Reading, ReaderInv, ReaderTypeOK
  <2>2. EndRead(res)
    <3>1. ~ Elsewhere
      <4> DEFINE no == FALSE
                 seen == {StorageAt(b, s, m)' :
                            b \in {reader.addr}, s \in {Target}, m \in {reader.block}}
      <4>1. Elsewhere => \/ reader' = reader
                         \/ reader' = [reader EXCEPT !.steady = no, !.could = {}]
                         \/ reader' = [reader EXCEPT !.could = @ \cup seen]
        BY DEF Elsewhere
      <4> HIDE DEF no, seen
      <4>2. Elsewhere => reader'.at = reader.at BY <1>1, <4>1 DEF ReaderInv, ReaderTypeOK
      <4> QED BY <1>1, <4>2
    <3>2. Seek BY <1>1, <3>1 DEF ReadNext, Begin, ReadStart, ReadHead, Rest, readVars
    <3> QED BY <3>2 DEF Seek
  <2>3. res \in Reply BY <1>1, <2>1, StoreTyped, LookupType
  <2> HIDE DEF res
  <2>4. reader'.got = Append(reader.got, res) \/ reader'.got = reader.got
    BY <1>1, <2>2 DEF EndRead, ReaderInv, ReaderTypeOK
  <2>5. reader'.got = Append(reader.got, res) BY <1>1, <2>1, <2>4
  <2>6. reader'.got[Len(reader'.got)] = res BY <2>1, <2>3, <2>5
  <2>7. reader.block \in Heights
    <3>1. HeadNumber \in Heights BY <1>1, StoreTyped, HeightsFact DEF HeadNumber, TypeOK
    <3> QED BY <1>1, <2>1, <3>1, TreeAssumption DEF Heights
  <2> QED BY <1>1, <2>1, <2>6, <2>7, SeekFinds DEF res
<1>2. StoreInv /\ ReaderInv /\ [ReadNext]_readVars
      => [Found => reader'.got[Len(reader'.got)].value
                     = ValueAt(head, reader.block, reader.addr, Target)]_readVars
  BY <1>1
<1> QED BY ReaderKeeps, <1>2, PTL DEF ReadSpec, SeekIsTrue
=============================================================================
