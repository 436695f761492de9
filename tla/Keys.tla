--------------------------------- MODULE Keys ---------------------------------
(***************************************************************************)
(* The byte layout of the archive's tables (keys.rs).  Module Archive      *)
(* reads a table as records in the order of (addr, slot, block, index) and *)
(* scans the records of one slot, or of one address; the store is an       *)
(* ordered map of byte strings.  The definitions here are the code's, over *)
(* bytes of any size and fields of any width.                              *)
(***************************************************************************)
EXTENDS Integers, Sequences, SequencesExt

CONSTANTS
  Byte,                                   \* the largest byte, 0xFF
  AddrLen, WordLen, BlockLen, IndexLen    \* bytes of a field: 20, 32, 8, 4

ASSUME KeysAssumption ==
  /\ {Byte, AddrLen, BlockLen, IndexLen} \subseteq Nat \ {0}
  /\ WordLen \in Nat \ {0, 1}

None == <<-1>>    \* no byte string

\* to_be_bytes: rest[i] is what the last i bytes leave of n.
Be(n, len) ==
  LET rest[i \in 0 .. len] == IF i = 0 THEN n ELSE rest[i - 1] \div (Byte + 1)
  IN  [i \in 1 .. len |-> rest[len - i] % (Byte + 1)]

\* from_be_bytes: val[i] is the number of the first i bytes.
FromBe(bytes) ==
  LET val[i \in 0 .. Len(bytes)] ==
        IF i = 0 THEN 0 ELSE val[i - 1] * (Byte + 1) + bytes[i]
  IN  val[Len(bytes)]

\* Mutant of SlotKey: the block is written in the machine's order.
SlotKeyNative(a, s, b, i) ==
  Be(a, AddrLen) \o Be(s, WordLen) \o Reverse(Be(b, BlockLen)) \o Be(i, IndexLen)

SlotKey(a, s, b, i) == Be(a, AddrLen) \o Be(s, WordLen) \o Be(b, BlockLen) \o Be(i, IndexLen)

SlotPrefix(a, s) == Be(a, AddrLen) \o Be(s, WordLen)

ParseSlotKey(k) ==
  LET Field(from, len) == FromBe(SubSeq(k, from + 1, from + len)) IN
  IF Len(k) # AddrLen + WordLen + BlockLen + IndexLen THEN None
  ELSE <<Field(0, AddrLen), Field(AddrLen, WordLen), Field(AddrLen + WordLen, BlockLen),
         Field(AddrLen + WordLen + BlockLen, IndexLen)>>

BlockIdxKey(a, b) == Be(a, AddrLen) \o Be(b, BlockLen)

ParseBlockIdxKey(k) ==
  IF Len(k) # AddrLen + BlockLen THEN None
  ELSE <<FromBe(SubSeq(k, 1, AddrLen)), FromBe(SubSeq(k, AddrLen + 1, AddrLen + BlockLen))>>

\* The value of the block index: the slots one after the other, a word each.
EncodeSlots(slots) ==
  [n \in 1 .. Len(slots) * WordLen |->
     Be(slots[((n - 1) \div WordLen) + 1], WordLen)[((n - 1) % WordLen) + 1]]

DecodeSlots(v) ==
  IF Len(v) % WordLen # 0 THEN None
  ELSE [n \in 1 .. Len(v) \div WordLen |-> FromBe(SubSeq(v, (n - 1) * WordLen + 1, n * WordLen))]

\* Provenance: four tags, the other bytes are unknown.
Tags == 0 .. 3
Provenance(tag) == tag \in Tags

\* The tag and the value without its leading zeros.
EncodeValue(tag, v) ==
  LET word == Be(v, WordLen)
      first == CHOOSE n \in 1 .. WordLen + 1 :
                 /\ n <= WordLen => word[n] # 0
                 /\ \A m \in 1 .. n - 1 : word[m] = 0
  IN  <<tag>> \o SubSeq(word, first, WordLen)

\* Mutant of DecodeValue: a short body is taken for the high bytes.
DecodeValueLeft(v) ==
  IF v = <<>> \/ Len(v) > WordLen + 1 \/ ~ Provenance(v[1]) THEN None
  ELSE <<v[1], FromBe(Tail(v) \o [n \in 1 .. WordLen - Len(Tail(v)) |-> 0])>>

\* Both the minimal form and the whole word older files hold.
DecodeValue(v) ==
  IF v = <<>> \/ Len(v) > WordLen + 1 \/ ~ Provenance(v[1]) THEN None
  ELSE <<v[1], FromBe(Tail(v))>>

\* BootState: the tag and the block of the first change.
BootTags == <<"done", "pending", "lost">>
EncodeBoot(tag, seen) ==
  LET n == CHOOSE m \in 1 .. 3 : BootTags[m] = tag
  IN  <<n - 1>> \o Be(IF tag = "done" THEN 0 ELSE seen, BlockLen)

DecodeBoot(v) ==
  CASE Len(v) # BlockLen + 1 -> None
    [] Len(v) = BlockLen + 1 /\ v[1] = 0 -> <<"done", 0>>
    [] Len(v) = BlockLen + 1 /\ v[1] \in {1, 2} -> <<BootTags[v[1] + 1], FromBe(Tail(v))>>
    [] OTHER -> None

-----------------------------------------------------------------------------
(* Ranges of keys *)

KeyLess(j, k) ==
  \/ IsStrictPrefix(j, k)
  \/ \E n \in 1 .. Len(j) :
       n <= Len(k) /\ j[n] < k[n] /\ \A m \in 1 .. n - 1 : j[m] = k[m]

\* The first byte string after all those with the prefix, if there is one.
PrefixEnd(prefix) ==
  LET below == {n \in 1 .. Len(prefix) : prefix[n] # Byte}
      last == CHOOSE n \in below : \A m \in below : m <= n
  IN  IF below = {} THEN None
      ELSE [SubSeq(prefix, 1, last) EXCEPT ![last] = @ + 1]

\* bounds(): is k among the keys collect_prefix_keys scans?
InPrefixRange(prefix, k) ==
  /\ ~ KeyLess(k, prefix)
  /\ PrefixEnd(prefix) = None \/ KeyLess(k, PrefixEnd(prefix))

\* u32::MAX, the index behind every one of a block.
LastIndex == FromBe([n \in 1 .. IndexLen |-> Byte])

\* The range a read of storage_at seeks backward in.
InSeekRange(a, s, b, k) ==
  ~ KeyLess(k, SlotPrefix(a, s)) /\ ~ KeyLess(SlotKey(a, s, b, LastIndex), k)
=============================================================================
