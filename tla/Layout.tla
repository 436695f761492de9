-------------------------------- MODULE Layout --------------------------------
(***************************************************************************)
(* bal-layout: from the name of a variable to its place in storage and     *)
(* back, and from words to values.  A layout is what solc reports: the     *)
(* variables, and a table of types.  A path is a sequence of member names  *)
(* and keys.  Words and fields are of any width, and a slot is a number    *)
(* modulo Slots; keccak is a function that never collides, far from the    *)
(* slots of the variables.                                                 *)
(***************************************************************************)
EXTENDS Keys

CONSTANTS
  Slots,             \* 2^256
  Keccak(_),         \* where the data of the array or bytes at a slot begins
  KeccakKey(_, _),   \* where the entry of a mapping for a key lives
  MaxNesting,        \* MAX_NESTING
  MaxChunks          \* bytes_data_slots reads at most so many words

ASSUME LayoutAssumption ==
  /\ Slots \in Nat \ {0} /\ MaxNesting \in Nat /\ MaxChunks \in Nat
  /\ WordLen <= Byte

\* A variable or member: [label, slot, offset, type].  A type: [encoding, bytes,
\* label, key, value, base, members], members being <<>> and the ids NoType where
\* the layout has none.  The label is solc's, without the name of the contract,
\* enum or struct.
NoType == "none"
LengthType == "t_uint256"

Encodings == {"inplace", "mapping", "dynamic_array", "bytes"}

\* value_kind(): what a value of one word is.
ValueKind(label) ==
  CASE label = "bool" -> "bool"
    [] label \in {"address", "address payable", "contract"} -> "address"
    [] label \in {"uint256", "uint24", "uint8", "enum"} -> "uint"
    [] label \in {"int256", "int8"} -> "int"
    [] label = "bytes2" -> "bytesN"
    [] OTHER -> "raw"

DivCeil(n, m) == (n + m - 1) \div m
Wrap(n) == n % Slots

Location(slot, offset, bytes, type) ==
  [slot |-> slot, offset |-> offset, size |-> bytes, type |-> type]

Nowhere == Location(0, 0, 0, NoType)

IsField(seg) == seg.tag = "field"
FieldSeg(name) == [tag |-> "field", name |-> name, key |-> 0]
IndexSeg(key) == [tag |-> "index", name |-> "none", key |-> key]

\* parse_key: a negative key is its two's complement.
ParseKey(key) == Wrap(key)

\* Mutant of ElementAt: an element may straddle two slots.
ElementDense(types, base, data, idx) ==
  LET at == idx * types[base].bytes IN [slot |-> Wrap(data + at \div WordLen), offset |-> at % WordLen]

\* Elements smaller than a word share it, and never straddle two.
ElementAt(types, base, data, idx) ==
  LET size == types[base].bytes IN
  IF size >= WordLen
  THEN [slot |-> Wrap(data + idx * DivCeil(size, WordLen)), offset |-> 0]
  ELSE LET perSlot == WordLen \div size IN
       [slot |-> Wrap(data + idx \div perSlot), offset |-> (idx % perSlot) * size]

Labelled(entries, name) == {n \in 1 .. Len(entries) : entries[n].label = name}
First(indices) == CHOOSE n \in indices : \A m \in indices : n <= m

\* One segment further; loc.type = NoType once the path is refused, and loc.size
\* is set once it has reached a length, where the rest of it is not looked at.
Walk(types, loc, seg) ==
  LET t == types[loc.type]
      At(place, type) == Location(place.slot, place.offset, 0, type)
      member == First(Labelled(t.members, seg.name))
  IN
  CASE loc.type = NoType \/ loc.size # 0 -> loc
    [] loc.type # NoType /\ t.encoding = "mapping" /\ ~ IsField(seg)
         /\ types[t.key].encoding # "bytes" ->
         Location(KeccakKey(ParseKey(seg.key), loc.slot), 0, 0, t.value)
    [] loc.type # NoType /\ t.encoding = "dynamic_array" /\ IsField(seg) /\ seg.name = "length" ->
         Location(loc.slot, 0, WordLen, LengthType)
    [] loc.type # NoType /\ t.encoding = "dynamic_array" /\ ~ IsField(seg) /\ t.base # NoType ->
         At(ElementAt(types, t.base, Keccak(loc.slot), ParseKey(seg.key)), t.base)
    [] loc.type # NoType /\ t.encoding = "inplace" /\ ~ IsField(seg) /\ t.base # NoType ->
         At(ElementAt(types, t.base, loc.slot, ParseKey(seg.key)), t.base)
    [] loc.type # NoType /\ t.encoding = "inplace" /\ IsField(seg)
         /\ Labelled(t.members, seg.name) # {} ->
         Location(Wrap(loc.slot + t.members[member].slot), t.members[member].offset, 0,
                  t.members[member].type)
    [] OTHER -> Nowhere

\* locate(): Nowhere stands for its errors.
Locate(layout, path) ==
  LET top == Labelled(layout.storage, path[1].name)
      var == layout.storage[First(top)]
      end == FoldLeft(LAMBDA loc, seg : Walk(layout.types, loc, seg),
                      Location(var.slot, var.offset, 0, var.type), Tail(path))
  IN  IF ~ IsField(path[1]) \/ top = {} \/ end.type = NoType THEN Nowhere
      ELSE [end EXCEPT !.size = layout.types[end.type].bytes]

\* kind_of(): what the path can be continued with, or the kind of its value.
KindOf(layout, path) ==
  LET t == layout.types[Locate(layout, path).type] IN
  CASE t.encoding = "mapping" -> "mapping"
    [] t.encoding = "dynamic_array" -> "array"
    [] t.encoding = "inplace" /\ t.members # <<>> -> "struct"
    [] t.encoding = "inplace" /\ t.members = <<>> /\ t.base # NoType -> "fixed array"
    [] OTHER -> IF t.encoding = "bytes" THEN t.label ELSE ValueKind(t.label)

-----------------------------------------------------------------------------
(* Which variables live in a slot *)

\* The two depend on each other: an element of an array may be a struct or
\* another array.
RECURSIVE DescribeIn(_, _, _, _, _, _, _)

\* describe_elements: those of an array at data that live in target.
DescribeElements(types, path, data, base, target, probe) ==
  LET size == types[base].bytes
      perElem == DivCeil(size, WordLen)
      perSlot == WordLen \div size
      i == (target - data) \div perElem
      first == (target - data) * perSlot
  IN  IF size >= WordLen
      THEN DescribeIn(types, Append(path, IndexSeg(i)), data + i * perElem, 0, base, target, probe)
      ELSE {<<Append(path, IndexSeg(n)), Location(target, (n % perSlot) * size, size, base)>> :
              n \in first .. first + perSlot - 1}

DescribeIn(types, path, at, offset, type, target, probe) ==
  LET t == types[type]
      words == DivCeil(t.bytes, WordLen)
      data == Keccak(at)
  IN
  CASE Len(path) - 1 > MaxNesting -> {}
    [] Len(path) - 1 <= MaxNesting /\ t.encoding = "inplace" /\ t.members # <<>> ->
         UNION {DescribeIn(types, Append(path, FieldSeg(t.members[n].label)),
                           at + t.members[n].slot, t.members[n].offset, t.members[n].type,
                           target, probe) : n \in 1 .. Len(t.members)}
    [] Len(path) - 1 <= MaxNesting /\ t.encoding = "inplace" /\ t.members = <<>> /\ t.base # NoType ->
         IF target \in at .. at + words - 1
         THEN DescribeElements(types, path, at, t.base, target, probe) ELSE {}
    [] Len(path) - 1 <= MaxNesting /\ t.encoding = "dynamic_array" ->
         CASE target = at -> {<<Append(path, FieldSeg("length")),
                                Location(at, 0, types[LengthType].bytes, LengthType)>>}
           [] target # at /\ target \in data .. data + probe - 1 /\ t.base # NoType ->
                DescribeElements(types, path, data, t.base, target, probe)
           [] OTHER -> {}
    [] Len(path) - 1 <= MaxNesting /\ (t.encoding = "bytes" \/ (t.encoding = "inplace"
         /\ t.members = <<>> /\ t.base = NoType)) ->
         IF target \in at .. at + words - 1
         THEN {<<path, Location(target, offset, t.bytes, type)>>} ELSE {}
    [] OTHER -> {}

\* describe_mappings_in: entries under the candidate keys.
RECURSIVE DescribeMappings(_, _, _, _, _, _, _)
DescribeMappings(types, path, at, type, target, probe, keys) ==
  LET t == types[type]
      v == types[t.value]
      Entry(k) == Append(path, IndexSeg(k))
      Under(k) == DescribeMappings(types, Entry(k), KeccakKey(k, at), t.value, target, probe, keys)
  IN
  CASE t.encoding = "inplace" /\ t.members # <<>> ->
         UNION {DescribeMappings(types, Append(path, FieldSeg(t.members[n].label)),
                                 at + t.members[n].slot, t.members[n].type, target, probe, keys) :
                  n \in 1 .. Len(t.members)}
    [] t.encoding = "mapping" ->
         CASE v.encoding = "mapping" -> UNION {Under(k) : k \in keys}
           [] v.encoding = "bytes" \/ (v.encoding = "inplace" /\ v.members = <<>> /\ v.base = NoType) ->
                {<<Entry(k), Location(target, 0, v.bytes, t.value)>> :
                   k \in {x \in keys : KeccakKey(x, at) = target}}
           [] OTHER ->
                UNION {DescribeIn(types, Entry(k), KeccakKey(k, at), 0, t.value, target, probe)
                         \cup Under(k) : k \in keys}
    [] OTHER -> {}

\* describe_slot_with_keys: pairs of a path and its location.
DescribeSlot(layout, target, probe, keys) ==
  UNION {LET e == layout.storage[n]
             path == <<FieldSeg(e.label)>>
         IN  DescribeIn(layout.types, path, e.slot, e.offset, e.type, target, probe)
             \cup DescribeMappings(layout.types, path, e.slot, e.type, target, probe, keys) :
           n \in 1 .. Len(layout.storage)}

\* mount(): the variables of another layout, as a struct at a slot of its own.
Mount(layout, prefix, other, base) ==
  LET type == "t_struct(namespace)"
      ends == {other.storage[n].slot + DivCeil(other.types[other.storage[n].type].bytes, WordLen) :
                 n \in 1 .. Len(other.storage)}
      words == CHOOSE w \in ends \cup {0} : \A x \in ends : x <= w
      struct == [encoding |-> "inplace", bytes |-> words * WordLen, label |-> "struct",
                 key |-> NoType, value |-> NoType, base |-> NoType, members |-> other.storage]
  IN  IF Labelled(layout.storage, prefix) # {} THEN layout
      ELSE [storage |-> Append(layout.storage,
              [label |-> prefix, slot |-> base, offset |-> 0, type |-> type]),
            types |-> [t \in DOMAIN layout.types \cup DOMAIN other.types \cup {type} |->
               CASE t = type -> struct
                 [] t # type /\ t \in DOMAIN layout.types -> layout.types[t]
                 [] OTHER -> other.types[t]]]

-----------------------------------------------------------------------------
(* Words to values *)

\* Mutant of FieldBytes: the offset counts from the high end.
FieldBytesHigh(loc, word) == SubSeq(word, loc.offset + 1, loc.offset + loc.size)

\* The bytes of a field: offset counts from the low end of the word.
FieldBytes(loc, word) ==
  SubSeq(word, WordLen - loc.offset - loc.size + 1, WordLen - loc.offset)

\* decode(): a value of one word.  An integer is read big-endian, an int with
\* its sign; a bytesN is its bytes.
Decode(types, loc, word) ==
  LET bytes == FieldBytes(loc, word)
      n == FromBe(bytes)
      kind == IF types[loc.type].encoding # "inplace" THEN "raw" ELSE ValueKind(types[loc.type].label)
  IN  CASE kind = "bool" -> <<"bool", IF n # 0 THEN 1 ELSE 0>>
        [] kind = "address" -> <<"address", n % (Byte + 1) ^ AddrLen>>
        [] kind = "uint" -> <<"uint", n>>
        [] kind = "int" -> <<"int", IF bytes[1] > Byte \div 2 THEN n - (Byte + 1) ^ Len(bytes) ELSE n>>
        [] kind = "bytesN" -> <<"bytesN", bytes>>
        [] OTHER -> <<"raw", FromBe(word)>>

IsLong(word) == word[WordLen] % 2 = 1

\* bytes_data_slots: the slots a long value has its data in.
BytesDataSlots(loc, word) ==
  LET len == (FromBe(word) - 1) \div 2
      needed == DivCeil(len, WordLen)
      words == IF needed < MaxChunks THEN needed ELSE MaxChunks
  IN  IF ~ IsLong(word) THEN <<>>
      ELSE [n \in 1 .. words |-> Wrap(Keccak(loc.slot) + n - 1)]

\* decode_bytes: the content of a bytes or string, from its word and its data.
DecodeBytes(word, chunks) ==
  LET len == (FromBe(word) - 1) \div 2
      data == FlattenSeq(chunks)
      inPlace == word[WordLen] \div 2
  IN  IF ~ IsLong(word)
      THEN SubSeq(word, 1, IF inPlace < WordLen THEN inPlace ELSE WordLen - 1)
      ELSE SubSeq(data, 1, IF len < Len(data) THEN len ELSE Len(data))
=============================================================================
