----------------------------- MODULE MCFunctions -----------------------------
(***************************************************************************)
(* The functions between the archive and the outside, over small inputs:   *)
(* what nodes answer, proofs, access lists, batches of requests, keys and  *)
(* values, files of older layouts, and the names and values of variables.  *)
(* Each initial state is one input; the search for the fork and the        *)
(* sidecar of the server are the two that take steps.  Nodes, proofs, lists *)
(* and files are held to what module Questions says; the reference         *)
(* definitions of the others are in this module.                           *)
(***************************************************************************)
EXTENDS Questions, ForkSearch, Sidecar, Abi, MCChain

fnVars == <<input, searchVars, sidecarVars>>

SeqsUpTo(set, n) == UNION {[1 .. m -> set] : m \in 0 .. n}

-----------------------------------------------------------------------------
(* Nodes: attempts at the block of number 2, and proofs *)

HeaderAttempts == Attempts({"unreachable", "forged", NoHash, "a2", "b2", "a3"})
BalAttempts == Attempts({"unreachable", "error", NoHash, "a2", "b2"})

Blocks ==
  {[kind |-> "block", number |-> 2, primary |-> [header |-> h, bal |-> b], backup |-> o] :
     h \in HeaderAttempts, b \in BalAttempts,
     o \in {{}} \cup {{[header |-> [n \in 1 .. Retries |-> g], bal |-> c]} :
                        g \in {"a2", "b2"}, c \in BalAttempts}}

Proofs ==
  LET Slots2 == {{}} \cup
        UNION {{{[key |-> "s", value |-> v, intact |-> i]}, {[key |-> "t", value |-> v, intact |-> i]}} :
                 v \in {0, 1, 4}, i \in BOOLEAN}
        \cup {{[key |-> "s", value |-> v, intact |-> TRUE], [key |-> "t", value |-> w, intact |-> i]} :
                 v \in {0, 1, 3, 4}, w \in {0, 1, 3}, i \in BOOLEAN}
  IN  {[kind |-> "proof", via |-> v, at |-> h, addr |-> a, requested |-> r,
        proof |-> [blank |-> b, root |-> StorageRoot(g, c), intact |-> i, slots |-> p]] :
         h \in {"g0", "a1", "a2", "b2"}, g \in {"g0", "a2", "b2"}, a \in Addr, c \in Addr,
         v \in {"primary", "backup"}, r \in {{"s"}, {"s", "t"}},
         b \in BOOLEAN, i \in BOOLEAN, p \in Slots2}

-----------------------------------------------------------------------------
(* Batches: reads the archive can answer, or not, of a number or of a tag *)

BatchItem ==
  {[id |-> i, method |-> k[1], block |-> k[2], known |-> k[3]] :
     i \in Id \cup {NoId},
     k \in {<<"read", "number", TRUE>>, <<"read", "number", FALSE>>, <<"read", "latest", TRUE>>,
            <<"status", "null", FALSE>>, <<"other", "null", FALSE>>}}

\* The answers in every order, or without ids.
NodeAnswers(batch) ==
  LET asked == SetToSeq(Asked(batch))
      sent == Relayed(batch)
  IN  {[n \in 1 .. Len(asked) |-> Answer(batch[asked[p[n]]].id, asked[p[n]], "node")] :
         p \in {q \in [1 .. Len(asked) -> 1 .. Len(asked)] :
                  \A n, m \in 1 .. Len(asked) : q[n] = q[m] => n = m}}
      \cup {[n \in 1 .. Len(sent) |-> Answer(NoId, sent[n], "node")]}

Batches ==
  UNION {{[kind |-> "batch", batch |-> b, reply |-> [http |-> r, array |-> TRUE, answers |-> a]] :
            r \in {"json", "status", "garbled"}, a \in NodeAnswers(b)} :
           b \in {c \in SeqsUpTo(BatchItem, 3) : DistinctIds(c)}}

-----------------------------------------------------------------------------
(* Access lists *)

ChangeLists ==
  {[slot |-> s, at |-> w] :
     s \in 0 .. 2, w \in {<<>>, <<1>>, <<1, 2>>, <<2, 1>>, <<1, 1>>, <<1, MaxU32 + 1>>}}

AccountOf(address, changes, reads, others) ==
  [address |-> address, changes |-> changes, reads |-> reads,
   balances |-> others, nonces |-> <<>>, codes |-> others]

Lists ==
  {[kind |-> "list", list |-> <<AccountOf(1, c, r, o)>>] :
     c \in SeqsUpTo(ChangeLists, 2), r \in SeqsUpTo(0 .. 2, 2),
     o \in {<<>>, <<1, 2>>, <<2, 2>>, <<MaxU32 + 1>>}}
  \cup {[kind |-> "list", list |-> [n \in 1 .. Len(a) |-> AccountOf(a[n], <<[slot |-> 0, at |-> w]>>, <<1>>, <<>>)]] :
          a \in SeqsUpTo(1 .. 3, 3), w \in {<<1>>, <<>>}}

-----------------------------------------------------------------------------
(* Keys and values.  A word goes up to 65535, a block up to 255. *)

Places ==
  {<<a, s, b, i>> : a \in {0, Byte}, s \in {0, 1, 255, 65535}, b \in {0, 1, 15, 16, 255}, i \in {0, Byte}}

KeyPairs == {[kind |-> "keys", j |-> j, k |-> k] : j \in Places, k \in Places}

Stored ==
  {[kind |-> "stored", tag |-> t, value |-> v, slots |-> l, seen |-> b] :
     t \in 0 .. 4, v \in {0, 1, 15, 16, 255, 256, 4095, 4096, 65535},
     l \in SeqsUpTo({0, 256, 65535}, 2), b \in {0, 16, 255}}

-----------------------------------------------------------------------------
(* Files of every version: what they know, and how their version keeps it. *)

Boots ==
  LET states == {[tag |-> t, seen |-> b] : t \in {"done", "pending", "lost"}, b \in {1, 2}}
  IN  UNION {[ks -> states] : ks \in SUBSET {<<"x", "s">>, <<"x", "t">>}}

Files ==
  {FileOf(h, f, v, d, b) :
     h \in SUBSET {<<"x", 1, "s">>, <<"x", 1, "t">>, <<"x", 2, "s">>},
     f \in Details, v \in 1 .. SchemaVersion + 1, d \in Details, b \in Boots}
  \cup {NewFile("full")}

\* The theorems about these questions are about all of them.
ASSUME QuestionsAssumption ==
  /\ Blocks \subseteq BlockQuestions /\ Proofs \subseteq ProofQuestions /\ Lists \subseteq ListQuestions
  /\ Batches \subseteq BatchQuestions /\ KeyPairs \subseteq KeyQuestions /\ Stored \subseteq StoredQuestions

-----------------------------------------------------------------------------
(* Variables: a contract with every shape of variable, where the Solidity  *)
(* documentation puts them when a word has four bytes of four bits.        *)

MCKeccak(s) == 100 * s + 50
MCKeccakKey(k, s) == 100 * s + 60 + 10 * k

TypeOf(encoding, bytes, label) ==
  [encoding |-> encoding, bytes |-> bytes, label |-> label, key |-> NoType,
   value |-> NoType, base |-> NoType, members |-> <<>>]
Plain(bytes, label) == TypeOf("inplace", bytes, label)
MappingOf(key, value) == [TypeOf("mapping", 4, "mapping") EXCEPT !.key = key, !.value = value]
ArrayOf(base) == [TypeOf("dynamic_array", 4, "array") EXCEPT !.base = base]
FixedOf(bytes, base) == [Plain(bytes, "array") EXCEPT !.base = base]
StructOf(bytes, members) == [Plain(bytes, "struct") EXCEPT !.members = members]
Var(label, slot, offset, type) == [label |-> label, slot |-> slot, offset |-> offset, type |-> type]

MCTypes == [
  t_uint256 |-> Plain(4, "uint256"), t_uint24 |-> Plain(3, "uint24"), t_uint8 |-> Plain(1, "uint8"),
  t_int8 |-> Plain(1, "int8"), t_bool |-> Plain(1, "bool"), t_enum |-> Plain(1, "enum"),
  t_address |-> Plain(1, "address"), t_contract |-> Plain(1, "contract"), t_bytes2 |-> Plain(2, "bytes2"),
  t_string |-> TypeOf("bytes", 4, "string"),
  t_small |-> FixedOf(8, "t_uint8"), t_wide |-> FixedOf(8, "t_uint24"),
  t_pair |-> FixedOf(4, "t_uint8"), t_grid |-> FixedOf(8, "t_pair"),
  t_bal |-> MappingOf("t_address", "t_uint256"), t_flags |-> MappingOf("t_address", "t_uint8"),
  t_list |-> ArrayOf("t_uint8"), t_rows |-> ArrayOf("t_row"),
  t_row |-> StructOf(8, <<Var("a", 0, 0, "t_uint8"), Var("b", 1, 0, "t_uint256")>>),
  t_info |-> StructOf(12, <<Var("tag", 0, 0, "t_bytes2"), Var("who", 0, 2, "t_contract"),
                            Var("text", 1, 0, "t_string"), Var("m", 2, 0, "t_flags")>>),
  t_inner |-> MappingOf("t_uint8", "t_row"), t_deep |-> MappingOf("t_address", "t_inner")]

MCVariables ==
  <<Var("owner", 0, 0, "t_address"), Var("mode", 0, 1, "t_enum"), Var("gap", 0, 2, "t_bytes2"),
    Var("level", 1, 0, "t_int8"), Var("on", 1, 1, "t_bool"), Var("total", 2, 0, "t_uint256"),
    Var("small", 3, 0, "t_small"), Var("wide", 5, 0, "t_wide"), Var("bal", 7, 0, "t_bal"),
    Var("list", 8, 0, "t_list"), Var("rows", 9, 0, "t_rows"), Var("note", 10, 0, "t_string"),
    Var("info", 11, 0, "t_info"), Var("deep", 14, 0, "t_deep"), Var("grid", 15, 0, "t_grid")>>

\* A namespace of another layout, mounted twice.
Namespace ==
  [storage |-> <<Var("x", 0, 0, "t_uint8"), Var("y", 1, 0, "t_bal")>>,
   types |-> [t \in {"t_uint8", "t_address", "t_uint256", "t_bal"} |-> MCTypes[t]]]
MCLayout ==
  LET once == Mount([storage |-> MCVariables, types |-> MCTypes], "ns", Namespace, 40)
  IN  Mount(once, "ns", Namespace, 44)

\* The values of the contract: the path, and where Solidity keeps it.
F(name) == FieldSeg(name)
I(key) == IndexSeg(key)
Leaf(path, slot, offset, type) == [path |-> path, slot |-> slot, offset |-> offset, type |-> type]
Leaves ==
  LET data8 == MCKeccak(8)
      data9 == MCKeccak(9)
      row == MCKeccakKey(2, MCKeccakKey(1, 14))
  IN
  <<Leaf(<<F("owner")>>, 0, 0, "t_address"), Leaf(<<F("mode")>>, 0, 1, "t_enum"),
    Leaf(<<F("gap")>>, 0, 2, "t_bytes2"), Leaf(<<F("level")>>, 1, 0, "t_int8"),
    Leaf(<<F("on")>>, 1, 1, "t_bool"), Leaf(<<F("total")>>, 2, 0, "t_uint256"),
    Leaf(<<F("small"), I(0)>>, 3, 0, "t_uint8"), Leaf(<<F("small"), I(3)>>, 3, 3, "t_uint8"),
    Leaf(<<F("small"), I(5)>>, 4, 1, "t_uint8"), Leaf(<<F("wide"), I(0)>>, 5, 0, "t_uint24"),
    Leaf(<<F("wide"), I(1)>>, 6, 0, "t_uint24"), Leaf(<<F("bal"), I(1)>>, MCKeccakKey(1, 7), 0, "t_uint256"),
    Leaf(<<F("bal"), I(2)>>, MCKeccakKey(2, 7), 0, "t_uint256"), Leaf(<<F("list"), F("length")>>, 8, 0, "t_uint256"),
    Leaf(<<F("list"), I(0)>>, data8, 0, "t_uint8"), Leaf(<<F("list"), I(5)>>, data8 + 1, 1, "t_uint8"),
    Leaf(<<F("rows"), F("length")>>, 9, 0, "t_uint256"), Leaf(<<F("rows"), I(1), F("a")>>, data9 + 2, 0, "t_uint8"),
    Leaf(<<F("rows"), I(1), F("b")>>, data9 + 3, 0, "t_uint256"), Leaf(<<F("note")>>, 10, 0, "t_string"),
    Leaf(<<F("info"), F("tag")>>, 11, 0, "t_bytes2"), Leaf(<<F("info"), F("who")>>, 11, 2, "t_contract"),
    Leaf(<<F("info"), F("text")>>, 12, 0, "t_string"),
    Leaf(<<F("info"), F("m"), I(2)>>, MCKeccakKey(2, 13), 0, "t_uint8"),
    Leaf(<<F("deep"), I(1), I(2), F("a")>>, row, 0, "t_uint8"),
    Leaf(<<F("deep"), I(1), I(2), F("b")>>, row + 1, 0, "t_uint256"),
    Leaf(<<F("grid"), I(0), I(1)>>, 15, 1, "t_uint8"), Leaf(<<F("grid"), I(1), I(0)>>, 16, 0, "t_uint8"),
    Leaf(<<F("ns"), F("x")>>, 40, 0, "t_uint8"), Leaf(<<F("ns"), F("y"), I(1)>>, MCKeccakKey(1, 41), 0, "t_uint256")>>

LeafPairs == {[kind |-> "names", n |-> n, m |-> m] : n \in DOMAIN Leaves, m \in DOMAIN Leaves}
Size(leaf) == MCTypes[leaf.type].bytes

\* bal-layout's locate, kind_of and describe_slot: a value is found where Solidity
\* keeps it, no two of them share a byte, and none straddles a word; the slot is
\* named after it, and every name a slot is given leads back to where it was found.
\* A path can be continued exactly where it names something that holds others.
LocateNamesSlots ==
  Is("names") =>
    LET p == Leaves[input.n]
        q == Leaves[input.m]
        loc == Locate(MCLayout, p.path)
        other == Locate(MCLayout, q.path)
        names == DescribeSlot(MCLayout, p.slot, 4, {1, 2})
        Holds(path) == KindOf(MCLayout, path) \in {"mapping", "array", "struct", "fixed array"}
    IN  /\ loc = Location(p.slot, p.offset, Size(p), p.type)
        /\ loc.offset + loc.size <= WordLen
        /\ input.n # input.m => \/ loc.slot # other.slot
                                \/ loc.offset + loc.size <= other.offset
                                \/ other.offset + other.size <= loc.offset
        /\ <<p.path, loc>> \in names
        /\ \A d \in names : Locate(MCLayout, d[1]) = d[2]
        /\ ~ Holds(p.path)
        /\ \A k \in 1 .. Len(p.path) - 1 : Holds(SubSeq(p.path, 1, k))

\* What the variables are set to, in one way for each k: the number a field holds,
\* and what a string does.
Fills == 0 .. 3
Raw(n, k) ==
  LET all == (Byte + 1) ^ Size(Leaves[n]) IN
  IF Leaves[n].type = "t_bool" THEN k % 2
  ELSE IF k = 3 THEN all - 1 ELSE (n * 7 + k * 1237) % all
Content(n, k) == [c \in 1 .. <<0, 3, 4, 11>>[k + 1] |-> (c + n) % (Byte + 1)]

Holding(n, k) ==
  LET raw == Raw(n, k)
      label == MCTypes[Leaves[n].type].label
  IN  CASE label = "string" -> <<"bytes", Content(n, k)>>
        [] label = "int8" -> <<"int", IF raw > Byte \div 2 THEN raw - (Byte + 1) ELSE raw>>
        [] label = "bytes2" -> <<"bytesN", <<raw \div (Byte + 1), raw % (Byte + 1)>>>>
        [] label = "bool" -> <<"bool", raw>>
        [] label \in {"address", "contract"} -> <<"address", raw>>
        [] OTHER -> <<"uint", raw>>

\* What Solidity stores for a string: up to three bytes beside twice the length, or
\* twice the length and one, with the content in words of their own.
StringWord(content) ==
  IF Len(content) < WordLen
  THEN content \o [c \in 1 .. WordLen - 1 - Len(content) |-> 0] \o <<2 * Len(content)>>
  ELSE Be(2 * Len(content) + 1, WordLen)
StringData(content) ==
  IF Len(content) < WordLen THEN <<>>
  ELSE [w \in 1 .. DivCeil(Len(content), WordLen) |->
          [b \in 1 .. WordLen |-> LET c == WordLen * (w - 1) + b
                                  IN  IF c <= Len(content) THEN content[c] ELSE 0]]

IsString(n) == Leaves[n].type = "t_string"
Memory(k) ==
  LET used == {Leaves[n].slot : n \in DOMAIN Leaves}
      Fields(s) == {n \in DOMAIN Leaves : Leaves[n].slot = s}
      Packed(s) == FoldSet(LAMBDA n, sum : sum + Raw(n, k) * (Byte + 1) ^ Leaves[n].offset, 0, Fields(s))
      strings == {n \in DOMAIN Leaves : IsString(n)}
      Data(n) == StringData(Content(n, k))
  IN  [s \in used |-> LET n == CHOOSE m \in Fields(s) : TRUE
                      IN  IF IsString(n) THEN StringWord(Content(n, k)) ELSE Be(Packed(s), WordLen)]
      @@ [s \in UNION {{MCKeccak(Leaves[n].slot) + w : w \in 0 .. Len(Data(n)) - 1} : n \in strings} |->
            LET n == CHOOSE m \in strings : s - MCKeccak(Leaves[m].slot) \in 0 .. Len(Data(m)) - 1
            IN  Data(n)[s - MCKeccak(Leaves[n].slot) + 1]]

Fields == {[kind |-> "field", n |-> n, fill |-> k] : n \in DOMAIN Leaves, k \in Fills}

\* decode, bytes_data_slots and decode_bytes: what a program stored in a variable is
\* what is read, whatever shares its word, negative numbers and strings that go on
\* in words of their own included.
VariablesReadBack ==
  Is("field") =>
    ReadValue(MCLayout, Locate(MCLayout, Leaves[input.n].path), Memory(input.fill))
      = Holding(input.n, input.fill)

-----------------------------------------------------------------------------
(* Calls: the ABI of that contract, with functions that are no getters, and *)
(* calls with the values they return.                                       *)

View(name, inputs, outputs) ==
  [name |-> name, function |-> TRUE, view |-> TRUE, inputs |-> inputs, outputs |-> outputs]
MCAbi ==
  <<View("owner", <<>>, <<"address">>), View("mode", <<>>, <<"uint8">>), View("gap", <<>>, <<"bytes2">>),
    View("level", <<>>, <<"int8">>), View("total", <<>>, <<"uint256">>), View("small", <<"uint256">>, <<"uint8">>),
    View("wide", <<"uint256">>, <<"uint24">>), View("bal", <<"address">>, <<"uint256">>),
    View("list", <<"uint256">>, <<"uint8">>), View("rows", <<"uint256">>, <<"uint8", "uint256">>),
    View("note", <<>>, <<"string">>), View("info", <<>>, <<"bytes2", "address", "string">>),
    View("deep", <<"address", "uint8">>, <<"uint8", "uint256">>),
    View("grid", <<"uint256", "uint256">>, <<"uint8">>),
    View("on", <<>>, <<"uint8">>), View("twice", <<"uint256">>, <<"uint256">>),
    View("find", <<"string">>, <<"uint256">>),
    [View("bump", <<>>, <<"uint256">>) EXCEPT !.view = FALSE]>>

\* at: the fields that are returned, if the function is a getter; reverts: it is one
\* of an array, and the index is beyond its end.
CallOf(name, inputs, args, paths, reverts) ==
  [kind |-> "call", name |-> name, inputs |-> inputs, args |-> args, reverts |-> reverts,
   leaves |-> [p \in 1 .. Len(paths) |-> CHOOSE n \in DOMAIN Leaves : Leaves[n].path = paths[p]]]
Getters ==
  {CallOf(v, <<>>, <<>>, <<<<F(v)>>>>, FALSE) : v \in {"owner", "mode", "gap", "level", "total", "note"}}
  \cup {CallOf(v, <<"uint256">>, <<0>>, <<<<F(v), I(0)>>>>, FALSE) : v \in {"small", "wide", "list"}}
  \cup {CallOf("small", <<"uint256">>, <<5>>, <<<<F("small"), I(5)>>>>, FALSE),
        CallOf("wide", <<"uint256">>, <<1>>, <<<<F("wide"), I(1)>>>>, FALSE),
        CallOf("bal", <<"address">>, <<2>>, <<<<F("bal"), I(2)>>>>, FALSE),
        CallOf("rows", <<"uint256">>, <<1>>,
               <<<<F("rows"), I(1), F("a")>>, <<F("rows"), I(1), F("b")>>>>, FALSE),
        CallOf("info", <<>>, <<>>,
               <<<<F("info"), F("tag")>>, <<F("info"), F("who")>>, <<F("info"), F("text")>>>>, FALSE),
        CallOf("deep", <<"address", "uint8">>, <<1, 2>>,
               <<<<F("deep"), I(1), I(2), F("a")>>, <<F("deep"), I(1), I(2), F("b")>>>>, FALSE),
        CallOf("grid", <<"uint256", "uint256">>, <<1, 0>>, <<<<F("grid"), I(1), I(0)>>>>, FALSE)}
NoGetters ==
  {CallOf("on", <<>>, <<>>, <<>>, FALSE), CallOf("twice", <<"uint256">>, <<1>>, <<>>, FALSE),
   CallOf("find", <<"string">>, <<1>>, <<>>, FALSE), CallOf("bump", <<>>, <<>>, <<>>, FALSE),
   CallOf("total", <<"uint256">>, <<1>>, <<>>, FALSE), CallOf("total", <<>>, <<1>>, <<>>, FALSE)}
OutOfBounds ==
  {CallOf("small", <<"uint256">>, <<8>>, <<>>, TRUE), CallOf("wide", <<"uint256">>, <<2>>, <<>>, TRUE)}

Calls == {c @@ [fill |-> k] : c \in Getters \cup NoGetters \cup OutOfBounds, k \in Fills}

TheCall == ResolveCall(MCLayout, FromAbi(MCAbi), <<input.name, input.inputs>>, input.args)

\* How a caller of the contract reads the n-th value of the return data.
AbiRead(data, n, type) ==
  LET Word(start) == FromBe(SubSeq(data, start + 1, start + WordLen))
      start == WordLen * (n - 1)
      word == Word(start)
  IN  CASE type = "string" -> <<"bytes", SubSeq(data, word + WordLen + 1, word + WordLen + Word(word))>>
        [] type = "int8" -> <<"int", IF word >= (Byte + 1) ^ WordLen \div 2
                                     THEN word - (Byte + 1) ^ WordLen ELSE word>>
        [] type = "bytes2" -> <<"bytesN", SubSeq(data, start + 1, start + 2)>>
        [] type = "address" -> <<"address", word>>
        [] OTHER -> <<"uint", word>>

\* abi.rs:1-14: a call of a getter returns the data the contract would, which a caller
\* decodes to the values of the variable, several and dynamic ones included; a call
\* of anything else is not answered from the archive.
ReturnsReadBack ==
  Is("call") /\ ~ input.reverts =>
    LET data == EthCall(MCLayout, TheCall, Memory(input.fill)) IN
    /\ TheCall.how = "archive" <=> input.leaves # <<>>
    /\ TheCall.how = "archive" =>
         \A n \in DOMAIN input.leaves :
           AbiRead(data, n, TheCall.outputs[n]) = Holding(input.leaves[n], input.fill)

\* abi.rs:12-14: what is not known is left to a node.  Solidity's getter of an array
\* of fixed length reverts beyond its end.
GettersStayInBounds == Is("call") /\ input.reverts => TheCall.how # "archive"

-----------------------------------------------------------------------------
NoSearch ==
  /\ top = 0 /\ fork = 0 /\ at = "first" /\ lo = 0 /\ hi = 0 /\ loSeen = FALSE /\ answer = NoFork

Init ==
  \/ /\ \/ input \in Blocks \/ input \in Proofs \/ input \in Batches \/ input \in Lists
        \/ input \in KeyPairs \/ input \in Stored \/ input \in Files
        \/ input \in LeafPairs \/ input \in Fields \/ input \in Calls
     /\ NoSearch /\ SidecarInit
  \/ input = [kind |-> "search"] /\ SearchInit /\ SidecarInit
  \/ input = [kind |-> "sidecar"] /\ SidecarInit /\ NoSearch

Next ==
  \/ Is("search") /\ SearchNext /\ UNCHANGED <<input, sidecarVars>>
  \/ Is("sidecar") /\ SidecarNext /\ UNCHANGED <<input, searchVars>>

FnSpec == Init /\ [][Next]_fnVars
=============================================================================
