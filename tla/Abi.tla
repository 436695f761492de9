--------------------------------- MODULE Abi ---------------------------------
(***************************************************************************)
(* bal-layout's abi.rs and the eth_call of balq serve: a call of a getter  *)
(* the compiler generated for a public variable is a read of storage.  The *)
(* call is resolved to the places it reads, the words found there are      *)
(* decoded, and the values are encoded as the getter would return them.    *)
(* A selector is the signature it is the hash of.                          *)
(***************************************************************************)
EXTENDS Layout

\* The inputs a getter may have.
StaticTypes == {"address", "bool", "uint256", "uint8", "int256", "int8", "bytes2"}
DynamicTypes == {"string", "bytes"}

\* An entry of an ABI: [name, function, view, inputs, outputs].
FromAbi(abi) ==
  SelectSeq(abi, LAMBDA f : f.function /\ f.view
                            /\ \A n \in 1 .. Len(f.inputs) : f.inputs[n] \in StaticTypes)

Selector(f) == <<f.name, f.inputs>>
Find(getters, selector) == {n \in 1 .. Len(getters) : Selector(getters[n]) = selector}

\* The type of the ABI a variable of a type is returned as.
AbiTypeOf(label) ==
  CASE label \in {"address payable", "contract"} -> "address"
    [] label = "enum" -> "uint8"
    [] OTHER -> label

\* What a call comes to: refused as malformed, left to a node, or the places to
\* read with the types they are returned as.
Resolved(how, reads, outputs) == [how |-> how, reads |-> reads, outputs |-> outputs]
LeftToNode == Resolved("node", <<>>, <<>>)
Malformed == Resolved("malformed", <<>>, <<>>)

\* One argument further along the variable's type; type = NoType: not a getter.
TakeInput(types, at, input, arg) ==
  LET t == types[at.type]
      To(type) == [path |-> Append(at.path, IndexSeg(arg)), type |-> type]
      stop == [path |-> at.path, type |-> NoType]
  IN  CASE at.type = NoType -> stop
        [] at.type # NoType /\ t.encoding = "mapping" /\ AbiTypeOf(types[t.key].label) = input ->
             To(t.value)
        [] at.type # NoType /\ t.encoding \in {"dynamic_array", "inplace"} /\ t.base # NoType
             /\ input = "uint256" -> To(t.base)
        [] OTHER -> stop

\* The members a struct's getter returns.
Returned(types, t) ==
  SelectSeq(t.members, LAMBDA m : types[m.type].encoding \notin {"mapping", "dynamic_array"})

\* Where the outputs of a getter are, once its arguments are taken.
GetterReads(layout, path, t) ==
  LET members == Returned(layout.types, t)
      TypeOf(m) == layout.types[m.type]
  IN
  CASE t.encoding = "inplace" /\ t.members # <<>> ->
         IF \E n \in 1 .. Len(members) : TypeOf(members[n]).members # <<>>
                                         \/ TypeOf(members[n]).base # NoType
         THEN LeftToNode
         ELSE Resolved("archive",
                [n \in 1 .. Len(members) |-> Locate(layout, Append(path, FieldSeg(members[n].label)))],
                [n \in 1 .. Len(members) |-> AbiTypeOf(TypeOf(members[n]).label)])
    [] t.encoding = "bytes" \/ (t.encoding = "inplace" /\ t.members = <<>> /\ t.base = NoType) ->
         Resolved("archive", <<Locate(layout, path)>>, <<AbiTypeOf(t.label)>>)
    [] OTHER -> LeftToNode

\* resolve_call(): a call is its selector and its arguments, words as numbers.
ResolveCall(layout, getters, selector, args) ==
  LET g == getters[First(Find(getters, selector))]
      top == Labelled(layout.storage, g.name)
      end == FoldLeft(LAMBDA at, n : TakeInput(layout.types, at, g.inputs[n], args[n]),
                      [path |-> <<FieldSeg(g.name)>>, type |-> layout.storage[First(top)].type],
                      [n \in 1 .. Len(args) |-> n])
      reads == GetterReads(layout, end.path, layout.types[end.type])
  IN  CASE Find(getters, selector) = {} -> LeftToNode
        [] Find(getters, selector) # {} /\ Len(args) # Len(g.inputs) -> Malformed
        [] Find(getters, selector) # {} /\ Len(args) = Len(g.inputs) ->
             IF top = {} \/ end.type = NoType \/ reads.outputs # g.outputs THEN LeftToNode ELSE reads

-----------------------------------------------------------------------------
(* Return data *)

\* A value is what Decode returns, or <<"bytes", content>> of a dynamic one.
StaticWord(v) ==
  CASE v[1] = "int" -> Be((v[2] + (Byte + 1) ^ WordLen) % (Byte + 1) ^ WordLen, WordLen)
    [] v[1] = "bytesN" -> v[2] \o [n \in 1 .. WordLen - Len(v[2]) |-> 0]
    [] OTHER -> Be(v[2], WordLen)

Padded(content) == content \o [n \in 1 .. DivCeil(Len(content), WordLen) * WordLen - Len(content) |-> 0]
TailOf(v) == IF v[1] = "bytes" THEN Be(Len(v[2]), WordLen) \o Padded(v[2]) ELSE <<>>
Tails(values) == FlattenSeq([n \in 1 .. Len(values) |-> TailOf(values[n])])

\* Mutant of EncodeReturn: an offset counts from the first tail.
EncodeReturnTail(values) ==
  LET HeadWord(n) == IF values[n][1] = "bytes"
                 THEN Be(Len(Tails(SubSeq(values, 1, n - 1))), WordLen)
                 ELSE StaticWord(values[n])
  IN  FlattenSeq([n \in 1 .. Len(values) |-> HeadWord(n)]) \o Tails(values)

\* encode_return(): one word per value, and then the dynamic ones.
EncodeReturn(values) ==
  LET HeadWord(n) == IF values[n][1] = "bytes"
                 THEN Be(WordLen * Len(values) + Len(Tails(SubSeq(values, 1, n - 1))), WordLen)
                 ELSE StaticWord(values[n])
  IN  FlattenSeq([n \in 1 .. Len(values) |-> HeadWord(n)]) \o Tails(values)

\* What serve reads for one output; memory is the contract's storage.
ReadValue(layout, loc, memory) ==
  LET word == memory[loc.slot]
      slots == BytesDataSlots(loc, word)
  IN  IF layout.types[loc.type].encoding = "bytes"
      THEN <<"bytes", DecodeBytes(word, [n \in 1 .. Len(slots) |-> memory[slots[n]]])>>
      ELSE Decode(layout.types, loc, word)

\* eth_call of a call that was resolved.
EthCall(layout, r, memory) ==
  EncodeReturn([n \in 1 .. Len(r.reads) |-> ReadValue(layout, r.reads[n], memory)])
=============================================================================
