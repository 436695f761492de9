------------------------------ MODULE Questions ------------------------------
(***************************************************************************)
(* What the functions between the archive and the outside are held to: a   *)
(* function has no state, so a state here is one question (input), and a   *)
(* property says what the answer must be.  The questions are those nodes,  *)
(* proofs, access lists, batches, files, keys and values can put; the      *)
(* reference definitions are in this module.                               *)
(***************************************************************************)
EXTENDS Source, Opening, Codec, Keys, Relay

VARIABLE input    \* [kind, ...]: what one function is given

Is(kind) == input.kind = kind

-----------------------------------------------------------------------------
(* A block of a number: what each attempt at a node is answered with *)

Attempts(replies) == [1 .. Retries -> replies]
Served == [header : Attempts(Reply), bal : Attempts(Reply)]
Backups == {nodes \in SUBSET Served : \A b, c \in nodes : b = c}    \* at most one

BlockQuestions == [kind : {"block"}, number : Heights, primary : Served, backup : Backups]

FetchedBlock == FallbackBlock(input.number, input.primary, input.backup)

\* The first attempt that got through got this answer.
Answered(replies, what) ==
  \E n \in DOMAIN replies : replies[n] = what /\ \A m \in 1 .. n - 1 : replies[m] \in Unreached

\* fallback.rs:169-182 and backfill.rs:252: a walk ends for good, at a block it takes
\* to be beyond the history that is served, only if every node there is said that
\* it does not have the block; one that could not be reached may still have it.
EndOfHistoryIsAnswered ==
  Is("block") /\ HistoryUnavailable(FetchedBlock) =>
    \/ Answered(input.primary.header, NoHash)
    \/ /\ Answered(input.primary.bal, NoHash)
       /\ \A b \in input.backup : Answered(b.bal, NoHash)

\* fallback.rs:48-64: which branch is followed is the primary's to say.  What is
\* verified is the block of the number asked for, with a header the primary served
\* and the list this header commits to, whichever node the list came from; and a
\* primary that lost the list does not stop a pass the backup could help.
PrimaryDecides ==
  Is("block") =>
    LET v == Verified(FetchedBlock) IN
    /\ v.ok => /\ Answered(input.primary.header, v.value.header)
               /\ Num[v.value.header] = input.number
               /\ v.value.bal = Changes[v.value.header]
    /\ \A h \in Committed :
         /\ Num[h] = input.number
         /\ Answered(input.primary.header, h)
         /\ Answered(input.primary.bal, NoHash)
         /\ \E b \in input.backup : Answered(b.bal, h)
         => v.ok

-----------------------------------------------------------------------------
(* A proof: of any account, for any slots, from either node *)

ProofQuestions ==
  [kind : {"proof"}, via : {"primary", "backup"}, at : Hash, addr : Addr,
   requested : SUBSET Slot,
   proof : [blank : BOOLEAN, root : [Slot -> Value], intact : BOOLEAN,
            slots : SUBSET [key : Slot, value : Value, intact : BOOLEAN]]]

\* The proof is the primary's, or the backup's where the primary refuses.
ServedProof ==
  FallbackProof(IF input.via = "primary" THEN Ok(input.proof) ELSE Err("Rpc"),
                IF input.via = "backup" THEN Ok(input.proof) ELSE Err("Absent"))

\* bootstrap_at with verify_account_proof: whatever a node sends, the backup
\* included, what is filed as proven is the storage of that contract at that block;
\* and a proof is filed for every slot that was asked for or for none.
ProvenIsTheState ==
  Is("proof") =>
    LET filed == Proven(input.at, input.addr, input.requested, ServedProof.value) IN
    filed # {} => filed = {<<s, ValueAt(input.at, Num[input.at], input.addr, s)>> :
                             s \in input.requested}

-----------------------------------------------------------------------------
(* An access list: as JSON, or RLP, can spell it *)

ListQuestions ==
  [kind : {"list"},
   list : Seq([address : Nat, changes : Seq([slot : Nat, at : Seq(Nat)]), reads : Seq(Nat),
               balances : Seq(Nat), nonces : Seq(Nat), codes : Seq(Nat)])]

\* A list whose parts are sets in order: one list, and one hash, per set of changes.
InOrder(items) == \A n, m \in 1 .. Len(items) : n < m => items[n] < items[m]
Members(items) == {items[n] : n \in 1 .. Len(items)}

CanonicalAccount(acc) ==
  LET written == Column(acc.changes, "slot")
      histories == Members(Column(acc.changes, "at"))
  IN  /\ InOrder(written) /\ InOrder(acc.reads)
      /\ Members(written) \cap Members(acc.reads) = {}
      /\ <<>> \notin histories
      /\ \A h \in histories \cup {acc.balances, acc.nonces, acc.codes} :
           InOrder(h) /\ \A m \in 1 .. Len(h) : h[m] <= MaxU32

Canonical(list) ==
  /\ InOrder(Column(list, "address"))
  /\ \A n \in 1 .. Len(list) : CanonicalAccount(list[n])

\* validate.rs, json.rs and EIP-7928: the lists that are taken are exactly the
\* canonical ones, and in those the change that stands last is the one with the
\* highest index, which apply_block files as the value after the block.
ValidListsAreCanonical ==
  Is("list") =>
    /\ FromRpcJson(input.list) <=> Canonical(input.list)
    /\ FromRpcJson(input.list) =>
         \A n \in 1 .. Len(input.list) : \A m \in 1 .. Len(input.list[n].changes) :
           LET c == input.list[n].changes[m]
           IN  \A k \in 1 .. Len(c.at) : c.at[k] <= LastChange(c)

-----------------------------------------------------------------------------
(* A batch of requests, and what the node sends for those relayed to it *)

\* The requests the node is to answer: a notification is not among them.
Asked(batch) == {n \in DOMAIN batch : ~ AnsweredHere(batch[n]) /\ batch[n].id # NoId}

DistinctIds(batch) ==
  \A n, m \in DOMAIN batch : batch[n].id = batch[m].id /\ batch[n].id # NoId => n = m

\* An answer to each of them with its id, in any order; or no id at all, and an
\* answer to all that was sent, in that order.
AnswersById(batch, answers) ==
  Members(answers) = {Answer(batch[n].id, n, "node") : n \in Asked(batch)}
AnswersByPosition(batch, answers) ==
  LET sent == Relayed(batch) IN answers = [m \in 1 .. Len(sent) |-> Answer(NoId, sent[m], "node")]

BatchQuestions ==
  {q \in [kind : {"batch"}, batch : Seq(Request),
          reply : [http : {"gone", "cut", "status", "garbled", "json"}, array : {TRUE},
                   answers : Seq([id : Id \cup {NoId}, of : Nat, from : {"node"}])]] :
     /\ DistinctIds(q.batch)
     /\ AnswersById(q.batch, q.reply.answers) \/ AnswersByPosition(q.batch, q.reply.answers)}

\* serve.rs:509-581, JSON-RPC 2.0: whether the node names the requests it answers or keeps
\* their order, every request with an id is answered, all are answered at most once and
\* in the client's order, each with the answer to it and under its id unless the node
\* gave none; and reads of a tag are the node's.
RelayKeepsOrder ==
  Is("batch") =>
    LET batch == input.batch
        res == RelayBatch(batch, input.reply)
        out == res.out
    IN  /\ res.refused = "none" <=>
             \/ input.reply.http = "json"
             \/ \A n \in DOMAIN batch : AnsweredHere(batch[n])
        /\ res.refused = "none" =>
             /\ {n \in DOMAIN batch : batch[n].id # NoId} \subseteq {out[k].of : k \in DOMAIN out}
             /\ \A k, l \in DOMAIN out : k < l => out[k].of < out[l].of
             /\ \A k \in DOMAIN out :
                  /\ out[k].of \in DOMAIN batch
                  /\ out[k].id = batch[out[k].of].id \/ (out[k].id = NoId /\ out[k].from = "node")
                  /\ out[k].from = "archive" /\ batch[out[k].of].method = "read" =>
                       batch[out[k].of].block \notin BlockTags

-----------------------------------------------------------------------------
(* A file: what it knows, and how its version keeps it *)

AwaitedIn(boot) == {k \in DOMAIN boot : boot[k].tag = "pending"}
ByBlock(history) ==
  [k \in {<<e[1], e[2]>> : e \in history} |-> {e[3] : e \in {x \in history : <<x[1], x[2]>> = k}}]

Nothing == [k \in {} |-> 0]

\* The first version had no table of what is pending.
FileOf(history, full, version, detail, boot) ==
  [kind |-> "file", history |-> history, full |-> full,
   file |-> [schema |-> version, detail |-> detail, boot |-> boot,
             legacy |-> IF version < 3 THEN history ELSE {},
             blockidx |-> IF version < 3 THEN Nothing ELSE ByBlock(history),
             pending |-> IF version = 1 THEN Nothing ELSE [k \in AwaitedIn(boot) |-> boot[k].seen]]]

\* A file of no version at all is new and holds nothing.
NewFile(full) ==
  [kind |-> "file", history |-> {}, full |-> full,
   file |-> [schema |-> NoSchema, detail |-> NoDetail, boot |-> Nothing, legacy |-> {},
             blockidx |-> Nothing, pending |-> Nothing]]

\* Any of them, of this and of later versions.
Details == {"full", "final"}
BootStates == [tag : {"done", "pending", "lost"}, seen : Nat]
IsAFile ==
  \E full \in Details :
    \/ input = NewFile(full)
    \/ \E history \in SUBSET (Addr \X Nat \X Slot), version \in Nat \ {0}, detail \in Details,
          keys \in SUBSET (Addr \X Slot) : \E boot \in [keys -> BootStates] :
         input = FileOf(history, full, version, detail, boot)

\* open_with, lib.rs:343-422: a file of any version that is opened holds the history
\* it held, by block, and awaits a proof for exactly the slots whose state says so
\* (PendingMirrorsBoot of the store); one that is refused is not touched, and one
\* written with other detail or by a later version is.
OpenedFilesAreConsistent ==
  Is("file") =>
    LET f == input.file
        o == OpenWith(f, input.full)
    IN  IF f.schema > SchemaVersion \/ f.detail \notin {NoDetail, input.full} THEN o = f
        ELSE /\ o.schema = SchemaVersion /\ o.detail = input.full
             /\ o.legacy = {} /\ o.blockidx = ByBlock(input.history)
             /\ o.boot = f.boot /\ o.pending = [k \in AwaitedIn(f.boot) |-> f.boot[k].seen]

-----------------------------------------------------------------------------
(* Keys and values.  A field of some bytes holds what so many bytes spell. *)

Field(len) == {FromBe(bytes) : bytes \in [1 .. len -> 0 .. Byte]}
Words == Field(WordLen)
BlockNumbers == Field(BlockLen)
KeyFields == Field(AddrLen) \X Words \X BlockNumbers \X Field(IndexLen)

KeyQuestions == [kind : {"keys"}, j : KeyFields, k : KeyFields]
StoredQuestions ==
  [kind : {"stored"}, tag : 0 .. Byte, value : Words, slots : Seq(Words), seen : BlockNumbers]

\* The order of the records in module Archive.
Before(j, k) ==
  \E n \in 1 .. 4 : j[n] < k[n] /\ \A m \in 1 .. n - 1 : j[m] = k[m]

\* keys.rs and reads.rs:25-38: the store's order of the keys is the order of the
\* records they stand for, the scan of a slot and of an address meets the records
\* of this slot and address and no other, the seek of a read those up to its block,
\* and a key that was read is the key that was written.
KeysKeepOrder ==
  Is("keys") =>
    LET j == input.j
        k == input.k
        key == SlotKey(k[1], k[2], k[3], k[4])
    IN  /\ KeyLess(SlotKey(j[1], j[2], j[3], j[4]), key) <=> Before(j, k)
        /\ InPrefixRange(SlotPrefix(j[1], j[2]), key) <=> j[1] = k[1] /\ j[2] = k[2]
        /\ InPrefixRange(Be(j[1], AddrLen), key) <=> j[1] = k[1]
        /\ InSeekRange(j[1], j[2], j[3], key) <=> j[1] = k[1] /\ j[2] = k[2] /\ k[3] <= j[3]
        /\ KeyLess(BlockIdxKey(j[1], j[3]), BlockIdxKey(k[1], k[3]))
             <=> j[1] < k[1] \/ (j[1] = k[1] /\ j[3] < k[3])
        /\ ParseSlotKey(key) = k
        /\ ParseBlockIdxKey(BlockIdxKey(k[1], k[3])) = <<k[1], k[3]>>

\* keys.rs:131-210: a record, an entry of the block index and a bootstrap state are
\* read back as they were written, records also in the form of older files, which
\* kept the leading zeros; a tag nobody wrote is refused, and so is an entry cut short.
EncodingsReadBack ==
  Is("stored") =>
    LET rec == <<input.tag, input.value>>
        list == EncodeSlots(input.slots)
    IN  /\ DecodeValue(EncodeValue(input.tag, input.value)) = (IF input.tag \in Tags THEN rec ELSE None)
        /\ DecodeValue(<<input.tag>> \o Be(input.value, WordLen)) = (IF input.tag \in Tags THEN rec ELSE None)
        /\ DecodeSlots(list) = input.slots
        /\ list # <<>> => DecodeSlots(Tail(list)) = None
        /\ \A b \in {"pending", "lost"} : DecodeBoot(EncodeBoot(b, input.seen)) = <<b, input.seen>>
        /\ DecodeBoot(EncodeBoot("done", input.seen)) = <<"done", 0>>
        /\ \A b \in {"done", "pending", "lost"} : DecodeBoot(Tail(EncodeBoot(b, input.seen))) = None
=============================================================================
