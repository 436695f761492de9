-------------------------------- MODULE Source --------------------------------
(***************************************************************************)
(* What the archive takes from its nodes: one JSON-RPC call with its       *)
(* retries (JsonRpcSource), a primary node with an optional backup         *)
(* (Fallback), and the two checks between an answer and the store: a list  *)
(* against its header, a proof against a state root.  Each is a function   *)
(* of what the nodes reply, so a reply of another branch, or of another    *)
(* moment, is one more reply.  A block stands for its header, and for the  *)
(* list it commits to.                                                     *)
(***************************************************************************)
EXTENDS Chain

CONSTANT Retries    \* jsonrpc::RETRIES: the times a call is sent

\* What ends an exchange without an answer, and the answers that are none.
Unreached == {"unreachable", "status", "cut"}
Failures == Unreached \cup {"huge", "garbled", "error", "forged"}

ASSUME SourceAssumption ==
  /\ Retries \in Nat \ {0}
  /\ Failures \cap (Hash \cup {NoHash}) = {}

\* Result<T, SourceError>
Ok(value) == [ok |-> TRUE, value |-> value, why |-> "none"]
Err(why) == [ok |-> FALSE, value |-> NoHash, why |-> why]

-----------------------------------------------------------------------------
(* One node *)

\* What one HTTP exchange ends with.  NoHash is the result null.
Reply == Failures \cup {NoHash} \cup Hash

CallOnce(reply) ==
  CASE reply \in Unreached -> Err("Transport")
    [] reply = "huge" -> Err("TooLarge")
    [] reply = "garbled" -> Err("Malformed")
    [] reply = "error" -> Err("Rpc")
    [] OTHER -> Ok(reply)

\* replies[n]: what the node replies to the n-th attempt.
Call(replies) ==
  LET last == {n \in 1 .. Retries : CallOnce(replies[n]).why # "Transport" \/ n = Retries}
  IN  CallOnce(replies[Min(last)])

\* A header whose fields do not hash to its hash, or that has another number
\* than the one asked for, is malformed.
Header(n, replies) ==
  LET res == Call(replies) IN
  IF ~ res.ok THEN res
  ELSE IF res.value = NoHash THEN Err("BlockNotFound")
  ELSE IF res.value = "forged" \/ Num[res.value] # n THEN Err("Malformed")
  ELSE res

\* The list a node serves for a number: it names no block, so any list goes.
Bal(replies) ==
  LET res == Call(replies) IN
  IF ~ res.ok THEN res
  ELSE IF res.value = NoHash THEN Err("NoBal")
  ELSE IF res.value = "forged" THEN Err("Codec")
  ELSE Ok(Changes[res.value])

-----------------------------------------------------------------------------
(* A primary node and an optional backup: backup is {} or holds one node.  *)
(* A node is what it replies to the two requests for a block.              *)

BackupBal(backup) == IF backup = {} THEN Err("Absent") ELSE Bal((CHOOSE b \in backup : TRUE).bal)

\* Mutant of PreferPrimary: the primary's error whatever the backup says.
PrimaryAlways(primary, backup) == primary

\* Both errors make one of transport, unless there is no backup to speak of.
PreferPrimary(primary, backup) ==
  IF backup.why = "Absent" THEN primary ELSE Err("Transport")

\* The primary's result, or else the backup's.
Either(own, other) ==
  CASE own.ok -> own
    [] ~ own.ok /\ other.ok -> other
    [] OTHER -> PreferPrimary(own, other)

FallbackBal(primary, backup) == Either(Bal(primary.bal), BackupBal(backup))

\* Fallback as a StateSource: what the two nodes answer to the same eth_getProof.
FallbackProof(primary, backup) == Either(primary, backup)

\* Mutant of FallbackBlock: a backup that has the body is asked for the block.
BackupBlock(n, primary, backup) ==
  LET from == IF Bal(primary.bal).ok \/ backup = {} THEN primary ELSE CHOOSE b \in backup : TRUE
      header == Header(n, from.header)
      bal == FallbackBal(primary, backup)
  IN  IF ~ header.ok THEN header
      ELSE IF ~ bal.ok THEN bal
      ELSE Ok([header |-> header.value, bal |-> bal.value])

\* The header is the primary's; the body is the primary's or the backup's.
FallbackBlock(n, primary, backup) ==
  LET header == Header(n, primary.header)
      bal == FallbackBal(primary, backup)
  IN  IF ~ header.ok THEN header
      ELSE IF ~ bal.ok THEN bal
      ELSE Ok([header |-> header.value, bal |-> bal.value])

\* What a pass or a walk makes of that: the block is applied, or an error.
Verified(res) ==
  IF ~ res.ok THEN res
  ELSE IF res.value.header \notin Committed THEN Err("NoBalHash")
  ELSE IF res.value.bal # Changes[res.value.header] THEN Err("Verification")
  ELSE res

\* Where a walk down the chain ends for good, and history is "not served".
HistoryUnavailable(res) == res.why \in {"BlockNotFound", "NoBal"}

-----------------------------------------------------------------------------
(* Proofs.  A trie is what it maps keys to, and its root is the trie: two   *)
(* tries have one root only if they are equal.  An account claims the      *)
(* storage it is proven with; blank stands for its other three fields.     *)

StorageRoot(h, a) == [s \in Slot |-> ValueAt(h, Num[h], a, s)]
EmptyRoot == [s \in Slot |-> Zero]

\* An account is there from its first code or storage on (EIP-161: its nonce is 1).
Exists(h, a) ==
  \/ \E n \in 0 .. Num[h] : a \in Deploys[Line[h][n]] \/ Written(Line[h][n], a) # {}
  \/ \E s \in Slot : Genesis[a][s] # Zero

\* A leaf of a trie: {} where the trie has none.
AccountLeaf(h, a) ==
  IF Exists(h, a) THEN {[blank |-> FALSE, root |-> StorageRoot(h, a)]} ELSE {}
StorageLeaf(root, s) == IF root[s] = Zero THEN {} ELSE {root[s]}

\* guarded_verify: the nodes lead from the root to what is expected at the key;
\* broken nodes, and those the trie verifier panics at, lead nowhere.
VerifyProof(leaf, expected, intact) == intact /\ leaf = expected

\* A slot the proof leaves out, or one nobody asked for.
CheckRequested(requested, proof) == {p.key : p \in proof.slots} = requested

\* An account with nothing in it is proven by its absence, and so is a zero.
VerifyAccountProof(h, a, proof) ==
  LET claim == [blank |-> proof.blank, root |-> proof.root]
      none == proof.blank /\ proof.root = EmptyRoot
  IN  /\ VerifyProof(AccountLeaf(h, a), IF none THEN {} ELSE {claim}, proof.intact)
      /\ \A p \in proof.slots :
           VerifyProof(StorageLeaf(proof.root, p.key),
                       IF p.value = Zero THEN {} ELSE {p.value}, p.intact)

\* Mutant of Proven: the slots are held to the storage root alone.
ProvenUnanchored(h, a, requested, proof) ==
  IF /\ CheckRequested(requested, proof)
     /\ \A p \in proof.slots :
          VerifyProof(StorageLeaf(proof.root, p.key),
                      IF p.value = Zero THEN {} ELSE {p.value}, p.intact)
  THEN {<<p.key, p.value>> : p \in proof.slots} ELSE {}

\* What bootstrap_at hands to put_bootstrap: pairs of a slot and its value.
Proven(h, a, requested, proof) ==
  IF CheckRequested(requested, proof) /\ VerifyAccountProof(h, a, proof)
  THEN {<<p.key, p.value>> : p \in proof.slots} ELSE {}
=============================================================================
