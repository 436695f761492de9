-------------------------------- MODULE Codec --------------------------------
(***************************************************************************)
(* bal-codec: which block-level access lists are taken.  A node answers in *)
(* JSON; the list is converted, and then held to the ordering rules of     *)
(* EIP-7928 as a decoded RLP list is.  The hash the header commits to is   *)
(* of the one canonical list, so a list that is not canonical must not be  *)
(* filed in part.  Addresses, slots and indices are numbers; what is       *)
(* written to a balance, a nonce or code is left out.                      *)
(***************************************************************************)
EXTENDS Integers, Sequences

CONSTANT MaxU32    \* bound: u32::MAX of BlockAccessIndex

ASSUME CodecAssumption == MaxU32 \in Nat

\* A list is a sequence of accounts
\*   [address, changes, reads, balances, nonces, codes]
\* where changes is a sequence of [slot, at], at the indices of the writes; the
\* last three are the indices of the other changes.

StrictlyAscending(items) == \A n \in 2 .. Len(items) : items[n - 1] < items[n]

\* Mutant of SharedKey: both sides advance past the smaller key.
SharedKeyLockstep(written, read) ==
  \E n \in 1 .. Len(written) : n <= Len(read) /\ written[n] = read[n]

\* The merge of two sorted lists stands at a place in each, until one list ends or
\* the two keys it stands at are the same.
MergeEnds(written, read, at) == at[1] > Len(written) \/ at[2] > Len(read)
MergeStep(written, read, at) ==
  IF MergeEnds(written, read, at) THEN at
  ELSE IF written[at[1]] < read[at[2]] THEN <<at[1] + 1, at[2]>>
  ELSE IF written[at[1]] > read[at[2]] THEN <<at[1], at[2] + 1>>
  ELSE at

SharedKey(written, read) ==
  LET most == Len(written) + Len(read)
      at[n \in 0 .. most] == IF n = 0 THEN <<1, 1>> ELSE MergeStep(written, read, at[n - 1])
  IN  ~ MergeEnds(written, read, at[most])

Column(rows, field) == [n \in 1 .. Len(rows) |-> rows[n][field]]

ValidateAccount(acc) ==
  LET written == Column(acc.changes, "slot") IN
  /\ StrictlyAscending(written)
  /\ StrictlyAscending(acc.reads)
  /\ \A n \in 1 .. Len(acc.changes) :
       acc.changes[n].at # <<>> /\ StrictlyAscending(acc.changes[n].at)
  /\ \A other \in {acc.balances, acc.nonces, acc.codes} : StrictlyAscending(other)
  /\ ~ SharedKey(written, acc.reads)

Validate(list) ==
  /\ StrictlyAscending(Column(list, "address"))
  /\ \A n \in 1 .. Len(list) : ValidateAccount(list[n])

\* idx(): JSON carries a U256, the list a u32.
Index(u) == u <= MaxU32

FromRpcJson(list) ==
  /\ \A n \in 1 .. Len(list) :
       \A at \in {list[n].balances, list[n].nonces, list[n].codes}
                   \cup {list[n].changes[m].at : m \in 1 .. Len(list[n].changes)} :
         \A k \in 1 .. Len(at) : Index(at[k])
  /\ Validate(list)

\* The last write to a slot in block order.
LastChange(entry) == entry.at[Len(entry.at)]
=============================================================================
