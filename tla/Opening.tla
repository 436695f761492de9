------------------------------- MODULE Opening -------------------------------
(***************************************************************************)
(* Archive::open_with: what opening a file does to its tables.  Three      *)
(* layouts were ever written: the block index was one entry per slot up to *)
(* version 2 (legacy), and the first files had no table of pending proofs. *)
(* It is one transaction: it commits with the file as returned here, or    *)
(* the file stays what it was.                                             *)
(***************************************************************************)
EXTENDS Integers, FiniteSets

CONSTANTS
  SchemaVersion,     \* keys::SCHEMA_VERSION
  OldestUpgradable   \* keys::OLDEST_UPGRADABLE

\* keys.rs:19-27.  A third layout is what migrate_block_index writes.
ASSUME OpeningAssumption == OldestUpgradable = 1 /\ SchemaVersion = 3

NoSchema == 0
NoDetail == "none"

\* A file: [schema, detail, legacy, blockidx, boot, pending].  legacy holds
\* <<addr, block, slot>>, blockidx maps <<addr, block>> to slots, boot maps
\* <<addr, slot>> to a tag and a block, pending maps the same to a block.

\* migrate_block_index: one entry per address and block.
MigrateBlockIndex(file) ==
  LET at == {<<e[1], e[2]>> : e \in file.legacy} IN
  [file EXCEPT !.legacy = {},
     !.blockidx = [k \in at \cup DOMAIN file.blockidx |->
        IF k \in at THEN {e[3] : e \in {x \in file.legacy : <<x[1], x[2]>> = k}}
        ELSE file.blockidx[k]]]

\* Mutant of Upgraded: only the first layout is regrouped.
UpgradedFromFirst(file) ==
  [IF file.schema = OldestUpgradable THEN MigrateBlockIndex(file) ELSE file
     EXCEPT !.schema = SchemaVersion]

Upgraded(file) ==
  [IF file.schema \in OldestUpgradable .. 2 THEN MigrateBlockIndex(file) ELSE file
     EXCEPT !.schema = SchemaVersion]

\* An empty table of pending proofs is filled from the bootstrap states.
PendingRebuilt(file) ==
  LET awaits == {k \in DOMAIN file.boot : file.boot[k].tag = "pending"} IN
  IF DOMAIN file.pending # {} THEN file
  ELSE [file EXCEPT !.pending = [k \in awaits |-> file.boot[k].seen]]

Refused(file, fullDetail) ==
  \/ file.schema # NoSchema /\ file.schema \notin OldestUpgradable .. SchemaVersion
  \/ file.detail \notin {NoDetail, fullDetail}

\* What the file holds once open_with has returned.
OpenWith(file, fullDetail) ==
  IF Refused(file, fullDetail) THEN file
  ELSE PendingRebuilt([Upgraded(file) EXCEPT !.detail = fullDetail])
=============================================================================
