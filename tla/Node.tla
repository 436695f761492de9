--------------------------------- MODULE Node --------------------------------
(***************************************************************************)
(* The data source of a pass (BalSource and StateSource): an execution     *)
(* client, or a pool of them behind one URL.  It serves one branch at a    *)
(* time, may switch to another one, fall behind or catch up between any    *)
(* two answers, but never leaves a block it has reported as finalized.     *)
(* Finality follows the head within FinalityLag blocks.                    *)
(***************************************************************************)
EXTENDS Chain

CONSTANT FinalityLag

ASSUME NodeAssumption == FinalityLag \in Nat

VARIABLES
  canon,   \* the block the node reports as its head
  final    \* the last block it reports as finalized

nodeVars == <<canon, final>>

NodeTypeOK == canon \in Hash /\ final \in Hash

NodeInit ==
  /\ canon \in {h \in Hash : Num[h] = 1}
  /\ final = Line[canon][0]

\* b is h or one of its ancestors.
OnLine(b, h) == Num[b] <= Num[h] /\ Line[h][Num[b]] = b

\* A new head: an extension, a reorg, or an older one of a lagging client.
SetCanon(h) ==
  /\ h # canon /\ OnLine(final, h)
  /\ Num[h] <= Num[final] + FinalityLag
  /\ canon' = h
  /\ UNCHANGED final

Finalize(h) ==
  /\ h # final /\ OnLine(final, h) /\ OnLine(h, canon)
  /\ final' = h
  /\ UNCHANGED canon

\* head() and finalized()
SourceHead == Num[canon]
SourceFinalized == Num[final]

\* header(n) and block(n): the block, or NoHash for BlockNotFound.
SourceBlock(n) == IF n <= Num[canon] THEN Line[canon][n] ELSE NoHash
=============================================================================
