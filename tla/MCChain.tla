------------------------------- MODULE MCChain -------------------------------
(***************************************************************************)
(* Small block trees for model checking.  A tree is given by the parent of *)
(* each block; numbers and lines follow from it.                           *)
(*                                                                         *)
(*        g0 -- a1 -- a2 -- a3 -- a4                                       *)
(*                \-- b2 -- b3                                             *)
(*                                                                         *)
(***************************************************************************)
EXTENDS Integers, FiniteSets

MCHash == {"g0", "a1", "a2", "a3", "a4", "b2", "b3"}
MCNoHash == "none"
MCMaxHeight == 4

ParentOf == [h \in MCHash |->
  CASE h = "g0" -> MCNoHash [] h = "a1" -> "g0" [] h = "a2" -> "a1"
    [] h = "a3" -> "a2" [] h = "a4" -> "a3" [] h = "b2" -> "a1" [] h = "b3" -> "b2"]

RECURSIVE Depth(_)
Depth(h) == IF h = "g0" THEN 0 ELSE 1 + Depth(ParentOf[h])

RECURSIVE Ancestor(_, _)
Ancestor(h, n) ==
  IF n > Depth(h) THEN MCNoHash
  ELSE IF n = Depth(h) THEN h ELSE Ancestor(ParentOf[h], n)

\* A shorter tree for the runs where everything interleaves: g0 -- a1 -- a2 -- a3,
\* with b2 on a1.
LowHash == {"g0", "a1", "a2", "a3", "b2"}
LowHeight == 3
LowNum == [h \in LowHash |-> Depth(h)]
LowLine == [h \in LowHash |-> [n \in 0 .. LowHeight |-> Ancestor(h, n)]]

MCNum == [h \in MCHash |-> Depth(h)]
MCLine == [h \in MCHash |-> [n \in 0 .. MCMaxHeight |-> Ancestor(h, n)]]

MCValue == 0 .. 4
MCMaxIndex == 3

Put(a, s, i, v) == [addr |-> a, slot |-> s, index |-> i, value |-> v]

\* x was deployed before the tree: s holds 4, and t nothing, at genesis.  s
\* changes in a3 and again in a4 on one branch and in b2 and b3 on the other;
\* t changes twice inside a2, in a4, and nowhere on the other branch.
\* y is deployed in a2, which a reorg to the b branch removes; there it is
\* deployed in b3.
MCChanges == [h \in MCHash |->
  CASE h = "a2" -> {Put("x", "t", 1, 3), Put("x", "t", 2, 1), Put("y", "s", 1, 1)}
    [] h = "a3" -> {Put("x", "s", 1, 1), Put("y", "t", 1, 2)}
    [] h = "a4" -> {Put("x", "s", 1, 2), Put("x", "t", 1, 2), Put("y", "s", 1, 3)}
    [] h = "b2" -> {Put("x", "s", 2, 3)}
    [] h = "b3" -> {Put("x", "s", 1, 1), Put("y", "t", 2, 1)}
    [] OTHER -> {}]
MCDeploys == [h \in MCHash |-> IF h \in {"a2", "b3"} THEN {"y"} ELSE {}]
MCGenesis == [a \in {"x", "y"} |-> [s \in {"s", "t"} |->
                IF a = "x" /\ s = "s" THEN 4 ELSE 0]]

\* The same lists for x alone.
OldChanges == [h \in MCHash |-> {c \in MCChanges[h] : c.addr = "x"}]
NoDeploys == [h \in MCHash |-> {}]
OldGenesis == [a \in {"x"} |-> MCGenesis[a]]

\* Slot s of x alone.
ThinChanges == [h \in MCHash |-> {c \in OldChanges[h] : c.slot = "s"}]

\* Slot s of x on the shorter tree: a2 and a3 change it, b2 does not.
LowChanges == [h \in LowHash |->
  CASE h = "a2" -> {Put("x", "s", 1, 1)} [] h = "a3" -> {Put("x", "s", 1, 2)}
    [] OTHER -> {}]
LowDeploys == [h \in LowHash |-> {}]
LowGenesis == [a \in {"x"} |-> [s \in {"s"} |-> MCGenesis[a][s]]]
=============================================================================
