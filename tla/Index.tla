--------------------------------- MODULE Index --------------------------------
(***************************************************************************)
(* balq index: the program around the archive.  It watches its addresses,  *)
(* applies blocks up to the head of the node, walks the history down, and  *)
(* then follows the node.  Passes and walks fail and are tried again; with *)
(* --once the program gives up after too many failures in a row.  A walk   *)
(* is the process of module Backfill; a pass is taken one transaction at a *)
(* time, which is what module Sync is checked to implement.                *)
(***************************************************************************)
EXTENDS Backfill

CONSTANTS
  Step,          \* STEP: blocks per pass of catch_up and per walk
  MaxFailures,   \* MAX_FAILURES
  HistoryDepth,  \* --history, 0 when it is not given
  MaxKills       \* bound: how often the program dies

ASSUME IndexAssumption ==
  Step \in Nat \ {0} /\ MaxFailures \in Nat /\ HistoryDepth \in Nat /\ MaxKills \in Nat

VARIABLES
  loop,   \* where run() is, and its local variables
  pass    \* the pass it awaits

indexVars == <<backfillVars, loop, pass>>

NoPass == [on |-> FALSE, seen |-> 0, applied |-> 0, reached |-> FALSE]

\* back: where catch_up returns to.  pending: the addresses backfill_all leaves
\* for later.  ready, target: those it walks, and how far.
Down(kills) ==
  [at |-> "down", once |-> FALSE, start |-> 0, back |-> "none", pending |-> {}, ready |-> {},
   target |-> 0, failures |-> 0, kills |-> kills]

LoopAt(at) == loop.at = at
Goto(at) == loop' = [loop EXCEPT !.at = at]

IndexInit == BackfillInit /\ loop = Down(0) /\ pass = NoPass

-----------------------------------------------------------------------------
(* The start of the program *)

\* The head of the node is read; new addresses will start there, or above the archive.
IndexStart(once) ==
  /\ LoopAt("down")
  /\ LET start == IF head # NoHash THEN Num[head] + 1 ELSE Max({SourceHead, 1})
     IN  start \in Heights /\ loop' = [loop EXCEPT !.at = "watch", !.once = once, !.start = start]
  /\ UNCHANGED <<backfillVars, pass>>

IndexWatch(a) ==
  /\ LoopAt("watch") /\ watch[a] = 0
  /\ StartWatch(a, loop.start)
  /\ UNCHANGED <<nodeVars, walk, loop, pass>>

IndexWatched ==
  /\ LoopAt("watch") /\ Watched = Addr
  /\ loop' = [loop EXCEPT !.at = "catch_up", !.back = "start", !.failures = 0]
  /\ UNCHANGED <<backfillVars, pass>>

-----------------------------------------------------------------------------
(* One pass: sync_step of catch_up, or sync of the follow loop *)

\* Far behind, the follow loop catches up in steps instead - unless the node did
\* not say so, or only moves on after it was asked.
FarBehind == head # NoHash /\ SourceHead > Num[head] + Step

PassBegin ==
  /\ ~ pass.on
  /\ loop.at \in {"catch_up", "follow"}
  /\ BeginSync
  /\ pass' = [NoPass EXCEPT !.on = TRUE, !.seen = SourceHead]
  /\ UNCHANGED <<nodeVars, walk, loop>>

FallBehind ==
  /\ LoopAt("follow") /\ ~ pass.on /\ FarBehind
  /\ loop' = [loop EXCEPT !.at = "catch_up", !.back = "follow", !.failures = 0]
  /\ UNCHANGED <<backfillVars, pass>>

\* Blocks of a pass of catch_up, or NoBudget.
PassBudget == IF LoopAt("catch_up") THEN Step ELSE NoBudget

Applies(h, below) ==
  /\ pass.on /\ pass.applied < PassBudget /\ Num[h] <= pass.seen
  /\ OnLine(h, canon) /\ below <= Num[final]
  /\ Extend(h, below)
  /\ pass' = [pass EXCEPT !.applied = @ + 1, !.reached = (Num[h] = pass.seen)]
  /\ UNCHANGED <<nodeVars, walk, loop>>

RollsBack(b) ==
  /\ pass.on /\ head # NoHash /\ b < Num[head]
  /\ SourceBlock(b) = hashes[b] /\ SourceBlock(b + 1) \notin {NoHash, Line[head][b + 1]}
  /\ Reorg(b)
  /\ UNCHANGED <<nodeVars, walk, loop, pass>>

\* Nothing left to apply, or the node denies the next block or the head.
PassIsOver ==
  \/ FirstBlock > pass.seen \/ pass.applied >= PassBudget
  \/ SourceBlock(FirstBlock) = NoHash
  \/ head # NoHash /\ SourceBlock(Num[head]) = NoHash

AfterCatchUp == IF loop.back = "start" THEN "backfill" ELSE "follow"

PassEnds ==
  /\ pass.on /\ PassIsOver
  /\ pass' = NoPass
  /\ SyncIdle
  /\ loop' = [loop EXCEPT
       !.failures = 0,
       !.at = CASE LoopAt("catch_up") ->
                     IF pass.applied = 0 \/ pass.reached THEN AfterCatchUp ELSE "catch_up"
                [] OTHER ->
                     IF loop.pending # {} /\ pass.applied > 0 THEN "backfill" ELSE "follow"]
  /\ UNCHANGED <<nodeVars, walk>>

\* Failures are counted up to the bound that tells them apart.
\* Mutant of Counted: the count stands still.
CountedNever(failures) == failures
Counted(failures) == Min({failures + 1, MaxFailures + 1})

\* Mutant of GivesUp: without --once, too.
GivesUpAnyway(failures) == failures > MaxFailures
GivesUp(failures) == loop.once /\ failures > MaxFailures

\* catch_up and backfill_all after a failure.
AfterFailure(at) ==
  loop' = [loop EXCEPT !.failures = Counted(@),
                       !.at = IF GivesUp(Counted(loop.failures)) THEN "exited" ELSE at]

\* Any answer may fail.  The follow loop does not count failures.
PassFails ==
  /\ pass.on
  /\ pass' = NoPass
  /\ SyncIdle
  /\ IF LoopAt("catch_up") THEN AfterFailure("catch_up") ELSE UNCHANGED loop
  /\ UNCHANGED <<nodeVars, walk>>

-----------------------------------------------------------------------------
(* backfill_all *)

AfterBackfill == IF loop.once THEN "done" ELSE "follow"

\* The addresses backfill_all is given: all of them at first, then those left over.
Asked == IF loop.back = "start" THEN Addr ELSE loop.pending

TargetOf(start) == IF HistoryDepth = 0 THEN 1 ELSE Max({start - HistoryDepth, 1})

BackfillPlan ==
  /\ LoopAt("backfill")
  /\ LET open == {a \in Asked : created[a] = 0 /\ watch[a] # 0}
         ready == {a \in open : watch[a] <= HeadNumber}
     IN  loop' = [loop EXCEPT
           !.at = IF ready = {} THEN AfterBackfill ELSE "walk",
           !.back = "follow", !.failures = 0, !.pending = open \ ready, !.ready = ready,
           !.target = IF ready = {} THEN 0 ELSE TargetOf(Max({watch[a] : a \in ready}))]
  /\ UNCHANGED <<backfillVars, pass>>

IndexWalk ==
  /\ LoopAt("walk")
  /\ WalkBegin(loop.ready, loop.target, Step, FALSE)
  /\ Goto("walking")
  /\ UNCHANGED pass

\* A walk that used its budget goes on; one that failed is tried again.
IndexWalked ==
  /\ LoopAt("walking") /\ WalkAt("idle")
  /\ CASE walk.out = "error" -> AfterFailure("walk")
       [] walk.out = "budget" -> loop' = [loop EXCEPT !.at = "walk", !.failures = 0]
       [] OTHER -> loop' = [loop EXCEPT !.at = AfterBackfill, !.failures = 0, !.ready = {},
                                        !.target = 0]
  /\ UNCHANGED <<backfillVars, pass>>

-----------------------------------------------------------------------------
(* The rest *)

WalkSteps ==
  /\ \/ PlanStart \/ PlanKnown \/ PlanDone \/ AskAbove \/ WalkBatch
     \/ \E n \in Heights : WalkAnswer(n)
     \/ WalkTake \/ WalkApply \/ WalkNext \/ WalkAbort
  /\ UNCHANGED <<loop, pass>>

\* The process dies.
IndexKilled ==
  /\ loop.at \notin {"down", "done", "exited"} /\ loop.kills < MaxKills
  /\ loop' = Down(loop.kills + 1) /\ pass' = NoPass /\ walk' = NoWalk
  /\ inFlight' = 0 /\ syncing' = FALSE /\ gate' = FALSE
  /\ UNCHANGED <<tables, nodeVars>>

\* balq unwatch opens the file itself: not while index holds it.
UnwatchCommand(a) ==
  /\ LoopAt("down")
  /\ UserUnwatch(a)
  /\ UNCHANGED <<loop, pass>>

\* What the program does by itself: every request is answered, or fails.
Proceeds ==
  \/ \E a \in Addr : IndexWatch(a)
  \/ IndexWatched \/ PassBegin \/ FallBehind
  \/ \E h \in Hash, below \in Heights : Applies(h, below)
  \/ \E b \in Heights : RollsBack(b)
  \/ PassEnds \/ PassFails \/ BackfillPlan \/ IndexWalk \/ IndexWalked \/ WalkSteps

IndexNext ==
  \/ \E once \in BOOLEAN : IndexStart(once)
  \/ Proceeds \/ IndexKilled
  \/ \E a \in Addr : UnwatchCommand(a)
  \/ NodeMoves /\ UNCHANGED <<loop, pass>>

\* A node asked for the same thing again and again answers.
PassServed ==
  \/ \E h \in Hash, below \in Heights : Applies(h, below)
  \/ \E b \in Heights : RollsBack(b)

AboveServed == AskAbove /\ walk'.pc = "batch" /\ UNCHANGED <<loop, pass>>

BlockServed ==
  /\ \E n \in Heights : WalkAnswer(n) /\ walk'.queue[n] = SourceBlock(n)
  /\ UNCHANGED <<loop, pass>>

IndexSpec ==
  /\ IndexInit /\ [][IndexNext]_indexVars
  /\ WF_indexVars(Proceeds)
  /\ SF_indexVars(PassServed) /\ SF_indexVars(AboveServed) /\ SF_indexVars(BlockServed)

-----------------------------------------------------------------------------
(* Properties *)

Following == ~ LoopAt("down") /\ ~ loop.once

\* "Releases the sync slot when the pass ends - by return, error, or the future being
\* dropped" (sync.rs:58-59), and so does a walk: whenever the program is about to start
\* the next one the slot is free, so it never meets its own SyncInProgress.
SlotIsFree == loop.at \in {"catch_up", "follow", "walk"} /\ ~ pass.on => ~ syncing

\* Some header the archive retains is on the branch of h: find_fork can end.
ForkIsHeld(h) == head # NoHash => \E b \in Heights : hashes[b] # NoHash /\ OnLine(hashes[b], h)

\* The start of every walker is on the branch of h, as far as the archive knows.
StartsHeld(h) ==
  loop.at \in {"walk", "walking"} =>
    \A a \in loop.ready :
      watch[a] <= Num[h] /\ (Known(a, watch[a]) # NoHash => OnLine(Known(a, watch[a]), h))

AtHead(h) == head = h \/ HeadNumber > Num[h]

Settles(h) == canon = h /\ Following /\ (\A a \in Addr : watch[a] <= Num[h]) /\ ForkIsHeld(h)

\* "While following there is no limit - the node will be back" (index.rs:33-34):
\* however it failed and was restarted before, a program that follows a node
\* which settles on a branch the archive knows a block of, and that has the start
\* of any walk in progress, gets to the head of the node and stays there.
FollowsToTheHead ==
  \A h \in Hash : <>[](Settles(h) /\ StartsHeld(h)) => <>[]AtHead(h)

\* The same without a word on walks: "the start was reorged.  A forward sync
\* resolves that" (lib.rs:148-151).
ForwardSyncResolves == \A h \in Hash : <>[]Settles(h) => <>[]AtHead(h)

\* With --once the program ends when the node settles, whatever goes wrong.
OnceEnds ==
  (\E h \in Hash : <>[](canon = h))
    => [](loop.once => <>(loop.at \in {"done", "exited", "down"}))

-----------------------------------------------------------------------------
(* What makes it inductive *)

LoopTypeOK ==
  /\ loop \in [at : {"down", "watch", "catch_up", "backfill", "walk", "walking", "follow",
                     "done", "exited"},
               once : BOOLEAN, start : Heights, back : {"none", "start", "follow"},
               pending : SUBSET Addr, ready : SUBSET Addr, target : Heights,
               failures : 0 .. MaxFailures + 1, kills : 0 .. MaxKills]
  /\ pass \in [on : BOOLEAN, seen : Heights, applied : Nat, reached : BOOLEAN]

\* The sync slot is held by the pass or by the walk that is awaited, and by no other.
SlotIsHeld ==
  /\ pass.on => loop.at \in {"catch_up", "follow"}
  /\ walk.pc # "idle" => loop.at = "walking"
  /\ syncing <=> pass.on \/ walk.pc # "idle"

\* What it hands to the archive: a start, and how far down to walk.
ArgumentsAreBlocks ==
  /\ LoopAt("watch") => loop.start # 0
  /\ loop.at \in {"walk", "walking"} => loop.target # 0

LoopInv == LoopTypeOK /\ SlotIsHeld /\ ArgumentsAreBlocks
=============================================================================
