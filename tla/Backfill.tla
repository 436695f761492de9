------------------------------- MODULE Backfill -------------------------------
(***************************************************************************)
(* Archive::backfill_many: one walk down the chain for several addresses,  *)
(* as a process.  A step ends where the walk awaits the source or commits  *)
(* a transaction; walk.pc names what comes next.  It holds the sync slot,  *)
(* so no pass runs meanwhile, but watch() and unwatch() do, and the node   *)
(* moves.  Between walks the passes are the steps of module Archive that   *)
(* Sync is checked to implement.                                           *)
(***************************************************************************)
EXTENDS Archive, Node

CONSTANTS
  FetchAhead,   \* backfill::FETCH_AHEAD
  Targets,      \* bound: the BackfillOpts::to a caller passes
  Budgets,      \* the BackfillOpts::max_blocks a caller may pass
  Starts        \* bound: the starts a caller passes to watch()

ASSUME BackfillAssumption ==
  /\ FetchAhead \in Nat \ {0}
  /\ Targets \subseteq Heights \ {0} /\ Budgets \subseteq Nat
  /\ Starts \subseteq Heights \ {0}

VARIABLE walk

backfillVars == <<archiveVars, nodeVars, walk>>

NoBudget == MaxHeight + 1

\* struct Walker, for an address that is not part of the walk.
NoWalker == [start |-> 0, known |-> NoHash, joined |-> FALSE, unresolved |-> {}, done |-> TRUE]

NoWalk ==
  [pc |-> "idle", target |-> 0, budget |-> 0, resolve |-> FALSE, todo |-> {}, item |-> "none",
   walkers |-> [a \in Addr |-> NoWalker], cur |-> 0, expect |-> NoHash, last |-> NoHash,
   blk |-> NoHash, queue |-> <<>>, out |-> "none"]

\* How a walk ends: "error", "budget" (BackfillStop::Budget), or "stop", any
\* other BackfillStop.
EndWalk(out) == walk' = [NoWalk EXCEPT !.out = out] /\ SyncIdle

WalkAt(pc) == walk.pc = pc

Walking == {a \in Addr : ~ walk.walkers[a].done}

LocalStep == UNCHANGED <<archiveVars, nodeVars>>

-----------------------------------------------------------------------------
(* The plan: one walker per address *)

WalkBegin(as, to, max, resolve) ==
  /\ WalkAt("idle")
  /\ BeginSync
  /\ walk' = [NoWalk EXCEPT !.pc = "plan", !.todo = as, !.target = to, !.budget = max,
                            !.resolve = resolve]
  /\ UNCHANGED nodeVars

\* NotWatched and HeadBelowStart end the walk.
PlanStart ==
  /\ WalkAt("plan")
  /\ \E a \in walk.todo :
       \/ (watch[a] = 0 \/ HeadNumber < watch[a]) /\ EndWalk("error")
       \/ /\ watch[a] # 0 /\ HeadNumber >= watch[a]
          /\ walk' = [walk EXCEPT !.pc = "known", !.todo = @ \ {a}, !.item = a,
                                  !.walkers[a].start = watch[a]]
          /\ UNCHANGED archiveVars
  /\ UNCHANGED nodeVars

UnknownPreValues(a) == {s \in Slot : Unresolved(boot[a][s])}

\* The hash the archive holds for the start of a walker.
Known(a, start) == IF hashes[start] # NoHash THEN hashes[start] ELSE anchor[a]

\* The rest of the plan for that address; an unwatch() may have come between.
PlanKnown ==
  /\ WalkAt("known")
  /\ LET a == walk.item
         start == walk.walkers[a].start
         unresolved == UnknownPreValues(a)
         nothing == \/ created[a] # 0 \/ walk.target >= start
                    \/ walk.resolve /\ unresolved = {}
     IN  walk' = [walk EXCEPT !.pc = "plan", !.item = "none",
           !.walkers[a] = [start |-> start, known |-> Known(a, start), joined |-> FALSE,
                           unresolved |-> unresolved, done |-> nothing]]
  /\ LocalStep

PlanDone ==
  /\ WalkAt("plan") /\ walk.todo = {}
  /\ \/ Walking = {} /\ EndWalk("stop")
     \/ /\ Walking # {}
        /\ walk' = [walk EXCEPT !.pc = "above",
                      !.cur = Max({walk.walkers[a].start : a \in Walking})]
        /\ UNCHANGED archiveVars
  /\ UNCHANGED nodeVars

\* The block above the first one read.
AskAbove ==
  /\ WalkAt("above")
  /\ LET h == SourceBlock(walk.cur) IN
     \/ h = NoHash /\ EndWalk("error")
     \/ /\ h # NoHash
        /\ walk' = [walk EXCEPT !.pc = "batch", !.expect = Parent(h), !.last = h, !.cur = @ - 1]
        /\ UNCHANGED archiveVars
  /\ UNCHANGED nodeVars

-----------------------------------------------------------------------------
(* The walk *)

BatchSize == Min({FetchAhead, walk.cur - walk.target + 1, walk.budget})

\* Target and Budget end the walk.
WalkBatch ==
  /\ WalkAt("batch")
  /\ \/ walk.target > walk.cur /\ EndWalk("stop")
     \/ walk.target <= walk.cur /\ walk.budget = 0 /\ EndWalk("budget")
     \/ /\ walk.target <= walk.cur /\ walk.budget > 0
        /\ walk' = [walk EXCEPT !.pc = "fetch",
             !.queue = [n \in walk.cur - BatchSize + 1 .. walk.cur |-> "asked"]]
        /\ UNCHANGED archiveVars
  /\ UNCHANGED nodeVars

\* join_all: every answer is of the branch the node serves at that moment.
WalkAnswer(n) ==
  /\ WalkAt("fetch") /\ n \in DOMAIN walk.queue /\ walk.queue[n] = "asked"
  /\ \E answer \in {SourceBlock(n), "failed"} :
       LET queue == [walk.queue EXCEPT ![n] = answer]
       IN  walk' = [walk EXCEPT !.queue = queue,
             !.pc = IF \E m \in DOMAIN queue : queue[m] = "asked" THEN "fetch" ELSE "take"]
  /\ LocalStep

\* Mutant of Chained: the parent link is not checked.
ChainedAlways(h) == TRUE
Chained(h) == h = walk.expect

\* Why the walk ends at block h: HistoryUnavailable and PreBal stop it, a failure
\* and InconsistentSource are errors.
TakenOut(h) == IF h = NoHash \/ (h # "failed" /\ Chained(h)) THEN "stop" ELSE "error"

\* The next block of the batch: verified, or the end of the walk.
WalkTake ==
  /\ WalkAt("take")
  /\ LET n == walk.cur
         h == walk.queue[n]
         good == h \notin {"failed", NoHash} /\ Chained(h) /\ h \in Committed
     IN
     \/ ~ good /\ EndWalk(TakenOut(h))
     \/ /\ good
        /\ walk' = [walk EXCEPT !.pc = "apply", !.blk = h,
             !.budget = IF @ = NoBudget THEN @ ELSE @ - 1,
             !.queue = [m \in DOMAIN walk.queue \ {n} |-> walk.queue[m]],
             !.todo = {a \in Walking : walk.walkers[a].start = n + 1}]
        /\ UNCHANGED archiveVars
  /\ UNCHANGED nodeVars

\* The block above is not the one the archive holds as the walker's start.
Replaced(w) == ~ w.joined /\ w.known # NoHash /\ w.known # walk.last

\* One walker at the block: it joins, or StartReplaced ends the walk; then the
\* transaction, which writes nothing if the start is no longer the walker's.
\* The walker goes down all the same.
WalkApply ==
  /\ WalkAt("apply")
  /\ \E a \in walk.todo :
       LET w == walk.walkers[a]
           n == Num[walk.blk]
           writes == watch[a] = n + 1
           found == IF writes THEN Written(walk.blk, a) ELSE {}
           creation == writes /\ a \in Deploys[walk.blk]
           left == IF creation THEN {} ELSE w.unresolved \ found
       IN
       \/ Replaced(w) /\ EndWalk("error")
       \/ /\ ~ Replaced(w)
          /\ IF writes THEN BackfillBlock(a, walk.blk) ELSE UNCHANGED archiveVars
          /\ walk' = [walk EXCEPT !.todo = @ \ {a},
               !.walkers[a] = [w EXCEPT !.joined = TRUE, !.start = n, !.unresolved = left,
                                        !.done = creation \/ (walk.resolve /\ left = {})]]
  /\ UNCHANGED nodeVars

WalkNext ==
  /\ WalkAt("apply") /\ walk.todo = {}
  /\ \/ Walking = {} /\ EndWalk("stop")
     \/ /\ Walking # {}
        /\ walk' = [walk EXCEPT !.pc = IF walk.queue = <<>> THEN "batch" ELSE "take",
             !.expect = Parent(walk.blk), !.last = walk.blk, !.blk = NoHash,
             !.cur = @ - 1]
        /\ UNCHANGED archiveVars
  /\ UNCHANGED nodeVars

\* The future is dropped, or the answer awaited is an error.
WalkAbort ==
  /\ walk.pc \in {"above", "fetch"}
  /\ EndWalk("error")
  /\ UNCHANGED nodeVars

-----------------------------------------------------------------------------
(* The archive in use *)

\* A pass, one block or one reorg at a time, against the branch the node serves.
\* Only headers of finalized blocks are pruned.
PassBlock(h, below) ==
  /\ ~ syncing
  /\ OnLine(h, canon) /\ below <= Num[final]
  /\ Extend(h, below)
  /\ UNCHANGED <<nodeVars, walk>>

PassReorg(b) ==
  /\ ~ syncing /\ head # NoHash /\ b < Num[head]
  /\ SourceBlock(b) = hashes[b] /\ SourceBlock(b + 1) \notin {NoHash, Line[head][b + 1]}
  /\ Reorg(b)
  /\ UNCHANGED <<nodeVars, walk>>

UserWatch(a, n) == StartWatch(a, n) /\ UNCHANGED <<nodeVars, walk>>
UserUnwatch(a) == EndWatch(a) /\ UNCHANGED <<nodeVars, walk>>

\* The process dies and the file is opened again.
WalkCrash ==
  /\ ~ WalkAt("idle")
  /\ walk' = NoWalk
  /\ inFlight' = 0 /\ syncing' = FALSE /\ gate' = FALSE
  /\ UNCHANGED <<tables, nodeVars>>

NodeMoves ==
  /\ \E h \in Hash : SetCanon(h) \/ Finalize(h)
  /\ UNCHANGED <<archiveVars, walk>>

BackfillInit == Init /\ NodeInit /\ walk = NoWalk

BackfillNext ==
  \/ \E h \in Hash, below \in Heights : PassBlock(h, below)
  \/ \E b \in Heights : PassReorg(b)
  \/ \E a \in Addr, n \in Starts : UserWatch(a, n)
  \/ \E a \in Addr : UserUnwatch(a)
  \/ \E as \in SUBSET Addr \ {{}}, to \in Targets, max \in Budgets \cup {NoBudget}, r \in BOOLEAN :
       WalkBegin(as, to, max, r)
  \/ PlanStart \/ PlanKnown \/ PlanDone \/ AskAbove \/ WalkBatch
  \/ \E n \in Heights : WalkAnswer(n)
  \/ WalkTake \/ WalkApply \/ WalkNext \/ WalkAbort \/ WalkCrash
  \/ NodeMoves

WalksSpec == BackfillInit /\ [][BackfillNext]_backfillVars

-----------------------------------------------------------------------------
(* Properties *)

\* A walk reports a start only once it is committed, and never moves a watch
\* that is not the one it planned for: as long as it goes on, the watch of each
\* walker is where the walker is, or was ended, and then begins above the head.
WalkersHoldTheirStarts ==
  \A a \in Walking :
    walk.pc \in {"batch", "fetch", "take", "apply"} =>
      watch[a] \in {0, walk.walkers[a].start} \/ watch[a] > HeadNumber

\* The store behind the walk, without the field that serialises it.
Walked == INSTANCE Archive WITH inFlight <- 0, syncing <- FALSE, gate <- FALSE
WalksDown ==
  Walked!Init /\ [][UNCHANGED tables \/ Walked!Forward \/ Walked!Backfills]_tables

-----------------------------------------------------------------------------
(* What makes it inductive *)

Answer == Hash \cup {NoHash, "asked", "failed"}

Walker == [start : Heights, known : Hash \cup {NoHash}, joined : BOOLEAN,
           unresolved : SUBSET Slot, done : BOOLEAN]

WalkTypeOK ==
  /\ walk \in [pc : {"idle", "plan", "known", "above", "batch", "fetch", "take", "apply"},
               target : Heights, budget : Nat, resolve : BOOLEAN, todo : SUBSET Addr,
               item : Addr \cup {"none"}, walkers : [Addr -> Walker], cur : -1 .. MaxHeight,
               expect : Hash \cup {NoHash}, last : Hash \cup {NoHash},
               blk : Hash \cup {NoHash},
               queue : UNION {[D -> Answer] : D \in SUBSET Heights},
               out : {"none", "error", "stop", "budget"}]

\* The node never leaves a block it has called final.
FinalStays == NodeTypeOK /\ OnLine(final, canon)

\* Block n of the head's line is final.
Settled(n) == n <= Num[final] /\ Line[head][n] = Line[final][n]

\* Where the header of a start is pruned, a walk has left the anchor or the start is
\* final: there the chain cannot have changed behind the store.
StartsAreKnown ==
  \A a \in Addr : watch[a] # 0 /\ watch[a] <= HeadNumber /\ hashes[watch[a]] = NoHash =>
    anchor[a] = Line[head][watch[a]] \/ Settled(watch[a])

\* The walk holds the sync slot, so the head stays where it is; block 0 is no target.
SlotIsTaken ==
  /\ walk.pc # "idle" => syncing /\ walk.target # 0
  /\ walk.pc = "idle" => walk.walkers = [a \in Addr |-> NoWalker]

\* Walkers are inside the range that is covered; their watches are where they are,
\* or were ended and renewed above the head.
WalkersHold ==
  \A a \in Addr : walk.walkers[a] # NoWalker =>
    LET start == walk.walkers[a].start IN
    /\ start # 0 /\ start <= HeadNumber
    /\ watch[a] \in {0, start} \/ watch[a] > HeadNumber

Descends == walk.pc \in {"batch", "fetch", "take", "apply"}

\* The walk goes down an unbroken chain, and takes each batch from its top; what is
\* left of a batch is within the budget.
ChainIsUnbroken ==
  /\ Descends => walk.last \in Hash /\ Num[walk.last] = walk.cur + 1
                 /\ walk.expect = Parent(walk.last)
  /\ walk.pc \in {"fetch", "take"} =>
       \E lo \in Heights \ {0} : /\ lo <= walk.cur /\ DOMAIN walk.queue = lo .. walk.cur
                                 /\ walk.cur - lo < walk.budget
  /\ walk.pc = "apply" =>
       /\ walk.blk = walk.expect /\ walk.blk \in Committed
       /\ \E lo \in Heights \ {0} : /\ lo <= walk.cur /\ DOMAIN walk.queue = lo .. walk.cur - 1
                                    /\ walk.cur - lo <= walk.budget

\* A walker that may still write.
Attached(a) == a \in Walking /\ watch[a] = walk.walkers[a].start

\* The block above the next one for a: the last one, or the one in work.
Above(a) == IF walk.pc = "apply" /\ a \notin walk.todo THEN walk.blk ELSE walk.last

\* What a walker that may still write knows: before the walk starts, that its start is
\* known or final; then, that the chain of the walk leads to it, and once it has
\* joined, that this chain is the one the store holds.
WalkersAreOnTheChain ==
  \A a \in Addr : Attached(a) =>
    LET w == walk.walkers[a] IN
    /\ created[a] = 0
    /\ walk.pc \in {"plan", "known", "above"} =>
         ~ w.joined /\ (w.known = Line[head][w.start] \/ Settled(w.start))
    /\ Descends => w.start <= Num[Above(a)]
    /\ Descends /\ w.joined => Above(a) = Line[head][w.start]
    /\ Descends /\ ~ w.joined =>
         w.known = Line[head][w.start] \/ Line[Above(a)][w.start] = Line[head][w.start]

\* Each address is planned once; the first block is under the highest start; a block
\* is for the walkers that stand right above it.
WorkIsPlanned ==
  /\ walk.pc \in {"plan", "known"} => \A a \in walk.todo : walk.walkers[a] = NoWalker
  /\ walk.pc = "above" => 0 <= walk.cur /\ \A a \in Walking : walk.walkers[a].start <= walk.cur
  /\ walk.pc = "known" => walk.item \in Addr /\ walk.walkers[walk.item].start # 0
  /\ walk.pc = "apply" => \A a \in walk.todo : a \in Walking
                                               /\ walk.walkers[a].start = walk.cur + 1

WalkInv ==
  /\ WalkTypeOK /\ FinalStays /\ StartsAreKnown /\ SlotIsTaken /\ WalkersHold
  /\ ChainIsUnbroken /\ WalkersAreOnTheChain /\ WorkIsPlanned
=============================================================================
