------------------------------ MODULE ForkSearch ------------------------------
(***************************************************************************)
(* JsonRpcSource::find_bal_fork: a bisection over the headers of one node  *)
(* for the first block whose header carries a BAL hash.  Each header is a  *)
(* request of its own, and the node may not serve it: it has pruned it, or *)
(* the request failed on the way, this time.                               *)
(***************************************************************************)
EXTENDS Integers

CONSTANT MaxSearch    \* bound: the highest head a search starts from

ASSUME SearchAssumption == MaxSearch \in Nat

VARIABLES
  top,     \* the head the search was called with, whose header carries the hash
  fork,    \* the first block of the chain whose header does
  at,      \* "first", "loop" or "found"
  lo, hi,  \* the bounds of the bisection
  loSeen,  \* the header of lo was actually read
  answer   \* BalFork

searchVars == <<top, fork, at, lo, hi, loSeen, answer>>

NoFork == [block |-> 0, exact |-> FALSE]

\* has_bal_hash(): Some(true), Some(false) or None for the header of n.
HasBalHash(n) == {"unserved", IF n >= fork THEN "yes" ELSE "no"}

SearchInit ==
  /\ top \in 1 .. MaxSearch
  /\ fork \in 1 .. top
  /\ at = "first" /\ lo = 1 /\ hi = top /\ loSeen = FALSE
  /\ answer = NoFork

Found(block, exact) ==
  /\ at' = "found"
  /\ answer' = [block |-> block, exact |-> exact]
  /\ UNCHANGED <<top, fork, lo, hi, loSeen>>

\* Block 1 is asked first: the whole chain may carry the hash.
AskFirst ==
  /\ at = "first"
  /\ \E carries \in HasBalHash(1) :
       IF carries = "yes" \/ top <= 1
       THEN Found(1, carries # "unserved")
       ELSE /\ at' = "loop" /\ loSeen' = (carries # "unserved")
            /\ UNCHANGED <<top, fork, lo, hi, answer>>

\* Mutant of Bisect: a header that was read once counts for every later bound.
BisectKeepsSeen ==
  /\ at = "loop" /\ hi - lo > 1
  /\ LET mid == lo + (hi - lo) \div 2 IN
     \E carries \in HasBalHash(mid) :
       IF carries = "yes" THEN hi' = mid /\ UNCHANGED <<lo, loSeen>>
       ELSE lo' = mid /\ loSeen' = (loSeen \/ carries = "no") /\ UNCHANGED hi
  /\ UNCHANGED <<top, fork, at, answer>>

\* A header the node does not serve counts as before the fork.
Bisect ==
  /\ at = "loop" /\ hi - lo > 1
  /\ LET mid == lo + (hi - lo) \div 2 IN
     \E carries \in HasBalHash(mid) :
       IF carries = "yes" THEN hi' = mid /\ UNCHANGED <<lo, loSeen>>
       ELSE lo' = mid /\ loSeen' = (carries = "no") /\ UNCHANGED hi
  /\ UNCHANGED <<top, fork, at, answer>>

Converged == at = "loop" /\ hi - lo <= 1 /\ Found(hi, loSeen)

SearchNext == AskFirst \/ Bisect \/ Converged

SearchSpec == SearchInit /\ [][SearchNext]_searchVars

-----------------------------------------------------------------------------
(* Properties *)

\* BalFork::exact (jsonrpc.rs:372-377): whatever headers the node withheld, and
\* even if it served them at another time, the answer is never below the fork, and
\* one that claims to be exact is the fork.
ExactIsTheFork ==
  at = "found" =>
    /\ fork <= answer.block /\ answer.block <= top
    /\ answer.exact => answer.block = fork

\* What the bounds mean while the search runs; ExactIsTheFork rests on it.
SearchInv ==
  /\ top \in Nat /\ fork \in Nat /\ lo \in Nat /\ hi \in Nat
  /\ at \in {"first", "loop", "found"} /\ loSeen \in BOOLEAN
  /\ 1 <= fork /\ fork <= top
  /\ at = "first" => lo = 1 /\ hi = top
  /\ at = "loop" => /\ 1 <= lo /\ lo < hi /\ hi <= top
                    /\ fork <= hi /\ (loSeen => lo < fork)
  /\ ExactIsTheFork
=============================================================================
