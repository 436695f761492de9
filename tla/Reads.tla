--------------------------------- MODULE Reads ---------------------------------
(***************************************************************************)
(* A caller that reads the store while it changes.  storage_at() is three  *)
(* read transactions: the start of the watch, the head, and the seek; an   *)
(* eth_call of balq serve reads the slots of a getter one storage_at after *)
(* the other; and the remote client sends a request that was answered with *)
(* a miss a second time, for the body of the answer.  Any transaction of a *)
(* pass, a walk or a watch may come in between.                            *)
(***************************************************************************)
EXTENDS Archive, Sequences

CONSTANT Calls    \* bound: what is read, [addr, wanted, block, remote]

\* A call wants something, and a remote one a single slot.
ASSUME CallsAssumption ==
  /\ Calls \subseteq [addr : Addr, wanted : Seq(Slot), block : Nat, remote : BOOLEAN]
  /\ \A call \in Calls : call.wanted # <<>> /\ (call.remote => Len(call.wanted) = 1)

VARIABLE reader

\* at: "idle", "start", "head", "seek" or "done"; addr, wanted, block: what is
\* read; got: the answers so far; remote: through the REST interface; again: it is
\* the second request.  Two fields only the properties look at: could, what one
\* transaction would have answered to the read in progress at any moment since it
\* began, and steady, no reorg and no unwatch came since.
Idle ==
  [at |-> "idle", addr |-> NoHash, wanted |-> <<>>, block |-> 0, got |-> <<>>,
   remote |-> FALSE, again |-> FALSE, could |-> {}, steady |-> TRUE]

readVars == <<archiveVars, reader>>

Reading == reader.at \notin {"idle", "done"}
Target == reader.wanted[Len(reader.got) + 1]

Begin(call) ==
  /\ reader.at = "idle"
  /\ reader' = [at |-> "start", addr |-> call.addr, wanted |-> call.wanted, block |-> call.block,
                got |-> <<>>, remote |-> call.remote, again |-> FALSE,
                could |-> {StorageAt(call.addr, call.wanted[1], call.block)}, steady |-> TRUE]

\* How the read of one slot ends.  A miss ends the call; a remote client first sends
\* it again, and takes what then comes for the body of a miss.
EndRead(res) ==
  LET got == Append(reader.got, res)
      last == res.kind # "value" \/ Len(got) = Len(reader.wanted)
  IN  reader' =
        IF reader.remote /\ ~ reader.again /\ res.kind # "value"
        THEN [reader EXCEPT !.at = "start", !.again = TRUE]
        ELSE IF last
        THEN [reader EXCEPT !.at = "done",
                !.got = IF reader.again /\ res.kind = "value"
                        THEN Append(@, Miss("Internal")) ELSE got]
        ELSE [reader EXCEPT !.at = "start", !.got = got,
                !.could = IF reader.steady
                          THEN {StorageAt(reader.addr, reader.wanted[Len(got) + 1], reader.block)}
                          ELSE {}]

\* check_range(), its two transactions.
ReadStart ==
  /\ reader.at = "start"
  /\ CASE watch[reader.addr] = 0 -> EndRead(Miss("NotWatched"))
       [] watch[reader.addr] # 0 /\ reader.block < watch[reader.addr] -> EndRead(Miss("BeforeStart"))
       [] OTHER -> reader' = [reader EXCEPT !.at = "head"]

\* Mutant of ReadHead: a block above the head is looked up.
ReadHeadUnchecked ==
  /\ reader.at = "head"
  /\ IF head = NoHash THEN EndRead(Miss("NotSynced"))
     ELSE reader' = [reader EXCEPT !.at = "seek"]

ReadHead ==
  /\ reader.at = "head"
  /\ CASE head = NoHash -> EndRead(Miss("NotSynced"))
       [] head # NoHash /\ reader.block > Num[head] -> EndRead(Miss("AfterHead"))
       [] OTHER -> reader' = [reader EXCEPT !.at = "seek"]

\* Mutant of Seek: the newest record of the slot.
SeekNewest ==
  /\ reader.at = "seek"
  /\ EndRead(Lookup(reader.addr, Target, HeadNumber))

Seek ==
  /\ reader.at = "seek"
  /\ EndRead(Lookup(reader.addr, Target, reader.block))

Rest == reader.at = "done" /\ reader' = Idle

\* A transaction of somebody else, and what it means for the read in progress.
Goes(h, g) == h = NoHash \/ (g # NoHash /\ Num[h] <= Num[g] /\ Line[g][Num[h]] = h)
Steady ==
  /\ Goes(head, head')
  /\ \A a \in Addr : watch[a] # 0 => watch'[a] # 0 /\ watch'[a] <= watch[a]

\* An answer is looked at before the next transaction.
Elsewhere ==
  /\ Forward \/ Backfills
  /\ reader.at # "done"
  /\ reader' =
       IF ~ Reading THEN reader
       ELSE IF ~ (reader.steady /\ Steady) THEN [reader EXCEPT !.steady = FALSE, !.could = {}]
       ELSE [reader EXCEPT !.could = @ \cup
              {StorageAt(a, s, n)' : a \in {reader.addr}, s \in {Target}, n \in {reader.block}}]

ReadInit == Init /\ reader = Idle

ReadNext ==
  \/ Elsewhere
  \/ /\ \/ \E call \in Calls : Begin(call)
        \/ ReadStart
        \/ ReadHead
        \/ Seek
        \/ Rest
     /\ UNCHANGED archiveVars

ReadSpec == ReadInit /\ [][ReadNext]_readVars

-----------------------------------------------------------------------------
(* Properties *)

\* reads.rs:25-85: check_range may be long gone when the seek comes.  A value the
\* seek finds is the value of the slot at that block on the chain the head is on
\* then, unless a reorg has left the block above the head; whatever was unwatched,
\* watched again, backfilled or applied in between.
SeekIsTrue ==
  [][reader.at = "seek" /\ reader'.at # "seek" /\ UNCHANGED archiveVars
     /\ ~ reader.again /\ Len(reader'.got) > Len(reader.got)
     /\ reader'.got[Len(reader'.got)].kind = "value" /\ reader.block <= HeadNumber
     => reader'.got[Len(reader'.got)].value
          = ValueAt(head, reader.block, reader.addr, Target)]_readVars

\* storage_at and handle of serve.rs: as long as nothing is reorged or unwatched, the
\* transactions of a call read as one.  Its answer is one that a single transaction
\* would have given at some moment of the call, all the slots of a getter are of
\* one chain, and a remote client is told "Internal" only where the answer
\* changed between its two requests.
AnswersUnlessReorged ==
  reader.at = "done" /\ reader.steady =>
    LET last == reader.got[Len(reader.got)] IN
    /\ \/ last \in reader.could
       \/ last.kind = "Internal" /\ reader.again /\ \E x, y \in reader.could : x.kind # y.kind
    /\ \A n \in 1 .. Len(reader.got) :
         reader.got[n].kind = "value" =>
           reader.got[n].value = ValueAt(head, reader.block, reader.addr, reader.wanted[n])
=============================================================================
