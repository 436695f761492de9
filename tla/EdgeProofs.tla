------------------------------ MODULE EdgeProofs ------------------------------
(***************************************************************************)
(* What balq relies on outside its store.  The fork search of ForkSearch   *)
(* is right for every head, every fork and every pattern of headers the    *)
(* node does not serve; the sidecar of module Sidecar leads to the server, *)
(* for any number of processes, commands and addresses; and the questions  *)
(* of module Questions are answered as it says, whatever is asked.         *)
(***************************************************************************)
EXTENDS KeyProofs, ForkSearch, Sidecar, TLAPS

-----------------------------------------------------------------------------
(* The search for the first block with a list *)

\* The midpoint lies strictly between two bounds that are not neighbours.
LEMMA Midpoint ==
  ASSUME NEW a \in Nat, NEW b \in Nat, b - a > 1
  PROVE  LET mid == a + (b - a) \div 2 IN mid \in Nat /\ a < mid /\ mid < b
  BY SMT

LEMMA SearchStarts == SearchInit => SearchInv
<1> SUFFICES ASSUME SearchInit PROVE SearchInv
  OBVIOUS
<1>1. top \in Nat /\ fork \in Nat /\ 1 <= fork /\ fork <= top /\ lo \in Nat /\ hi \in Nat
  BY SearchAssumption DEF SearchInit
<1>2. at = "first" /\ lo = 1 /\ hi = top /\ loSeen \in BOOLEAN
  BY DEF SearchInit
<1> QED
  BY <1>1, <1>2 DEF SearchInv, ExactIsTheFork

\* The first question settles it or opens the interval.
LEMMA FirstKeeps == SearchInv /\ AskFirst => SearchInv'
<1> SUFFICES ASSUME SearchInv, AskFirst PROVE SearchInv'
  OBVIOUS
<1>1. lo = 1 /\ hi = top /\ fork \in Nat /\ top \in Nat /\ 1 <= fork /\ fork <= top
  BY DEF SearchInv, AskFirst
<1>2. PICK carries \in HasBalHash(1) :
        IF carries = "yes" \/ top <= 1
        THEN Found(1, carries # "unserved")
        ELSE /\ at' = "loop" /\ loSeen' = (carries # "unserved")
             /\ UNCHANGED <<top, fork, lo, hi, answer>>
  BY DEF AskFirst
<1>3. CASE carries = "yes" \/ top <= 1
  <2>1. fork = 1
    BY <1>1, <1>3 DEF HasBalHash
  <2>2. at' = "found" /\ answer'.block = 1 /\ UNCHANGED <<top, fork, lo, hi, loSeen>>
    BY <1>2, <1>3 DEF Found
  <2>3. ExactIsTheFork'
    BY <1>1, <2>1, <2>2 DEF ExactIsTheFork
  <2>4. loSeen' \in BOOLEAN
    BY <2>2 DEF SearchInv
  <2> QED
    BY <1>1, <2>2, <2>3, <2>4 DEF SearchInv
<1>4. CASE ~ (carries = "yes" \/ top <= 1)
  <2>1. at' = "loop" /\ UNCHANGED <<top, fork, lo, hi, answer>>
    BY <1>2, <1>4
  <2>2. loSeen' = (carries # "unserved")
    BY <1>2, <1>4
  <2>3. carries # "unserved" => 1 < fork
    BY <1>1, <1>4 DEF HasBalHash
  <2>4. loSeen' \in BOOLEAN /\ (loSeen' => 1 < fork)
    BY <2>2, <2>3, Zenon
  <2> QED
    BY <1>1, <1>4, <2>1, <2>4 DEF SearchInv, ExactIsTheFork
<1> QED
  BY <1>3, <1>4

\* A header at or after the fork lowers hi, any other answer raises lo; only a
\* header that was read without the hash makes lo a witness.
LEMMA BisectKeeps == SearchInv /\ Bisect => SearchInv'
<1> SUFFICES ASSUME SearchInv, Bisect PROVE SearchInv'
  OBVIOUS
<1> DEFINE mid == lo + (hi - lo) \div 2
<1>1. at = "loop" /\ 1 <= lo /\ lo < hi /\ hi <= top /\ fork <= hi /\ (loSeen => lo < fork)
      /\ lo \in Nat /\ hi \in Nat /\ fork \in Nat /\ top \in Nat /\ 1 <= fork /\ fork <= top
  BY DEF SearchInv, Bisect
<1>2. mid \in Nat /\ lo < mid /\ mid < hi
  BY <1>1, Midpoint DEF Bisect
<1>3. UNCHANGED <<top, fork, at, answer>>
  BY DEF Bisect
<1>4. PICK carries \in HasBalHash(mid) :
        IF carries = "yes" THEN hi' = mid /\ UNCHANGED <<lo, loSeen>>
        ELSE lo' = mid /\ loSeen' = (carries = "no") /\ UNCHANGED hi
  BY DEF Bisect
<1> HIDE DEF mid
<1>5. CASE carries = "yes"
  <2>1. fork <= mid
    BY <1>1, <1>2, <1>5 DEF HasBalHash
  <2>2. hi' = mid /\ lo' = lo /\ loSeen' = loSeen
    BY <1>4, <1>5
  <2>3. at' = "loop" /\ top' = top /\ fork' = fork
    BY <1>1, <1>3
  <2>4. loSeen' \in BOOLEAN
    BY <2>2 DEF SearchInv
  <2> QED
    BY <1>1, <1>2, <2>1, <2>2, <2>3, <2>4 DEF SearchInv, ExactIsTheFork
<1>6. CASE carries # "yes"
  <2>1. carries = "no" => mid < fork
    BY <1>1, <1>2, <1>6 DEF HasBalHash
  <2>2. lo' = mid /\ hi' = hi /\ loSeen' = (carries = "no")
    BY <1>4, <1>6
  <2>3. loSeen' \in BOOLEAN /\ (loSeen' => mid < fork)
    BY <2>1, <2>2, Zenon
  <2>4. at' = "loop" /\ top' = top /\ fork' = fork
    BY <1>1, <1>3
  <2> QED
    BY <1>1, <1>2, <2>2, <2>3, <2>4 DEF SearchInv, ExactIsTheFork
<1> QED
  BY <1>5, <1>6

LEMMA ConvergedKeeps == SearchInv /\ Converged => SearchInv'
  BY DEF SearchInv, Converged, Found, ExactIsTheFork

LEMMA SearchStutters == SearchInv /\ UNCHANGED searchVars => SearchInv'
  BY DEF SearchInv, searchVars, ExactIsTheFork

\* find_bal_fork() never answers below the fork, and what it calls exact is the
\* fork, for every chain and whatever the node withheld.
THEOREM SearchHolds == SearchSpec => []ExactIsTheFork
<1>1. SearchInv /\ [SearchNext]_searchVars => SearchInv'
  BY FirstKeeps, BisectKeeps, ConvergedKeeps, SearchStutters DEF SearchNext
<1>2. SearchInv => ExactIsTheFork
  BY DEF SearchInv
<1> QED
  BY SearchStarts, <1>1, <1>2, PTL DEF SearchSpec

-----------------------------------------------------------------------------
(* The sidecar *)

LEMMA SidecarStarts == SidecarInit => SidecarInv
<1> SUFFICES ASSUME SidecarInit PROVE SidecarInv
  OBVIOUS
<1>1. /\ holder = [s \in Server |-> [at |-> "new", url |-> NoUrl]]
      /\ side = [is |-> "never", url |-> NoUrl, by |-> NoServer]
      /\ stranger = {} /\ client = [c \in Client |-> Waiting]
  BY DEF SidecarInit, NoFile
<1>2. SidecarTypeOK
  BY <1>1 DEF SidecarTypeOK, Command, Waiting
<1>3. OneHolds /\ Listeners /\ WriterIsNamed /\ OwnOrRemoved
  BY <1>1 DEF OneHolds, Listeners, WriterIsNamed, OwnOrRemoved, Opened
<1>4. CommandsKnow
  BY <1>1, SidecarAssumption DEF CommandsKnow, Knows, Waiting
<1> QED
  BY <1>2, <1>3, <1>4 DEF SidecarInv

\* The lock: who opens the file is alone.
LEMMA OpensFileKeeps ==
  ASSUME NEW s \in Server, NEW u \in Url \cup {NoUrl}, SidecarInv, OpensFile(s, u)
  PROVE  SidecarInv'
<1>1. /\ holder[s].at = "new" /\ \A t \in Server : holder[t].at \notin Opened
      /\ holder' = [holder EXCEPT ![s] = [at |-> "open", url |-> u]]
      /\ UNCHANGED <<side, stranger, client>>
  BY DEF OpensFile, Held
<1>2. SidecarTypeOK'
  BY <1>1 DEF SidecarInv, SidecarTypeOK, Opened
<1>3. \A t \in Server : t # s => holder'[t] = holder[t]
  BY <1>1 DEF SidecarInv, SidecarTypeOK
<1>4. holder'[s].at = "open"
  BY <1>1 DEF SidecarInv, SidecarTypeOK
<1>5. OneHolds' /\ Listeners'
  BY <1>1, <1>3, <1>4 DEF SidecarInv, OneHolds, Listeners, Opened
<1>6. WriterIsNamed'
  BY <1>1, <1>3 DEF SidecarInv, WriterIsNamed, Named
<1>7. OwnOrRemoved'
  BY <1>1, <1>3, <1>4 DEF SidecarInv, OwnOrRemoved
<1>8. CommandsKnow'
  BY <1>1, <1>3, <1>4 DEF SidecarInv, CommandsKnow, Knows, Named, Gone, AdvertisedServer, IsAdvertised
<1> QED
  BY <1>2, <1>5, <1>6, <1>7, <1>8 DEF SidecarInv

\* A process that holds the file binds its address or comes to its end.
LEMMA HolderMoves ==
  ASSUME NEW s \in Server, NEW to \in {"bound", "ended", "killed"}, SidecarInv,
         holder[s].at \in Opened, Becomes(s, to), UNCHANGED <<side, stranger, client>>,
         holder[s].at # "open" => to \in Gone,
         holder[s].at = "cleared" => to = "killed",
         to = "bound" => holder[s].url # NoUrl
  PROVE  SidecarInv'
<1>1. SidecarTypeOK'
  BY DEF SidecarInv, SidecarTypeOK, Becomes, Opened, Gone
<1>2. /\ \A t \in Server : t # s => holder'[t] = holder[t]
      /\ holder'[s].at = to /\ holder'[s].url = holder[s].url
  BY DEF SidecarInv, SidecarTypeOK, Becomes
<1>3. OneHolds' /\ Listeners'
  BY <1>2 DEF SidecarInv, OneHolds, Listeners, Opened
<1>4. WriterIsNamed'
  BY <1>2 DEF SidecarInv, WriterIsNamed, Opened, Named, Gone
<1>5. OwnOrRemoved'
  BY <1>2 DEF SidecarInv, OwnOrRemoved
<1>6. AdvertisedServer' \subseteq AdvertisedServer
  BY <1>2 DEF AdvertisedServer, IsAdvertised
<1>7. CommandsKnow'
  BY <1>2, <1>6 DEF SidecarInv, CommandsKnow, Knows, Opened, Named, Gone
<1> QED
  BY <1>1, <1>3, <1>4, <1>5, <1>7 DEF SidecarInv

LEMMA BindKeeps == ASSUME NEW s \in Server, SidecarInv, Bind(s) PROVE SidecarInv'
<1>1. PICK to \in {"bound", "ended"} : Becomes(s, to)
  BY DEF Bind
<1> QED
  BY <1>1, HolderMoves DEF Bind, Opened, Gone

LEMMA EndsKeeps == ASSUME NEW s \in Server, SidecarInv, Ends(s) PROVE SidecarInv'
  BY HolderMoves DEF Ends, Opened, Gone

LEMMA KilledKeeps == ASSUME NEW s \in Server, SidecarInv, Killed(s) PROVE SidecarInv'
  BY HolderMoves DEF Killed, Opened, Gone

\* The file that is emptied is the writer's from here on; whoever wrote it before holds
\* the file no more, so no server loses its name.
LEMMA ClearSidecarKeeps ==
  ASSUME NEW s \in Server, SidecarInv, ClearSidecar(s)
  PROVE  SidecarInv'
<1>1. SidecarTypeOK'
  BY DEF SidecarInv, SidecarTypeOK, ClearSidecar, Becomes, Opened, Gone
<1>2. /\ \A t \in Server : t # s => holder'[t] = holder[t] /\ holder[t].at \notin Opened
      /\ holder[s].at = "bound" /\ holder'[s].at = "cleared" /\ holder'[s].url = holder[s].url
      /\ side' = [is |-> "file", url |-> NoUrl, by |-> s] /\ client' = client
  BY DEF SidecarInv, SidecarTypeOK, OneHolds, ClearSidecar, Becomes, Opened
<1>3. OneHolds' /\ Listeners'
  BY <1>2 DEF SidecarInv, OneHolds, Listeners, Opened
<1>4. WriterIsNamed' /\ OwnOrRemoved'
  BY <1>2 DEF WriterIsNamed, OwnOrRemoved, Opened
<1>5. AdvertisedServer' = {}
  BY <1>2 DEF AdvertisedServer, IsAdvertised, Opened
<1>6. CommandsKnow'
  BY <1>2, <1>5 DEF SidecarInv, CommandsKnow, Knows, Named, Gone
<1> QED
  BY <1>1, <1>3, <1>4, <1>6 DEF SidecarInv

\* The name goes into the file that is still there.  No command began with this
\* server, which was not advertised until now.
LEMMA WriteSidecarKeeps ==
  ASSUME NEW s \in Server, SidecarInv, WriteSidecar(s)
  PROVE  SidecarInv'
<1>1. SidecarTypeOK'
  BY DEF SidecarInv, SidecarTypeOK, WriteSidecar, Becomes, Opened, Gone
<1>2. /\ \A t \in Server : t # s => holder'[t] = holder[t] /\ holder[t].at \notin Opened
      /\ holder[s].at = "cleared" /\ holder'[s].at = "serving" /\ holder'[s].url = holder[s].url
      /\ client' = client
  BY DEF SidecarInv, SidecarTypeOK, OneHolds, WriteSidecar, Becomes, Opened
<1>3. /\ side'.is = side.is /\ side'.by = side.by
      /\ side.is = "file" => side'.url = holder[s].url
      /\ side.is # "file" => side'.url = side.url
  BY DEF SidecarInv, SidecarTypeOK, WriteSidecar
<1>4. side.is = "file" => side.by = s
  BY <1>2 DEF SidecarInv, OwnOrRemoved
<1>5. OneHolds' /\ Listeners'
  BY <1>2 DEF SidecarInv, OneHolds, Listeners, Opened
<1>6. WriterIsNamed' /\ OwnOrRemoved'
  BY <1>2, <1>3, <1>4 DEF SidecarInv, WriterIsNamed, OwnOrRemoved, Opened, Named
<1>7. AdvertisedServer' \subseteq {s}
  BY <1>2 DEF AdvertisedServer, IsAdvertised, Opened
<1>8. \A c \in Client : client[c].seen # s
  BY <1>2 DEF SidecarInv, CommandsKnow, Knows, Named
<1>9. CommandsKnow'
  BY <1>2, <1>7, <1>8 DEF SidecarInv, CommandsKnow, Knows, Named, Gone
<1> QED
  BY <1>1, <1>5, <1>6, <1>9 DEF SidecarInv

\* The server that goes was the only one.
LEMMA DropSidecarKeeps ==
  ASSUME NEW s \in Server, SidecarInv, DropSidecar(s)
  PROVE  SidecarInv'
<1>1. SidecarTypeOK'
  BY DEF SidecarInv, SidecarTypeOK, DropSidecar, Dropped, Becomes, Opened, Gone
<1>2. /\ \A t \in Server : t # s => holder'[t] = holder[t] /\ holder[t].at \notin Opened
      /\ holder[s].at = "serving" /\ holder'[s].at = "leaving" /\ holder'[s].url = holder[s].url
      /\ side'.is = "dropped" /\ client' = client
  BY DEF SidecarInv, SidecarTypeOK, OneHolds, DropSidecar, Dropped, Becomes, Opened
<1>3. OneHolds' /\ Listeners'
  BY <1>2 DEF SidecarInv, OneHolds, Listeners, Opened
<1>4. WriterIsNamed' /\ OwnOrRemoved'
  BY <1>2 DEF WriterIsNamed, OwnOrRemoved, Opened
<1>5. AdvertisedServer' = {}
  BY <1>2 DEF AdvertisedServer, IsAdvertised
<1>6. CommandsKnow'
  BY <1>2, <1>5 DEF SidecarInv, CommandsKnow, Knows, Named, Gone
<1> QED
  BY <1>1, <1>3, <1>4, <1>6 DEF SidecarInv

\* A step of one command leaves the processes as they are: it is enough that what
\* the command knows now is so.
LEMMA CommandMoves ==
  ASSUME NEW c \in Client, NEW m \in Command, Knows(m), SidecarInv,
         client' = [client EXCEPT ![c] = m], UNCHANGED <<holder, side, stranger>>
  PROVE  SidecarInv'
<1>1. SidecarTypeOK'
  BY DEF SidecarInv, SidecarTypeOK
<1>2. OneHolds' /\ Listeners' /\ WriterIsNamed' /\ OwnOrRemoved'
  BY DEF SidecarInv, OneHolds, Listeners, WriterIsNamed, OwnOrRemoved
<1>3. client'[c] = m /\ \A d \in Client : d # c => client'[d] = client[d]
  BY DEF SidecarInv, SidecarTypeOK
<1>4. CommandsKnow'
  BY <1>3 DEF SidecarInv, CommandsKnow, Knows, AdvertisedServer, IsAdvertised
<1> QED
  BY <1>1, <1>2, <1>4 DEF SidecarInv

LEMMA OpenArchiveKeeps ==
  ASSUME NEW c \in Client, SidecarInv, OpenArchive(c)
  PROVE  SidecarInv'
<1> DEFINE seen == IF AdvertisedServer = {} THEN NoServer ELSE CHOOSE s \in AdvertisedServer : TRUE
<1>1. client[c] \in Command /\ client[c].seen = NoServer /\ UNCHANGED <<holder, side, stranger>>
  BY DEF SidecarInv, SidecarTypeOK, CommandsKnow, Knows, OpenArchive, Waiting
<1>2. seen \in AdvertisedServer \cup {NoServer} /\ AdvertisedServer \subseteq Server
  BY DEF AdvertisedServer
<1>3. \A s \in AdvertisedServer : holder[s].at \in Named
  BY DEF AdvertisedServer, IsAdvertised, Named
<1>4. CASE Held
  <2> DEFINE m == [client[c] EXCEPT !.at = "read", !.seen = seen]
  <2>1. client' = [client EXCEPT ![c] = m]
    BY <1>4 DEF OpenArchive, SidecarInv, SidecarTypeOK
  <2> HIDE DEF seen
  <2>2. m \in Command /\ m.at = "read" /\ m.seen = seen
    BY <1>1, <1>2 DEF Command
  <2> HIDE DEF m
  <2>3. Knows(m)
    BY <1>2, <1>3, <2>2, SidecarAssumption DEF Knows
  <2> QED
    BY <1>1, <2>1, <2>2, <2>3, CommandMoves
<1>5. CASE ~ Held
  <2> DEFINE m == [client[c] EXCEPT !.at = "done", !.got = "local", !.from = NoServer]
  <2>1. client' = [client EXCEPT ![c] = m]
    BY <1>5 DEF OpenArchive, Answers, SidecarInv, SidecarTypeOK
  <2>2. m \in Command /\ m.at = "done" /\ m.got = "local" /\ m.seen = NoServer
    BY <1>1 DEF Command
  <2> HIDE DEF m
  <2>3. Knows(m)
    BY <1>2, <2>2, SidecarAssumption DEF Knows
  <2> QED
    BY <1>1, <2>1, <2>2, <2>3, CommandMoves
<1> QED
  BY <1>4, <1>5

\* A sidecar that is there names its writer, and a server that is advertised all
\* the while is that writer.
LEMMA ReadSidecarKeeps ==
  ASSUME NEW c \in Client, SidecarInv, ReadSidecar(c)
  PROVE  SidecarInv'
<1>1. /\ client[c].at = "read" /\ client[c] \in Command /\ Knows(client[c])
      /\ UNCHANGED <<holder, side, stranger>>
  BY DEF ReadSidecar, SidecarInv, SidecarTypeOK, CommandsKnow
<1>2. CASE side.is = "file"
  <2> DEFINE m == [client[c] EXCEPT !.at = "ask", !.url = side.url, !.by = side.by]
  <2>1. client' = [client EXCEPT ![c] = m]
    BY <1>2 DEF ReadSidecar, SidecarInv, SidecarTypeOK
  <2>2. /\ m \in Command /\ m.at = "ask" /\ m.url = side.url /\ m.by = side.by
        /\ m.seen = client[c].seen
    BY <1>1 DEF SidecarInv, SidecarTypeOK, Command
  <2> HIDE DEF m
  <2>3. side.url # NoUrl => /\ side.by \in Server /\ holder[side.by].url = side.url
                            /\ holder[side.by].at \in Named
    BY <1>2 DEF SidecarInv, WriterIsNamed
  <2>4. \A s \in AdvertisedServer : s = side.by /\ side.url # NoUrl
    BY <1>2 DEF SidecarInv, WriterIsNamed, Listeners, AdvertisedServer, IsAdvertised, Opened
  <2>5. Knows(m)
    BY <1>1, <2>2, <2>3, <2>4 DEF Knows
  <2> QED
    BY <1>1, <2>1, <2>2, <2>5, CommandMoves
<1>3. CASE side.is # "file"
  <2> DEFINE m == [client[c] EXCEPT !.at = "done", !.got = "refused", !.from = NoServer]
  <2>1. client' = [client EXCEPT ![c] = m]
    BY <1>3 DEF ReadSidecar, Answers, SidecarInv, SidecarTypeOK
  <2>2. m \in Command /\ m.at = "done" /\ m.got = "refused" /\ m.seen = client[c].seen
    BY <1>1 DEF Command
  <2> HIDE DEF m
  <2>3. AdvertisedServer = {}
    BY <1>3 DEF AdvertisedServer, IsAdvertised
  <2>4. Knows(m)
    BY <1>1, <2>2, <2>3 DEF Knows
  <2> QED
    BY <1>1, <2>1, <2>2, <2>4, CommandMoves
<1> QED
  BY <1>2, <1>3

\* Who listens at an address is alone there: the server that was read of, or one that
\* has the file because the other is gone.
LEMMA AskHeadKeeps ==
  ASSUME NEW c \in Client, SidecarInv, AskHead(c)
  PROVE  SidecarInv'
<1> DEFINE there == IF client[c].url = NoUrl THEN {} ELSE ListensAt(client[c].url)
<1>1. /\ client[c].at = "ask" /\ client[c] \in Command /\ Knows(client[c])
      /\ UNCHANGED <<holder, side, stranger>>
  BY DEF AskHead, SidecarInv, SidecarTypeOK, CommandsKnow
<1>2. client[c].url # NoUrl => /\ client[c].by \in Server
                               /\ holder[client[c].by].url = client[c].url
                               /\ holder[client[c].by].at \in Named
  BY <1>1 DEF Knows
<1>3. client[c].seen \in AdvertisedServer => client[c].by = client[c].seen /\ client[c].url # NoUrl
  BY <1>1 DEF Knows
<1>4. \A s \in AdvertisedServer : s \in Server /\ holder[s].at = "serving"
  BY DEF AdvertisedServer, IsAdvertised
<1>5. client[c].seen \in AdvertisedServer => client[c].seen \in there
  BY <1>2, <1>3, <1>4 DEF ListensAt, Opened
<1>6. ASSUME NEW s \in there, client[c].by # s
      PROVE  client[c].by \in Server /\ holder[client[c].by].at \in Gone
  BY <1>2, <1>6 DEF SidecarInv, OneHolds, ListensAt, Opened, Named, Gone
<1>7. there = {} /\ client[c].url # NoUrl => holder[client[c].by].at \in Gone
  BY <1>2 DEF ListensAt, Opened, Named, Gone
<1>8. CASE \E s \in there : Answers(c, "remote", s)
  <2>1. PICK s \in there : Answers(c, "remote", s)
    BY <1>8
  <2> DEFINE m == [client[c] EXCEPT !.at = "done", !.got = "remote", !.from = s]
  <2>2. client' = [client EXCEPT ![c] = m]
    BY <2>1 DEF Answers, SidecarInv, SidecarTypeOK
  <2>3. s \in Server
    BY DEF ListensAt
  <2>4. /\ m \in Command /\ m.at = "done" /\ m.got = "remote" /\ m.from = s
        /\ m.seen = client[c].seen /\ m.by = client[c].by
    BY <1>1, <2>3 DEF Command
  <2>5. client[c].seen \in AdvertisedServer => s = client[c].seen
    BY <1>3, <1>4, <1>6 DEF Gone
  <2> HIDE DEF m
  <2>6. Knows(m)
    BY <1>1, <1>6, <2>4, <2>5 DEF Knows
  <2> QED
    BY <1>1, <2>2, <2>4, <2>6, CommandMoves
<1>9. CASE there = {} /\ client[c].url \in stranger /\ Answers(c, "remote", NoServer)
  <2> DEFINE m == [client[c] EXCEPT !.at = "done", !.got = "remote", !.from = NoServer]
  <2>1. client' = [client EXCEPT ![c] = m]
    BY <1>9 DEF Answers, SidecarInv, SidecarTypeOK
  <2>2. /\ m \in Command /\ m.at = "done" /\ m.got = "remote" /\ m.from = NoServer
        /\ m.seen = client[c].seen /\ m.by = client[c].by
    BY <1>1 DEF Command
  <2>3. client[c].url # NoUrl
    BY <1>9, SidecarAssumption DEF SidecarInv, SidecarTypeOK
  <2>4. client[c].seen \notin AdvertisedServer
    BY <1>5, <1>9
  <2> HIDE DEF m, there
  <2>5. Knows(m)
    BY <1>1, <1>2, <1>7, <1>9, <2>2, <2>3, <2>4 DEF Knows
  <2> QED
    BY <1>1, <2>1, <2>2, <2>5, CommandMoves
<1>10. CASE there = {} /\ client' = [client EXCEPT ![c] = [client[c] EXCEPT !.at = "remove"]]
  <2> DEFINE m == [client[c] EXCEPT !.at = "remove"]
  <2>1. /\ m \in Command /\ m.at = "remove" /\ m.url = client[c].url
        /\ m.seen = client[c].seen /\ m.by = client[c].by
    BY <1>1 DEF Command
  <2>2. client[c].seen \notin AdvertisedServer
    BY <1>5, <1>10
  <2>3. client' = [client EXCEPT ![c] = m]
    BY <1>10
  <2> HIDE DEF m, there
  <2>4. Knows(m)
    BY <1>1, <1>2, <1>7, <1>10, <2>1, <2>2 DEF Knows
  <2> QED
    BY <1>1, <2>1, <2>3, <2>4, CommandMoves
<1> QED
  BY <1>8, <1>9, <1>10 DEF AskHead, SidecarInv, SidecarTypeOK

\* The sidecar that is removed names a server that has ended, or nobody, or it is not
\* the one that was read.
LEMMA RemoveSidecarKeeps ==
  ASSUME NEW c \in Client, SidecarInv, RemoveSidecar(c)
  PROVE  SidecarInv'
<1>1. /\ client[c].at = "remove" /\ client[c] \in Command /\ Knows(client[c])
      /\ UNCHANGED <<holder, stranger>>
  BY DEF RemoveSidecar, SidecarInv, SidecarTypeOK, CommandsKnow
<1>2. \/ side' = [is |-> "removed", url |-> client[c].url, by |-> client[c].by]
      \/ side' = side /\ side.is # "file"
  BY DEF RemoveSidecar
<1>3. side'.is # "file"
  BY <1>2
<1> DEFINE m == [client[c] EXCEPT !.at = "done", !.got = "refused", !.from = NoServer]
<1>4. client' = [client EXCEPT ![c] = m]
  BY DEF RemoveSidecar, Answers, SidecarInv, SidecarTypeOK
<1>5. m \in Command /\ m.at = "done" /\ m.got = "refused" /\ m.seen = client[c].seen
  BY <1>1 DEF Command
<1>6. SidecarTypeOK'
  BY <1>1, <1>2, <1>4, <1>5 DEF SidecarInv, SidecarTypeOK, Command
<1>7. OneHolds' /\ Listeners' /\ WriterIsNamed'
  BY <1>1, <1>3 DEF SidecarInv, OneHolds, Listeners, WriterIsNamed
<1>8. client[c].url # NoUrl => holder[client[c].by].at \in Gone
  BY <1>1 DEF Knows
<1>9. OwnOrRemoved'
  BY <1>1, <1>2, <1>8 DEF SidecarInv, OwnOrRemoved, Gone
<1>10. AdvertisedServer' = {}
  BY <1>3 DEF AdvertisedServer, IsAdvertised
<1>11. client'[c] = m /\ \A d \in Client : d # c => client'[d] = client[d]
  BY <1>4 DEF SidecarInv, SidecarTypeOK
<1> HIDE DEF m
<1>12. CommandsKnow'
  BY <1>1, <1>5, <1>10, <1>11 DEF SidecarInv, CommandsKnow, Knows
<1> QED
  BY <1>6, <1>7, <1>9, <1>12 DEF SidecarInv

LEMMA ExitsKeeps == ASSUME NEW c \in Client, SidecarInv, Exits(c) PROVE SidecarInv'
<1>1. Waiting \in Command /\ Waiting.at = "idle" /\ Waiting.seen = NoServer
  BY DEF Waiting, Command
<1>2. Knows(Waiting)
  BY <1>1, SidecarAssumption DEF Knows
<1> QED
  BY <1>1, <1>2, CommandMoves DEF Exits

LEMMA StrangerKeeps == ASSUME NEW u \in Url, SidecarInv, Stranger(u) PROVE SidecarInv'
<1>1. stranger' \subseteq Url /\ UNCHANGED <<holder, side, client>>
  BY DEF Stranger, SidecarInv, SidecarTypeOK
<1> QED
  BY <1>1 DEF SidecarInv, SidecarTypeOK, OneHolds, Listeners, WriterIsNamed, OwnOrRemoved,
              CommandsKnow, Knows, AdvertisedServer, IsAdvertised

LEMMA SidecarStutters == SidecarInv /\ UNCHANGED sidecarVars => SidecarInv'
  BY DEF sidecarVars, SidecarInv, SidecarTypeOK, OneHolds, Listeners, WriterIsNamed, OwnOrRemoved,
         CommandsKnow, Knows, AdvertisedServer, IsAdvertised

LEMMA SidecarKeeps == SidecarInv /\ [SidecarNext]_sidecarVars => SidecarInv'
<1> SUFFICES ASSUME SidecarInv, SidecarNext PROVE SidecarInv'
  BY SidecarStutters
<1>1. ASSUME NEW s \in Server, NEW u \in Url \cup {NoUrl}, OpensFile(s, u) PROVE SidecarInv'
  BY <1>1, OpensFileKeeps
<1>2. ASSUME NEW s \in Server,
             Bind(s) \/ ClearSidecar(s) \/ WriteSidecar(s) \/ DropSidecar(s) \/ Ends(s) \/ Killed(s)
      PROVE  SidecarInv'
  BY <1>2, BindKeeps, ClearSidecarKeeps, WriteSidecarKeeps, DropSidecarKeeps, EndsKeeps, KilledKeeps
<1>3. ASSUME NEW u \in Url, Stranger(u) PROVE SidecarInv'
  BY <1>3, StrangerKeeps
<1>4. ASSUME NEW c \in Client,
             OpenArchive(c) \/ ReadSidecar(c) \/ AskHead(c) \/ RemoveSidecar(c) \/ Exits(c)
      PROVE  SidecarInv'
  BY <1>4, OpenArchiveKeeps, ReadSidecarKeeps, AskHeadKeeps, RemoveSidecarKeeps, ExitsKeeps
<1> QED
  BY <1>1, <1>2, <1>3, <1>4 DEF SidecarNext

LEMMA SidecarInvImplies == SidecarInv => SidecarLeadsToTheServer
<1> SUFFICES ASSUME SidecarInv PROVE SidecarLeadsToTheServer
  OBVIOUS
<1>1. ASSUME NEW c \in Client, client[c].at = "done"
      PROVE  /\ client[c].seen \in AdvertisedServer =>
                  client[c].got = "remote" /\ client[c].from = client[c].seen
             /\ client[c].got = "remote" /\ client[c].from # client[c].by =>
                  holder[client[c].by].at \in {"ended", "killed"}
  BY <1>1 DEF SidecarInv, CommandsKnow, Knows, Gone
<1>2. ASSUME NEW s \in Server, holder[s].at = "serving", ~ IsAdvertised(s)
      PROVE  side.is = "removed" /\ (side.by # s \/ side.url = NoUrl)
  BY <1>2 DEF SidecarInv, OwnOrRemoved, IsAdvertised
<1> QED
  BY <1>1, <1>2 DEF SidecarLeadsToTheServer

\* serve.rs:73-110 and commands/mod.rs:94-124: whatever is killed, started and read in
\* whatever order, by any number of processes and commands, the sidecar leads to the
\* server that holds the file.
THEOREM SidecarHolds == SidecarSpec => []SidecarLeadsToTheServer
<1>1. SidecarInit => SidecarInv
  BY SidecarStarts
<1>2. SidecarInv /\ [SidecarNext]_sidecarVars => SidecarInv'
  BY SidecarKeeps
<1>3. SidecarInv => SidecarLeadsToTheServer
  BY SidecarInvImplies
<1> QED
  BY <1>1, <1>2, <1>3, PTL DEF SidecarSpec

-----------------------------------------------------------------------------
(* Nodes *)

\* A call ends with the first attempt that got through, or with the last one.
LEMMA CallEnds ==
  ASSUME NEW replies \in Attempts(Reply)
  PROVE  \E k \in 1 .. Retries :
           /\ Call(replies) = CallOnce(replies[k])
           /\ replies[k] \notin Unreached \/ k = Retries
           /\ \A m \in 1 .. k - 1 : replies[m] \in Unreached
<1> DEFINE last == {n \in 1 .. Retries : CallOnce(replies[n]).why # "Transport" \/ n = Retries}
<1>1. Retries \in Nat /\ 1 <= Retries BY SourceAssumption
<1>2. Retries \in last BY <1>1
<1>3. last \subseteq Nat BY <1>1
<1>4. ASSUME NEW n \in 1 .. Retries
      PROVE  CallOnce(replies[n]).why = "Transport" <=> replies[n] \in Unreached
  <2>1. replies[n] \in Reply BY DEF Attempts
  <2> QED BY <2>1 DEF CallOnce, Ok, Err, Unreached
<1> HIDE DEF last
<1>5. PICK k \in last : \A y \in last : k <= y BY <1>2, <1>3, LeastOf
<1>6. Min(last) \in last /\ \A y \in last : Min(last) <= y BY <1>5 DEF Min
<1>7. Min(last) \in 1 .. Retries BY <1>6 DEF last
<1>8. replies[Min(last)] \notin Unreached \/ Min(last) = Retries BY <1>4, <1>6, <1>7 DEF last
<1>9. ASSUME NEW m \in 1 .. Min(last) - 1 PROVE replies[m] \in Unreached
  <2>1. m \in 1 .. Retries /\ m < Min(last) BY <1>1, <1>7
  <2>2. m \notin last
    <3> SUFFICES ASSUME m \in last PROVE FALSE OBVIOUS
    <3>1. Min(last) <= m BY <1>6
    <3> QED BY <2>1, <3>1, <1>7
  <2> QED BY <1>4, <2>1, <2>2 DEF last
<1>10. Call(replies) = CallOnce(replies[Min(last)]) BY DEF Call, last
<1> QED BY <1>7, <1>8, <1>9, <1>10

\* What is answered first is what the call returns.
LEMMA AnswerIsTaken ==
  ASSUME NEW replies \in Attempts(Reply), NEW what \in Reply \ Unreached, Answered(replies, what)
  PROVE  Call(replies) = CallOnce(what)
<1>1. PICK n \in 1 .. Retries :
        replies[n] = what /\ \A m \in 1 .. n - 1 : replies[m] \in Unreached
  BY DEF Answered, Attempts
<1>2. PICK k \in 1 .. Retries :
        /\ Call(replies) = CallOnce(replies[k])
        /\ replies[k] \notin Unreached \/ k = Retries
        /\ \A m \in 1 .. k - 1 : replies[m] \in Unreached
  BY CallEnds
<1>3. Retries \in Nat BY SourceAssumption
<1>4. ~ (n < k)
  <2> SUFFICES ASSUME n < k PROVE FALSE OBVIOUS
  <2>1. n \in 1 .. k - 1 BY <1>3
  <2> QED BY <1>1, <1>2, <2>1
<1>5. ~ (k < n)
  <2> SUFFICES ASSUME k < n PROVE FALSE OBVIOUS
  <2>1. k \in 1 .. n - 1 /\ k # Retries BY <1>3
  <2> QED BY <1>1, <1>2, <2>1
<1>6. k = n BY <1>3, <1>4, <1>5
<1> QED BY <1>1, <1>2, <1>6

\* What a call returns was answered first.
LEMMA TakenIsAnswered ==
  ASSUME NEW replies \in Attempts(Reply), Call(replies).ok
  PROVE  /\ Answered(replies, Call(replies).value)
         /\ Call(replies).value \in Hash \cup {NoHash, "forged"}
         /\ Call(replies).why = "none"
<1>1. PICK k \in 1 .. Retries :
        /\ Call(replies) = CallOnce(replies[k])
        /\ \A m \in 1 .. k - 1 : replies[m] \in Unreached
  BY CallEnds
<1>2. replies[k] \in Reply /\ k \in DOMAIN replies BY DEF Attempts
<1>3. CallOnce(replies[k]).ok BY <1>1
<1>4. CallOnce(replies[k]) = Ok(replies[k])
      /\ replies[k] \notin Unreached \cup {"huge", "garbled", "error"}
  BY <1>2, <1>3 DEF CallOnce, Ok, Err
<1>5. Call(replies).value = replies[k] /\ Call(replies).why = "none" BY <1>1, <1>4 DEF Ok
<1>6. replies[k] \in Hash \cup {NoHash, "forged"} BY <1>2, <1>4 DEF Reply, Failures
<1>7. Answered(replies, replies[k]) BY <1>1, <1>2 DEF Answered
<1> QED BY <1>5, <1>6, <1>7

\* A header is one of the number asked for, which the node served; and a node that
\* has none says so.
LEMMA HeaderIsServed ==
  ASSUME NEW n \in Heights, NEW replies \in Attempts(Reply)
  PROVE  LET res == Header(n, replies) IN
         /\ res.ok => res.value \in Hash /\ Num[res.value] = n /\ Answered(replies, res.value)
         /\ res.why = "BlockNotFound" => Answered(replies, NoHash)
         /\ res.why # "NoBal"
<1> DEFINE call == Call(replies)
<1>1. NoHash \notin Hash /\ "forged" \notin Hash \cup {NoHash}
  BY TreeAssumption, SourceAssumption DEF Failures
<1>2. CASE call.ok
  <2>1. Answered(replies, call.value) /\ call.value \in Hash \cup {NoHash, "forged"} /\ call.why = "none"
    BY <1>2, TakenIsAnswered
  <2> HIDE DEF call
  <2>2. CASE call.value = NoHash
    <3>1. Header(n, replies) = Err("BlockNotFound") BY <1>2, <2>2 DEF Header, call
    <3> QED BY <3>1, <2>1, <2>2 DEF Err
  <2>3. CASE call.value # NoHash /\ (call.value = "forged" \/ Num[call.value] # n)
    <3>1. Header(n, replies) = Err("Malformed") BY <1>2, <2>3 DEF Header, call
    <3> QED BY <3>1 DEF Err
  <2>4. CASE call.value # NoHash /\ ~ (call.value = "forged" \/ Num[call.value] # n)
    <3>1. Header(n, replies) = call BY <1>2, <2>4 DEF Header, call
    <3> QED BY <3>1, <2>1, <2>4
  <2> QED BY <2>2, <2>3, <2>4
<1>3. CASE ~ call.ok
  <2>1. Header(n, replies) = call BY <1>3 DEF Header
  <2>2. PICK k \in 1 .. Retries : call = CallOnce(replies[k]) BY CallEnds
  <2>3. call.why \in {"Transport", "TooLarge", "Malformed", "Rpc"}
    BY <1>3, <2>2 DEF CallOnce, Ok, Err
  <2> QED BY <1>3, <2>1, <2>3
<1> QED BY <1>2, <1>3

\* A list is the one of a block the node served; and a node that has none says so.
LEMMA ListIsServed ==
  ASSUME NEW replies \in Attempts(Reply)
  PROVE  LET res == Bal(replies) IN
         /\ res.why = "NoBal" => Answered(replies, NoHash)
         /\ res.why \notin {"BlockNotFound", "Absent"}
         /\ res.ok <=> \E h \in Hash : Answered(replies, h)
         /\ \A h \in Hash : Answered(replies, h) => res = Ok(Changes[h])
         /\ Answered(replies, NoHash) => ~ res.ok
<1> DEFINE call == Call(replies)
<1>1. NoHash \notin Hash /\ "forged" \notin Hash \cup {NoHash} /\ Failures \cap (Hash \cup {NoHash}) = {}
  BY TreeAssumption, SourceAssumption DEF Failures
<1>2. ASSUME NEW h \in Hash \cup {NoHash}, Answered(replies, h) PROVE call = Ok(h)
  <2>1. h \in Reply \ Unreached BY <1>1 DEF Reply, Failures
  <2>2. call = CallOnce(h) BY <1>2, <2>1, AnswerIsTaken
  <2>3. h \notin Unreached \cup {"huge", "garbled", "error"} BY <1>1 DEF Failures
  <2>4. CallOnce(h) = Ok(h) BY <2>3 DEF CallOnce
  <2> QED BY <2>2, <2>4
<1>3. ASSUME NEW h \in Hash, Answered(replies, h) PROVE Bal(replies) = Ok(Changes[h])
  <2>1. call = Ok(h) BY <1>2, <1>3
  <2> HIDE DEF call
  <2>2. call.ok /\ call.value = h /\ h # NoHash /\ h # "forged" BY <1>1, <2>1 DEF Ok
  <2> QED BY <2>2 DEF Bal, call
<1>4. ASSUME Answered(replies, NoHash) PROVE Bal(replies) = Err("NoBal")
  <2>1. call = Ok(NoHash) BY <1>2, <1>4
  <2> HIDE DEF call
  <2>2. call.ok /\ call.value = NoHash BY <2>1 DEF Ok
  <2> QED BY <2>2 DEF Bal, call
<1>5. CASE call.ok
  <2>1. Answered(replies, call.value) /\ call.value \in Hash \cup {NoHash, "forged"}
    BY <1>5, TakenIsAnswered
  <2> HIDE DEF call
  <2>2. CASE call.value \in Hash
    <3>1. Bal(replies) = Ok(Changes[call.value]) BY <1>3, <2>1, <2>2
    <3>2. ~ Answered(replies, NoHash) BY <1>4, <3>1 DEF Ok, Err
    <3> QED BY <1>3, <2>1, <2>2, <3>1, <3>2 DEF Ok
  <2>3. CASE call.value = NoHash
    <3>1. Bal(replies) = Err("NoBal") BY <1>4, <2>1, <2>3
    <3>2. ASSUME NEW h \in Hash, Answered(replies, h) PROVE FALSE
      <4>1. Bal(replies) = Ok(Changes[h]) BY <1>3, <3>2
      <4> QED BY <3>1, <4>1 DEF Ok, Err
    <3> QED BY <2>1, <2>3, <3>1, <3>2 DEF Err
  <2>4. CASE call.value = "forged"
    <3>1. Bal(replies) = Err("Codec") BY <1>1, <1>5, <2>4 DEF Bal, call
    <3>2. ~ Answered(replies, NoHash) BY <1>4, <3>1 DEF Err
    <3>3. ASSUME NEW h \in Hash, Answered(replies, h) PROVE FALSE
      <4>1. Bal(replies) = Ok(Changes[h]) BY <1>3, <3>3
      <4> QED BY <3>1, <4>1 DEF Ok, Err
    <3> QED BY <3>1, <3>2, <3>3 DEF Err
  <2> QED BY <2>1, <2>2, <2>3, <2>4
<1>6. CASE ~ call.ok
  <2>1. Bal(replies) = call BY <1>6 DEF Bal
  <2>2. PICK k \in 1 .. Retries : call = CallOnce(replies[k]) BY CallEnds
  <2>3. call.why \in {"Transport", "TooLarge", "Malformed", "Rpc"}
    BY <1>6, <2>2 DEF CallOnce, Ok, Err
  <2>4. \A h \in Hash : ~ Answered(replies, h) BY <1>3, <1>6, <2>1 DEF Ok
  <2>5. ~ Answered(replies, NoHash) BY <1>4, <2>1, <2>3 DEF Err
  <2> QED BY <1>6, <2>1, <2>3, <2>4, <2>5
<1> QED BY <1>5, <1>6

\* The list is missing for good only where there is no backup to ask, and one that
\* the primary lost is the backup's.
LEMMA FallbackList ==
  ASSUME NEW primary \in Served, NEW backup \in Backups
  PROVE  LET res == FallbackBal(primary, backup) IN
         /\ res.why = "NoBal" => Answered(primary.bal, NoHash) /\ backup = {}
         /\ res.why # "BlockNotFound"
         /\ \A h \in Hash, b \in backup :
              Answered(primary.bal, NoHash) /\ Answered(b.bal, h) => res = Ok(Changes[h])
<1> DEFINE own == Bal(primary.bal)
           other == BackupBal(backup)
<1>1. primary.bal \in Attempts(Reply) BY DEF Served
<1>2. /\ own.why = "NoBal" => Answered(primary.bal, NoHash)
      /\ own.why \notin {"BlockNotFound", "Absent"}
      /\ own.ok <=> \E h \in Hash : Answered(primary.bal, h)
      /\ \A h \in Hash : Answered(primary.bal, h) => own = Ok(Changes[h])
      /\ Answered(primary.bal, NoHash) => ~ own.ok
  BY <1>1, ListIsServed
<1>3. CASE backup = {}
  <2>1. other = Err("Absent") BY <1>3 DEF BackupBal
  <2>2. ~ other.ok /\ other.why = "Absent" BY <2>1 DEF Err
  <2> HIDE DEF own, other
  <2>3. FallbackBal(primary, backup) = own
    BY <2>2 DEF FallbackBal, Either, PreferPrimary, own, other
  <2> QED BY <1>2, <1>3, <2>3
<1>4. CASE backup # {}
  <2>1. PICK b \in backup : TRUE BY <1>4
  <2>2. b \in Served /\ \A c \in backup : c = b BY <2>1 DEF Backups
  <2>3. (CHOOSE c \in backup : TRUE) = b BY <2>1, <2>2
  <2>4. other = Bal(b.bal) BY <1>4, <2>3 DEF BackupBal
  <2>5. b.bal \in Attempts(Reply) BY <2>2 DEF Served
  <2>6. /\ other.why \notin {"BlockNotFound", "Absent"}
        /\ other.ok <=> \E h \in Hash : Answered(b.bal, h)
        /\ \A h \in Hash : Answered(b.bal, h) => other = Ok(Changes[h])
    BY <2>4, <2>5, ListIsServed
  <2> HIDE DEF own, other
  <2>7. CASE own.ok
    <3>1. FallbackBal(primary, backup) = own BY <2>7 DEF FallbackBal, Either, own
    <3>2. own.why = "none" BY <1>2, <2>7 DEF Ok
    <3> QED BY <1>2, <2>7, <3>1, <3>2
  <2>8. CASE ~ own.ok /\ other.ok
    <3>1. FallbackBal(primary, backup) = other BY <2>8 DEF FallbackBal, Either, own, other
    <3>2. other.why = "none" BY <2>6, <2>8 DEF Ok
    <3>3. ASSUME NEW h \in Hash, NEW c \in backup, Answered(c.bal, h) PROVE other = Ok(Changes[h])
      BY <2>2, <2>6, <3>3
    <3> QED BY <3>1, <3>2, <3>3
  <2>9. CASE ~ own.ok /\ ~ other.ok
    <3>1. FallbackBal(primary, backup) = Err("Transport")
      BY <2>6, <2>9 DEF FallbackBal, Either, PreferPrimary, own, other
    <3>2. \A h \in Hash, c \in backup : ~ Answered(c.bal, h) BY <2>2, <2>6, <2>9
    <3> QED BY <3>1, <3>2 DEF Err
  <2> QED BY <2>7, <2>8, <2>9
<1> QED BY <1>3, <1>4

\* What is verified is a block whose header the primary served.
LEMMA BlockIsServed ==
  ASSUME input \in BlockQuestions
  PROVE  /\ input.number \in Heights /\ input.primary \in Served /\ input.backup \in Backups
         /\ input.primary.header \in Attempts(Reply)
  BY DEF BlockQuestions, Backups, Served

\* Whatever two nodes answer, or fail to answer, to any number of attempts, a walk
\* ends for good only at a block that no node there is has.
THEOREM HistoryEndsWhereItIsAnswered == input \in BlockQuestions => EndOfHistoryIsAnswered
<1> SUFFICES ASSUME input \in BlockQuestions, HistoryUnavailable(FetchedBlock)
             PROVE  \/ Answered(input.primary.header, NoHash)
                    \/ /\ Answered(input.primary.bal, NoHash)
                       /\ \A b \in input.backup : Answered(b.bal, NoHash)
  BY DEF EndOfHistoryIsAnswered
<1> DEFINE header == Header(input.number, input.primary.header)
           bal == FallbackBal(input.primary, input.backup)
<1>1. /\ header.why = "BlockNotFound" => Answered(input.primary.header, NoHash)
      /\ header.why # "NoBal"
  BY BlockIsServed, HeaderIsServed
<1>2. /\ bal.why = "NoBal" => Answered(input.primary.bal, NoHash) /\ input.backup = {}
      /\ bal.why # "BlockNotFound"
  BY BlockIsServed, FallbackList
<1>3. FetchedBlock.why \in {"BlockNotFound", "NoBal"} BY DEF HistoryUnavailable
<1> HIDE DEF header, bal
<1>4. FetchedBlock = (IF ~ header.ok THEN header ELSE IF ~ bal.ok THEN bal
                      ELSE Ok([header |-> header.value, bal |-> bal.value]))
  BY DEF FetchedBlock, FallbackBlock, header, bal
<1>5. CASE ~ header.ok BY <1>1, <1>3, <1>4, <1>5
<1>6. CASE header.ok /\ ~ bal.ok BY <1>2, <1>3, <1>4, <1>6
<1>7. CASE header.ok /\ bal.ok
  <2>1. FetchedBlock = Ok([header |-> header.value, bal |-> bal.value]) BY <1>4, <1>7
  <2>2. FetchedBlock.why = "none" BY <2>1 DEF Ok
  <2> QED BY <1>3, <2>2
<1> QED BY <1>5, <1>6, <1>7

\* Whatever two nodes answer, the branch is the primary's, the list is the one of
\* its header, and the backup's list does where the primary lost its own.
THEOREM BranchIsThePrimarys == input \in BlockQuestions => PrimaryDecides
<1> SUFFICES ASSUME input \in BlockQuestions PROVE PrimaryDecides OBVIOUS
<1> DEFINE header == Header(input.number, input.primary.header)
           bal == FallbackBal(input.primary, input.backup)
           v == Verified(FetchedBlock)
<1>1. header.ok => header.value \in Hash /\ Num[header.value] = input.number
                   /\ Answered(input.primary.header, header.value)
  BY BlockIsServed, HeaderIsServed
<1>2. \A h \in Hash, b \in input.backup :
        Answered(input.primary.bal, NoHash) /\ Answered(b.bal, h) => bal = Ok(Changes[h])
  BY BlockIsServed, FallbackList
<1>3. ASSUME NEW h \in Hash, Num[h] = input.number, Answered(input.primary.header, h)
      PROVE  header = Ok(h)
  <2>1. h \in Reply \ Unreached BY SourceAssumption DEF Reply, Failures
  <2>2. Call(input.primary.header) = CallOnce(h) BY <1>3, <2>1, BlockIsServed, AnswerIsTaken
  <2>3. CallOnce(h) = Ok(h) BY SourceAssumption DEF CallOnce, Failures, Unreached
  <2>4. h # NoHash /\ h # "forged" BY TreeAssumption, SourceAssumption DEF Failures
  <2> QED BY <1>3, <2>2, <2>3, <2>4 DEF Header, Ok
<1> HIDE DEF header, bal
<1>4. FetchedBlock = (IF ~ header.ok THEN header ELSE IF ~ bal.ok THEN bal
                      ELSE Ok([header |-> header.value, bal |-> bal.value]))
  BY DEF FetchedBlock, FallbackBlock, header, bal
<1>5. ASSUME v.ok
      PROVE  /\ Answered(input.primary.header, v.value.header)
             /\ Num[v.value.header] = input.number
             /\ v.value.bal = Changes[v.value.header]
  <2>1. FetchedBlock.ok /\ v = FetchedBlock /\ v.value.bal = Changes[v.value.header]
    BY <1>5 DEF Verified, Err
  <2>2. header.ok /\ bal.ok BY <1>4, <2>1
  <2>3. v = Ok([header |-> header.value, bal |-> bal.value]) BY <1>4, <2>1, <2>2
  <2>4. v.value.header = header.value BY <2>3 DEF Ok
  <2> QED BY <1>1, <2>1, <2>2, <2>4
<1>6. ASSUME NEW h \in Committed, Num[h] = input.number, Answered(input.primary.header, h),
             Answered(input.primary.bal, NoHash), \E b \in input.backup : Answered(b.bal, h)
      PROVE  v.ok
  <2>1. h \in Hash BY DataAssumption
  <2>2. header = Ok(h) /\ bal = Ok(Changes[h]) BY <1>2, <1>3, <1>6, <2>1
  <2>3. FetchedBlock = Ok([header |-> h, bal |-> Changes[h]]) BY <1>4, <2>2 DEF Ok
  <2>4. FetchedBlock.ok /\ FetchedBlock.value.header = h /\ FetchedBlock.value.bal = Changes[h]
    BY <2>3 DEF Ok
  <2> QED BY <2>4 DEF Verified
<1> QED BY <1>5, <1>6 DEF PrimaryDecides

-----------------------------------------------------------------------------
(* Proofs *)

\* What there is no account for was never written.
LEMMA NoAccountNoStorage ==
  ASSUME NEW h \in Hash, NEW a \in Addr, ~ Exists(h, a)
  PROVE  StorageRoot(h, a) = EmptyRoot
<1> SUFFICES ASSUME NEW s \in Slot PROVE ValueAt(h, Num[h], a, s) = Zero
  BY DEF StorageRoot, EmptyRoot
<1>1. Genesis[a][s] = Zero /\ \A n \in 0 .. Num[h] : Written(Line[h][n], a) = {}
  BY DEF Exists
<1>2. WriteBlocks(h, Num[h], a, s) = {} BY <1>1 DEF WriteBlocks
<1> QED BY <1>1, <1>2 DEF ValueAt

\* An account proof that holds claims the storage the account has at the block,
\* and a claim of no account is a claim of no storage.
LEMMA ClaimIsTheStorage ==
  ASSUME NEW h \in Hash, NEW a \in Addr, NEW proof, VerifyAccountProof(h, a, proof)
  PROVE  proof.root = StorageRoot(h, a)
<1> DEFINE claim == [blank |-> proof.blank, root |-> proof.root]
           none == proof.blank /\ proof.root = EmptyRoot
<1>1. AccountLeaf(h, a) = IF none THEN {} ELSE {claim}
  BY DEF VerifyAccountProof, VerifyProof
<1>2. CASE none
  <2>1. AccountLeaf(h, a) = {} BY <1>1, <1>2
  <2>2. ~ Exists(h, a) BY <2>1 DEF AccountLeaf
  <2> QED BY <1>2, <2>2, NoAccountNoStorage
<1>3. CASE ~ none
  <2>1. AccountLeaf(h, a) = {claim} BY <1>1, <1>3
  <2>2. claim \in {[blank |-> FALSE, root |-> StorageRoot(h, a)]} BY <2>1 DEF AccountLeaf
  <2>3. claim = [blank |-> FALSE, root |-> StorageRoot(h, a)] BY <2>2
  <2>4. claim.root = StorageRoot(h, a) BY <2>3
  <2> QED BY <2>4
<1> QED BY <1>2, <1>3

\* Whatever proof comes, for any account, block and slots, from either node: what is
\* filed is the storage of that contract there, for each slot that was asked for.
THEOREM ProofsProve == input \in ProofQuestions => ProvenIsTheState
<1> SUFFICES ASSUME input \in ProofQuestions PROVE ProvenIsTheState OBVIOUS
<1> DEFINE h == input.at
           a == input.addr
           asked == input.requested
           proof == input.proof
           filed == Proven(h, a, asked, ServedProof.value)
           At(s) == ValueAt(h, Num[h], a, s)
<1>1. h \in Hash /\ a \in Addr /\ asked \subseteq Slot /\ input.via \in {"primary", "backup"}
      /\ proof.root \in [Slot -> Value] /\ proof.slots \subseteq [key : Slot, value : Value, intact : BOOLEAN]
  BY DEF ProofQuestions
<1>2. ServedProof.value = proof BY <1>1 DEF ServedProof, FallbackProof, Either, Ok, Err
<1> SUFFICES ASSUME filed # {} PROVE filed = {<<s, At(s)>> : s \in asked}
  BY DEF ProvenIsTheState
<1>3. CheckRequested(asked, proof) /\ VerifyAccountProof(h, a, proof)
      /\ filed = {<<p.key, p.value>> : p \in proof.slots}
  BY <1>2 DEF Proven
<1>4. proof.root = StorageRoot(h, a) BY <1>1, <1>3, ClaimIsTheStorage
<1>5. ASSUME NEW p \in proof.slots PROVE p.key \in asked /\ p.value = At(p.key)
  <2>1. p.key \in asked BY <1>3 DEF CheckRequested
  <2>2. StorageLeaf(proof.root, p.key) = IF p.value = Zero THEN {} ELSE {p.value}
    BY <1>3 DEF VerifyAccountProof, VerifyProof
  <2>3. p.value = proof.root[p.key] BY <2>2 DEF StorageLeaf
  <2>4. proof.root[p.key] = At(p.key) BY <1>1, <1>4, <2>1 DEF StorageRoot
  <2> QED BY <2>1, <2>3, <2>4
<1>6. ASSUME NEW s \in asked PROVE \E p \in proof.slots : p.key = s BY <1>3 DEF CheckRequested
<1> HIDE DEF At, filed, proof, asked
<1>7. filed \subseteq {<<s, At(s)>> : s \in asked}
  <2> SUFFICES ASSUME NEW p \in proof.slots PROVE <<p.key, p.value>> \in {<<s, At(s)>> : s \in asked}
    BY <1>3
  <2> QED BY <1>5
<1>8. {<<s, At(s)>> : s \in asked} \subseteq filed
  <2> SUFFICES ASSUME NEW s \in asked PROVE <<s, At(s)>> \in filed OBVIOUS
  <2>1. PICK p \in proof.slots : p.key = s BY <1>6
  <2>2. p.value = At(s) BY <1>5, <2>1
  <2> QED BY <1>3, <2>1, <2>2
<1> QED BY <1>7, <1>8

-----------------------------------------------------------------------------
(* Files *)

\* Regrouped by block, the entries of a file are its history.
LEMMA RegroupedIsTheHistory ==
  ASSUME NEW file, file.blockidx = Nothing
  PROVE  MigrateBlockIndex(file) = [file EXCEPT !.legacy = {}, !.blockidx = ByBlock(file.legacy)]
<1> DEFINE blocks == {<<e[1], e[2]>> : e \in file.legacy}
           slots(k) == {e[3] : e \in {x \in file.legacy : <<x[1], x[2]>> = k}}
<1>1. blocks \cup DOMAIN file.blockidx = blocks BY DEF Nothing
<1>2. [k \in blocks \cup DOMAIN file.blockidx |-> IF k \in blocks THEN slots(k) ELSE file.blockidx[k]]
        = [k \in blocks |-> slots(k)]
  <2> HIDE DEF blocks, slots
  <2> QED BY <1>1
<1>3. ByBlock(file.legacy) = [k \in blocks |-> slots(k)] BY DEF ByBlock
<1> QED BY <1>2, <1>3 DEF MigrateBlockIndex

\* A table of pending proofs that is empty is the one the states ask for, once rebuilt.
LEMMA PendingIsWhatAwaits ==
  ASSUME NEW file,
         file.pending = Nothing \/ file.pending = [k \in AwaitedIn(file.boot) |-> file.boot[k].seen],
         DOMAIN file = {"schema", "detail", "boot", "legacy", "blockidx", "pending"},
         file = [x \in DOMAIN file |-> file[x]]
  PROVE  LET table == [k \in AwaitedIn(file.boot) |-> file.boot[k].seen]
         IN  PendingRebuilt(file) = [file EXCEPT !.pending = table]
<1> DEFINE table == [k \in AwaitedIn(file.boot) |-> file.boot[k].seen]
<1>1. PendingRebuilt(file) = IF DOMAIN file.pending # {} THEN file ELSE [file EXCEPT !.pending = table]
  BY DEF PendingRebuilt, AwaitedIn
<1>2. DOMAIN Nothing = {} BY DEF Nothing
<1> HIDE DEF table
<1>3. CASE DOMAIN file.pending # {}
  <2>1. file.pending = table BY <1>2, <1>3 DEF table
  <2>2. file = [file EXCEPT !.pending = table] BY <2>1
  <2> QED BY <1>1, <1>3, <2>2 DEF table
<1>4. CASE DOMAIN file.pending = {} BY <1>1, <1>4 DEF table
<1> QED BY <1>3, <1>4

\* A file of any version and detail, with any history and any states, and a new one:
\* opened, it holds that history by block, and awaits what its states say.
THEOREM OpeningKeepsAll == IsAFile => OpenedFilesAreConsistent
<1> SUFFICES ASSUME IsAFile PROVE OpenedFilesAreConsistent OBVIOUS
<1> DEFINE f == input.file
           o == OpenWith(f, input.full)
           table == [k \in AwaitedIn(f.boot) |-> f.boot[k].seen]
           Fields == {"schema", "detail", "boot", "legacy", "blockidx", "pending"}
<1>1. /\ DOMAIN f = Fields /\ f = [x \in Fields |-> f[x]]
      /\ input.full \in Details /\ f.schema \in Nat /\ f.detail \in Details \cup {NoDetail}
      /\ f.pending = Nothing \/ f.pending = table
      /\ f.schema \in 1 .. 2 => f.legacy = input.history /\ f.blockidx = Nothing
      /\ f.schema \notin 1 .. 2 => f.legacy = {} /\ f.blockidx = ByBlock(input.history)
  <2>1. PICK full \in Details :
          \/ input = NewFile(full)
          \/ \E history \in SUBSET (Addr \X Nat \X Slot), version \in Nat \ {0}, detail \in Details,
                keys \in SUBSET (Addr \X Slot) : \E boot \in [keys -> BootStates] :
               input = FileOf(history, full, version, detail, boot)
    BY DEF IsAFile
  <2>2. CASE input = NewFile(full)
    <3>1. f = [schema |-> 0, detail |-> NoDetail, boot |-> Nothing, legacy |-> {},
               blockidx |-> Nothing, pending |-> Nothing] /\ input.history = {} /\ input.full = full
      BY <2>2 DEF NewFile, NoSchema
    <3>2. ByBlock({}) = Nothing BY DEF ByBlock, Nothing
    <3> QED BY <3>1, <3>2
  <2>3. CASE \E history \in SUBSET (Addr \X Nat \X Slot), version \in Nat \ {0}, detail \in Details,
                keys \in SUBSET (Addr \X Slot) : \E boot \in [keys -> BootStates] :
               input = FileOf(history, full, version, detail, boot)
    <3>1. PICK history \in SUBSET (Addr \X Nat \X Slot), version \in Nat \ {0}, detail \in Details,
               keys \in SUBSET (Addr \X Slot) : \E boot \in [keys -> BootStates] :
               input = FileOf(history, full, version, detail, boot)
      BY <2>3
    <3>2. PICK boot \in [keys -> BootStates] : input = FileOf(history, full, version, detail, boot)
      BY <3>1
    <3> DEFINE waiting == [k \in AwaitedIn(boot) |-> boot[k].seen]
    <3>3. /\ f = [schema |-> version, detail |-> detail, boot |-> boot,
                  legacy |-> IF version < 3 THEN history ELSE {},
                  blockidx |-> IF version < 3 THEN Nothing ELSE ByBlock(history),
                  pending |-> IF version = 1 THEN Nothing ELSE waiting]
          /\ input.full = full /\ input.history = history
      BY <3>2 DEF FileOf
    <3>4. table = waiting BY <3>3
    <3> HIDE DEF waiting, f, table
    <3>5. DOMAIN f = Fields /\ f = [x \in Fields |-> f[x]] BY <3>3
    <3>6. /\ f.schema = version /\ f.detail = detail
          /\ f.pending = IF version = 1 THEN Nothing ELSE waiting
          /\ f.legacy = IF version < 3 THEN history ELSE {}
          /\ f.blockidx = IF version < 3 THEN Nothing ELSE ByBlock(history)
      BY <3>3
    <3>7. version \in 1 .. 2 <=> version < 3 BY <3>1
    <3>8. f.pending = Nothing \/ f.pending = table BY <3>4, <3>6
    <3> QED BY <2>1, <3>1, <3>3, <3>5, <3>6, <3>7, <3>8
  <2> QED BY <2>1, <2>2, <2>3
<1> HIDE DEF f, table
<1>2. OldestUpgradable = 1 /\ SchemaVersion = 3 BY OpeningAssumption
<1>3. CASE f.schema > SchemaVersion \/ f.detail \notin {NoDetail, input.full}
  <2>1. Refused(f, input.full) BY <1>1, <1>2, <1>3 DEF Refused, NoSchema
  <2>2. o = f BY <2>1 DEF OpenWith
  <2> QED BY <1>3, <2>2 DEF OpenedFilesAreConsistent, f
<1>4. CASE ~ (f.schema > SchemaVersion \/ f.detail \notin {NoDetail, input.full})
  <2>1. ~ Refused(f, input.full) BY <1>1, <1>2, <1>4 DEF Refused, NoSchema
  <2> DEFINE grouped == [f EXCEPT !.legacy = {}, !.blockidx = ByBlock(input.history)]
             upgraded == [grouped EXCEPT !.schema = SchemaVersion, !.detail = input.full]
  <2>2. (IF f.schema \in OldestUpgradable .. 2 THEN MigrateBlockIndex(f) ELSE f) = grouped
    <3>1. CASE f.schema \in 1 .. 2
      <4>1. MigrateBlockIndex(f) = [f EXCEPT !.legacy = {}, !.blockidx = ByBlock(f.legacy)]
        BY <1>1, <3>1, RegroupedIsTheHistory
      <4> QED BY <1>1, <1>2, <3>1, <4>1
    <3>2. CASE f.schema \notin 1 .. 2 BY <1>1, <1>2, <3>2
    <3> QED BY <3>1, <3>2
  <2>3. [Upgraded(f) EXCEPT !.detail = input.full] = upgraded
    <3>1. Upgraded(f) = [grouped EXCEPT !.schema = SchemaVersion] BY <2>2 DEF Upgraded
    <3> HIDE DEF grouped
    <3> QED BY <3>1
  <2>4. /\ DOMAIN upgraded = Fields /\ upgraded = [x \in Fields |-> upgraded[x]]
        /\ upgraded.schema = SchemaVersion /\ upgraded.detail = input.full
        /\ upgraded.legacy = {} /\ upgraded.blockidx = ByBlock(input.history)
        /\ upgraded.boot = f.boot /\ upgraded.pending = f.pending
    BY <1>1
  <2> HIDE DEF upgraded
  <2>5. PendingRebuilt(upgraded) = [upgraded EXCEPT !.pending = table]
    BY <1>1, <2>4, PendingIsWhatAwaits DEF table
  <2>6. o = [upgraded EXCEPT !.pending = table] BY <2>1, <2>3, <2>5 DEF OpenWith
  <2>7. /\ o.schema = SchemaVersion /\ o.detail = input.full
        /\ o.legacy = {} /\ o.blockidx = ByBlock(input.history)
        /\ o.boot = f.boot /\ o.pending = table
    BY <2>4, <2>6
  <2> QED BY <1>4, <2>7 DEF OpenedFilesAreConsistent, f, table
<1> QED BY <1>3, <1>4

-----------------------------------------------------------------------------
(* Access lists *)

\* Neighbours in order are all in order.
LEMMA AscendingIsInOrder ==
  ASSUME NEW items \in Seq(Nat)
  PROVE  StrictlyAscending(items) <=> InOrder(items)
<1>1. Len(items) \in Nat /\ \A n \in 1 .. Len(items) : items[n] \in Nat OBVIOUS
<1>2. ASSUME InOrder(items) PROVE StrictlyAscending(items)
  <2> SUFFICES ASSUME NEW n \in 2 .. Len(items) PROVE items[n - 1] < items[n]
    BY DEF StrictlyAscending
  <2>1. n \in 1 .. Len(items) /\ n - 1 \in 1 .. Len(items) /\ n - 1 < n BY <1>1
  <2> QED BY <1>2, <2>1 DEF InOrder
<1>3. ASSUME StrictlyAscending(items) PROVE InOrder(items)
  <2> SUFFICES ASSUME NEW n \in 1 .. Len(items) PROVE \A m \in 1 .. Len(items) : n < m => items[n] < items[m]
    BY DEF InOrder
  <2> DEFINE Wrong == {m \in 1 .. Len(items) : n < m /\ ~ (items[n] < items[m])}
  <2>1. ASSUME Wrong # {} PROVE FALSE
    <3>1. Wrong \subseteq Nat BY <1>1
    <3> HIDE DEF Wrong
    <3>2. PICK m \in Wrong : \A k \in Wrong : m <= k BY <2>1, <3>1, LeastOf
    <3>3. m \in 1 .. Len(items) /\ n < m /\ ~ (items[n] < items[m]) BY <3>2 DEF Wrong
    <3>4. m - 1 \in 1 .. Len(items) /\ m \in 2 .. Len(items) /\ m \in Nat BY <1>1, <3>3
    <3>5. items[m - 1] < items[m] BY <1>3, <3>4 DEF StrictlyAscending
    <3>6. m - 1 \notin Wrong
      <4> SUFFICES ASSUME m - 1 \in Wrong PROVE FALSE OBVIOUS
      <4>1. m <= m - 1 BY <3>2
      <4> QED BY <3>4, <4>1
    <3>7. m - 1 = n \/ items[n] < items[m - 1] BY <1>1, <3>3, <3>4, <3>6 DEF Wrong
    <3>8. items[n] \in Nat /\ items[m - 1] \in Nat /\ items[m] \in Nat BY <1>1, <3>3, <3>4
    <3> QED BY <3>3, <3>5, <3>7, <3>8
  <2> QED BY <2>1
<1> QED BY <1>2, <1>3

\* The first steps of the merge.
MergeRun(written, read, most, f) ==
  f = [n \in 0 .. most |-> IF n = 0 THEN <<1, 1>> ELSE MergeStep(written, read, f[n - 1])]

\* The merge is defined for as many steps as one likes.
LEMMA MergeGoesOn ==
  ASSUME NEW written, NEW read, NEW most \in Nat
  PROVE  \E f : MergeRun(written, read, most, f)
<1> DEFINE Body(f, n) == IF n = 0 THEN <<1, 1>> ELSE MergeStep(written, read, f[n - 1])
           Runs(f, m) == f = [n \in 0 .. m |-> Body(f, n)]
           Wrong == {m \in Nat : ~ \E f : Runs(f, m)}
<1>1. ASSUME Wrong # {} PROVE FALSE
  <2>1. Wrong \subseteq Nat OBVIOUS
  <2> HIDE DEF Wrong
  <2>2. PICK m \in Wrong : \A k \in Wrong : m <= k BY <1>1, <2>1, LeastOf
  <2>3. m \in Nat /\ ~ \E f : Runs(f, m) BY <2>2 DEF Wrong
  <2>4. m # 0
    <3> SUFFICES ASSUME m = 0 PROVE FALSE OBVIOUS
    <3> DEFINE f == [n \in 0 .. 0 |-> <<1, 1>>]
    <3>1. Runs(f, 0) OBVIOUS
    <3> QED BY <2>3, <3>1
  <2>5. m - 1 \in Nat BY <2>3, <2>4
  <2>6. m - 1 \notin Wrong
    <3> SUFFICES ASSUME m - 1 \in Wrong PROVE FALSE OBVIOUS
    <3>1. m <= m - 1 BY <2>2
    <3> QED BY <2>3, <3>1
  <2>7. PICK f : Runs(f, m - 1) BY <2>5, <2>6 DEF Wrong
  <2> DEFINE g == [n \in 0 .. m |-> IF n = m THEN Body(f, m) ELSE f[n]]
  <2> HIDE DEF Body
  <2>8. ASSUME NEW n \in 0 .. m PROVE g[n] = Body(g, n)
    <3>1. CASE n = 0
      <4>1. g[0] = f[0] /\ 0 \in 0 .. m - 1 BY <2>3, <2>4, <3>1
      <4>2. f[0] = Body(f, 0) BY <2>7, <4>1
      <4> QED BY <3>1, <4>1, <4>2 DEF Body
    <3>2. CASE n # 0
      <4>1. n - 1 \in 0 .. m - 1 /\ n - 1 \in 0 .. m /\ n - 1 # m BY <2>3, <3>2
      <4>2. g[n - 1] = f[n - 1] BY <4>1
      <4> HIDE DEF g
      <4>3. Body(g, n) = Body(f, n) BY <3>2, <4>2 DEF Body
      <4>4. g[n] = Body(f, n)
        <5>1. CASE n = m BY <2>3, <5>1 DEF g
        <5>2. CASE n # m
          <6>1. n \in 0 .. m - 1 BY <2>3, <5>2
          <6>2. f[n] = Body(f, n) BY <2>7, <6>1
          <6> QED BY <5>2, <6>2 DEF g
        <5> QED BY <5>1, <5>2
      <4> QED BY <4>3, <4>4
    <3> QED BY <3>1, <3>2
  <2>9. Runs(g, m)
    <3>1. g = [n \in 0 .. m |-> g[n]] OBVIOUS
    <3> HIDE DEF g
    <3> QED BY <2>8, <3>1
  <2> QED BY <2>3, <2>9
<1>2. PICK f : Runs(f, most) BY <1>1
<1> QED BY <1>2 DEF MergeRun

\* Where the merge may stand after n steps: no key it has passed is in the other list,
\* and it has moved in each step unless it is done.
MergeStands(written, read, n, p) ==
  /\ p = <<p[1], p[2]>> /\ p[1] \in 1 .. Len(written) + 1 /\ p[2] \in 1 .. Len(read) + 1
  /\ \A i \in 1 .. p[1] - 1, j \in 1 .. Len(read) : written[i] # read[j]
  /\ \A i \in 1 .. Len(written), j \in 1 .. p[2] - 1 : written[i] # read[j]
  /\ \/ p[1] + p[2] = n + 2
     \/ MergeEnds(written, read, p)
     \/ written[p[1]] = read[p[2]]

LEMMA MergeStepStands ==
  ASSUME NEW written \in Seq(Nat), NEW read \in Seq(Nat), InOrder(written), InOrder(read),
         NEW n \in Nat, NEW p, MergeStands(written, read, n, p)
  PROVE  MergeStands(written, read, n + 1, MergeStep(written, read, p))
<1> DEFINE i == p[1]
           j == p[2]
           q == MergeStep(written, read, p)
<1>1. /\ Len(written) \in Nat /\ Len(read) \in Nat
      /\ \A k \in 1 .. Len(written) : written[k] \in Nat
      /\ \A k \in 1 .. Len(read) : read[k] \in Nat
  OBVIOUS
<1>2. CASE MergeEnds(written, read, p)
  <2>1. q = p BY <1>2 DEF MergeStep
  <2> QED BY <1>2, <2>1 DEF MergeStands
<1>3. CASE ~ MergeEnds(written, read, p)
  <2>1. i \in 1 .. Len(written) /\ j \in 1 .. Len(read)
    BY <1>1, <1>3 DEF MergeStands, MergeEnds
  <2>2. written[i] \in Nat /\ read[j] \in Nat /\ i \in Nat /\ j \in Nat BY <1>1, <2>1
  <2>3. CASE written[i] < read[j]
    <3>1. q = <<i + 1, j>> BY <1>3, <2>3 DEF MergeStep
    <3>2. ASSUME NEW k \in 1 .. Len(read) PROVE written[i] # read[k]
      <4>1. CASE k < j
        <5>1. k \in 1 .. j - 1 BY <2>1, <4>1
        <5> QED BY <2>1, <5>1 DEF MergeStands
      <4>2. CASE k >= j
        <5>1. k = j \/ j < k BY <2>1, <4>2
        <5>2. j < k => read[j] < read[k] BY <2>1 DEF InOrder
        <5>3. read[k] \in Nat BY <1>1
        <5> QED BY <2>2, <2>3, <5>1, <5>2, <5>3
      <4> QED BY <2>1, <4>1, <4>2
    <3>3. ASSUME NEW l \in 1 .. i, NEW k \in 1 .. Len(read) PROVE written[l] # read[k]
      <4>1. l = i \/ l \in 1 .. i - 1 BY <2>1
      <4> QED BY <3>2, <4>1 DEF MergeStands
    <3>4. i + 1 \in 1 .. Len(written) + 1 /\ (i + 1) - 1 = i
      <4> HIDE DEF i, j
      <4> QED BY <1>1, <2>1, <2>2
    <3>5. i + j = n + 2 BY <1>3, <2>2, <2>3 DEF MergeStands
    <3>6. (i + 1) + j = (n + 1) + 2
      <4> HIDE DEF i, j
      <4> QED BY <2>2, <3>5
    <3>7. q[1] = i + 1 /\ q[2] = j /\ q = <<q[1], q[2]>> BY <3>1
    <3> QED BY <3>3, <3>4, <3>6, <3>7 DEF MergeStands
  <2>4. CASE written[i] > read[j]
    <3>1. q = <<i, j + 1>> BY <1>3, <2>2, <2>4 DEF MergeStep
    <3>2. ASSUME NEW k \in 1 .. Len(written) PROVE written[k] # read[j]
      <4>1. CASE k < i
        <5>1. k \in 1 .. i - 1 BY <2>1, <4>1
        <5> QED BY <2>1, <5>1 DEF MergeStands
      <4>2. CASE k >= i
        <5>1. k = i \/ i < k BY <2>1, <4>2
        <5>2. i < k => written[i] < written[k] BY <2>1 DEF InOrder
        <5>3. written[k] \in Nat BY <1>1
        <5> QED BY <2>2, <2>4, <5>1, <5>2, <5>3
      <4> QED BY <2>1, <4>1, <4>2
    <3>3. ASSUME NEW k \in 1 .. Len(written), NEW l \in 1 .. j PROVE written[k] # read[l]
      <4>1. l = j \/ l \in 1 .. j - 1 BY <2>1
      <4> QED BY <3>2, <4>1 DEF MergeStands
    <3>4. j + 1 \in 1 .. Len(read) + 1 /\ (j + 1) - 1 = j
      <4> HIDE DEF i, j
      <4> QED BY <1>1, <2>1, <2>2
    <3>5. i + j = n + 2 BY <1>3, <2>2, <2>4 DEF MergeStands
    <3>6. i + (j + 1) = (n + 1) + 2
      <4> HIDE DEF i, j
      <4> QED BY <2>2, <3>5
    <3>7. q[1] = i /\ q[2] = j + 1 /\ q = <<q[1], q[2]>> BY <3>1
    <3> QED BY <3>3, <3>4, <3>6, <3>7 DEF MergeStands
  <2>5. CASE written[i] = read[j]
    <3>1. q = p BY <1>3, <2>2, <2>5 DEF MergeStep
    <3> QED BY <2>5, <3>1 DEF MergeStands
  <2> QED BY <2>2, <2>3, <2>4, <2>5
<1> QED BY <1>2, <1>3

\* The merge of two lists in order ends early exactly if they share a key.
LEMMA MergeFindsSharedKeys ==
  ASSUME NEW written \in Seq(Nat), NEW read \in Seq(Nat), InOrder(written), InOrder(read)
  PROVE  ~ SharedKey(written, read) <=> Members(written) \cap Members(read) = {}
<1> DEFINE most == Len(written) + Len(read)
           run == CHOOSE f : MergeRun(written, read, most, f)
<1>1. most \in Nat /\ Len(written) \in Nat /\ Len(read) \in Nat OBVIOUS
<1>2. MergeRun(written, read, most, run) BY <1>1, MergeGoesOn
<1>3. SharedKey(written, read) <=> ~ MergeEnds(written, read, run[most]) BY DEF SharedKey, MergeRun
<1> HIDE DEF run
<1>4. run[0] = <<1, 1>> /\ \A n \in 1 .. most : run[n] = MergeStep(written, read, run[n - 1])
  <2>1. \A n \in 0 .. most :
          run[n] = IF n = 0 THEN <<1, 1>> ELSE MergeStep(written, read, run[n - 1])
    BY <1>2 DEF MergeRun
  <2> HIDE DEF most
  <2>2. 0 \in 0 .. most /\ \A n \in 1 .. most : n \in 0 .. most /\ n # 0 BY <1>1
  <2> QED BY <2>1, <2>2
<1> DEFINE Wrong == {n \in 0 .. most : ~ MergeStands(written, read, n, run[n])}
<1>5. ASSUME Wrong # {} PROVE FALSE
  <2>1. Wrong \subseteq Nat BY <1>1
  <2> HIDE DEF Wrong
  <2>2. PICK n \in Wrong : \A k \in Wrong : n <= k BY <1>5, <2>1, LeastOf
  <2>3. n \in 0 .. most /\ ~ MergeStands(written, read, n, run[n]) BY <2>2 DEF Wrong
  <2>4. CASE n = 0
    <3>1. MergeStands(written, read, 0, <<1, 1>>) BY <1>1 DEF MergeStands
    <3> QED BY <1>4, <2>3, <2>4, <3>1
  <2>5. CASE n # 0
    <3>1. n \in 1 .. most /\ n - 1 \in 0 .. most /\ n - 1 \in Nat /\ (n - 1) + 1 = n
      BY <1>1, <2>3, <2>5
    <3>2. n - 1 \notin Wrong
      <4> SUFFICES ASSUME n - 1 \in Wrong PROVE FALSE OBVIOUS
      <4>1. n <= n - 1 BY <2>2
      <4> QED BY <3>1, <4>1
    <3>3. MergeStands(written, read, n - 1, run[n - 1]) BY <3>1, <3>2 DEF Wrong
    <3>4. MergeStands(written, read, n, MergeStep(written, read, run[n - 1]))
      BY <3>1, <3>3, MergeStepStands
    <3> QED BY <1>4, <2>3, <3>1, <3>4
  <2> QED BY <2>4, <2>5
<1> DEFINE p == run[most]
<1>6. MergeStands(written, read, most, p) BY <1>1, <1>5
<1> HIDE DEF p, Wrong
<1>7. CASE MergeEnds(written, read, p)
  <2>1. p[1] = Len(written) + 1 \/ p[2] = Len(read) + 1
    BY <1>1, <1>6, <1>7 DEF MergeStands, MergeEnds
  <2>2. ASSUME NEW i \in 1 .. Len(written), NEW j \in 1 .. Len(read) PROVE written[i] # read[j]
    <3>1. i \in 1 .. p[1] - 1 \/ j \in 1 .. p[2] - 1 BY <1>1, <2>1
    <3> QED BY <1>6, <3>1 DEF MergeStands
  <2>3. Members(written) \cap Members(read) = {} BY <2>2 DEF Members
  <2> QED BY <1>3, <1>7, <2>3 DEF p
<1>8. CASE ~ MergeEnds(written, read, p)
  <2>1. p[1] \in 1 .. Len(written) /\ p[2] \in 1 .. Len(read)
    BY <1>1, <1>6, <1>8 DEF MergeStands, MergeEnds
  <2>2. p[1] + p[2] # most + 2 BY <1>1, <2>1
  <2>3. written[p[1]] = read[p[2]] BY <1>6, <1>8, <2>2 DEF MergeStands
  <2>4. written[p[1]] \in Members(written) \cap Members(read) BY <2>1, <2>3 DEF Members
  <2> QED BY <1>3, <1>8, <2>4 DEF p
<1> QED BY <1>7, <1>8

LEMMA ElementsOf ==
  ASSUME NEW S, NEW items \in Seq(S)
  PROVE  Len(items) \in Nat /\ \A n \in 1 .. Len(items) : items[n] \in S
  OBVIOUS

LEMMA ColumnIsSeq ==
  ASSUME NEW S, NEW rows, NEW field, Len(rows) \in Nat, \A n \in 1 .. Len(rows) : rows[n][field] \in S
  PROVE  /\ Column(rows, field) \in Seq(S)
         /\ Len(Column(rows, field)) = Len(rows)
         /\ \A n \in 1 .. Len(rows) : Column(rows, field)[n] = rows[n][field]
  BY DEF Column

Accounts ==
  [address : Nat, changes : Seq([slot : Nat, at : Seq(Nat)]), reads : Seq(Nat),
   balances : Seq(Nat), nonces : Seq(Nat), codes : Seq(Nat)]

\* The indices of an account, by history.
Histories(acc) ==
  {acc.balances, acc.nonces, acc.codes} \cup {acc.changes[m].at : m \in 1 .. Len(acc.changes)}

\* What is checked of an account, in json.rs and in validate.rs, is that it is canonical.
LEMMA AccountsAreCanonical ==
  ASSUME NEW acc \in Accounts
  PROVE  (/\ \A h \in Histories(acc) : \A k \in 1 .. Len(h) : Index(h[k])
          /\ ValidateAccount(acc)) <=> CanonicalAccount(acc)
<1> DEFINE written == Column(acc.changes, "slot")
           ats == Column(acc.changes, "at")
           size == Len(acc.changes)
<1>1. /\ size \in Nat /\ acc.reads \in Seq(Nat)
      /\ acc.balances \in Seq(Nat) /\ acc.nonces \in Seq(Nat) /\ acc.codes \in Seq(Nat)
      /\ \A n \in 1 .. size : acc.changes[n].slot \in Nat /\ acc.changes[n].at \in Seq(Nat)
  <2>1. acc.changes \in Seq([slot : Nat, at : Seq(Nat)]) BY DEF Accounts
  <2>2. size \in Nat /\ \A n \in 1 .. size : acc.changes[n] \in [slot : Nat, at : Seq(Nat)]
    BY <2>1, ElementsOf
  <2> QED BY <2>1, <2>2 DEF Accounts
<1>2. written \in Seq(Nat) BY <1>1, ColumnIsSeq
<1>3. Len(ats) = size /\ \A n \in 1 .. size : ats[n] = acc.changes[n].at BY <1>1 DEF Column
<1> HIDE DEF written, ats, size
<1>4. Members(ats) = {acc.changes[m].at : m \in 1 .. size} BY <1>3 DEF Members
<1>5. Members(ats) \cup {acc.balances, acc.nonces, acc.codes} = Histories(acc)
  BY <1>4 DEF Histories, size
<1>6. \A h \in Histories(acc) : h \in Seq(Nat) BY <1>1 DEF Histories, size
<1>7. \A h \in Histories(acc) : StrictlyAscending(h) <=> InOrder(h) BY <1>6, AscendingIsInOrder
<1>8. /\ StrictlyAscending(written) <=> InOrder(written)
      /\ StrictlyAscending(acc.reads) <=> InOrder(acc.reads)
  BY <1>1, <1>2, AscendingIsInOrder
<1>9. InOrder(written) /\ InOrder(acc.reads) =>
        (~ SharedKey(written, acc.reads) <=> Members(written) \cap Members(acc.reads) = {})
  BY <1>1, <1>2, MergeFindsSharedKeys
<1>10. ValidateAccount(acc) <=>
         /\ StrictlyAscending(written) /\ StrictlyAscending(acc.reads)
         /\ \A n \in 1 .. size : acc.changes[n].at # <<>> /\ StrictlyAscending(acc.changes[n].at)
         /\ \A other \in {acc.balances, acc.nonces, acc.codes} : StrictlyAscending(other)
         /\ ~ SharedKey(written, acc.reads)
  BY DEF ValidateAccount, written, size
<1>11. CanonicalAccount(acc) <=>
         /\ InOrder(written) /\ InOrder(acc.reads)
         /\ Members(written) \cap Members(acc.reads) = {}
         /\ <<>> \notin Members(ats)
         /\ \A h \in Histories(acc) : InOrder(h) /\ \A m \in 1 .. Len(h) : h[m] <= MaxU32
  BY <1>5 DEF CanonicalAccount, written, ats
<1>12. <<>> \notin Members(ats) <=> \A n \in 1 .. size : acc.changes[n].at # <<>> BY <1>4
<1>13. (\A h \in Histories(acc) : StrictlyAscending(h)) <=>
         /\ \A n \in 1 .. size : StrictlyAscending(acc.changes[n].at)
         /\ \A other \in {acc.balances, acc.nonces, acc.codes} : StrictlyAscending(other)
  BY DEF Histories, size
<1>14. (\A h \in Histories(acc) : \A k \in 1 .. Len(h) : Index(h[k])) <=>
         \A h \in Histories(acc) : \A m \in 1 .. Len(h) : h[m] <= MaxU32
  BY DEF Index
<1>15. CASE InOrder(written) /\ InOrder(acc.reads)
  BY <1>7, <1>8, <1>9, <1>10, <1>11, <1>12, <1>13, <1>14, <1>15
<1>16. CASE ~ (InOrder(written) /\ InOrder(acc.reads)) BY <1>8, <1>10, <1>11, <1>16
<1> QED BY <1>15, <1>16

\* Any list JSON can spell is taken if and only if it is canonical, and the last
\* change of a slot in one that is taken is the one with the highest index.
THEOREM TakenListsAreCanonical == input \in ListQuestions => ValidListsAreCanonical
<1> SUFFICES ASSUME input \in ListQuestions PROVE ValidListsAreCanonical OBVIOUS
<1> DEFINE list == input.list
           size == Len(list)
<1>1. list \in Seq(Accounts) BY DEF ListQuestions, Accounts
<1>2. size \in Nat /\ \A n \in 1 .. size : list[n] \in Accounts BY <1>1
<1> HIDE DEF list
<1>3. Column(list, "address") \in Seq(Nat) BY <1>2, ColumnIsSeq DEF Accounts
<1>4. StrictlyAscending(Column(list, "address")) <=> InOrder(Column(list, "address"))
  BY <1>3, AscendingIsInOrder
<1>5. \A n \in 1 .. size :
        (/\ \A h \in Histories(list[n]) : \A k \in 1 .. Len(h) : Index(h[k])
         /\ ValidateAccount(list[n])) <=> CanonicalAccount(list[n])
  BY <1>2, AccountsAreCanonical
<1>6. FromRpcJson(list) <=>
        /\ \A n \in 1 .. size : \A h \in Histories(list[n]) : \A k \in 1 .. Len(h) : Index(h[k])
        /\ StrictlyAscending(Column(list, "address"))
        /\ \A n \in 1 .. size : ValidateAccount(list[n])
  BY DEF FromRpcJson, Validate, Histories
<1>7. Canonical(list) <=>
        InOrder(Column(list, "address")) /\ \A n \in 1 .. size : CanonicalAccount(list[n])
  BY DEF Canonical
<1>8. FromRpcJson(list) <=> Canonical(list)
  <2> HIDE DEF size
  <2> QED BY <1>4, <1>5, <1>6, <1>7
<1>9. ASSUME FromRpcJson(list), NEW n \in 1 .. size, NEW m \in 1 .. Len(list[n].changes),
             NEW k \in 1 .. Len(list[n].changes[m].at)
      PROVE  list[n].changes[m].at[k] <= LastChange(list[n].changes[m])
  <2> DEFINE when == list[n].changes[m].at
  <2>1. when \in Histories(list[n]) BY DEF Histories
  <2>2. list[n] \in Accounts BY <1>2
  <2>3. list[n].changes \in Seq([slot : Nat, at : Seq(Nat)]) BY <2>2 DEF Accounts
  <2>4. when \in Seq(Nat)
    <3>1. list[n].changes[m] \in [slot : Nat, at : Seq(Nat)] BY <2>3, ElementsOf
    <3> QED BY <3>1
  <2>5. ValidateAccount(list[n]) BY <1>6, <1>9
  <2>6. StrictlyAscending(when) BY <2>5 DEF ValidateAccount
  <2>7. InOrder(when) BY <2>4, <2>6, AscendingIsInOrder
  <2> HIDE DEF when
  <2>8. k \in 1 .. Len(when) /\ Len(when) \in Nat BY <2>4 DEF when
  <2>9. when[k] \in Nat /\ when[Len(when)] \in Nat BY <2>4, <2>8
  <2>10. when[k] <= when[Len(when)]
    <3>1. CASE k = Len(when) BY <2>9, <3>1
    <3>2. CASE k < Len(when) BY <2>7, <2>8, <2>9, <3>2 DEF InOrder
    <3> QED BY <2>8, <3>1, <3>2
  <2> QED BY <2>10 DEF LastChange, when
<1> QED BY <1>8, <1>9 DEF ValidListsAreCanonical, list

-----------------------------------------------------------------------------
(* Batches of requests *)

\* The first m positions of a batch that go upstream.
RelayedTo(batch, m, sent) ==
  /\ sent \in Seq(Nat)
  /\ InOrder(sent)
  /\ Members(sent) = {n \in 1 .. m : ~ AnsweredHere(batch[n])}

\* What is sent upstream: all the archive does not answer, in order, once each.
LEMMA RelayedAre ==
  ASSUME NEW batch \in Seq(Request)
  PROVE  RelayedTo(batch, Len(batch), Relayed(batch))
<1> DEFINE L == Len(batch)
           Body(u, n) == IF n = 0 THEN <<>>
                         ELSE IF AnsweredHere(batch[n]) THEN u[n - 1] ELSE Append(u[n - 1], n)
           Runs(u) == u = [n \in 0 .. L |-> Body(u, n)]
           upTo == CHOOSE u : Runs(u)
           step == [n \in 1 .. L |-> [s \in Seq(Nat) |-> IF AnsweredHere(batch[n]) THEN s ELSE Append(s, n)]]
<1>1. L \in Nat OBVIOUS
<1>2. \E u : Runs(u)
  <2>1. step \in [1 .. L -> [Seq(Nat) -> Seq(Nat)]] BY <1>1
  <2>2. \A n \in 1 .. L : \A s \in Seq(Nat) :
          step[n][s] = IF AnsweredHere(batch[n]) THEN s ELSE Append(s, n)
    OBVIOUS
  <2>3. <<>> \in Seq(Nat) OBVIOUS
  <2> HIDE DEF step, L
  <2>4. PICK u \in [0 .. L -> Seq(Nat)] : StepsFrom(<<>>, L, step, u)
    BY <1>1, <2>1, <2>3, StepsGoOn, Zenon
  <2>5. u = [n \in 0 .. L |-> IF n = 0 THEN <<>> ELSE step[n][u[n - 1]]]
    BY <2>4 DEF StepsFrom
  <2>6. ASSUME NEW n \in 0 .. L PROVE u[n] = Body(u, n)
    <3>1. CASE n = 0 BY <2>5, <3>1
    <3>2. CASE n # 0
      <4>1. n \in 1 .. L /\ n - 1 \in 0 .. L BY <1>1, <3>2
      <4>2. u[n - 1] \in Seq(Nat) BY <4>1
      <4>3. u[n] = step[n][u[n - 1]] BY <2>5, <3>2
      <4> QED BY <2>2, <3>2, <4>1, <4>2, <4>3
    <3> QED BY <3>1, <3>2
  <2>7. u = [n \in 0 .. L |-> u[n]] OBVIOUS
  <2> HIDE DEF Body
  <2>8. Runs(u) BY <2>6, <2>7
  <2> QED BY <2>8
<1>3. Runs(upTo) BY <1>2
<1>4. Relayed(batch) = upTo[L] BY DEF Relayed
<1> HIDE DEF upTo, step
<1>5. \A n \in 0 .. L : upTo[n] = Body(upTo, n) BY <1>3
<1> DEFINE Right == {m \in 0 .. L : RelayedTo(batch, m, upTo[m])}
<1>6. 0 \in Right
  <2>1. upTo[0] = <<>> BY <1>1, <1>5
  <2>2. RelayedTo(batch, 0, <<>>) BY DEF RelayedTo, InOrder, Members
  <2> QED BY <1>1, <2>1, <2>2
<1>7. ASSUME NEW m \in 1 .. L, m - 1 \in Right PROVE m \in Right
  <2>1. m \in 0 .. L /\ m # 0 /\ m - 1 \in Nat /\ m \in Nat BY <1>1
  <2> DEFINE s == upTo[m - 1]
  <2>2. RelayedTo(batch, m - 1, s) BY <1>7
  <2>3. upTo[m] = IF AnsweredHere(batch[m]) THEN s ELSE Append(s, m) BY <1>5, <2>1
  <2> HIDE DEF s, L
  <2>4. s \in Seq(Nat) /\ InOrder(s) BY <2>2 DEF RelayedTo
  <2>5. Members(s) = {n \in 1 .. m - 1 : ~ AnsweredHere(batch[n])} BY <2>2 DEF RelayedTo
  <2>6. CASE AnsweredHere(batch[m])
    <3>1. {n \in 1 .. m : ~ AnsweredHere(batch[n])} = {n \in 1 .. m - 1 : ~ AnsweredHere(batch[n])}
      BY <2>1, <2>6
    <3>2. RelayedTo(batch, m, s) BY <2>4, <2>5, <3>1 DEF RelayedTo
    <3> QED BY <2>1, <2>3, <2>6, <3>2
  <2>7. CASE ~ AnsweredHere(batch[m])
    <3> DEFINE w == Append(s, m)
    <3>1. w \in Seq(Nat) /\ Len(s) \in Nat /\ Len(w) = Len(s) + 1 /\ w[Len(w)] = m
          /\ \A k \in 1 .. Len(s) : w[k] = s[k]
      BY <2>1, <2>4
    <3>2. \A k \in 1 .. Len(s) : s[k] \in Nat /\ s[k] \in Members(s) BY <2>4 DEF Members
    <3>3. \A k \in 1 .. Len(s) : s[k] < m BY <2>1, <2>5, <3>2
    <3> HIDE DEF w
    <3>4. InOrder(w)
      <4> SUFFICES ASSUME NEW k \in 1 .. Len(w), NEW l \in 1 .. Len(w), k < l PROVE w[k] < w[l]
        BY DEF InOrder
      <4>1. k \in 1 .. Len(s) BY <3>1
      <4>2. CASE l \in 1 .. Len(s)
        <5>1. s[k] < s[l] BY <2>4, <4>1, <4>2 DEF InOrder
        <5>2. w[k] = s[k] /\ w[l] = s[l] BY <3>1, <4>1, <4>2
        <5> QED BY <5>1, <5>2
      <4>3. CASE l = Len(w) BY <3>1, <3>3, <4>1, <4>3
      <4>4. Len(w) \in Nat /\ Len(w) = Len(s) + 1 BY <3>1
      <4>5. l \in 1 .. Len(s) \/ l = Len(w) BY <4>4
      <4> QED BY <4>2, <4>3, <4>5
    <3>5. Members(w) = Members(s) \cup {m}
      <4>1. Members(w) = {w[k] : k \in 1 .. Len(w)} BY DEF Members
      <4>2. Members(s) = {s[k] : k \in 1 .. Len(s)} BY DEF Members
      <4>3. 1 .. Len(w) = (1 .. Len(s)) \cup {Len(w)} BY <3>1
      <4> QED BY <3>1, <4>1, <4>2, <4>3
    <3>6. {n \in 1 .. m : ~ AnsweredHere(batch[n])} = {n \in 1 .. m - 1 : ~ AnsweredHere(batch[n])} \cup {m}
      <4>1. 1 .. m = (1 .. m - 1) \cup {m} BY <2>1
      <4> QED BY <2>7, <4>1
    <3>7. RelayedTo(batch, m, w) BY <2>5, <3>1, <3>4, <3>5, <3>6 DEF RelayedTo
    <3> QED BY <2>1, <2>3, <2>7, <3>7 DEF w
  <2> QED BY <2>6, <2>7
<1> HIDE DEF Right
<1>8. \A m \in 0 .. L : m \in Right BY <1>1, <1>6, <1>7, AllUpTo
<1>9. L \in Right BY <1>1, <1>8
<1> QED BY <1>4, <1>9 DEF Right

\* A sequence of sequences, one after the other.
FlatTo(seqs, f) == \A n \in 1 .. Len(seqs) : f[n] = f[n - 1] \o seqs[n]

LEMMA FlattenIs ==
  ASSUME NEW S, NEW seqs \in Seq(Seq(S))
  PROVE  \E f \in [0 .. Len(seqs) -> Seq(S)] :
           f[0] = <<>> /\ FlatTo(seqs, f) /\ FlattenSeq(seqs) = f[Len(seqs)]
<1> DEFINE L == Len(seqs)
           Body(g, i) == IF i = 1 THEN seqs[i] ELSE g[i - 1] \o seqs[i]
           Runs(g) == g = [i \in 1 .. L |-> Body(g, i)]
           flatten == CHOOSE g : Runs(g)
           step == [i \in 1 .. L |-> [s \in Seq(S) |-> s \o seqs[i]]]
<1>1. L \in Nat /\ \A i \in 1 .. L : seqs[i] \in Seq(S) OBVIOUS
<1>2. PICK f \in [0 .. L -> Seq(S)] : f[0] = <<>> /\ FlatTo(seqs, f)
  <2>1. step \in [1 .. L -> [Seq(S) -> Seq(S)]] BY <1>1
  <2>2. \A i \in 1 .. L : \A s \in Seq(S) : step[i][s] = s \o seqs[i] OBVIOUS
  <2>3. <<>> \in Seq(S) OBVIOUS
  <2> HIDE DEF step
  <2>4. PICK f \in [0 .. L -> Seq(S)] : StepsFrom(<<>>, L, step, f)
    <3> HIDE DEF L
    <3> QED BY <1>1, <2>1, <2>3, StepsGoOn, Zenon
  <2>5. f = [i \in 0 .. L |-> IF i = 0 THEN <<>> ELSE step[i][f[i - 1]]]
    BY <2>4 DEF StepsFrom
  <2>6. f[0] = <<>> BY <1>1, <2>5
  <2>7. ASSUME NEW n \in 1 .. L PROVE f[n] = f[n - 1] \o seqs[n]
    <3>1. n \in 0 .. L /\ n # 0 /\ n - 1 \in 0 .. L BY <1>1
    <3>2. f[n] = step[n][f[n - 1]] BY <2>5, <3>1
    <3> QED BY <2>2, <3>1, <3>2
  <2> QED BY <2>6, <2>7 DEF FlatTo
<1> HIDE DEF step
<1>5. ASSUME NEW i \in 1 .. L
      PROVE  i \in 0 .. L /\ f[i] = f[i - 1] \o seqs[i] /\ (i = 1 => f[i] = seqs[i])
  <2>1. i \in 0 .. L /\ seqs[i] \in Seq(S) BY <1>1
  <2>2. f[i] = f[i - 1] \o seqs[i] BY <1>2, Zenon DEF FlatTo
  <2>3. ASSUME i = 1 PROVE f[i] = seqs[i]
    <3>1. f[i] = f[0] \o seqs[i] BY <2>2, <2>3
    <3>2. f[i] = <<>> \o seqs[i] BY <1>2, <3>1
    <3> QED BY <2>1, <3>2
  <2> QED BY <2>1, <2>2, <2>3
<1>3. CASE L = 0
  <2>1. FlattenSeq(seqs) = seqs BY <1>3 DEF FlattenSeq
  <2>2. seqs = <<>> BY <1>3
  <2> QED BY <1>2, <1>3, <2>1, <2>2
<1>4. CASE L # 0
  <2> DEFINE g == [i \in 1 .. L |-> f[i]]
  <2>1. ASSUME NEW i \in 1 .. L PROVE g[i] = Body(g, i)
    <3>1. i \in 0 .. L /\ f[i] = f[i - 1] \o seqs[i] BY <1>5
    <3>2. CASE i = 1 BY <1>5, <3>2
    <3>3. CASE i # 1
      <4>1. i - 1 \in 1 .. L BY <1>1, <3>3
      <4> QED BY <3>1, <3>3, <4>1
    <3> QED BY <3>2, <3>3
  <2>2. g = [i \in 1 .. L |-> g[i]] OBVIOUS
  <2> HIDE DEF g, Body
  <2>3. Runs(g) BY <2>1, <2>2
  <2>4. Runs(flatten) BY <2>3
  <2>5. FlattenSeq(seqs) = flatten[L] BY <1>4 DEF FlattenSeq, Body
  <2> HIDE DEF flatten
  <2>6. \A i \in 1 .. L : flatten[i] = Body(flatten, i) BY <2>4
  <2> DEFINE Right == {i \in 0 .. L : i # 0 => flatten[i] = f[i]}
  <2>7. 0 \in Right BY <1>1
  <2>8. ASSUME NEW i \in 1 .. L, i - 1 \in Right PROVE i \in Right
    <3>1. i \in 0 .. L /\ f[i] = f[i - 1] \o seqs[i] BY <1>5
    <3>2. flatten[i] = Body(flatten, i) BY <2>6
    <3>3. CASE i = 1 BY <1>5, <3>1, <3>2, <3>3 DEF Body
    <3>4. CASE i # 1
      <4>1. flatten[i - 1] = f[i - 1] BY <1>1, <2>8, <3>4
      <4> QED BY <3>1, <3>2, <3>4, <4>1 DEF Body
    <3> QED BY <3>3, <3>4
  <2> HIDE DEF Right
  <2>9. \A i \in 0 .. L : i \in Right BY <1>1, <2>7, <2>8, AllUpTo
  <2>10. L \in Right BY <1>1, <2>9
  <2>11. flatten[L] = f[L] BY <1>4, <2>10 DEF Right
  <2> QED BY <1>2, <2>5, <2>11
<1> QED BY <1>3, <1>4

\* What the client may get under its own id, or none, of one request.
Given(batch, e) ==
  /\ e.of \in DOMAIN batch
  /\ e.id = batch[e.of].id \/ (e.id = NoId /\ e.from = "node")
  /\ e.from = "archive" /\ batch[e.of].method = "read" => batch[e.of].block \notin BlockTags

AnswerType == [id : Id \cup {NoId}, of : Nat, from : {"archive", "node"}]

\* An entry is empty only for a notification, and else the one answer to its request.
EntryOf(batch, n, entry) ==
  \/ entry = <<>> /\ batch[n].id = NoId
  \/ \E e \in AnswerType : entry = <<e>> /\ e.of = n /\ Given(batch, e)

\* Whether the node names its answers or keeps their order, the one that is taken for
\* a request is the one to it.
LEMMA HitIsTheAnswer ==
  ASSUME NEW batch \in Seq(Request), DistinctIds(batch), NEW n \in Asked(batch),
         NEW answers \in Seq(AnswerType),
         AnswersById(batch, answers) \/ AnswersByPosition(batch, answers),
         NEW k \in 1 .. Len(Relayed(batch)), Relayed(batch)[k] = n
  PROVE  /\ Hit(answers, k, batch[n].id) \in AnswerType
         /\ Hit(answers, k, batch[n].id).of = n
         /\ Hit(answers, k, batch[n].id).from = "node"
         /\ Hit(answers, k, batch[n].id).id \in {batch[n].id, NoId}
<1> DEFINE id == batch[n].id
           same == {m \in 1 .. Len(answers) : answers[m].id = id}
           first == CHOOSE m \in same : \A l \in same : m <= l
<1>1. n \in DOMAIN batch /\ id # NoId BY DEF Asked
<1>2. Len(answers) \in Nat /\ \A m \in 1 .. Len(answers) : answers[m] \in AnswerType OBVIOUS
<1>3. CASE AnswersById(batch, answers)
  <2>1. {answers[m] : m \in 1 .. Len(answers)} = {Answer(batch[l].id, l, "node") : l \in Asked(batch)}
    BY <1>3 DEF AnswersById, Members
  <2>2. Answer(batch[n].id, n, "node") \in {Answer(batch[l].id, l, "node") : l \in Asked(batch)} OBVIOUS
  <2>3. PICK m \in 1 .. Len(answers) : answers[m] = Answer(batch[n].id, n, "node") BY <2>1, <2>2
  <2>4. m \in same BY <2>3 DEF Answer
  <2>5. same # {} /\ same \subseteq Nat BY <1>2, <2>4
  <2>6. \A l \in same : l \in 1 .. Len(answers) /\ answers[l].id = id OBVIOUS
  <2>7. Hit(answers, k, id) = answers[first] BY <2>5 DEF Hit
  <2> HIDE DEF same
  <2>8. \E x \in same : \A y \in same : x <= y BY <2>5, LeastOf
  <2>9. first \in same BY <2>8
  <2> HIDE DEF first
  <2>10. first \in 1 .. Len(answers) /\ answers[first].id = id BY <2>6, <2>9
  <2>11. PICK l \in Asked(batch) : answers[first] = Answer(batch[l].id, l, "node") BY <2>1, <2>10
  <2>12. batch[l].id = id /\ l \in DOMAIN batch BY <2>10, <2>11 DEF Answer, Asked
  <2>13. l = n BY <1>1, <2>12 DEF DistinctIds
  <2> HIDE DEF id
  <2>14. answers[first] = Answer(id, n, "node") BY <2>11, <2>12, <2>13
  <2>15. answers[first] \in AnswerType BY <1>2, <2>10
  <2> QED BY <2>7, <2>14, <2>15 DEF Answer, id
<1>4. CASE AnswersByPosition(batch, answers)
  <2> DEFINE sent == Relayed(batch)
  <2>1. answers = [m \in 1 .. Len(sent) |-> Answer(NoId, sent[m], "node")]
    BY <1>4 DEF AnswersByPosition
  <2>2. sent \in Seq(Nat) BY RelayedAre DEF RelayedTo
  <2> HIDE DEF sent
  <2>3. Len(sent) \in Nat BY <2>2
  <2>4. Len(answers) = Len(sent) BY <2>1, <2>3
  <2>5. \A m \in 1 .. Len(answers) : answers[m].id = NoId BY <2>1, <2>4 DEF Answer
  <2>6. same = {} BY <1>1, <2>5
  <2>7. k \in 1 .. Len(sent) /\ sent[k] = n BY DEF sent
  <2>8. k <= Len(answers) BY <2>3, <2>4, <2>7
  <2>9. Hit(answers, k, id) = answers[k] BY <2>6, <2>8 DEF Hit
  <2>10. answers[k] = Answer(NoId, n, "node") BY <2>1, <2>7
  <2>11. answers[k] \in AnswerType BY <1>2, <2>4, <2>7
  <2> HIDE DEF id
  <2> QED BY <2>9, <2>10, <2>11 DEF Answer, id
<1> QED BY <1>3, <1>4

LEMMA EntriesAre ==
  ASSUME NEW batch \in Seq(Request), DistinctIds(batch), NEW n \in 1 .. Len(batch),
         NEW answers \in Seq(AnswerType),
         AnswersById(batch, answers) \/ AnswersByPosition(batch, answers)
  PROVE  EntryOf(batch, n, Entry(batch, n, answers))
<1> DEFINE req == batch[n]
           sent == Relayed(batch)
           k == CHOOSE m \in 1 .. Len(sent) : sent[m] = n
<1>1. req \in Request /\ n \in DOMAIN batch /\ n \in Nat OBVIOUS
<1>2. req.id \in Id \cup {NoId} BY <1>1 DEF Request
<1>3. CASE AnsweredHere(req)
  <2> DEFINE e == Answer(req.id, n, "archive")
  <2>1. Entry(batch, n, answers) = <<e>> BY <1>3 DEF Entry
  <2>2. e \in AnswerType /\ e.of = n /\ e.id = req.id /\ e.from = "archive"
    BY <1>1, <1>2 DEF Answer, AnswerType
  <2>3. req.method = "read" => req.block \notin BlockTags
    BY <1>3 DEF AnsweredHere, LocalCandidate
  <2> HIDE DEF e
  <2>4. Given(batch, e) BY <1>1, <2>2, <2>3 DEF Given
  <2> QED BY <2>1, <2>2, <2>4 DEF EntryOf
<1>4. CASE ~ AnsweredHere(req) /\ req.id = NoId
  <2>1. Entry(batch, n, answers) = <<>> BY <1>4 DEF Entry
  <2> QED BY <1>4, <2>1 DEF EntryOf
<1>5. CASE ~ AnsweredHere(req) /\ req.id # NoId
  <2>1. n \in Asked(batch) BY <1>1, <1>5 DEF Asked
  <2>2. RelayedTo(batch, Len(batch), sent) BY RelayedAre
  <2> HIDE DEF sent
  <2>3. n \in Members(sent) BY <1>5, <2>2 DEF RelayedTo
  <2>4. \E m \in 1 .. Len(sent) : sent[m] = n BY <2>3 DEF Members
  <2>5. k \in 1 .. Len(sent) /\ sent[k] = n BY <2>4
  <2>6. Entry(batch, n, answers) = <<Hit(answers, k, req.id)>> BY <1>5 DEF Entry, sent
  <2> HIDE DEF k
  <2> DEFINE e == Hit(answers, k, req.id)
  <2>7. e \in AnswerType /\ e.of = n /\ e.from = "node" /\ e.id \in {req.id, NoId}
    BY <2>1, <2>5, HitIsTheAnswer DEF sent
  <2> HIDE DEF e
  <2>8. Given(batch, e) BY <1>1, <2>7 DEF Given
  <2> QED BY <2>6, <2>7, <2>8 DEF EntryOf, e
<1> QED BY <1>3, <1>4, <1>5

\* What the client has of the first m requests.
OutTo(batch, m, out) ==
  /\ out \in Seq(AnswerType)
  /\ \A k \in 1 .. Len(out) : out[k].of \in 1 .. m /\ Given(batch, out[k])
  /\ \A k, l \in 1 .. Len(out) : k < l => out[k].of < out[l].of
  /\ \A n \in 1 .. m : batch[n].id # NoId => \E k \in 1 .. Len(out) : out[k].of = n

\* One more entry keeps it so.
LEMMA OutGoesOn ==
  ASSUME NEW batch, NEW m \in Nat \ {0}, NEW out, OutTo(batch, m - 1, out),
         NEW entry, EntryOf(batch, m, entry)
  PROVE  OutTo(batch, m, out \o entry)
<1>1. out \in Seq(AnswerType) /\ Len(out) \in Nat BY DEF OutTo
<1>2. \A k \in 1 .. Len(out) : out[k].of \in 1 .. m - 1 /\ Given(batch, out[k]) BY DEF OutTo
<1>3. \A k, l \in 1 .. Len(out) : k < l => out[k].of < out[l].of BY DEF OutTo
<1>4. \A n \in 1 .. m - 1 : batch[n].id # NoId => \E k \in 1 .. Len(out) : out[k].of = n BY DEF OutTo
<1>5. m \in Nat /\ 1 .. m = (1 .. m - 1) \cup {m} OBVIOUS
<1>6. CASE entry = <<>> /\ batch[m].id = NoId
  <2>1. out \o entry = out BY <1>1, <1>6
  <2>2. \A n \in 1 .. m : batch[n].id # NoId => \E k \in 1 .. Len(out) : out[k].of = n
    BY <1>4, <1>5, <1>6
  <2>3. \A k \in 1 .. Len(out) : out[k].of \in 1 .. m /\ Given(batch, out[k]) BY <1>2, <1>5
  <2>4. OutTo(batch, m, out) BY <1>1, <1>3, <2>2, <2>3 DEF OutTo
  <2> QED BY <2>1, <2>4
<1>7. CASE \E e \in AnswerType : entry = <<e>> /\ e.of = m /\ Given(batch, e)
  <2>1. PICK e \in AnswerType : entry = <<e>> /\ e.of = m /\ Given(batch, e) BY <1>7
  <2> DEFINE w == out \o entry
             L == Len(out)
  <2>2. /\ w \in Seq(AnswerType) /\ Len(w) = L + 1 /\ w[L + 1] = e
        /\ \A k \in 1 .. L : w[k] = out[k]
    BY <1>1, <2>1
  <2> HIDE DEF w, L
  <2>3. L \in Nat /\ 1 .. Len(w) = (1 .. L) \cup {L + 1} BY <1>1, <2>2 DEF L
  <2>4. ASSUME NEW k \in 1 .. L
        PROVE  w[k] = out[k] /\ out[k].of \in 1 .. m - 1 /\ out[k].of < m /\ Given(batch, out[k])
    <3>1. out[k].of \in 1 .. m - 1 /\ Given(batch, out[k]) BY <1>2 DEF L
    <3>2. w[k] = out[k] BY <2>2
    <3>3. out[k].of < m BY <3>1
    <3> QED BY <3>1, <3>2, <3>3
  <2>5. ASSUME NEW k \in 1 .. Len(w) PROVE w[k].of \in 1 .. m /\ Given(batch, w[k])
    <3>1. CASE k \in 1 .. L BY <1>5, <2>4, <3>1
    <3>2. CASE k = L + 1 BY <1>5, <2>1, <2>2, <3>2
    <3> QED BY <2>3, <3>1, <3>2
  <2>6. ASSUME NEW k \in 1 .. Len(w), NEW l \in 1 .. Len(w), k < l PROVE w[k].of < w[l].of
    <3>1. k \in 1 .. L BY <2>3, <2>6
    <3>2. CASE l \in 1 .. L
      <4>1. out[k].of < out[l].of BY <1>3, <2>6, <3>1, <3>2 DEF L
      <4>2. w[k] = out[k] /\ w[l] = out[l] BY <2>4, <3>1, <3>2
      <4> QED BY <4>1, <4>2
    <3>3. CASE l = L + 1
      <4>1. w[l].of = m BY <2>1, <2>2, <3>3
      <4>2. w[k].of < m BY <2>4, <3>1
      <4> QED BY <4>1, <4>2
    <3> QED BY <2>3, <3>2, <3>3
  <2>7. ASSUME NEW n \in 1 .. m, batch[n].id # NoId PROVE \E k \in 1 .. Len(w) : w[k].of = n
    <3>1. CASE n \in 1 .. m - 1
      <4>1. PICK k \in 1 .. L : out[k].of = n BY <1>4, <2>7, <3>1 DEF L
      <4>2. k \in 1 .. Len(w) /\ w[k] = out[k] BY <2>3, <2>4
      <4> QED BY <4>1, <4>2
    <3>2. CASE n = m
      <4>1. L + 1 \in 1 .. Len(w) BY <2>3
      <4> QED BY <2>1, <2>2, <3>2, <4>1
    <3> QED BY <1>5, <3>1, <3>2
  <2>8. OutTo(batch, m, w) BY <2>2, <2>5, <2>6, <2>7 DEF OutTo
  <2> QED BY <2>8 DEF w
<1> QED BY <1>6, <1>7 DEF EntryOf

LEMMA EntriesJoined ==
  ASSUME NEW batch \in Seq(Request), DistinctIds(batch), NEW answers \in Seq(AnswerType),
         AnswersById(batch, answers) \/ AnswersByPosition(batch, answers)
  PROVE  OutTo(batch, Len(batch), FlattenSeq([n \in 1 .. Len(batch) |-> Entry(batch, n, answers)]))
<1> DEFINE L == Len(batch)
           seqs == [n \in 1 .. L |-> Entry(batch, n, answers)]
<1>1. L \in Nat OBVIOUS
<1>2. \A n \in 1 .. L : EntryOf(batch, n, Entry(batch, n, answers)) BY EntriesAre
<1>3. ASSUME NEW n \in 1 .. L PROVE Entry(batch, n, answers) \in Seq(AnswerType)
  <2> DEFINE entry == Entry(batch, n, answers)
  <2> HIDE DEF entry
  <2>1. EntryOf(batch, n, entry) BY <1>2 DEF entry
  <2>2. CASE entry = <<>> BY <2>2 DEF entry
  <2>3. CASE \E e \in AnswerType : entry = <<e>>
    <3>1. PICK e \in AnswerType : entry = <<e>> BY <2>3
    <3>2. <<e>> \in Seq(AnswerType) OBVIOUS
    <3> QED BY <3>1, <3>2 DEF entry
  <2> QED BY <2>1, <2>2, <2>3 DEF EntryOf
<1>4. seqs \in Seq(Seq(AnswerType)) /\ Len(seqs) = L BY <1>1, <1>3
<1>5. \A n \in 1 .. L : seqs[n] = Entry(batch, n, answers) OBVIOUS
<1> HIDE DEF seqs
<1>6. PICK f \in [0 .. Len(seqs) -> Seq(AnswerType)] :
        f[0] = <<>> /\ FlatTo(seqs, f) /\ FlattenSeq(seqs) = f[Len(seqs)]
  BY <1>4, FlattenIs
<1> DEFINE Right == {m \in 0 .. L : OutTo(batch, m, f[m])}
<1>7. 0 \in Right
  <2>1. OutTo(batch, 0, <<>>) BY DEF OutTo
  <2> QED BY <1>1, <1>6, <2>1
<1>8. ASSUME NEW m \in 1 .. L, m - 1 \in Right PROVE m \in Right
  <2>1. m \in 0 .. L /\ m \in Nat \ {0} /\ m \in 1 .. Len(seqs) BY <1>1, <1>4
  <2>2. f[m] = f[m - 1] \o Entry(batch, m, answers) BY <1>5, <1>6, <2>1 DEF FlatTo
  <2>3. OutTo(batch, m - 1, f[m - 1]) BY <1>8
  <2>4. EntryOf(batch, m, Entry(batch, m, answers)) BY <1>2
  <2>5. OutTo(batch, m, f[m - 1] \o Entry(batch, m, answers)) BY <2>1, <2>3, <2>4, OutGoesOn
  <2> QED BY <2>1, <2>2, <2>5
<1> HIDE DEF Right
<1>9. \A m \in 0 .. L : m \in Right BY <1>1, <1>7, <1>8, AllUpTo
<1>10. L \in Right BY <1>1, <1>9
<1>11. OutTo(batch, L, FlattenSeq(seqs)) BY <1>4, <1>6, <1>10 DEF Right
<1> QED BY <1>11 DEF seqs

\* serve.rs:509-581: of a batch of any length, relayed to a node that names its answers
\* or keeps their order, each request with an id gets the answer to it, in its place.
THEOREM BatchesAreAnswered == input \in BatchQuestions => RelayKeepsOrder
<1> SUFFICES ASSUME input \in BatchQuestions PROVE RelayKeepsOrder OBVIOUS
<1> DEFINE batch == input.batch
           reply == input.reply
           sent == Relayed(batch)
           answers == IF sent = <<>> THEN <<>> ELSE Spread(reply, Len(sent))
           res == RelayBatch(batch, reply)
           out == res.out
<1>1. /\ batch \in Seq(Request) /\ DistinctIds(batch)
      /\ reply.http \in {"gone", "cut", "status", "garbled", "json"} /\ reply.array = TRUE
      /\ reply.answers \in Seq([id : Id \cup {NoId}, of : Nat, from : {"node"}])
      /\ AnswersById(batch, reply.answers) \/ AnswersByPosition(batch, reply.answers)
  BY DEF BatchQuestions
<1> HIDE DEF batch, reply
<1>2. RelayedTo(batch, Len(batch), sent) BY <1>1, RelayedAre
<1>3. sent \in Seq(Nat) /\ Members(sent) = {n \in 1 .. Len(batch) : ~ AnsweredHere(batch[n])}
  BY <1>2 DEF RelayedTo
<1> HIDE DEF sent
<1>4. sent = <<>> <=> \A n \in DOMAIN batch : AnsweredHere(batch[n])
  <2>1. sent = <<>> <=> Members(sent) = {}
    <3>1. Len(sent) \in Nat /\ (sent = <<>> <=> Len(sent) = 0) BY <1>3
    <3>2. ASSUME Len(sent) # 0 PROVE Members(sent) # {}
      <4>1. 1 \in 1 .. Len(sent) BY <3>1, <3>2
      <4>2. sent[1] \in Members(sent) BY <4>1 DEF Members
      <4> QED BY <4>2
    <3>3. ASSUME Len(sent) = 0 PROVE Members(sent) = {}
      <4>1. \A n \in 1 .. Len(sent) : FALSE BY <3>3
      <4> QED BY <4>1 DEF Members
    <3> QED BY <3>1, <3>2, <3>3
  <2>2. DOMAIN batch = 1 .. Len(batch) BY <1>1
  <2> QED BY <1>3, <2>1, <2>2
<1>5. Refusal(reply) = "none" <=> reply.http = "json" BY <1>1 DEF Refusal
<1>6. reply.answers \in Seq(AnswerType)
  <2> DEFINE served == [id : Id \cup {NoId}, of : Nat, from : {"node"}]
  <2>1. served \subseteq AnswerType BY DEF AnswerType
  <2>2. reply.answers \in Seq(served) BY <1>1
  <2> HIDE DEF served
  <2>3. \A n \in 1 .. Len(reply.answers) : reply.answers[n] \in AnswerType BY <2>1, <2>2
  <2> QED BY <2>2, <2>3
<1>7. answers \in Seq(AnswerType)
      /\ (AnswersById(batch, answers) \/ AnswersByPosition(batch, answers))
  <2>1. CASE sent = <<>>
    <3>1. answers = <<>> /\ Asked(batch) = {} BY <1>4, <2>1 DEF Asked
    <3>2. Members(<<>>) = {} BY DEF Members
    <3>3. AnswersById(batch, <<>>) BY <3>1, <3>2 DEF AnswersById
    <3>4. <<>> \in Seq(AnswerType) OBVIOUS
    <3> QED BY <3>1, <3>3, <3>4
  <2>2. CASE sent # <<>>
    <3>1. answers = reply.answers BY <1>1, <2>2 DEF Spread
    <3> QED BY <1>1, <1>6, <3>1
  <2> QED BY <2>1, <2>2
<1>8. res.refused = "none" <=> sent = <<>> \/ Refusal(reply) = "none" BY DEF RelayBatch, sent
<1>9. ASSUME res.refused = "none" PROVE OutTo(batch, Len(batch), out)
  <2>1. out = FlattenSeq([n \in 1 .. Len(batch) |-> Entry(batch, n, answers)])
    BY <1>8, <1>9 DEF RelayBatch, sent
  <2> HIDE DEF answers, out
  <2> QED BY <1>1, <1>7, <2>1, EntriesJoined
<1> HIDE DEF res
<1>10. res.refused = "none" <=>
         reply.http = "json" \/ \A n \in DOMAIN batch : AnsweredHere(batch[n])
  BY <1>4, <1>5, <1>8
<1>11. ASSUME res.refused = "none"
       PROVE  /\ {n \in DOMAIN batch : batch[n].id # NoId} \subseteq {out[k].of : k \in DOMAIN out}
              /\ \A k, l \in DOMAIN out : k < l => out[k].of < out[l].of
              /\ \A k \in DOMAIN out : Given(batch, out[k])
  <2> HIDE DEF out
  <2>1. OutTo(batch, Len(batch), out) BY <1>9, <1>11
  <2>2. DOMAIN out = 1 .. Len(out) /\ DOMAIN batch = 1 .. Len(batch) BY <1>1, <2>1 DEF OutTo
  <2> QED BY <2>1, <2>2 DEF OutTo
<1> QED BY <1>10, <1>11 DEF RelayKeepsOrder, Given, res, batch, reply
=============================================================================
