------------------------------- MODULE Sidecar --------------------------------
(***************************************************************************)
(* How a command finds the program that holds the archive.  One process at *)
(* a time has the file open; if it is index --serve, it writes its address *)
(* to the sidecar file and removes it when it ends, unless it is killed.   *)
(* A command that cannot open the file reads the sidecar and asks the      *)
(* server there; nobody answering, it removes the sidecar as stale.  The   *)
(* address may meanwhile be that of a server of another archive.           *)
(***************************************************************************)
CONSTANTS
  Server,     \* the processes that ever open the file
  Client,     \* the commands that read
  Url, NoUrl, \* what --serve is given, and nothing
  NoServer    \* nobody

ASSUME SidecarAssumption == NoUrl \notin Url /\ NoServer \notin Server

VARIABLES
  holder,    \* [at, url] of every process; url = NoUrl without --serve
  side,      \* the sidecar: [is, url, by]
  stranger,  \* the addresses other servers listen at
  client     \* [at, url, by, seen, got, from] of every command

sidecarVars == <<holder, side, stranger, client>>

\* is: "file", or why there is none: "never", "dropped" or "removed".  url and by are
\* what it holds and who wrote it, or what the client that removed it had read.
NoFile == [is |-> "never", url |-> NoUrl, by |-> NoServer]

\* url, by: what was read from the sidecar.  seen: the server that was advertised
\* when the command began.  got, from: how it ended, and who answered.
Waiting == [at |-> "idle", url |-> NoUrl, by |-> NoServer, seen |-> NoServer, got |-> "none", from |-> NoServer]

Opened == {"open", "bound", "cleared", "serving", "leaving"}
Held == \E s \in Server : holder[s].at \in Opened
ListensAt(u) == {s \in Server : holder[s].url = u /\ holder[s].at \in Opened \ {"open"}}
IsAdvertised(s) == holder[s].at = "serving" /\ side.is = "file" /\ side.by = s
AdvertisedServer == {s \in Server : IsAdvertised(s)}

SidecarInit ==
  /\ holder = [s \in Server |-> [at |-> "new", url |-> NoUrl]]
  /\ side = NoFile /\ stranger = {}
  /\ client = [c \in Client |-> Waiting]

-----------------------------------------------------------------------------
(* A process that holds the file *)

Becomes(s, at) == holder' = [holder EXCEPT ![s].at = at]

OpensFile(s, u) ==
  /\ holder[s].at = "new" /\ ~ Held
  /\ holder' = [holder EXCEPT ![s] = [at |-> "open", url |-> u]]
  /\ UNCHANGED <<side, stranger, client>>

\* An address in use ends the program.
Bind(s) ==
  /\ holder[s].at = "open" /\ holder[s].url # NoUrl
  /\ Becomes(s, IF ListensAt(holder[s].url) = {} /\ holder[s].url \notin stranger
                THEN "bound" ELSE "ended")
  /\ UNCHANGED <<side, stranger, client>>

\* fs::write is two steps: the file is emptied, or created, and then written.  A file
\* that was removed in between is written without a name.
ClearSidecar(s) ==
  /\ holder[s].at = "bound"
  /\ Becomes(s, "cleared") /\ side' = [is |-> "file", url |-> NoUrl, by |-> s]
  /\ UNCHANGED <<stranger, client>>

WriteSidecar(s) ==
  /\ holder[s].at = "cleared"
  /\ Becomes(s, "serving")
  /\ side' = IF side.is = "file" THEN [side EXCEPT !.url = holder[s].url] ELSE side
  /\ UNCHANGED <<stranger, client>>

Dropped == [is |-> "dropped", url |-> NoUrl, by |-> NoServer]

\* Mutant of DropSidecar: the sidecar is removed after the file was closed.
DropSidecarLate(s) ==
  /\ \/ holder[s].at = "serving" /\ Becomes(s, "leaving") /\ UNCHANGED side
     \/ holder[s].at = "ended" /\ holder[s].url # NoUrl /\ Becomes(s, "dropped") /\ side' = Dropped
  /\ UNCHANGED <<stranger, client>>

\* The guard is dropped before the archive is; the workers answer until the end.
DropSidecar(s) ==
  /\ holder[s].at = "serving"
  /\ Becomes(s, "leaving") /\ side' = Dropped
  /\ UNCHANGED <<stranger, client>>

\* Only --once ends by itself, or a program that fails.
Ends(s) ==
  /\ holder[s].at = "leaving" \/ (holder[s].at = "open" /\ holder[s].url = NoUrl)
  /\ Becomes(s, "ended")
  /\ UNCHANGED <<side, stranger, client>>

\* By a signal; Ctrl+C, which ends following, is one, and no handler is installed.
Killed(s) ==
  /\ holder[s].at \in Opened
  /\ Becomes(s, "killed")
  /\ UNCHANGED <<side, stranger, client>>

\* A server of another archive starts, or ends.
Stranger(u) ==
  /\ ListensAt(u) = {}
  /\ stranger' = IF u \in stranger THEN stranger \ {u} ELSE stranger \cup {u}
  /\ UNCHANGED <<holder, side, client>>

-----------------------------------------------------------------------------
(* A command that reads: Ctx::open() *)

Answers(c, got, from) == client' = [client EXCEPT ![c].at = "done", ![c].got = got, ![c].from = from]

OpenArchive(c) ==
  /\ client[c].at = "idle"
  /\ IF Held
     THEN client' = [client EXCEPT ![c].at = "read",
            ![c].seen = IF AdvertisedServer = {} THEN NoServer ELSE CHOOSE s \in AdvertisedServer : TRUE]
     ELSE Answers(c, "local", NoServer)
  /\ UNCHANGED <<holder, side, stranger>>

ReadSidecar(c) ==
  /\ client[c].at = "read"
  /\ IF side.is = "file"
     THEN client' = [client EXCEPT ![c].at = "ask", ![c].url = side.url, ![c].by = side.by]
     ELSE Answers(c, "refused", NoServer)
  /\ UNCHANGED <<holder, side, stranger>>

\* A server that is bound but not serving yet keeps the request waiting.
AskHead(c) ==
  /\ client[c].at = "ask"
  /\ LET there == IF client[c].url = NoUrl THEN {} ELSE ListensAt(client[c].url) IN
     CASE there # {} ->
            \E s \in there : holder[s].at \in {"serving", "leaving"} /\ Answers(c, "remote", s)
       [] there = {} /\ client[c].url \in stranger -> Answers(c, "remote", NoServer)
       [] OTHER -> client' = [client EXCEPT ![c].at = "remove"]
  /\ UNCHANGED <<holder, side, stranger>>

RemoveSidecar(c) ==
  /\ client[c].at = "remove"
  /\ side' = IF side.is = "file" THEN [is |-> "removed", url |-> client[c].url, by |-> client[c].by]
             ELSE side
  /\ Answers(c, "refused", NoServer)
  /\ UNCHANGED <<holder, stranger>>

Exits(c) ==
  /\ client[c].at = "done"
  /\ client' = [client EXCEPT ![c] = Waiting]
  /\ UNCHANGED <<holder, side, stranger>>

SidecarNext ==
  \/ \E s \in Server :
       \/ \E u \in Url \cup {NoUrl} : OpensFile(s, u)
       \/ Bind(s) \/ ClearSidecar(s) \/ WriteSidecar(s) \/ DropSidecar(s) \/ Ends(s) \/ Killed(s)
  \/ \E u \in Url : Stranger(u)
  \/ \E c \in Client :
       OpenArchive(c) \/ ReadSidecar(c) \/ AskHead(c) \/ RemoveSidecar(c) \/ Exits(c)

SidecarSpec == SidecarInit /\ [][SidecarNext]_sidecarVars

-----------------------------------------------------------------------------
(* Properties *)

\* commands/mod.rs:95-98 and serve.rs:73-74: the sidecar leads to the server that
\* holds the file.  A command is answered by the server that was advertised from its
\* beginning to its end; it hears of somebody else only where the server that wrote
\* the sidecar has ended; and the sidecar of a server that runs is missing only
\* because a command removed it that had read the one before, or this one while
\* it was still empty.
SidecarLeadsToTheServer ==
  /\ \A c \in Client :
       client[c].at = "done" =>
         /\ client[c].seen \in AdvertisedServer =>
              client[c].got = "remote" /\ client[c].from = client[c].seen
         /\ client[c].got = "remote" /\ client[c].from # client[c].by =>
              holder[client[c].by].at \in {"ended", "killed"}
  /\ \A s \in Server :
       holder[s].at = "serving" /\ ~ IsAdvertised(s) =>
         side.is = "removed" /\ (side.by # s \/ side.url = NoUrl)

-----------------------------------------------------------------------------
(* What makes it inductive *)

Named == {"serving", "leaving", "ended", "killed"}    \* has written its address
Gone == {"ended", "killed"}

Command ==
  [at : {"idle", "read", "ask", "remove", "done"}, url : Url \cup {NoUrl},
   by : Server \cup {NoServer}, seen : Server \cup {NoServer},
   got : {"none", "local", "remote", "refused"}, from : Server \cup {NoServer}]

SidecarTypeOK ==
  /\ holder \in [Server -> [at : {"new"} \cup Opened \cup Gone, url : Url \cup {NoUrl}]]
  /\ side \in [is : {"file", "never", "dropped", "removed"}, url : Url \cup {NoUrl},
               by : Server \cup {NoServer}]
  /\ stranger \subseteq Url
  /\ client \in [Client -> Command]

OneHolds == \A s, t \in Server : holder[s].at \in Opened /\ holder[t].at \in Opened => s = t

Listeners == \A s \in Server : holder[s].at \in Opened \ {"open"} => holder[s].url # NoUrl

\* A name in the sidecar is that of who wrote it; without a name it is not written yet.
WriterIsNamed ==
  side.is = "file" =>
    /\ side.by \in Server
    /\ \/ side.url = NoUrl /\ holder[side.by].at \in {"cleared", "killed"}
       \/ side.url = holder[side.by].url /\ holder[side.by].at \in Named

\* What a server has written is there, or was taken for something else.
OwnOrRemoved ==
  \A s \in Server : holder[s].at \in {"cleared", "serving"} =>
    \/ side.is = "file" /\ side.by = s
    \/ side.is = "removed" /\ (side.by # s \/ side.url = NoUrl)

\* What a command has read, what it found out, and what became of the server it
\* began with.
Knows(m) ==
  /\ m.at = "idle" => m = Waiting
  /\ m.seen \in Server => holder[m.seen].at \in Named
  /\ m.at \in {"ask", "remove"} /\ m.url # NoUrl =>
       m.by \in Server /\ holder[m.by].url = m.url /\ holder[m.by].at \in Named
  /\ m.at = "remove" /\ m.url # NoUrl => holder[m.by].at \in Gone
  /\ m.at \in {"ask", "remove"} /\ m.seen \in AdvertisedServer => m.by = m.seen /\ m.url # NoUrl
  /\ m.at = "done" /\ m.got = "remote" /\ m.from # m.by =>
       m.by \in Server /\ holder[m.by].at \in Gone
  /\ m.at = "done" /\ m.seen \in AdvertisedServer => m.got = "remote" /\ m.from = m.seen

CommandsKnow == \A c \in Client : Knows(client[c])

SidecarInv ==
  SidecarTypeOK /\ OneHolds /\ Listeners /\ WriterIsNamed /\ OwnOrRemoved /\ CommandsKnow
=============================================================================
