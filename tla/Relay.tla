-------------------------------- MODULE Relay --------------------------------
(***************************************************************************)
(* balq serve with an upstream node: what one POST is answered with.  The  *)
(* archive answers the storage reads it can, the rest of a batch goes to   *)
(* the node in one request, and the answers are put back in the client's   *)
(* order.  A request is its id, the kind of read, the block it names, and  *)
(* whether the archive has the answer; an answer is its id and what it     *)
(* answers.                                                                *)
(***************************************************************************)
EXTENDS Integers, Sequences, SequencesExt, FiniteSets

CONSTANTS
  Id,        \* the ids clients use
  NoId       \* a request without an id: a notification; an answer without one

ASSUME RelayAssumption == NoId \notin Id

\* A block parameter: a tag, a number, or an object.  "inner" are objects with
\* a blockNumber, "hash" one without.
BlockTags == {"latest", "safe", "finalized", "pending", "earliest"}
Inner == {"inner number", "inner latest"}
BlockParam == {"missing", "null", "number", "hash"} \cup BlockTags \cup Inner

Methods == {"read", "status", "other"}

\* known: the archive answers with a value, at the block the request names if
\* it names a definite one.
Request == [id : Id \cup {NoId}, method : Methods, block : BlockParam, known : BOOLEAN]

\* parse_block: the archive's head, or the block that is named.
ParseBlock(block) ==
  CASE block \in {"missing", "null", "latest", "safe", "finalized", "hash", "inner latest"} -> "head"
    [] block \in {"pending", "earliest"} -> "refused"
    [] OTHER -> "named"

\* local_candidate: may the archive answer at all?
LocalCandidate(req) ==
  \/ req.method = "status"
  \/ req.method = "read" /\ req.block \notin BlockTags \cup {"missing", "null", "hash"}

\* rpc_one: an error of the archive leaves the request to the node.
AnsweredHere(req) ==
  LocalCandidate(req) /\ (req.method = "status" \/ (req.known /\ ParseBlock(req.block) # "refused"))

\* What one answer looks like: the id it carries, the request it is about, and
\* where it comes from.
Answer(id, of, from) == [id |-> id, of |-> of, from |-> from]
NoAnswer(id) == Answer(id, 0, "error")

\* The positions of the batch that go upstream, in order.
Relayed(batch) ==
  LET upTo[n \in 0 .. Len(batch)] ==
        IF n = 0 THEN <<>>
        ELSE IF AnsweredHere(batch[n]) THEN upTo[n - 1] ELSE Append(upTo[n - 1], n)
  IN  upTo[Len(batch)]

\* Mutant of Hit: the k-th answer is for the k-th request.
HitByPosition(answers, k, id) ==
  IF k <= Len(answers) THEN answers[k] ELSE NoAnswer(id)

\* The answer to the k-th request sent: the first with its id, else the k-th.
Hit(answers, k, id) ==
  LET same == {m \in 1 .. Len(answers) : answers[m].id = id} IN
  CASE same # {} -> answers[CHOOSE m \in same : \A l \in same : m <= l]
    [] same = {} /\ k <= Len(answers) -> answers[k]
    [] OTHER -> NoAnswer(id)

\* Upstream::send: how the client is refused, if the node does not answer in JSON.
\* A status of failure is handed on as the node gave it.
Refusal(reply) ==
  CASE reply.http = "json" -> "none"
    [] reply.http = "status" -> "its own"
    [] OTHER -> "502"

\* An answer that is no array is every request's answer.
Spread(reply, n) ==
  IF reply.array THEN reply.answers ELSE [k \in 1 .. n |-> reply.answers[1]]

\* One entry of the batch, as a sequence: a notification sent on has no answer.
Entry(batch, n, answers) ==
  LET req == batch[n]
      sent == Relayed(batch)
      k == CHOOSE m \in 1 .. Len(sent) : sent[m] = n
  IN  CASE AnsweredHere(req) -> <<Answer(req.id, n, "archive")>>
        [] ~ AnsweredHere(req) /\ req.id = NoId -> <<>>
        [] OTHER -> <<Hit(answers, k, req.id)>>

\* relay_dispatch of a batch.  A refusal of the node is the client's answer.
\* reply: [http, array, answers] of the node, unless nothing was sent; http is "gone",
\* "cut", "status", "garbled" or "json".
RelayBatch(batch, reply) ==
  LET sent == Relayed(batch)
      answers == IF sent = <<>> THEN <<>> ELSE Spread(reply, Len(sent))
  IN  IF sent # <<>> /\ Refusal(reply) # "none"
      THEN [refused |-> Refusal(reply), out |-> <<>>, via |-> "upstream"]
      ELSE [refused |-> "none",
            out |-> FlattenSeq([n \in 1 .. Len(batch) |-> Entry(batch, n, answers)]),
            via |-> CASE sent = <<>> -> "local"
                      [] Len(sent) = Len(batch) /\ sent # <<>> -> "upstream"
                      [] OTHER -> "mixed"]
=============================================================================
