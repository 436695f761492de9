------------------------------- MODULE MCReads -------------------------------
\* A reader beside the store, on the block trees of MCChain.
EXTENDS Reads, MCChain

\* A getter of two slots, which one block writes in between; and one slot of each
\* contract from afar.
CallOf(a, wanted, n, remote) == [addr |-> a, wanted |-> wanted, block |-> n, remote |-> remote]
MCCalls ==
  {CallOf("x", <<"t", "s">>, 2, FALSE), CallOf("x", <<"s">>, 3, TRUE), CallOf("y", <<"s">>, 3, TRUE)}
=============================================================================
