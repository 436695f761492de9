------------------------------ MODULE MCBackfill ------------------------------
\* Walks down the chain between passes, on the block trees of MCChain.
EXTENDS Backfill, MCChain
=============================================================================
