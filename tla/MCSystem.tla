------------------------------- MODULE MCSystem -------------------------------
\* The archive in use, on the block trees of MCChain.
EXTENDS System, MCChain
=============================================================================
