------------------------------- MODULE MCIndex -------------------------------
\* balq index, on the block trees of MCChain.
EXTENDS Index, MCChain
=============================================================================
