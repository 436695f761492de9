------------------------------ MODULE MCArchive ------------------------------
\* The store under one caller at a time, on the block trees of MCChain.
EXTENDS Archive, MCChain
=============================================================================
