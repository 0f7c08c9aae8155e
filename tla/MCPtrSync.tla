------------------------------ MODULE MCPtrSync ------------------------------
EXTENDS PtrSync, TLC
Symmetric == Permutations(Callers) \cup Permutations(Addresses)
==============================================================================
