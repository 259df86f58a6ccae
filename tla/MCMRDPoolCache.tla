--------------------------- MODULE MCMRDPoolCache ---------------------------
EXTENDS MRDPoolCache, TLC
CacheSymmetry == Permutations(Keys) \cup Permutations(Pools) \cup Permutations(Streams)
=============================================================================
