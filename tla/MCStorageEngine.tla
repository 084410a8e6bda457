--------------------------- MODULE MCStorageEngine ---------------------------
EXTENDS StorageEngine, TLC

Symmetry == Permutations(Writer) \cup Permutations(Key)
=============================================================================
