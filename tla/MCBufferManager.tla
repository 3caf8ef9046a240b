-------------------------- MODULE MCBufferManager --------------------------
EXTENDS BufferManagerRefinement

Symmetry == Permutations(Handles) \cup Permutations(Values) \cup Permutations(Tables)

=============================================================================
