------------------------ MODULE MCSessionDurability ------------------------
EXTENDS SessionDurability, TLC

\* Run ids are opaque: nothing compares or orders them.
Symmetry == Permutations(Runs)
=============================================================================
