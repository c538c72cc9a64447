--------------------------- MODULE MCClassifyPoller ---------------------------
EXTENDS ClassifyPoller, TLC
CONSTANTS c1, c2
MCClips == {c1, c2}
MCSymmetry == Permutations(MCClips)
=============================================================================
