--------------------------- MODULE MCBuildPackage ---------------------------
EXTENDS BuildPackage, TLC

\* A signed image of an older tree with the identity of one of the Core runs: the
\* right one for that run, a wrong one for the other.
MCElsewhere ==
    {[StrayOutput EXCEPT !.id = {c}, !.whole = TRUE] : c \in {CHOOSE c \in CoreRun : TRUE}}

Symmetry == Permutations(Process)
=============================================================================
