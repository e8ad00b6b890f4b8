------------------------------- MODULE MCForge --------------------------------
\* Instance of Forge for TLC: one block, in the first of two versions.
EXTENDS Forge

CONSTANTS b1, v1, v2

FirstVersion == [b \in {b1} |-> v1]
=============================================================================
