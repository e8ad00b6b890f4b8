---------------------------- MODULE MCBlockDeploy -----------------------------
\* Instances of BlockDeploy for TLC.
EXTENDS BlockDeploy, TLC

CONSTANTS b1, b2, h1, h2, n1, n2

AllRequests == [block : Blocks, action : Actions]
\* Two blocks that one name belongs to in turn, or a name each.
SharedName == [b \in {b1, b2} |-> n1]
OwnName == [b \in {b1, b2} |-> IF b = b1 THEN n1 ELSE n2]
\* The handlers are interchangeable.
HandlerSymmetry == Permutations(Handlers)
OneBlock == [b \in {b1} |-> n1]
=============================================================================
