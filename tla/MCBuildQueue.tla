----------------------------- MODULE MCBuildQueue -----------------------------
\* The transport alone, with one kind of request: the queue does not look
\* into a message, so offsets tell the requests apart.
EXTENDS BuildQueue

OneRequest == {"request"}
=============================================================================
