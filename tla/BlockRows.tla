------------------------------ MODULE BlockRows -------------------------------
(***************************************************************************)
(* What the main-server promises of the rows of the table blocks to those  *)
(* who read them: a row is inserted once as "ready", its status changes    *)
(* only while it exists, and once deleted its id never names a row again.  *)
(* A step concerns one row.  BlockDeploy implements this; the web-client   *)
(* (Forge) relies on it.                                                   *)
(***************************************************************************)
CONSTANTS
    Blocks,     \* block ids
    Statuses    \* what the column status may hold

VARIABLE row    \* status of the row of each block, "unborn" or "deleted"

Exists(b) == row[b] \in Statuses

Init == row \in [Blocks -> {"unborn", "ready"}]

\* create_block inserts the row.
Insert(b) ==
    /\ row[b] = "unborn"
    /\ row' = [row EXCEPT ![b] = "ready"]

\* update_block_status, of a handler or of the builder-server: IF EXISTS.
Report(b, status) ==
    /\ Exists(b)
    /\ row' = [row EXCEPT ![b] = status]

\* delete_block.
Delete(b) ==
    /\ Exists(b)
    /\ row' = [row EXCEPT ![b] = "deleted"]

RowStep(b) == Insert(b) \/ Delete(b) \/ \E status \in Statuses : Report(b, status)

Next == \E b \in Blocks : RowStep(b)

Spec == Init /\ [][Next]_row
=============================================================================
