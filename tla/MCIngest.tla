------------------------------- MODULE MCIngest -------------------------------
(* The builds of a worktree on small instances.                            *)
EXTENDS Ingest, TLC

CONSTANTS t1, t2

Runs(disk, other) == [total |-> 0, internal |-> 1, disk |-> disk, remote |-> 0, other |-> other]

(* A build that hits as often as those before it, then one that does not.  *)
WarmThenCold == <<Runs(9, 1), Runs(3, 2)>>
WarmPast     == <<90, 40>>

(* One of the two fails, so that a verdict of the other build shows.       *)
OneFails == {<<TRUE, FALSE>>, <<FALSE, TRUE>>}
=============================================================================
