---------------------------- MODULE MCFileTasks ----------------------------
(* Two tasks of every kind and one slot, or two: enough for a queue, a     *)
(* conflict answered while another task runs, a retry, and a limit lowered *)
(* under load.  Three runners per task, one more than ConflictIsAnswerable *)
(* says are used, so that this bound never bites.  The liveness run keeps  *)
(* the two kinds that compete for a slot, one with a deadline and one that *)
(* may hold its slot for ever.                                             *)
EXTENDS FileTasks, TLC

CONSTANTS t1, t2

MCTasks == {t1, t2}
MCLimitRequests == {0, 2}
MCSymmetry == Permutations(MCTasks)

MCLiveKinds == {"copy", "upload"}
MCLiveLimitRequests == {0}
=============================================================================
