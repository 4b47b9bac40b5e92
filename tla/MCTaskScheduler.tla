-------------------------- MODULE MCTaskScheduler --------------------------
(* A small instance of TaskScheduler: three tasks, and the requests that   *)
(* hit both ends of the clamp (0, 99) and the two limits that make three   *)
(* tasks queue (1, 2).                                                     *)
EXTENDS TaskScheduler

CONSTANTS c1, c2, c3

MCCallers == {c1, c2, c3}
MCLimitRequests == {0, 2, 99}
=============================================================================
