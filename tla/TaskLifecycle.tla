--------------------------- MODULE TaskLifecycle ---------------------------
(***************************************************************************)
(* The life of a background file task as its observers (the task center,   *)
(* the file page) may rely on it: which status can follow which.  The      *)
(* statuses are those of sshfiletasks.go; "none" is a task not yet created *)
(* and "cleared" one the user removed from the list.                       *)
(***************************************************************************)

CONSTANT Tasks

Busy     == {"queued", "scanning", "running"}
Terminal == {"success", "failed", "canceled"}
Status   == Busy \cup Terminal \cup {"none", "conflict", "cleared"}

VARIABLE status

TypeOK == status \in [Tasks -> Status]

Init == status = [t \in Tasks |-> "none"]

\* A task is queued once when it is created and once more if the user
\* answers a conflict; a conflict is only found before any work is done,
\* and what has ended stays as it ended until it is cleared.
Successors ==
  [s \in Status |->
     CASE s = "none"     -> {"queued"}
       [] s = "queued"   -> {"scanning", "failed", "canceled"}
       [] s = "scanning" -> {"running", "conflict"} \cup Terminal
       [] s = "running"  -> Terminal
       [] s = "conflict" -> {"queued", "canceled"}
       [] s \in Terminal -> {"cleared"}
       [] OTHER          -> {}]

Move(t) == \E s \in Successors[status[t]] : status' = [status EXCEPT ![t] = s]

\* Clearing is all or nothing: every task that has ended leaves the list.
Clear ==
  status' = [t \in Tasks |-> IF status[t] \in Terminal THEN "cleared" ELSE status[t]]

Next == Clear \/ \E t \in Tasks : status[t] \notin Terminal /\ Move(t)

Spec == Init /\ [][Next]_status
=============================================================================
