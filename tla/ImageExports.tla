---------------------------- MODULE ImageExports ----------------------------
(***************************************************************************)
(* imageexport.go: the tasks that write images to files.                   *)
(*                                                                         *)
(* A single export goes to the file the user named, which it replaces.  A  *)
(* batch goes to a directory: each image gets a name no task is writing to *)
(* and no file has, and must not replace what has come there since.  Both  *)
(* write to a temporary file first.  A task that failed or was canceled is *)
(* run again under its own identity and with its own path.                 *)
(*                                                                         *)
(* What is exported, the progress and the slots (FileTasks) are left out.  *)
(***************************************************************************)
EXTENDS Integers, FiniteSetsExt

CONSTANTS MaxPath,  \* the names an image may get are 1 .. MaxPath, in the order they are tried
          Plans,    \* what may be asked for: a set of tasks, each with its
                    \* source, the batch it belongs to or None, and the path if it has none
          MaxRuns,  \* how often a task is run
          None

ImageExportsAssumption ==
  /\ MaxPath \in Nat \ {0} /\ MaxRuns \in Nat \ {0}
  /\ \A p \in Plans :
       /\ DOMAIN p \subseteq Nat /\ IsFiniteSet(DOMAIN p)
       /\ \A t \in DOMAIN p :
            /\ p[t].source \in {"docker", "registry"}
            /\ (p[t].batch = None) <=> (p[t].path \in 1..MaxPath)
  /\ None \notin 1..MaxPath /\ None \notin {"canceled", "error", "queued", "running", "success", "failed"}

VARIABLES
  plan,
  file,      \* what is at each path
  \* The tasks.
  pc,
  path,
  partial,   \* the temporary file
  canceled,
  failure,   \* None, "canceled" or "error"
  status,    \* as the windows see it
  runs,
  quitting,  \* shutdown has begun
  \* What the properties remember.
  put,       \* the run has put its file in place
  replacers  \* the tasks that have replaced a file, at each path

task == <<pc, path, partial, canceled, failure, status, runs, quitting, put>>
vars == <<plan, file, task, replacers>>

Paths == 1..MaxPath
Tasks == DOMAIN plan
Exclusive(t) == plan[t].batch # None
Active(t) == status[t] \in {"queued", "running"}

\* What can be at a path or in a temporary file.
Nothing == <<>>
Other == <<"other">>
Part == <<"part">>
Image(t) == <<"image", t>>

Init ==
  /\ plan \in Plans
  /\ file \in [Paths -> {Nothing, Other}]
  /\ pc = [t \in Tasks |-> "asked"] /\ path = [t \in Tasks |-> None]
  /\ partial = [t \in Tasks |-> Nothing]
  /\ canceled = [t \in Tasks |-> FALSE] /\ failure = [t \in Tasks |-> None]
  /\ status = [t \in Tasks |-> None] /\ runs = [t \in Tasks |-> 0]
  /\ quitting = FALSE
  /\ put = [t \in Tasks |-> FALSE] /\ replacers = [p \in Paths |-> {}]

GoTo(t, p) == pc' = [pc EXCEPT ![t] = p]

(***************************************************************************)
(* Asking.                                                                 *)
(***************************************************************************)
Reserved == {path[t] : t \in {s \in Tasks : Active(s)}}

\* batchExportPaths: the n-th name that is free.
Free(p) == p \notin Reserved /\ file[p] = Nothing
Nth(t) == Cardinality({s \in Tasks : s <= t /\ plan[s].batch = plan[t].batch})
IsNthFree(t, p) == Free(p) /\ Cardinality({q \in 1..p : Free(q)}) = Nth(t)

\* exportQueueMu is held until all tasks of a batch have been made.
StartBatch(b) ==
  LET batch == {t \in Tasks : plan[t].batch = b} IN
  /\ ~quitting
  /\ \A t \in batch : pc[t] = "asked" /\ \E p \in Paths : IsNthFree(t, p)
  /\ path' = [t \in Tasks |-> IF t \in batch THEN CHOOSE p \in Paths : IsNthFree(t, p) ELSE path[t]]
  /\ status' = [t \in Tasks |-> IF t \in batch THEN "queued" ELSE status[t]]
  /\ pc' = [t \in Tasks |-> IF t \in batch THEN "queued" ELSE pc[t]]
  /\ runs' = [t \in Tasks |-> IF t \in batch THEN 1 ELSE runs[t]]
  /\ UNCHANGED <<plan, file, partial, canceled, failure, quitting, put, replacers>>

StartSingle(t) ==
  /\ ~quitting /\ pc[t] = "asked" /\ ~Exclusive(t)
  /\ path' = [path EXCEPT ![t] = plan[t].path]
  /\ status' = [status EXCEPT ![t] = "queued"] /\ GoTo(t, "queued")
  /\ runs' = [runs EXCEPT ![t] = 1]
  /\ UNCHANGED <<plan, file, partial, canceled, failure, quitting, put, replacers>>

\* RetryImageExport, under the same two locks; unless the task was cleared.
Retry(t) ==
  /\ ~quitting /\ pc[t] = "left" /\ status[t] \in {"failed", "canceled"} /\ runs[t] < MaxRuns
  /\ status' = [status EXCEPT ![t] = "queued"] /\ GoTo(t, "queued")
  /\ canceled' = [canceled EXCEPT ![t] = FALSE] /\ failure' = [failure EXCEPT ![t] = None]
  /\ put' = [put EXCEPT ![t] = FALSE] /\ runs' = [runs EXCEPT ![t] = @ + 1]
  /\ UNCHANGED <<plan, file, path, partial, replacers, quitting>>

\* CancelImageTask.
Cancel(t) ==
  /\ Active(t) /\ ~canceled[t]
  /\ canceled' = [canceled EXCEPT ![t] = TRUE]
  /\ UNCHANGED <<plan, file, pc, path, partial, failure, status, runs, quitting, put, replacers>>

\* ClearImageTasks, pruneTasksLocked: a task that is over is forgotten.
Clear(t) ==
  /\ pc[t] = "left" /\ ~Active(t)
  /\ GoTo(t, "cleared")
  /\ UNCHANGED <<plan, file, path, partial, canceled, failure, status, runs, quitting, put, replacers>>

(***************************************************************************)
(* A run.                                                                  *)
(***************************************************************************)
Begin(t) ==
  /\ pc[t] = "queued"
  /\ status' = [status EXCEPT ![t] = "running"] /\ GoTo(t, "open")
  /\ UNCHANGED <<plan, file, path, partial, canceled, failure, runs, quitting, put, replacers>>

\* The context is done while it waits for a slot.
NeverBegins(t) ==
  /\ pc[t] = "queued" /\ canceled[t]
  /\ status' = [status EXCEPT ![t] = "canceled"] /\ GoTo(t, "left")
  /\ UNCHANGED <<plan, file, path, partial, canceled, failure, runs, quitting, put, replacers>>

\* A registry's export must make the file, Docker's takes what it finds.
Open(t) ==
  /\ pc[t] = "open"
  /\ plan[t].source = "registry" => partial[t] = Nothing
  /\ partial' = [partial EXCEPT ![t] = Part] /\ GoTo(t, "stream")
  /\ UNCHANGED <<plan, file, path, canceled, failure, status, runs, quitting, put, replacers>>

\* When it is written, the context is looked at once more.
Stream(t) ==
  /\ pc[t] = "stream"
  /\ partial' = [partial EXCEPT ![t] = Image(t)]
  /\ IF canceled[t] THEN GoTo(t, "clean") /\ failure' = [failure EXCEPT ![t] = "canceled"]
     ELSE GoTo(t, "commit") /\ UNCHANGED failure
  /\ UNCHANGED <<plan, file, path, canceled, status, runs, quitting, put, replacers>>

\* Anything before; a command that was stopped says so as an error.
Fails(t) ==
  /\ pc[t] \in {"open", "stream"}
  /\ \E e \in IF canceled[t] THEN {"canceled", "error"} ELSE {"error"} :
       failure' = [failure EXCEPT ![t] = e]
  /\ GoTo(t, "clean")
  /\ UNCHANGED <<plan, file, path, partial, canceled, status, runs, quitting, put, replacers>>

PutsFile(t) ==
  /\ file' = [file EXCEPT ![path[t]] = partial[t]]
  /\ replacers' = [replacers EXCEPT ![path[t]] = IF file[path[t]] = Nothing THEN @ ELSE @ \cup {t}]
  /\ put' = [put EXCEPT ![t] = TRUE]

\* Rename replaces, Link does not.
MayReplace(t) == ~Exclusive(t)

\* commitImageExport: a batch links its file and then removes the other name.
Commit(t) ==
  /\ pc[t] = "commit" /\ (MayReplace(t) \/ file[path[t]] = Nothing)
  /\ PutsFile(t)
  /\ IF Exclusive(t) THEN GoTo(t, "unlink") /\ UNCHANGED partial
     ELSE GoTo(t, "finish") /\ partial' = [partial EXCEPT ![t] = Nothing]
  /\ UNCHANGED <<plan, path, canceled, failure, status, runs, quitting>>

Unlink(t) ==
  /\ pc[t] = "unlink"
  /\ partial' = [partial EXCEPT ![t] = Nothing] /\ GoTo(t, "finish")
  /\ UNCHANGED <<plan, file, path, canceled, failure, status, runs, quitting, put, replacers>>

\* There is a file, or the system refuses; then it is tried once more to
\* remove the temporary one.
CommitFails(t) ==
  /\ pc[t] \in {"commit", "unlink"}
  /\ failure' = [failure EXCEPT ![t] = "error"] /\ GoTo(t, "clean")
  /\ UNCHANGED <<plan, file, path, partial, canceled, status, runs, quitting, put, replacers>>

Clean(t) ==
  /\ pc[t] = "clean"
  /\ partial' = [partial EXCEPT ![t] = Nothing] /\ GoTo(t, "finish")
  /\ UNCHANGED <<plan, file, path, canceled, failure, status, runs, quitting, put, replacers>>

\* The redaction of a registry's error keeps its words only: a canceled export
\* ends as a failed one.
Finish(t) ==
  /\ pc[t] = "finish"
  /\ status' = [status EXCEPT ![t] =
       IF failure[t] = None THEN "success"
       ELSE IF failure[t] = "canceled" /\ plan[t].source = "docker" THEN "canceled" ELSE "failed"]
  /\ GoTo(t, "left")
  /\ UNCHANGED <<plan, file, path, partial, canceled, failure, runs, quitting, put, replacers>>

\* Another program puts a file there.
Guest(p) ==
  /\ file[p] = Nothing
  /\ \E t \in Tasks : Active(t)
  /\ file' = [file EXCEPT ![p] = Other]
  /\ UNCHANGED <<plan, task, replacers>>

\* shutdown cancels all tasks and waits until they have ended.
Shutdown ==
  /\ ~quitting /\ \E t \in Tasks : Active(t)
  /\ quitting' = TRUE
  /\ canceled' = [t \in Tasks |-> canceled[t] \/ Active(t)]
  /\ UNCHANGED <<plan, file, pc, path, partial, failure, status, runs, put, replacers>>

\* The process is stopped by force.
Killed ==
  /\ \E t \in Tasks : Active(t)
  /\ pc' = [t \in Tasks |-> "quit"]
  /\ UNCHANGED <<plan, file, path, partial, canceled, failure, status, runs, quitting, put, replacers>>

Run(t) ==
  \/ Begin(t) \/ NeverBegins(t) \/ Open(t) \/ Stream(t) \/ Fails(t)
  \/ Commit(t) \/ Unlink(t) \/ CommitFails(t) \/ Clean(t) \/ Finish(t)

Next ==
  \/ \E t \in Tasks : Exclusive(t) /\ StartBatch(plan[t].batch)
  \/ \E t \in Tasks : StartSingle(t) \/ Retry(t) \/ Cancel(t) \/ Clear(t) \/ Run(t)
  \/ \E p \in Paths : Guest(p)
  \/ Shutdown \/ Killed

Spec == Init /\ [][Next]_vars

-----------------------------------------------------------------------------
\* The variables have the values the code gives them.
TypeOK ==
  /\ file \in [Paths -> {Nothing, Other, Part} \cup {Image(t) : t \in Tasks}]
  /\ pc \in [Tasks -> {"asked", "queued", "open", "stream", "commit", "unlink", "clean", "finish", "left",
                       "cleared", "quit"}]
  /\ path \in [Tasks -> Paths \cup {None}]
  /\ \A t \in Tasks : partial[t] \in {Nothing, Part, Image(t)}
  /\ quitting \in BOOLEAN
  /\ failure \in [Tasks -> {None, "canceled", "error"}]
  /\ status \in [Tasks -> {None, "queued", "running", "success", "failed", "canceled"}]

\* commitImageExport, exportDockerTar, exportRegistryOCI: no file is ever a
\* part of an image, and only an export to a file the user named replaces one
\* (imageexport_test.go:287: a batch does not overwrite).
LossIsAnnounced ==
  \A p \in Paths : file[p] # Part /\ \A t \in replacers[p] : ~Exclusive(t)

\* A task that reports success has put its image at its path, where it is
\* unless an export the user has sent there came after it.
Delivered(t) ==
  status[t] = "success" =>
    put[t] /\ (file[path[t]] = Image(t) \/ \E s \in replacers[path[t]] : s # t)

\* One that is over has no temporary file, and one that reports that it was
\* canceled has put nothing there.
Tidy(t) ==
  /\ pc[t] \in {"left", "cleared"} => partial[t] = Nothing
  /\ status[t] = "canceled" => ~put[t]

\* Two images of batches do not go for the same path, unless one is tried again.
Apart(t, s) ==
  Active(t) /\ Active(s) /\ Exclusive(t) /\ Exclusive(s) /\ path[t] = path[s] => runs[t] > 1 \/ runs[s] > 1

\* These three, for all tasks.
DeliveredWhenDone ==
  \A t \in Tasks : Delivered(t) /\ Tidy(t) /\ \A s \in Tasks \ {t} : Apart(t, s)
=============================================================================
