---------------------------- MODULE FileTransfer ----------------------------
(***************************************************************************)
(* sshfileupload.go and sshfiledownload.go: the tasks that carry files to  *)
(* a host and back.                                                        *)
(*                                                                         *)
(* A task writes each file to a temporary one next to its target, piece by *)
(* piece, by workers with a connection each.  An upload puts a file at its *)
(* target as soon as its last piece has been written, by whichever worker  *)
(* wrote it; a download puts all of them there, one after the other, when  *)
(* everything has been read.  A connection may break at any time (that of  *)
(* a source in local mode also breaks because the task is canceled), and   *)
(* an operation whose answer is lost may have been carried out.            *)
(*                                                                         *)
(* A source does not change while it is read.  Directories, links and the  *)
(* progress are left out; the slots of the tasks are in FileTasks.         *)
(***************************************************************************)
EXTENDS Integers, Sequences, FiniteSets

CONSTANTS Places,  \* where files are put, on the host and here
          Plans,   \* what may be asked for: a sequence of tasks, each with its
                   \* kind, its files (place and number of full segments)
                   \* and its number of connections
          None

\* The files of a task are those below one path: no two go to one place.
PlansAssumption ==
  \A p \in Plans : \A t \in DOMAIN p :
    /\ p[t].kind \in {"upload", "download"}
    /\ p[t].files \in Seq([place : Places, segments : Nat]) /\ p[t].files # <<>>
    /\ \A i, j \in DOMAIN p[t].files : p[t].files[i].place = p[t].files[j].place => i = j
    /\ p[t].clients \in Nat \ {0}

NoneAssumption == None \notin {"canceled", "error"}

VARIABLES
  plan,
  place,     \* what is at each place
  \* The tasks.
  pc,        \* where runFileUpload or runFileDownload is
  canceled,  \* the context is done
  temp,      \* the pieces written to the temporary file of each file
  todo,      \* how many pieces of each file have not yet been handed to a worker
  pieces,    \* completedChunks of each file of an upload
  firstErr,  \* None, "canceled" or "error"
  status,    \* as the windows see it
  \* Its workers.
  worker,    \* what each is doing, and with which file
  alive,     \* its connection
  \* What the properties remember.
  before,    \* what was at each place
  removed,   \* the places each task has removed something from
  put        \* the files of each task that were put at their place whole

task == <<pc, canceled, temp, todo, pieces, firstErr, status, worker, alive, removed, put>>
vars == <<plan, place, before, task>>

\* What can be at a place or in a temporary file.
Nothing == <<>>
Old == <<"old">>
Mixture == <<"mixture">>
Whole(t, i) == <<t, i>>
NoTemp == {0}   \* not a set of pieces: there is no temporary file

Tasks == DOMAIN plan
Files(t) == plan[t].files
Uploads(t) == plan[t].kind = "upload"

\* An empty file is one piece of an upload, and none of a download.
Pieces(t, i) == IF Uploads(t) /\ Files(t)[i].segments = 0 THEN 1 ELSE Files(t)[i].segments
Segments(t) == UNION {{[file |-> i, n |-> n] : n \in 1..Pieces(t, i)} : i \in DOMAIN Files(t)}
Content(t, i) == IF temp[t][i] = 1..Pieces(t, i) THEN Whole(t, i) ELSE Mixture

Idle == [at |-> "idle"]
Left == [at |-> "left"]
WorkDone(t) == canceled[t] \/ firstErr[t] # None   \* workCtx
Active(t) == pc[t] \notin {"left", "quit"}

Init ==
  /\ plan \in Plans
  /\ place \in [Places -> {Old, Nothing}] /\ before = place
  /\ pc = [t \in Tasks |-> "prepare"]
  /\ canceled = [t \in Tasks |-> FALSE]
  /\ temp = [t \in Tasks |-> [i \in DOMAIN Files(t) |-> NoTemp]]
  /\ todo = [t \in Tasks |-> [i \in DOMAIN Files(t) |-> Pieces(t, i)]]
  /\ pieces = [t \in Tasks |-> [i \in DOMAIN Files(t) |-> 0]]
  /\ firstErr = [t \in Tasks |-> None] /\ status = [t \in Tasks |-> "active"]
  /\ worker = [t \in Tasks |-> [c \in 1..plan[t].clients |-> Left]]
  /\ alive = [t \in Tasks |-> [c \in 1..plan[t].clients |-> TRUE]]
  /\ removed = [t \in Tasks |-> {}] /\ put = [t \in Tasks |-> {}]

-----------------------------------------------------------------------------
\* Only the first error counts; it cancels the work of the others.
SetError(t, e) == firstErr' = [firstErr EXCEPT ![t] = IF @ = None THEN e ELSE @]
Becomes(t, c, state) == worker' = [worker EXCEPT ![t][c] = state]
GoTo(t, p) == pc' = [pc EXCEPT ![t] = p]

\* An upload cleans up before it announces its end, a download after that
\* (unless its temporary files could not be created).
FirstOfEnding(t) == IF Uploads(t) THEN "clean" ELSE "finish"
AfterFinish(t) == IF Uploads(t) THEN "left" ELSE "clean"
AfterClean(t) == IF status[t] = "active" THEN "finish" ELSE "left"

\* A temporary file is created for each file, in their order; only an upload
\* looks at the context before each.
NextToCreate(t, i) ==
  /\ pc[t] = "prepare"
  /\ temp[t][i] = NoTemp /\ \A j \in 1..(i - 1) : temp[t][j] # NoTemp

Prepare(t) ==
  /\ Uploads(t) => ~canceled[t] /\ alive[t][1]
  /\ \E i \in DOMAIN Files(t) : NextToCreate(t, i) /\ temp' = [temp EXCEPT ![t][i] = {}]
  /\ UNCHANGED <<plan, place, before, pc, canceled, todo, pieces, firstErr, status, worker, alive, removed, put>>

\* It fails, or something before it does: the file may have been created.
PrepareFails(t) ==
  /\ \E i \in DOMAIN Files(t) :
       /\ NextToCreate(t, i) /\ temp' \in {temp, [temp EXCEPT ![t][i] = {}]}
       /\ \E e \in {"canceled", "error"} :
            /\ e = "canceled" => canceled[t] /\ (Uploads(t) \/ i = 1)
            /\ SetError(t, e)
  /\ GoTo(t, "clean")
  /\ UNCHANGED <<plan, place, before, canceled, todo, pieces, status, worker, alive, removed, put>>

StartWorkers(t) ==
  /\ pc[t] = "prepare" /\ \A i \in DOMAIN Files(t) : temp[t][i] # NoTemp
  /\ worker' = [worker EXCEPT ![t] =
       [c \in 1..plan[t].clients |-> IF c <= Cardinality(Segments(t)) THEN Idle ELSE Left]]
  /\ GoTo(t, "work")
  /\ UNCHANGED <<plan, place, before, canceled, temp, todo, pieces, firstErr, status, alive, removed, put>>

(***************************************************************************)
(* A worker.                                                               *)
(***************************************************************************)
\* It is handed the next piece, and looks at the context before it begins.
Take(t, c) ==
  /\ worker[t][c] = Idle
  /\ \E i \in DOMAIN Files(t) :
       /\ todo[t][i] > 0 /\ \A j \in 1..(i - 1) : todo[t][j] = 0
       /\ todo' = [todo EXCEPT ![t][i] = @ - 1]
       /\ IF WorkDone(t)
          THEN SetError(t, "canceled") /\ Becomes(t, c, Left)
          ELSE /\ Becomes(t, c, [at |-> "piece", file |-> i, n |-> Pieces(t, i) - todo[t][i] + 1])
               /\ UNCHANGED firstErr
  /\ UNCHANGED <<plan, place, before, pc, canceled, temp, pieces, status, alive, removed, put>>

\* There is nothing more to hand out, or whoever does it has seen the context.
HandedOut(t, i) == todo[t][i] = 0
Leave(t, c) ==
  /\ worker[t][c] = Idle
  /\ WorkDone(t) \/ \A i \in DOMAIN Files(t) : HandedOut(t, i)
  /\ Becomes(t, c, Left)
  /\ UNCHANGED <<plan, place, before, pc, canceled, temp, todo, pieces, firstErr, status, alive, removed, put>>

\* The last piece that is handed out is not the last that is written.
IsLastHandedOut(t, i) == HandedOut(t, i)
IsLastPiece(t, i) == pieces[t][i] + 1 = Pieces(t, i)

\* A download looks at the context again when it has read the piece.
PieceDone(t, c) ==
  LET w == worker[t][c] IN
  /\ w.at = "piece" /\ alive[t][c]
  /\ Uploads(t) \/ ~WorkDone(t)
  /\ temp' = [temp EXCEPT ![t][w.file] = @ \cup {w.n}]
  /\ pieces' = [pieces EXCEPT ![t][w.file] = @ + 1]
  /\ Becomes(t, c, IF Uploads(t) /\ IsLastPiece(t, w.file) THEN [at |-> "commit", file |-> w.file] ELSE Idle)
  /\ UNCHANGED <<plan, place, before, pc, canceled, todo, firstErr, status, alive, removed, put>>

PieceFails(t, c) ==
  /\ worker[t][c].at = "piece"
  /\ \E e \in IF WorkDone(t) THEN {"canceled", "error"} ELSE {"error"} : SetError(t, e)
  /\ Becomes(t, c, Left)
  /\ UNCHANGED <<plan, place, before, pc, canceled, temp, todo, pieces, status, alive, removed, put>>

(***************************************************************************)
(* commitRemoteUpload, by the worker that wrote the last piece of a file.  *)
(***************************************************************************)
\* What a rename of a temporary file does.
Moves(t, i) ==
  /\ place' = [place EXCEPT ![Files(t)[i].place] = Content(t, i)]
  /\ temp' = [temp EXCEPT ![t][i] = NoTemp]
  /\ put' = [put EXCEPT ![t] = IF Content(t, i) = Whole(t, i) THEN @ \cup {i} ELSE @]

\* An operation on the host fails: it was refused, or the connection has
\* broken, before or after the host did what was asked (effect).
Refused == UNCHANGED <<place, temp, removed, put, alive>>
AnswerLost(t, c, effect) == alive[t][c] /\ effect /\ alive' = [alive EXCEPT ![t][c] = FALSE]

\* PosixRename; if it fails, whatever it did, the plain way is tried.
CommitAtOnce(t, c) ==
  LET i == worker[t][c].file IN
  /\ worker[t][c].at = "commit"
  /\ \/ alive[t][c] /\ Moves(t, i) /\ Becomes(t, c, Idle) /\ UNCHANGED alive
     \/ /\ Refused \/ AnswerLost(t, c, Moves(t, i))
        /\ Becomes(t, c, [at |-> "look", file |-> i])
  /\ UNCHANGED <<plan, before, pc, canceled, todo, pieces, firstErr, status, removed>>

\* Lstat: without an answer the target counts as missing.
Look(t, c) ==
  LET i == worker[t][c].file IN
  /\ worker[t][c].at = "look"
  /\ \/ alive[t][c] /\ place[Files(t)[i].place] # Nothing /\ Becomes(t, c, [at |-> "remove", file |-> i])
     \/ Becomes(t, c, [at |-> "rename", file |-> i])
  /\ UNCHANGED <<plan, place, before, pc, canceled, temp, todo, pieces, firstErr, status, alive, removed, put>>

Removes(t, i) ==
  /\ place[Files(t)[i].place] # Nothing
  /\ place' = [place EXCEPT ![Files(t)[i].place] = Nothing]
  /\ removed' = [removed EXCEPT ![t] = @ \cup {Files(t)[i].place}]
  /\ UNCHANGED <<temp, put>>

RemoveTarget(t, c) ==
  LET i == worker[t][c].file IN
  /\ worker[t][c].at = "remove"
  /\ \/ /\ alive[t][c] /\ Removes(t, i)
        /\ Becomes(t, c, [at |-> "rename", file |-> i])
        /\ UNCHANGED <<alive, firstErr>>
     \/ /\ Refused \/ AnswerLost(t, c, Removes(t, i))
        /\ SetError(t, "error") /\ Becomes(t, c, Left)
  /\ UNCHANGED <<plan, before, pc, canceled, todo, pieces, status>>

RenameFails(t, c) == SetError(t, "error") /\ Becomes(t, c, Left)

\* Rename, which refuses to replace anything.
Rename(t, c) ==
  LET i == worker[t][c].file
      free == place[Files(t)[i].place] = Nothing /\ temp[t][i] # NoTemp
  IN
  /\ worker[t][c].at = "rename"
  /\ \/ alive[t][c] /\ free /\ Moves(t, i) /\ Becomes(t, c, Idle) /\ UNCHANGED <<alive, firstErr>>
     \/ Refused /\ RenameFails(t, c)
     \/ free /\ AnswerLost(t, c, Moves(t, i)) /\ RenameFails(t, c)
  /\ UNCHANGED <<plan, before, pc, canceled, todo, pieces, status, removed>>

(***************************************************************************)
(* The end of a task.                                                      *)
(***************************************************************************)
\* A context that is done counts as an error, even if all has been written.
Join(t) ==
  LET e == IF firstErr[t] = None /\ canceled[t] THEN "canceled" ELSE firstErr[t] IN
  /\ pc[t] = "work" /\ \A c \in DOMAIN worker[t] : worker[t][c] = Left
  /\ firstErr' = [firstErr EXCEPT ![t] = e]
  /\ GoTo(t, IF e # None THEN FirstOfEnding(t) ELSE IF Uploads(t) THEN "finish" ELSE "publish")
  /\ UNCHANGED <<plan, place, before, canceled, temp, todo, pieces, status, worker, alive, removed, put>>

\* finalizeRemoteDownloadFiles, in the order of the files, does not look at
\* the context.
NextToPublish(t, i) ==
  /\ pc[t] = "publish"
  /\ temp[t][i] # NoTemp /\ \A j \in 1..(i - 1) : temp[t][j] = NoTemp

Publish(t) ==
  /\ \E i \in DOMAIN Files(t) : NextToPublish(t, i) /\ Moves(t, i)
  /\ UNCHANGED <<plan, before, pc, canceled, todo, pieces, firstErr, status, worker, alive, removed>>

PublishEnds(t) ==
  /\ pc[t] = "publish" /\ \A i \in DOMAIN Files(t) : temp[t][i] = NoTemp
  /\ GoTo(t, "finish")
  /\ UNCHANGED <<plan, place, before, canceled, temp, todo, pieces, firstErr, status, worker, alive, removed, put>>

PublishFails(t) ==
  /\ \E i \in DOMAIN Files(t) : NextToPublish(t, i)
  /\ SetError(t, "error") /\ GoTo(t, "finish")
  /\ UNCHANGED <<plan, place, before, canceled, temp, todo, pieces, status, worker, alive, removed, put>>

\* cleanupTemps, by the first connection of an upload, which may break half
\* way or have broken; cleanupRemoteDownloadFiles.
Clean(t) ==
  /\ pc[t] = "clean"
  /\ IF Uploads(t) /\ ~alive[t][1] THEN UNCHANGED <<temp, alive>>
     ELSE \E kept \in SUBSET DOMAIN Files(t) :
            /\ temp' = [temp EXCEPT ![t] = [i \in DOMAIN Files(t) |-> IF i \in kept THEN temp[t][i] ELSE NoTemp]]
            /\ IF kept = {} THEN UNCHANGED alive
               ELSE Uploads(t) /\ alive' = [alive EXCEPT ![t][1] = FALSE]
  /\ GoTo(t, AfterClean(t))
  /\ UNCHANGED <<plan, place, before, canceled, todo, pieces, firstErr, status, worker, removed, put>>

\* finishFileTask, or the last update.
Finish(t) ==
  /\ pc[t] = "finish"
  /\ status' = [status EXCEPT ![t] =
       IF firstErr[t] = None THEN "success" ELSE IF firstErr[t] = "canceled" THEN "canceled" ELSE "failed"]
  /\ GoTo(t, AfterFinish(t))
  /\ UNCHANGED <<plan, place, before, canceled, temp, todo, pieces, firstErr, worker, alive, removed, put>>

Cancel(t) ==
  /\ Active(t) /\ ~canceled[t]
  /\ canceled' = [canceled EXCEPT ![t] = TRUE]
  /\ UNCHANGED <<plan, place, before, pc, temp, todo, pieces, firstErr, status, worker, alive, removed, put>>

Break(t, c) ==
  /\ Active(t) /\ alive[t][c]
  /\ alive' = [alive EXCEPT ![t][c] = FALSE]
  /\ UNCHANGED <<plan, place, before, pc, canceled, temp, todo, pieces, firstErr, status, worker, removed, put>>

\* The application quits, and takes the tasks with it.
Quit ==
  /\ \E t \in Tasks : Active(t)
  /\ pc' = [t \in Tasks |-> IF Active(t) THEN "quit" ELSE pc[t]]
  /\ worker' = [t \in Tasks |-> [c \in DOMAIN worker[t] |-> Left]]
  /\ UNCHANGED <<plan, place, before, canceled, temp, todo, pieces, firstErr, status, alive, removed, put>>

WorkerStep(t, c) ==
  \/ Take(t, c) \/ Leave(t, c) \/ PieceDone(t, c) \/ PieceFails(t, c)
  \/ CommitAtOnce(t, c) \/ Look(t, c) \/ RemoveTarget(t, c) \/ Rename(t, c)
  \/ Break(t, c)

Next ==
  \/ \E t \in Tasks :
       \/ Prepare(t) \/ PrepareFails(t) \/ StartWorkers(t)
       \/ \E c \in DOMAIN worker[t] : WorkerStep(t, c)
       \/ Join(t) \/ Publish(t) \/ PublishEnds(t) \/ PublishFails(t) \/ Clean(t) \/ Finish(t) \/ Cancel(t)
  \/ Quit

Spec == Init /\ [][Next]_vars

-----------------------------------------------------------------------------
\* The variables have the values the code gives them.
TypeOK ==
  /\ place \in [Places -> {Nothing, Old, Mixture} \cup UNION {{Whole(t, i) : i \in DOMAIN Files(t)} : t \in Tasks}]
  /\ \A t \in Tasks :
       /\ pc[t] \in {"prepare", "work", "publish", "clean", "finish", "left", "quit"}
       /\ status[t] \in {"active", "success", "failed", "canceled"}
       /\ firstErr[t] \in {None, "canceled", "error"}
       /\ \A i \in DOMAIN Files(t) :
            /\ todo[t][i] \in 0..Pieces(t, i) /\ pieces[t][i] \in 0..Pieces(t, i)
            /\ temp[t][i] = NoTemp \/ temp[t][i] \subseteq 1..Pieces(t, i)
       /\ put[t] \subseteq DOMAIN Files(t) /\ removed[t] \subseteq Places

\* Whoever stops whatever when, the application included, at no time is there
\* a file at its place with pieces missing (the name of
\* sshfileservice_test.go:663 says "commits atomically"), and what was there
\* is gone only by an upload that has not reported success
\* (commitRemoteUpload, sshfileupload.go 376-386).
LossIsAnnounced ==
  \A x \in Places :
    /\ place[x] # Mixture
    /\ place[x] = Nothing /\ before[x] = Old =>
         \E t \in Tasks : x \in removed[t] /\ status[t] # "success"

\* A task that reports success has put every file at its place, where it is
\* unless another task has the same place.
Delivered(t) ==
  status[t] = "success" =>
    \A i \in DOMAIN Files(t) :
      LET x == Files(t)[i].place IN
      /\ i \in put[t]
      /\ \/ place[x] = Whole(t, i)
         \/ \E s \in Tasks \ {t} : \E j \in DOMAIN Files(s) : Files(s)[j].place = x

\* cleanupTemps, cleanupRemoteDownloadFiles: a task that is over has no
\* temporary file left, unless it is an upload that had lost the connection
\* that removes them.
Tidy(t) ==
  pc[t] = "left" => \A i \in DOMAIN Files(t) :
    temp[t][i] = NoTemp \/ (Uploads(t) /\ status[t] # "success" /\ ~alive[t][1])

\* A download that is reported as canceled has not touched anything.
CanceledInTime(t) == ~Uploads(t) /\ status[t] = "canceled" => put[t] = {}

\* The three, for every task.
DeliveredWhenDone == \A t \in Tasks : Delivered(t) /\ Tidy(t) /\ CanceledInTime(t)
=============================================================================
