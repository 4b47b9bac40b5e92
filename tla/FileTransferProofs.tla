------------------------- MODULE FileTransferProofs -------------------------
(***************************************************************************)
(* That an upload or a download never leaves a part of a file at a place,  *)
(* never loses what was there unannounced, and has delivered everything    *)
(* when it reports success, for any number of tasks, files, pieces and     *)
(* connections.                                                            *)
(*                                                                         *)
(* What matters is the work of a task: each piece that was handed out has  *)
(* been written or is in the hands of one worker, so that the worker that  *)
(* makes the count complete, and only that one, finds all the pieces of    *)
(* the file.  The rest follows the phases of a task.                       *)
(***************************************************************************)
EXTENDS FileTransfer, FiniteSetTheorems, TLAPS

Commits == {"commit", "look", "remove", "rename"}
Phases == {"prepare", "work", "publish", "clean", "finish", "left", "quit"}

\* Everything has been written to the temporary file of a file.
Complete(t, i) == temp[t][i] = 1..Pieces(t, i)
Gone(t, i) == temp[t][i] = NoTemp

\* A worker has a piece of a file, or is at the commit of one.
HasPiece(t, c, i, n) == worker[t][c].at = "piece" /\ worker[t][c].file = i /\ worker[t][c].n = n
CommitsFile(t, c, i) == worker[t][c].at \in Commits /\ worker[t][c].file = i

TaskTypes(t) ==
  /\ pc[t] \in Phases /\ canceled[t] \in BOOLEAN
  /\ firstErr[t] \in {None, "canceled", "error"}
  /\ status[t] \in {"active", "success", "failed", "canceled"}
  /\ DOMAIN temp[t] = DOMAIN Files(t) /\ DOMAIN todo[t] = DOMAIN Files(t) /\ DOMAIN pieces[t] = DOMAIN Files(t)
  /\ DOMAIN worker[t] = 1..plan[t].clients /\ DOMAIN alive[t] = 1..plan[t].clients
  /\ \A i \in DOMAIN Files(t) :
       /\ todo[t][i] \in 0..Pieces(t, i) /\ pieces[t][i] \in 0..Pieces(t, i)
       /\ Gone(t, i) \/ temp[t][i] \subseteq 1..(Pieces(t, i) - todo[t][i])
  /\ put[t] \subseteq DOMAIN Files(t) /\ removed[t] \subseteq Places
  /\ \A c \in 1..plan[t].clients : worker[t][c].at \in {"idle", "left", "piece"} \cup Commits

\* Where a task is in its phases, and what it reports.
InPhase(t) ==
  /\ pc[t] = "prepare" =>
       /\ firstErr[t] = None /\ removed[t] = {} /\ put[t] = {}
       /\ \A i \in DOMAIN Files(t) :
            todo[t][i] = Pieces(t, i) /\ pieces[t][i] = 0 /\ (Gone(t, i) \/ temp[t][i] = {})
  /\ pc[t] # "work" => \A c \in 1..plan[t].clients : worker[t][c].at = "left"
  /\ pc[t] \in {"prepare", "work", "publish", "finish"} => status[t] = "active"
  /\ pc[t] = "publish" => ~Uploads(t) /\ firstErr[t] = None
  /\ pc[t] = "clean" /\ status[t] = "active" => firstErr[t] # None
  /\ pc[t] = "left" => status[t] # "active"
  /\ Uploads(t) /\ pc[t] \in {"clean", "quit"} => status[t] = "active"
  /\ status[t] = "success" => firstErr[t] = None
  /\ status[t] = "canceled" => firstErr[t] = "canceled"

\* Who has put something at a place, or removed something, and when.
Outcome(t) ==
  /\ ~Uploads(t) => removed[t] = {}
  /\ ~Uploads(t) /\ (pc[t] = "work" \/ firstErr[t] = "canceled") => put[t] = {}
  /\ \A i \in put[t] : Gone(t, i)
  /\ pc[t] = "publish" => \A i \in DOMAIN Files(t) : Complete(t, i) \/ (Gone(t, i) /\ i \in put[t])
  /\ (pc[t] = "finish" /\ firstErr[t] = None) \/ status[t] = "success" => \A i \in DOMAIN Files(t) : i \in put[t]
  /\ Uploads(t) /\ pc[t] = "finish" /\ firstErr[t] # None =>
       \A i \in DOMAIN Files(t) : Gone(t, i) \/ ~alive[t][1]
  /\ Tidy(t)

\* The count of the pieces that have been written is right.
Counted(t) ==
  pc[t] = "work" => \A i \in DOMAIN Files(t) :
    /\ Gone(t, i) => Uploads(t) /\ pieces[t][i] = Pieces(t, i) /\ HandedOut(t, i)
    /\ ~Gone(t, i) => pieces[t][i] = Cardinality(temp[t][i])

\* A piece in the hands of a worker was handed out, to no other, and has not
\* been written.
InHand(t) ==
  \A c \in 1..plan[t].clients : worker[t][c].at = "piece" =>
    LET w == worker[t][c] IN
    /\ w.file \in DOMAIN Files(t) /\ w.n \in 1..(Pieces(t, w.file) - todo[t][w.file])
    /\ ~Gone(t, w.file) /\ w.n \notin temp[t][w.file]
    /\ \A d \in 1..plan[t].clients : HasPiece(t, d, w.file, w.n) => d = c

\* As long as nothing has failed, no piece that was handed out is lost; and
\* the first worker does not leave before everything was handed out.
NothingLost(t) ==
  pc[t] = "work" =>
    /\ firstErr[t] = None =>
         \A i \in DOMAIN Files(t) : \A n \in 1..(Pieces(t, i) - todo[t][i]) :
           Gone(t, i) \/ n \in temp[t][i] \/ \E c \in 1..plan[t].clients : HasPiece(t, c, i, n)
    /\ ~WorkDone(t) /\ worker[t][1].at = "left" => \A i \in DOMAIN Files(t) : HandedOut(t, i)

\* A worker commits a file that is complete, alone; the temporary file may be
\* gone only if the worker has lost its connection.
Committing(t) ==
  \A c \in 1..plan[t].clients : worker[t][c].at \in Commits =>
    LET i == worker[t][c].file IN
    /\ Uploads(t) /\ i \in DOMAIN Files(t) /\ pieces[t][i] = Pieces(t, i)
    /\ \/ Complete(t, i)
       \/ Gone(t, i) /\ worker[t][c].at = "rename"
       \/ Gone(t, i) /\ worker[t][c].at = "look" /\ ~alive[t][c]
    /\ \A d \in 1..plan[t].clients : CommitsFile(t, d, i) => d = c

\* A file of an upload that is complete is put at its place, unless that fails.
Committed(t) ==
  Uploads(t) /\ pc[t] = "work" /\ firstErr[t] = None =>
    \A i \in DOMAIN Files(t) : pieces[t][i] = Pieces(t, i) =>
      i \in put[t] \/ \E c \in 1..plan[t].clients : CommitsFile(t, c, i)

TaskInv(t) ==
  /\ TaskTypes(t) /\ InPhase(t) /\ Outcome(t)
  /\ Counted(t) /\ InHand(t) /\ NothingLost(t) /\ Committing(t) /\ Committed(t)

\* A task that has not reported success and will not, or is about to rename a
\* file to a place.
Owes(t, x) ==
  \/ firstErr[t] # None \/ pc[t] = "quit"
  \/ \E c \in 1..plan[t].clients : worker[t][c].at = "rename" /\ Files(t)[worker[t][c].file].place = x

Shared(t, x) == \E s \in Tasks \ {t} : \E j \in DOMAIN Files(s) : Files(s)[j].place = x

\* What is at the places.
PlacesInv ==
  /\ \A x \in Places :
       /\ place[x] # Mixture
       /\ place[x] = Nothing /\ before[x] = Old => \E t \in Tasks : x \in removed[t] /\ Owes(t, x)
  /\ \A t \in Tasks : \A i \in put[t] :
       LET x == Files(t)[i].place IN place[x] = Whole(t, i) \/ Shared(t, x)

Contents == {Nothing, Old, Mixture} \cup UNION {{Whole(t, i) : i \in DOMAIN Files(t)} : t \in Tasks}

Domains ==
  /\ DOMAIN pc = Tasks /\ DOMAIN canceled = Tasks /\ DOMAIN temp = Tasks /\ DOMAIN todo = Tasks
  /\ DOMAIN pieces = Tasks /\ DOMAIN firstErr = Tasks /\ DOMAIN status = Tasks /\ DOMAIN worker = Tasks
  /\ DOMAIN alive = Tasks /\ DOMAIN removed = Tasks /\ DOMAIN put = Tasks

GlobalTypes ==
  /\ plan \in Plans /\ place \in [Places -> Contents] /\ before \in [Places -> {Old, Nothing}]
  /\ Domains

\* The inductive invariant.
IInv == GlobalTypes /\ PlacesInv /\ \A t \in Tasks : TaskInv(t)

-----------------------------------------------------------------------------
\* What the assumption says of one task.
LEMMA PlanFacts ==
  ASSUME PlansAssumption, plan \in Plans, NEW t \in Tasks
  PROVE  /\ \E l \in Nat : DOMAIN Files(t) = 1..l
         /\ \A i \in DOMAIN Files(t) :
              /\ Pieces(t, i) \in Nat /\ (Uploads(t) => Pieces(t, i) > 0)
              /\ Files(t)[i].place \in Places
         /\ \A i, j \in DOMAIN Files(t) : Files(t)[i].place = Files(t)[j].place => i = j
         /\ plan[t].clients \in Nat \ {0}
<1>1. /\ Files(t) \in Seq([place : Places, segments : Nat])
      /\ plan[t].clients \in Nat \ {0}
      /\ \A i, j \in DOMAIN Files(t) : Files(t)[i].place = Files(t)[j].place => i = j
  BY DEF PlansAssumption, Tasks, Files
<1>2. DOMAIN Files(t) = 1..Len(Files(t)) /\ Len(Files(t)) \in Nat
  BY <1>1
<1>3. ASSUME NEW i \in DOMAIN Files(t)
      PROVE  /\ Pieces(t, i) \in Nat /\ (Uploads(t) => Pieces(t, i) > 0)
             /\ Files(t)[i].place \in Places
  <2>1. ASSUME NEW S, Files(t) \in Seq(S) PROVE Files(t)[i] \in S
    BY <1>2, <2>1
  <2>2. Files(t)[i] \in [place : Places, segments : Nat]
    BY <1>1, <2>1
  <2> QED BY <2>2 DEF Pieces
<1> QED BY <1>1, <1>2, <1>3

LEMMA SamePlan ==
  ASSUME plan' = plan
  PROVE  /\ Tasks' = Tasks
         /\ \A t : Files(t)' = Files(t) /\ (Uploads(t)' <=> Uploads(t))
         /\ \A t, i : Pieces(t, i)' = Pieces(t, i)
BY DEF Tasks, Files, Uploads, Pieces

\* A step leaves a task alone.
Same(t) ==
  /\ plan' = plan /\ pc'[t] = pc[t] /\ canceled'[t] = canceled[t] /\ temp'[t] = temp[t] /\ todo'[t] = todo[t]
  /\ pieces'[t] = pieces[t] /\ firstErr'[t] = firstErr[t] /\ status'[t] = status[t]
  /\ worker'[t] = worker[t] /\ alive'[t] = alive[t] /\ removed'[t] = removed[t] /\ put'[t] = put[t]

LEMMA OtherTask ==
  ASSUME NEW t \in Tasks, Same(t), TaskInv(t)
  PROVE  TaskInv(t)'
<1> USE DEF Same
<1>0. /\ Files(t)' = Files(t) /\ (Uploads(t)' <=> Uploads(t))
      /\ \A i : Pieces(t, i)' = Pieces(t, i)
  BY SamePlan
<1>1. TaskTypes(t)'
  BY <1>0 DEF TaskInv, TaskTypes, Gone
<1>2. InPhase(t)'
  BY <1>0 DEF TaskInv, InPhase, Gone
<1>3. Outcome(t)'
  BY <1>0 DEF TaskInv, Outcome, Gone, Complete, Tidy
<1>4. Counted(t)'
  BY <1>0 DEF TaskInv, Counted, Gone, HandedOut
<1>5. InHand(t)'
  BY <1>0 DEF TaskInv, InHand, Gone, HasPiece
<1>6. NothingLost(t)'
  BY <1>0 DEF TaskInv, NothingLost, Gone, HasPiece, WorkDone, HandedOut
<1>7. Committing(t)'
  BY <1>0 DEF TaskInv, Committing, Gone, Complete, CommitsFile
<1>8. Committed(t)'
  BY <1>0 DEF TaskInv, Committed, CommitsFile
<1> QED BY <1>1, <1>2, <1>3, <1>4, <1>5, <1>6, <1>7, <1>8 DEF TaskInv

\* What can be at a place is told apart.
LEMMA Different ==
  /\ Nothing # Old /\ Nothing # Mixture /\ Old # Mixture
  /\ \A t, i : Whole(t, i) \notin {Nothing, Old, Mixture}
<1>1. Len(Nothing) = 0 /\ Len(Old) = 1 /\ Len(Mixture) = 1 /\ \A t, i : Len(Whole(t, i)) = 2
  BY DEF Nothing, Old, Mixture, Whole
<1>2. Old[1] = "old" /\ Mixture[1] = "mixture"
  BY DEF Old, Mixture
<1> QED BY <1>1, <1>2

\* A task without work has nothing to count.
LEMMA NotWorking ==
  ASSUME NEW t \in Tasks, plan' = plan, pc'[t] # "work", InPhase(t)'
  PROVE  Counted(t)' /\ InHand(t)' /\ NothingLost(t)' /\ Committing(t)' /\ Committed(t)'
<1>1. \A c \in 1..plan'[t].clients : worker'[t][c].at = "left"
  BY DEF InPhase
<1>2. Counted(t)' /\ NothingLost(t)' /\ Committed(t)'
  BY DEF Counted, NothingLost, Committed
<1>3. InHand(t)'
  BY <1>1 DEF InHand
<1>4. Committing(t)'
  BY <1>1 DEF Committing, Commits
<1> QED BY <1>2, <1>3, <1>4

\* A step that changes no place keeps what is said of them, if whoever owes
\* something still does.
LEMMA QuietPlaces ==
  ASSUME PlacesInv, plan' = plan, place' = place, before' = before, put' = put, removed' = removed,
         \A t \in Tasks, x \in Places : Owes(t, x) => Owes(t, x)'
  PROVE  PlacesInv'
<1>0. /\ Tasks' = Tasks
      /\ \A t : Files(t)' = Files(t)
  BY SamePlan
<1>1. ASSUME NEW x \in Places
      PROVE  /\ place'[x] # Mixture
             /\ place'[x] = Nothing /\ before'[x] = Old => \E t \in Tasks : x \in removed'[t] /\ Owes(t, x)'
  BY DEF PlacesInv
<1>2. ASSUME NEW t \in Tasks, NEW i \in put'[t]
      PROVE  place'[Files(t)[i].place] = Whole(t, i) \/ Shared(t, Files(t)[i].place)
  BY DEF PlacesInv
<1>3. ASSUME NEW t, NEW x
      PROVE  Shared(t, x)' <=> Shared(t, x)
  BY <1>0 DEF Shared
<1> QED BY <1>0, <1>1, <1>2, <1>3 DEF PlacesInv, Whole, Mixture, Nothing, Old

\* What a task owes stays owed as long as it does not go on, or back.
LEMMA StillOwes ==
  ASSUME NEW t \in Tasks, NEW x, plan' = plan, worker'[t] = worker[t], Owes(t, x),
         firstErr[t] # None => firstErr'[t] # None,
         pc[t] = "quit" => pc'[t] = "quit"
  PROVE  Owes(t, x)'
BY SamePlan DEF Owes

\* A step of one task.
OnlyTask(t) == Domains' /\ \A s \in Tasks \ {t} : Same(s)

LEMMA OneTask ==
  ASSUME IInv, NEW t \in Tasks, plan' = plan, before' = before, OnlyTask(t),
         place' \in [Places -> Contents], PlacesInv', TaskInv(t)'
  PROVE  IInv'
<1>1. Tasks' = Tasks /\ Contents' = Contents
  BY SamePlan DEF Contents, Whole, Nothing, Old, Mixture
<1>2. GlobalTypes'
  BY <1>1 DEF IInv, GlobalTypes, OnlyTask, Nothing, Old
<1>3. ASSUME NEW s \in Tasks \ {t} PROVE TaskInv(s)'
  BY OtherTask DEF IInv, OnlyTask
<1> QED BY <1>1, <1>2, <1>3 DEF IInv

\* One that changes no place.
LEMMA QuietTask ==
  ASSUME IInv, NEW t \in Tasks, plan' = plan, before' = before, place' = place, put' = put, removed' = removed,
         OnlyTask(t), TaskInv(t)', \A x \in Places : Owes(t, x) => Owes(t, x)'
  PROVE  IInv'
<1>1. ASSUME NEW s \in Tasks, NEW x \in Places, Owes(s, x) PROVE Owes(s, x)'
  <2>1. CASE s = t
    BY <1>1, <2>1
  <2>2. CASE s # t
    BY <1>1, <2>2, StillOwes DEF OnlyTask, Same
  <2> QED BY <2>1, <2>2
<1>2. PlacesInv'
  BY <1>1, QuietPlaces DEF IInv
<1>3. place' \in [Places -> Contents]
  BY DEF IInv, GlobalTypes
<1> QED BY <1>2, <1>3, OneTask

-----------------------------------------------------------------------------
(* The beginning and the end of a task. *)

LEMMA InitInv ==
  ASSUME PlansAssumption, Init
  PROVE  IInv
<1>1. GlobalTypes
  BY DEF Init, GlobalTypes, Domains, Contents
<1>2. PlacesInv
  <2>1. ASSUME NEW x \in Places PROVE place[x] # Mixture /\ ~(place[x] = Nothing /\ before[x] = Old)
    <3>1. place[x] \in {Old, Nothing} /\ before[x] = place[x]
      BY DEF Init
    <3> QED BY <3>1, Different
  <2>2. \A t \in Tasks : put[t] = {}
    BY DEF Init
  <2> QED BY <2>1, <2>2 DEF PlacesInv
<1>3. ASSUME NEW t \in Tasks PROVE TaskInv(t)
  <2>0. /\ \A i \in DOMAIN Files(t) : Pieces(t, i) \in Nat
        /\ plan[t].clients \in Nat \ {0}
    BY PlanFacts DEF Init
  <2>1. /\ pc[t] = "prepare" /\ canceled[t] = FALSE /\ firstErr[t] = None /\ status[t] = "active"
        /\ temp[t] = [i \in DOMAIN Files(t) |-> NoTemp]
        /\ todo[t] = [i \in DOMAIN Files(t) |-> Pieces(t, i)]
        /\ pieces[t] = [i \in DOMAIN Files(t) |-> 0]
        /\ worker[t] = [c \in 1..plan[t].clients |-> Left]
        /\ alive[t] = [c \in 1..plan[t].clients |-> TRUE]
        /\ removed[t] = {} /\ put[t] = {}
    BY DEF Init
  <2>2. TaskTypes(t)
    <3>1. \A i \in DOMAIN Files(t) : Gone(t, i) /\ todo[t][i] \in 0..Pieces(t, i) /\ pieces[t][i] \in 0..Pieces(t, i)
      BY <2>0, <2>1 DEF Gone
    <3>2. \A c \in 1..plan[t].clients : worker[t][c].at = "left"
      BY <2>1 DEF Left
    <3>3. /\ DOMAIN temp[t] = DOMAIN Files(t) /\ DOMAIN todo[t] = DOMAIN Files(t) /\ DOMAIN pieces[t] = DOMAIN Files(t)
          /\ DOMAIN worker[t] = 1..plan[t].clients /\ DOMAIN alive[t] = 1..plan[t].clients
      BY <2>1
    <3> QED BY <2>1, <3>1, <3>2, <3>3 DEF TaskTypes, Phases
  <2>3. InPhase(t)
    BY <2>0, <2>1 DEF InPhase, Gone, Left
  <2>4. Outcome(t)
    BY <2>0, <2>1 DEF Outcome, Tidy
  <2>5. \A c \in 1..plan[t].clients : worker[t][c].at = "left"
    BY <2>1 DEF Left
  <2>6. Counted(t) /\ NothingLost(t) /\ Committed(t)
    BY <2>1 DEF Counted, NothingLost, Committed
  <2>7. InHand(t) /\ Committing(t)
    BY <2>5 DEF InHand, Committing, Commits
  <2> QED BY <2>2, <2>3, <2>4, <2>6, <2>7 DEF TaskInv
<1> QED BY <1>1, <1>2, <1>3 DEF IInv

LEMMA PrepareInv ==
  ASSUME PlansAssumption, IInv, NEW t \in Tasks, Prepare(t)
  PROVE  IInv'
<1>0. PICK i \in DOMAIN Files(t) : NextToCreate(t, i) /\ temp' = [temp EXCEPT ![t][i] = {}]
  BY DEF Prepare
<1>1. /\ plan' = plan /\ place' = place /\ before' = before /\ put' = put /\ removed' = removed
      /\ pc' = pc /\ canceled' = canceled /\ todo' = todo /\ pieces' = pieces /\ firstErr' = firstErr
      /\ status' = status /\ worker' = worker /\ alive' = alive
      /\ pc[t] = "prepare"
  BY <1>0 DEF Prepare, NextToCreate
<1>2. Domains /\ TaskInv(t)
  BY DEF IInv, GlobalTypes
<1>3. /\ DOMAIN temp' = Tasks
      /\ temp'[t] = [temp[t] EXCEPT ![i] = {}] /\ \A s \in Tasks \ {t} : temp'[s] = temp[s]
  BY <1>0, <1>2 DEF Domains
<1>4. OnlyTask(t)
  BY <1>1, <1>2, <1>3, SamePlan DEF OnlyTask, Same, Domains
<1>5. Files(t)' = Files(t) /\ (Uploads(t)' <=> Uploads(t)) /\ \A j : Pieces(t, j)' = Pieces(t, j)
  BY <1>1, SamePlan
<1>6. /\ DOMAIN temp'[t] = DOMAIN Files(t)
      /\ \A j \in DOMAIN Files(t) : temp'[t][j] = IF j = i THEN {} ELSE temp[t][j]
  BY <1>2, <1>3 DEF TaskInv, TaskTypes
<1>7. TaskTypes(t)'
  BY <1>1, <1>2, <1>5, <1>6 DEF TaskInv, TaskTypes, Gone
<1>8. InPhase(t)'
  BY <1>1, <1>2, <1>5, <1>6 DEF TaskInv, InPhase, Gone
<1>9. Outcome(t)'
  BY <1>1, <1>2, <1>5 DEF TaskInv, InPhase, Outcome, Tidy
<1>10. TaskInv(t)'
  BY <1>1, <1>7, <1>8, <1>9, NotWorking DEF TaskInv
<1> QED BY <1>1, <1>4, <1>10, StillOwes, QuietTask

LEMMA PrepareFailsInv ==
  ASSUME PlansAssumption, NoneAssumption, IInv, NEW t \in Tasks, PrepareFails(t)
  PROVE  IInv'
<1>0. PICK i \in DOMAIN Files(t), e \in {"canceled", "error"} :
        /\ NextToCreate(t, i) /\ temp' \in {temp, [temp EXCEPT ![t][i] = {}]}
        /\ SetError(t, e)
  BY DEF PrepareFails
<1>1. /\ plan' = plan /\ place' = place /\ before' = before /\ put' = put /\ removed' = removed
      /\ pc' = [pc EXCEPT ![t] = "clean"] /\ canceled' = canceled /\ todo' = todo /\ pieces' = pieces
      /\ status' = status /\ worker' = worker /\ alive' = alive
      /\ pc[t] = "prepare"
  BY <1>0 DEF PrepareFails, NextToCreate, GoTo
<1>2. Domains /\ TaskInv(t)
  BY DEF IInv, GlobalTypes
<1>3. /\ DOMAIN temp' = Tasks /\ DOMAIN firstErr' = Tasks /\ DOMAIN pc' = Tasks
      /\ \A s \in Tasks \ {t} : temp'[s] = temp[s] /\ firstErr'[s] = firstErr[s] /\ pc'[s] = pc[s]
      /\ temp'[t] \in {temp[t], [temp[t] EXCEPT ![i] = {}]}
      /\ pc'[t] = "clean"
  BY <1>0, <1>1, <1>2 DEF Domains, SetError
<1>4. OnlyTask(t)
  BY <1>1, <1>2, <1>3, SamePlan DEF OnlyTask, Same, Domains
<1>5. Files(t)' = Files(t) /\ (Uploads(t)' <=> Uploads(t)) /\ \A j : Pieces(t, j)' = Pieces(t, j)
  BY <1>1, SamePlan
<1>6. /\ DOMAIN temp'[t] = DOMAIN Files(t)
      /\ \A j \in DOMAIN Files(t) : temp'[t][j] \in {temp[t][j], {}}
  BY <1>2, <1>3 DEF TaskInv, TaskTypes
<1>7. firstErr'[t] \in {"canceled", "error"} /\ firstErr'[t] # None
  <2>1. firstErr[t] = None
    BY <1>1, <1>2 DEF TaskInv, InPhase
  <2> QED BY <1>0, <1>2, <2>1 DEF SetError, NoneAssumption, Domains
<1>8. TaskTypes(t)'
  BY <1>1, <1>2, <1>3, <1>5, <1>6, <1>7 DEF TaskInv, TaskTypes, Gone, Phases
<1>9. InPhase(t)'
  BY <1>1, <1>2, <1>3, <1>5, <1>7 DEF TaskInv, InPhase
<1>10. Outcome(t)'
  BY <1>1, <1>2, <1>3, <1>5 DEF TaskInv, InPhase, Outcome, Tidy
<1>11. TaskInv(t)'
  BY <1>1, <1>3, <1>8, <1>9, <1>10, NotWorking DEF TaskInv
<1> QED BY <1>1, <1>3, <1>4, <1>7, <1>11, StillOwes, QuietTask

LEMMA SegmentsFinite ==
  ASSUME PlansAssumption, plan \in Plans, NEW t \in Tasks
  PROVE  IsFiniteSet(Segments(t))
<1>1. PICK l \in Nat : DOMAIN Files(t) = 1..l
  BY PlanFacts
<1>2. \A i \in DOMAIN Files(t) : Pieces(t, i) \in Nat
  BY PlanFacts
<1> DEFINE Of(i) == {[file |-> i, n |-> n] : n \in 1..Pieces(t, i)}
           All == {Of(i) : i \in DOMAIN Files(t)}
<1>3. ASSUME NEW i \in DOMAIN Files(t) PROVE IsFiniteSet(Of(i))
  <2> DEFINE f == [n \in 1..Pieces(t, i) |-> [file |-> i, n |-> n]]
  <2>1. IsFiniteSet(1..Pieces(t, i))
    BY <1>2, FS_Interval
  <2>2. f \in Surjection(1..Pieces(t, i), Of(i))
    BY DEF Surjection
  <2> HIDE DEF f, Of
  <2> QED BY <2>1, <2>2, FS_Surjection
<1>4. IsFiniteSet(All)
  <2> DEFINE f == [i \in DOMAIN Files(t) |-> Of(i)]
  <2>1. IsFiniteSet(DOMAIN Files(t))
    BY <1>1, FS_Interval
  <2> HIDE DEF Of
  <2>2. f \in Surjection(DOMAIN Files(t), All)
    BY DEF Surjection
  <2> HIDE DEF f, All
  <2> QED BY <2>1, <2>2, FS_Surjection
<1>5. \A p \in All : IsFiniteSet(p)
  BY <1>3
<1>6. IsFiniteSet(UNION All)
  <2> HIDE DEF All
  <2> QED BY <1>4, <1>5, FS_UNION
<1> QED BY <1>6 DEF Segments

\* If there is no segment, there is no piece to hand out.
LEMMA NoSegment ==
  ASSUME PlansAssumption, plan \in Plans, NEW t \in Tasks, Cardinality(Segments(t)) < 1
  PROVE  \A i \in DOMAIN Files(t) : Pieces(t, i) = 0
<1>1. Segments(t) = {}
  BY SegmentsFinite, FS_CardinalityType, FS_EmptySet
<1>2. ASSUME NEW i \in DOMAIN Files(t), Pieces(t, i) # 0 PROVE FALSE
  <2>1. Pieces(t, i) \in Nat
    BY PlanFacts
  <2>2. 1 \in 1..Pieces(t, i)
    BY <1>2, <2>1
  <2>3. [file |-> i, n |-> 1] \in Segments(t)
    BY <2>2 DEF Segments
  <2> QED BY <1>1, <2>3
<1> QED BY <1>2

LEMMA StartWorkersInv ==
  ASSUME PlansAssumption, IInv, NEW t \in Tasks, StartWorkers(t)
  PROVE  IInv'
<1>1. /\ plan' = plan /\ place' = place /\ before' = before /\ put' = put /\ removed' = removed
      /\ pc' = [pc EXCEPT ![t] = "work"] /\ canceled' = canceled /\ todo' = todo /\ pieces' = pieces
      /\ firstErr' = firstErr /\ status' = status /\ temp' = temp /\ alive' = alive
      /\ pc[t] = "prepare" /\ \A i \in DOMAIN Files(t) : ~Gone(t, i)
  BY DEF StartWorkers, GoTo, Gone
<1>2. Domains /\ TaskInv(t) /\ plan \in Plans
  BY DEF IInv, GlobalTypes
<1>3. /\ DOMAIN worker' = Tasks /\ DOMAIN pc' = Tasks /\ pc'[t] = "work"
      /\ worker'[t] = [c \in 1..plan[t].clients |-> IF c <= Cardinality(Segments(t)) THEN Idle ELSE Left]
      /\ \A s \in Tasks \ {t} : worker'[s] = worker[s] /\ pc'[s] = pc[s]
  BY <1>1, <1>2 DEF Domains, StartWorkers
<1>4. OnlyTask(t)
  BY <1>1, <1>2, <1>3, SamePlan DEF OnlyTask, Same, Domains
<1>5. Files(t)' = Files(t) /\ (Uploads(t)' <=> Uploads(t)) /\ \A j : Pieces(t, j)' = Pieces(t, j)
  BY <1>1, SamePlan
<1>6. /\ DOMAIN worker'[t] = 1..plan[t].clients
      /\ \A c \in 1..plan[t].clients : worker'[t][c].at \in {"idle", "left"}
  BY <1>3 DEF Idle, Left
<1>7. /\ put[t] = {} /\ firstErr[t] = None
      /\ \A i \in DOMAIN Files(t) :
           /\ Pieces(t, i) \in Nat /\ (Uploads(t) => Pieces(t, i) > 0)
           /\ todo[t][i] = Pieces(t, i) /\ pieces[t][i] = 0 /\ temp[t][i] = {}
  BY <1>1, <1>2, PlanFacts DEF TaskInv, InPhase
<1>8. TaskTypes(t)'
  BY <1>1, <1>2, <1>3, <1>5, <1>6 DEF TaskInv, TaskTypes, Gone, Phases
<1>9. InPhase(t)'
  BY <1>1, <1>2, <1>3, <1>5 DEF TaskInv, InPhase
<1>10. Outcome(t)'
  BY <1>1, <1>2, <1>3, <1>5, <1>7 DEF TaskInv, InPhase, Outcome, Tidy
<1>11. Counted(t)'
  BY <1>1, <1>5, <1>7, FS_EmptySet DEF Counted, Gone, HandedOut
<1>12. InHand(t)' /\ Committing(t)'
  BY <1>1, <1>6 DEF InHand, Committing, Commits
<1>13. NothingLost(t)'
  <2>1. ASSUME NEW i \in DOMAIN Files(t) PROVE 1..(Pieces(t, i) - todo[t][i]) = {}
    BY <1>7
  <2>2. ASSUME worker'[t][1].at = "left" PROVE \A i \in DOMAIN Files(t) : todo[t][i] = 0
    <3>1. 1 \in 1..plan[t].clients
      BY <1>2, PlanFacts
    <3>2. ~(1 <= Cardinality(Segments(t)))
      BY <1>3, <2>2, <3>1 DEF Idle
    <3>3. IsFiniteSet(Segments(t))
      BY <1>2, SegmentsFinite
    <3>4. Cardinality(Segments(t)) < 1
      BY <3>2, <3>3, FS_CardinalityType
    <3> QED BY <1>2, <1>7, <3>4, NoSegment
  <2> QED BY <1>1, <1>5, <2>1, <2>2 DEF NothingLost, HandedOut
<1>14. Committed(t)'
  BY <1>1, <1>5, <1>7 DEF Committed
<1>15. TaskInv(t)'
  BY <1>8, <1>9, <1>10, <1>11, <1>12, <1>13, <1>14 DEF TaskInv
<1>16. ASSUME NEW x \in Places, Owes(t, x) PROVE Owes(t, x)'
  BY <1>1, <1>2, <1>16 DEF Owes, TaskInv, InPhase
<1> QED BY <1>1, <1>4, <1>15, <1>16, QuietTask

\* When the workers have left and nothing has failed, everything was written.
LEMMA WorkEnds ==
  ASSUME PlansAssumption, IInv, NEW t \in Tasks, pc[t] = "work", firstErr[t] = None, ~canceled[t],
         \A c \in 1..plan[t].clients : worker[t][c].at = "left"
  PROVE  \A i \in DOMAIN Files(t) :
           /\ pieces[t][i] = Pieces(t, i)
           /\ Complete(t, i) \/ (Gone(t, i) /\ Uploads(t))
<1>1. TaskInv(t) /\ plan \in Plans
  BY DEF IInv, GlobalTypes
<1>2. 1 \in 1..plan[t].clients
  BY <1>1, PlanFacts
<1>3. ASSUME NEW i \in DOMAIN Files(t)
      PROVE  /\ pieces[t][i] = Pieces(t, i)
             /\ Complete(t, i) \/ (Gone(t, i) /\ Uploads(t))
  <2>1. todo[t][i] = 0
    BY <1>1, <1>2 DEF TaskInv, NothingLost, WorkDone, HandedOut
  <2>2. Pieces(t, i) \in Nat
    BY <1>1, PlanFacts
  <2>3. CASE Gone(t, i)
    BY <1>1, <2>3 DEF TaskInv, Counted
  <2>4. CASE ~Gone(t, i)
    <3>1. temp[t][i] \subseteq 1..Pieces(t, i)
      BY <1>1, <2>1, <2>2, <2>4 DEF TaskInv, TaskTypes
    <3>2. ASSUME NEW n \in 1..Pieces(t, i) PROVE n \in temp[t][i]
      <4>1. n \in 1..(Pieces(t, i) - todo[t][i])
        BY <2>1, <2>2
      <4>2. n \in temp[t][i] \/ \E c \in 1..plan[t].clients : HasPiece(t, c, i, n)
        BY <1>1, <2>4, <4>1 DEF TaskInv, NothingLost
      <4> QED BY <4>2 DEF HasPiece
    <3>3. temp[t][i] = 1..Pieces(t, i)
      BY <3>1, <3>2
    <3>4. Cardinality(temp[t][i]) = Pieces(t, i)
      BY <2>2, <3>3, FS_Interval
    <3> QED BY <1>1, <2>4, <3>3, <3>4 DEF TaskInv, Counted, Complete
  <2> QED BY <2>3, <2>4
<1> QED BY <1>3

LEMMA JoinInv ==
  ASSUME PlansAssumption, NoneAssumption, IInv, NEW t \in Tasks, Join(t)
  PROVE  IInv'
<1> DEFINE e == IF firstErr[t] = None /\ canceled[t] THEN "canceled" ELSE firstErr[t]
           p == IF e # None THEN FirstOfEnding(t) ELSE IF Uploads(t) THEN "finish" ELSE "publish"
<1>1. /\ plan' = plan /\ place' = place /\ before' = before /\ put' = put /\ removed' = removed
      /\ pc' = [pc EXCEPT ![t] = p] /\ firstErr' = [firstErr EXCEPT ![t] = e]
      /\ canceled' = canceled /\ todo' = todo /\ pieces' = pieces
      /\ status' = status /\ worker' = worker /\ alive' = alive /\ temp' = temp
      /\ pc[t] = "work" /\ \A c \in DOMAIN worker[t] : worker[t][c] = Left
  BY DEF Join, GoTo
<1> HIDE DEF p, e
<1>2. Domains /\ TaskInv(t)
  BY DEF IInv, GlobalTypes
<1>3. /\ DOMAIN firstErr' = Tasks /\ DOMAIN pc' = Tasks /\ pc'[t] = p /\ firstErr'[t] = e
      /\ \A s \in Tasks \ {t} : firstErr'[s] = firstErr[s] /\ pc'[s] = pc[s]
  BY <1>1, <1>2 DEF Domains
<1>4. OnlyTask(t)
  BY <1>1, <1>2, <1>3, SamePlan DEF OnlyTask, Same, Domains
<1>5. Files(t)' = Files(t) /\ (Uploads(t)' <=> Uploads(t)) /\ \A j : Pieces(t, j)' = Pieces(t, j)
  BY <1>1, SamePlan
<1>6. \A c \in 1..plan[t].clients : worker[t][c].at = "left"
  BY <1>1, <1>2 DEF TaskInv, TaskTypes, Left
<1>7. /\ e \in {None, "canceled", "error"}
      /\ e = None => firstErr[t] = None /\ ~canceled[t]
      /\ firstErr[t] # None => e # None
  BY <1>2 DEF TaskInv, TaskTypes, e, NoneAssumption
<1>8. /\ p = IF e # None THEN IF Uploads(t) THEN "clean" ELSE "finish"
             ELSE IF Uploads(t) THEN "finish" ELSE "publish"
      /\ status[t] = "active" /\ (~Uploads(t) => put[t] = {})
  BY <1>1, <1>2 DEF p, FirstOfEnding, TaskInv, InPhase, Outcome
<1>9. TaskTypes(t)'
  BY <1>1, <1>2, <1>3, <1>5, <1>7, <1>8 DEF TaskInv, TaskTypes, Gone, Phases
<1>10. InPhase(t)'
  BY <1>1, <1>3, <1>5, <1>6, <1>8 DEF InPhase
<1>11. Outcome(t)'
  <2>1. ASSUME e = None, NEW i \in DOMAIN Files(t)
        PROVE  IF Uploads(t) THEN i \in put[t] ELSE Complete(t, i)
    <3>1. /\ pieces[t][i] = Pieces(t, i)
          /\ Complete(t, i) \/ (Gone(t, i) /\ Uploads(t))
      BY <1>1, <1>6, <1>7, <2>1, WorkEnds
    <3>2. \A c \in 1..plan[t].clients : ~CommitsFile(t, c, i)
      BY <1>6 DEF CommitsFile, Commits
    <3>3. Uploads(t) => i \in put[t]
      BY <1>1, <1>2, <1>7, <2>1, <3>1, <3>2 DEF TaskInv, Committed
    <3> QED BY <3>1, <3>3
  <2> QED BY <1>1, <1>2, <1>3, <1>5, <1>8, <2>1 DEF TaskInv, Outcome, Tidy, Complete, Gone
<1>12. TaskInv(t)'
  BY <1>1, <1>3, <1>8, <1>9, <1>10, <1>11, NotWorking DEF TaskInv
<1>13. ASSUME NEW x \in Places, Owes(t, x) PROVE Owes(t, x)'
  BY <1>1, <1>3, <1>7, <1>13, StillOwes
<1> QED BY <1>1, <1>4, <1>12, <1>13, QuietTask

LEMMA FinishInv ==
  ASSUME PlansAssumption, IInv, NEW t \in Tasks, Finish(t)
  PROVE  IInv'
<1> DEFINE r == IF firstErr[t] = None THEN "success" ELSE IF firstErr[t] = "canceled" THEN "canceled" ELSE "failed"
<1>1. /\ plan' = plan /\ place' = place /\ before' = before /\ put' = put /\ removed' = removed
      /\ pc' = [pc EXCEPT ![t] = AfterFinish(t)] /\ status' = [status EXCEPT ![t] = r]
      /\ canceled' = canceled /\ todo' = todo /\ pieces' = pieces
      /\ firstErr' = firstErr /\ worker' = worker /\ alive' = alive /\ temp' = temp
      /\ pc[t] = "finish"
  BY DEF Finish, GoTo
<1>2. Domains /\ TaskInv(t)
  BY DEF IInv, GlobalTypes
<1>3. /\ DOMAIN status' = Tasks /\ DOMAIN pc' = Tasks /\ status'[t] = r
      /\ pc'[t] = IF Uploads(t) THEN "left" ELSE "clean"
      /\ \A s \in Tasks \ {t} : status'[s] = status[s] /\ pc'[s] = pc[s]
  BY <1>1, <1>2 DEF Domains, AfterFinish
<1>4. OnlyTask(t)
  BY <1>1, <1>2, <1>3, SamePlan DEF OnlyTask, Same, Domains
<1>5. Files(t)' = Files(t) /\ (Uploads(t)' <=> Uploads(t)) /\ \A j : Pieces(t, j)' = Pieces(t, j)
  BY <1>1, SamePlan
<1>6. TaskTypes(t)'
  BY <1>1, <1>2, <1>3, <1>5 DEF TaskInv, TaskTypes, Gone, Phases
<1>7. InPhase(t)'
  BY <1>1, <1>2, <1>3, <1>5 DEF TaskInv, InPhase
<1>8. Outcome(t)'
  BY <1>1, <1>2, <1>3, <1>5 DEF TaskInv, Outcome, Tidy, Gone
<1>9. TaskInv(t)'
  BY <1>1, <1>3, <1>6, <1>7, <1>8, NotWorking DEF TaskInv
<1>10. ASSUME NEW x \in Places, Owes(t, x) PROVE Owes(t, x)'
  BY <1>1, <1>10, StillOwes
<1> QED BY <1>1, <1>4, <1>9, <1>10, QuietTask

LEMMA CancelInv ==
  ASSUME PlansAssumption, IInv, NEW t \in Tasks, Cancel(t)
  PROVE  IInv'
<1>1. /\ plan' = plan /\ place' = place /\ before' = before /\ put' = put /\ removed' = removed
      /\ pc' = pc /\ status' = status /\ canceled' = [canceled EXCEPT ![t] = TRUE]
      /\ todo' = todo /\ pieces' = pieces
      /\ firstErr' = firstErr /\ worker' = worker /\ alive' = alive /\ temp' = temp
  BY DEF Cancel
<1>2. Domains /\ TaskInv(t)
  BY DEF IInv, GlobalTypes
<1>3. /\ DOMAIN canceled' = Tasks /\ canceled'[t] = TRUE
      /\ \A s \in Tasks \ {t} : canceled'[s] = canceled[s]
  BY <1>1, <1>2 DEF Domains
<1>4. OnlyTask(t)
  BY <1>1, <1>2, <1>3, SamePlan DEF OnlyTask, Same, Domains
<1>5. Files(t)' = Files(t) /\ (Uploads(t)' <=> Uploads(t)) /\ \A j : Pieces(t, j)' = Pieces(t, j)
  BY <1>1, SamePlan
<1>6. TaskTypes(t)'
  BY <1>1, <1>2, <1>3, <1>5 DEF TaskInv, TaskTypes, Gone
<1>7. InPhase(t)' /\ Outcome(t)' /\ Counted(t)' /\ InHand(t)'
  BY <1>1, <1>2, <1>5 DEF TaskInv, InPhase, Outcome, Counted, InHand, Gone, Complete, Tidy, HasPiece, HandedOut
<1>8. NothingLost(t)'
  BY <1>1, <1>2, <1>3, <1>5 DEF TaskInv, NothingLost, Gone, HasPiece, WorkDone, HandedOut
<1>9. Committing(t)' /\ Committed(t)'
  BY <1>1, <1>2, <1>5 DEF TaskInv, Committing, Committed, Gone, Complete, CommitsFile
<1>10. TaskInv(t)'
  BY <1>6, <1>7, <1>8, <1>9 DEF TaskInv
<1>11. ASSUME NEW x \in Places, Owes(t, x) PROVE Owes(t, x)'
  BY <1>1, <1>11, StillOwes
<1> QED BY <1>1, <1>4, <1>10, <1>11, QuietTask

LEMMA CleanInv ==
  ASSUME PlansAssumption, IInv, NEW t \in Tasks, Clean(t)
  PROVE  IInv'
<1>1. /\ plan' = plan /\ place' = place /\ before' = before /\ put' = put /\ removed' = removed
      /\ pc' = [pc EXCEPT ![t] = AfterClean(t)] /\ status' = status /\ canceled' = canceled
      /\ todo' = todo /\ pieces' = pieces /\ firstErr' = firstErr /\ worker' = worker
      /\ pc[t] = "clean"
  BY DEF Clean, GoTo
<1>2. Domains /\ TaskInv(t) /\ plan \in Plans
  BY DEF IInv, GlobalTypes
<1>3. PICK kept \in SUBSET DOMAIN Files(t) :
        \/ Uploads(t) /\ ~alive[t][1] /\ temp' = temp /\ alive' = alive
        \/ /\ temp' = [temp EXCEPT ![t] = [i \in DOMAIN Files(t) |-> IF i \in kept THEN temp[t][i] ELSE NoTemp]]
           /\ \/ kept = {} /\ alive' = alive
              \/ Uploads(t) /\ alive' = [alive EXCEPT ![t][1] = FALSE]
  BY DEF Clean
<1>4. /\ DOMAIN temp' = Tasks /\ DOMAIN alive' = Tasks /\ DOMAIN pc' = Tasks
      /\ pc'[t] = IF status[t] = "active" THEN "finish" ELSE "left"
      /\ \A s \in Tasks \ {t} : temp'[s] = temp[s] /\ alive'[s] = alive[s] /\ pc'[s] = pc[s]
  BY <1>1, <1>2, <1>3 DEF Domains, AfterClean
<1>5. OnlyTask(t)
  BY <1>1, <1>2, <1>4, SamePlan DEF OnlyTask, Same, Domains
<1>6. Files(t)' = Files(t) /\ (Uploads(t)' <=> Uploads(t)) /\ \A j : Pieces(t, j)' = Pieces(t, j)
  BY <1>1, SamePlan
<1>7. 1 \in 1..plan[t].clients
  BY <1>2, PlanFacts
<1>8. /\ DOMAIN temp'[t] = DOMAIN Files(t) /\ DOMAIN alive'[t] = 1..plan[t].clients
      /\ \A i \in DOMAIN Files(t) : temp'[t][i] \in {temp[t][i], NoTemp}
      /\ \A i \in DOMAIN Files(t) : temp'[t][i] = NoTemp \/ (Uploads(t) /\ ~alive'[t][1])
  <2>0. /\ t \in DOMAIN temp /\ t \in DOMAIN alive
        /\ DOMAIN temp[t] = DOMAIN Files(t) /\ DOMAIN alive[t] = 1..plan[t].clients
    BY <1>2 DEF Domains, TaskInv, TaskTypes
  <2>1. CASE Uploads(t) /\ ~alive[t][1] /\ temp' = temp /\ alive' = alive
    BY <2>0, <2>1
  <2>2. CASE temp' = [temp EXCEPT ![t] = [i \in DOMAIN Files(t) |-> IF i \in kept THEN temp[t][i] ELSE NoTemp]]
    <3>1. temp'[t] = [i \in DOMAIN Files(t) |-> IF i \in kept THEN temp[t][i] ELSE NoTemp]
      BY <2>0, <2>2
    <3>2. CASE kept = {} /\ alive' = alive
      BY <2>0, <3>1, <3>2
    <3>3. CASE Uploads(t) /\ alive' = [alive EXCEPT ![t][1] = FALSE]
      <4>1. DOMAIN alive'[t] = 1..plan[t].clients /\ alive'[t][1] = FALSE
        BY <1>7, <2>0, <3>3
      <4> QED BY <3>1, <3>3, <4>1
    <3>4. CASE Uploads(t) /\ ~alive[t][1] /\ temp' = temp /\ alive' = alive
      BY <2>0, <3>4
    <3> QED BY <1>3, <3>2, <3>3, <3>4
  <2> QED BY <1>3, <2>1, <2>2
<1>9. TaskTypes(t)'
  <2>1. \A i \in DOMAIN Files(t) :
          /\ todo[t][i] \in 0..Pieces(t, i) /\ pieces[t][i] \in 0..Pieces(t, i)
          /\ temp'[t][i] = NoTemp \/ temp'[t][i] \subseteq 1..(Pieces(t, i) - todo[t][i])
    BY <1>2, <1>8 DEF TaskInv, TaskTypes, Gone
  <2> QED BY <1>1, <1>2, <1>4, <1>6, <1>8, <2>1 DEF TaskInv, TaskTypes, Gone, Phases
<1>10. InPhase(t)'
  BY <1>1, <1>2, <1>4, <1>6 DEF TaskInv, InPhase
<1>11. Outcome(t)'
  <2>1. \A i \in put[t] : temp'[t][i] = NoTemp
    BY <1>2, <1>8 DEF TaskInv, Outcome, TaskTypes, Gone
  <2>2. pc'[t] = "finish" => firstErr[t] # None
    BY <1>1, <1>2, <1>4 DEF TaskInv, InPhase
  <2>3. pc'[t] = "left" => ~Uploads(t)
    BY <1>1, <1>2, <1>4 DEF TaskInv, InPhase
  <2> QED BY <1>1, <1>2, <1>4, <1>6, <1>8, <2>1, <2>2, <2>3 DEF TaskInv, Outcome, Tidy, Gone
<1>12. TaskInv(t)'
  BY <1>1, <1>4, <1>9, <1>10, <1>11, NotWorking DEF TaskInv
<1>13. ASSUME NEW x \in Places, Owes(t, x) PROVE Owes(t, x)'
  BY <1>1, <1>4, <1>13, StillOwes
<1> QED BY <1>1, <1>5, <1>12, <1>13, QuietTask

LEMMA BreakInv ==
  ASSUME PlansAssumption, IInv, NEW t \in Tasks, NEW c \in DOMAIN worker[t], Break(t, c)
  PROVE  IInv'
<1>1. /\ plan' = plan /\ place' = place /\ before' = before /\ put' = put /\ removed' = removed
      /\ pc' = pc /\ status' = status /\ canceled' = canceled /\ todo' = todo /\ pieces' = pieces
      /\ firstErr' = firstErr /\ worker' = worker /\ temp' = temp
      /\ alive' = [alive EXCEPT ![t][c] = FALSE]
  BY DEF Break
<1>2. Domains /\ TaskInv(t)
  BY DEF IInv, GlobalTypes
<1>3. /\ DOMAIN alive' = Tasks /\ DOMAIN alive'[t] = 1..plan[t].clients
      /\ \A d \in 1..plan[t].clients : ~alive[t][d] => ~alive'[t][d]
      /\ \A s \in Tasks \ {t} : alive'[s] = alive[s]
  BY <1>1, <1>2 DEF Domains, TaskInv, TaskTypes
<1>4. OnlyTask(t)
  BY <1>1, <1>2, <1>3, SamePlan DEF OnlyTask, Same, Domains
<1>5. Files(t)' = Files(t) /\ (Uploads(t)' <=> Uploads(t)) /\ \A j : Pieces(t, j)' = Pieces(t, j)
  BY <1>1, SamePlan
<1>6. ~alive[t][1] => ~alive'[t][1]
  BY <1>1, <1>2 DEF Domains
<1>7. TaskTypes(t)'
  BY <1>1, <1>2, <1>3, <1>5 DEF TaskInv, TaskTypes, Gone
<1>8. InPhase(t)' /\ Counted(t)' /\ InHand(t)'
  BY <1>1, <1>2, <1>5 DEF TaskInv, InPhase, Counted, InHand, Gone, HasPiece, HandedOut
<1>9. Outcome(t)'
  BY <1>1, <1>2, <1>5, <1>6 DEF TaskInv, Outcome, Gone, Complete, Tidy
<1>10. NothingLost(t)' /\ Committed(t)'
  BY <1>1, <1>2, <1>5 DEF TaskInv, NothingLost, Committed, Gone, HasPiece, CommitsFile, WorkDone, HandedOut
<1>11. Committing(t)'
  BY <1>1, <1>2, <1>3, <1>5 DEF TaskInv, Committing, Gone, Complete, CommitsFile
<1>12. TaskInv(t)'
  BY <1>7, <1>8, <1>9, <1>10, <1>11 DEF TaskInv
<1>13. ASSUME NEW x \in Places, Owes(t, x) PROVE Owes(t, x)'
  BY <1>1, <1>13, StillOwes
<1> QED BY <1>1, <1>4, <1>12, <1>13, QuietTask

LEMMA PublishEndsInv ==
  ASSUME PlansAssumption, IInv, NEW t \in Tasks, PublishEnds(t)
  PROVE  IInv'
<1>1. /\ plan' = plan /\ place' = place /\ before' = before /\ put' = put /\ removed' = removed
      /\ pc' = [pc EXCEPT ![t] = "finish"] /\ status' = status /\ canceled' = canceled
      /\ todo' = todo /\ pieces' = pieces
      /\ firstErr' = firstErr /\ worker' = worker /\ alive' = alive /\ temp' = temp
      /\ pc[t] = "publish" /\ \A i \in DOMAIN Files(t) : Gone(t, i)
  BY DEF PublishEnds, GoTo, Gone
<1>2. Domains /\ TaskInv(t) /\ plan \in Plans
  BY DEF IInv, GlobalTypes
<1>3. /\ DOMAIN pc' = Tasks /\ pc'[t] = "finish" /\ \A s \in Tasks \ {t} : pc'[s] = pc[s]
  BY <1>1, <1>2 DEF Domains
<1>4. OnlyTask(t)
  BY <1>1, <1>2, <1>3, SamePlan DEF OnlyTask, Same, Domains
<1>5. Files(t)' = Files(t) /\ (Uploads(t)' <=> Uploads(t)) /\ \A j : Pieces(t, j)' = Pieces(t, j)
  BY <1>1, SamePlan
<1>6. TaskTypes(t)'
  BY <1>1, <1>2, <1>3, <1>5 DEF TaskInv, TaskTypes, Gone, Phases
<1>7. InPhase(t)'
  BY <1>1, <1>2, <1>3, <1>5 DEF TaskInv, InPhase
<1>8. \A i \in DOMAIN Files(t) : i \in put[t]
  <2>1. ASSUME NEW i \in DOMAIN Files(t) PROVE ~Complete(t, i)
    <3>1. 0 \notin 1..Pieces(t, i)
      BY <1>2, PlanFacts
    <3> QED BY <1>1, <3>1 DEF Gone, NoTemp, Complete
  <2> QED BY <1>1, <1>2, <2>1 DEF TaskInv, Outcome
<1>9. Outcome(t)'
  BY <1>1, <1>2, <1>3, <1>5, <1>8 DEF TaskInv, InPhase, Outcome, Tidy, Gone
<1>10. TaskInv(t)'
  BY <1>1, <1>3, <1>6, <1>7, <1>9, NotWorking DEF TaskInv
<1>11. ASSUME NEW x \in Places, Owes(t, x) PROVE Owes(t, x)'
  BY <1>1, <1>3, <1>11, StillOwes
<1> QED BY <1>1, <1>4, <1>10, <1>11, QuietTask

LEMMA PublishFailsInv ==
  ASSUME PlansAssumption, NoneAssumption, IInv, NEW t \in Tasks, PublishFails(t)
  PROVE  IInv'
<1>1. /\ plan' = plan /\ place' = place /\ before' = before /\ put' = put /\ removed' = removed
      /\ pc' = [pc EXCEPT ![t] = "finish"] /\ status' = status /\ canceled' = canceled
      /\ todo' = todo /\ pieces' = pieces
      /\ SetError(t, "error") /\ worker' = worker /\ alive' = alive /\ temp' = temp
      /\ pc[t] = "publish"
  BY DEF PublishFails, GoTo, NextToPublish
<1>2. Domains /\ TaskInv(t) /\ firstErr[t] = None /\ ~Uploads(t)
  BY <1>1 DEF IInv, GlobalTypes, TaskInv, InPhase
<1>3. /\ DOMAIN pc' = Tasks /\ DOMAIN firstErr' = Tasks /\ pc'[t] = "finish" /\ firstErr'[t] = "error"
      /\ \A s \in Tasks \ {t} : pc'[s] = pc[s] /\ firstErr'[s] = firstErr[s]
  BY <1>1, <1>2 DEF Domains, SetError
<1>4. OnlyTask(t)
  BY <1>1, <1>2, <1>3, SamePlan DEF OnlyTask, Same, Domains
<1>5. Files(t)' = Files(t) /\ (Uploads(t)' <=> Uploads(t)) /\ \A j : Pieces(t, j)' = Pieces(t, j)
  BY <1>1, SamePlan
<1>6. "error" # None /\ "error" # "canceled"
  BY DEF NoneAssumption
<1>7. TaskTypes(t)'
  BY <1>1, <1>2, <1>3, <1>5 DEF TaskInv, TaskTypes, Gone, Phases
<1>8. InPhase(t)'
  BY <1>1, <1>2, <1>3, <1>5 DEF TaskInv, InPhase
<1>9. Outcome(t)'
  BY <1>1, <1>2, <1>3, <1>5, <1>6 DEF TaskInv, InPhase, Outcome, Tidy, Gone
<1>10. TaskInv(t)'
  BY <1>1, <1>3, <1>7, <1>8, <1>9, NotWorking DEF TaskInv
<1>11. ASSUME NEW x \in Places, Owes(t, x) PROVE Owes(t, x)'
  BY <1>1, <1>3, <1>6, <1>11, StillOwes
<1> QED BY <1>1, <1>4, <1>10, <1>11, QuietTask

-----------------------------------------------------------------------------
(* What is put at a place, and removed. *)

\* A complete file is put at its place.
LEMMA PutPlaces ==
  ASSUME PlansAssumption, IInv, NEW t \in Tasks, NEW i \in DOMAIN Files(t), Complete(t, i), Moves(t, i),
         plan' = plan, before' = before, removed' = removed,
         \A s \in Tasks, x \in Places : x # Files(t)[i].place /\ Owes(s, x) => Owes(s, x)'
  PROVE  PlacesInv' /\ place' \in [Places -> Contents]
<1> DEFINE p == Files(t)[i].place
<1>1. /\ Tasks' = Tasks
      /\ \A s : Files(s)' = Files(s)
  BY SamePlan
<1>2. /\ Domains /\ PlacesInv /\ TaskInv(t) /\ plan \in Plans
      /\ place \in [Places -> Contents]
  BY DEF IInv, GlobalTypes
<1>3. p \in Places /\ \A j \in DOMAIN Files(t) : Files(t)[j].place = p => j = i
  BY <1>2, PlanFacts
<1> HIDE DEF p
<1>4. Content(t, i) = Whole(t, i)
  BY DEF Content, Complete
<1>5. /\ place' = [place EXCEPT ![p] = Whole(t, i)]
      /\ put' = [put EXCEPT ![t] = @ \cup {i}]
  BY <1>4 DEF Moves, p
<1>6. Whole(t, i) \in Contents /\ Whole(t, i) # Mixture /\ Whole(t, i) # Nothing
  BY Different DEF Contents
<1>7. place' \in [Places -> Contents] /\ place'[p] = Whole(t, i) /\ \A x \in Places \ {p} : place'[x] = place[x]
  BY <1>2, <1>3, <1>5, <1>6
<1>8. put'[t] = put[t] \cup {i} /\ \A s \in Tasks \ {t} : put'[s] = put[s]
  BY <1>2, <1>5 DEF Domains
<1>9. ASSUME NEW x \in Places
      PROVE  /\ place'[x] # Mixture
             /\ place'[x] = Nothing /\ before'[x] = Old => \E s \in Tasks : x \in removed'[s] /\ Owes(s, x)'
  <2>1. CASE x = p
    BY <1>6, <1>7, <2>1
  <2>2. CASE x # p
    BY <1>2, <1>7, <2>2 DEF PlacesInv, p
  <2> QED BY <2>1, <2>2
<1>10. ASSUME NEW s, NEW x PROVE Shared(s, x)' <=> Shared(s, x)
  BY <1>1 DEF Shared
<1>11. ASSUME NEW s \in Tasks, NEW j \in put'[s]
       PROVE  place'[Files(s)[j].place] = Whole(s, j) \/ Shared(s, Files(s)[j].place)
  <2> DEFINE x == Files(s)[j].place
  <2>0. j \in DOMAIN Files(s)
    BY <1>2, <1>8 DEF IInv, TaskInv, TaskTypes
  <2>1. x \in Places
    BY <1>2, <2>0, PlanFacts
  <2>2. CASE x = p /\ s = t
    BY <1>3, <1>7, <2>0, <2>2
  <2>3. CASE x = p /\ s # t
    BY <2>3 DEF Shared, p
  <2>4. CASE x # p
    <3>1. j \in put[s]
      BY <1>8, <2>4 DEF p
    <3> QED BY <1>2, <1>7, <2>1, <2>4, <3>1 DEF PlacesInv
  <2> QED BY <2>2, <2>3, <2>4
<1>12. PlacesInv'
  BY <1>1, <1>9, <1>10, <1>11 DEF PlacesInv, Whole, Mixture, Nothing, Old
<1> QED BY <1>7, <1>12

\* What is at the place of a file that has not been put there is removed.
LEMMA RemovedPlaces ==
  ASSUME PlansAssumption, IInv, NEW t \in Tasks, NEW i \in DOMAIN Files(t), i \notin put[t], Removes(t, i),
         NEW p, p = Files(t)[i].place, plan' = plan, before' = before, Owes(t, p)',
         \A s \in Tasks, x \in Places : Owes(s, x) => Owes(s, x)'
  PROVE  PlacesInv' /\ place' \in [Places -> Contents]
<1>1. /\ Tasks' = Tasks
      /\ \A s : Files(s)' = Files(s)
  BY SamePlan
<1>2. /\ Domains /\ PlacesInv /\ TaskInv(t) /\ plan \in Plans
      /\ place \in [Places -> Contents]
  BY DEF IInv, GlobalTypes
<1>3. p \in Places /\ \A j \in DOMAIN Files(t) : Files(t)[j].place = p => j = i
  BY <1>2, PlanFacts
<1>4. /\ place' = [place EXCEPT ![p] = Nothing] /\ put' = put
      /\ removed' = [removed EXCEPT ![t] = @ \cup {p}]
  BY DEF Removes
<1>5. place' \in [Places -> Contents] /\ place'[p] = Nothing /\ \A x \in Places \ {p} : place'[x] = place[x]
  BY <1>2, <1>3, <1>4 DEF Contents
<1>6. p \in removed'[t] /\ \A s \in Tasks : removed[s] \subseteq removed'[s]
  BY <1>2, <1>4 DEF Domains
<1>7. ASSUME NEW x \in Places
      PROVE  /\ place'[x] # Mixture
             /\ place'[x] = Nothing /\ before'[x] = Old => \E s \in Tasks : x \in removed'[s] /\ Owes(s, x)'
  <2>1. CASE x = p
    BY <1>5, <1>6, <2>1, Different
  <2>2. CASE x # p
    <3>1. place'[x] = place[x] /\ place[x] # Mixture
      BY <1>2, <1>5, <2>2 DEF PlacesInv
    <3>2. ASSUME place[x] = Nothing, before[x] = Old
          PROVE  \E s \in Tasks : x \in removed'[s] /\ Owes(s, x)'
      <4>1. PICK s \in Tasks : x \in removed[s] /\ Owes(s, x)
        BY <1>2, <3>2 DEF PlacesInv
      <4> QED BY <1>6, <4>1
    <3> QED BY <3>1, <3>2
  <2> QED BY <2>1, <2>2
<1>8. ASSUME NEW s, NEW x PROVE Shared(s, x)' <=> Shared(s, x)
  BY <1>1 DEF Shared
<1>9. ASSUME NEW s \in Tasks, NEW j \in put'[s]
       PROVE  place'[Files(s)[j].place] = Whole(s, j) \/ Shared(s, Files(s)[j].place)
  <2> DEFINE x == Files(s)[j].place
  <2>0. j \in DOMAIN Files(s) /\ j \in put[s]
    BY <1>2, <1>4 DEF IInv, TaskInv, TaskTypes
  <2>1. x \in Places
    BY <1>2, <2>0, PlanFacts
  <2>2. CASE x = p /\ s = t
    BY <1>3, <2>0, <2>2
  <2>3. CASE x = p /\ s # t
    BY <2>3 DEF Shared
  <2>4. CASE x # p
    BY <1>2, <1>5, <2>0, <2>1, <2>4 DEF PlacesInv
  <2> QED BY <2>2, <2>3, <2>4
<1>10. PlacesInv'
  BY <1>1, <1>7, <1>8, <1>9 DEF PlacesInv, Whole, Mixture, Nothing, Old
<1> QED BY <1>5, <1>10

LEMMA PublishInv ==
  ASSUME PlansAssumption, NoneAssumption, IInv, NEW t \in Tasks, Publish(t)
  PROVE  IInv'
<1>0. PICK i \in DOMAIN Files(t) : NextToPublish(t, i) /\ Moves(t, i)
  BY DEF Publish
<1>1. /\ plan' = plan /\ before' = before /\ removed' = removed
      /\ pc' = pc /\ status' = status /\ canceled' = canceled
      /\ todo' = todo /\ pieces' = pieces /\ firstErr' = firstErr /\ worker' = worker /\ alive' = alive
      /\ pc[t] = "publish" /\ ~Gone(t, i)
  BY <1>0 DEF Publish, NextToPublish, Gone
<1>2. Domains /\ TaskInv(t) /\ Complete(t, i)
  BY <1>1 DEF IInv, GlobalTypes, TaskInv, Outcome
<1>3. /\ temp' = [temp EXCEPT ![t][i] = NoTemp] /\ put' = [put EXCEPT ![t] = @ \cup {i}]
  BY <1>0, <1>2 DEF Moves, Content, Complete
<1>4. /\ DOMAIN temp' = Tasks /\ DOMAIN put' = Tasks
      /\ put'[t] = put[t] \cup {i}
      /\ DOMAIN temp'[t] = DOMAIN Files(t)
      /\ \A j \in DOMAIN Files(t) : temp'[t][j] = IF j = i THEN NoTemp ELSE temp[t][j]
      /\ \A s \in Tasks \ {t} : temp'[s] = temp[s] /\ put'[s] = put[s]
  BY <1>2, <1>3 DEF Domains, TaskInv, TaskTypes
<1>5. OnlyTask(t)
  BY <1>1, <1>2, <1>4, SamePlan DEF OnlyTask, Same, Domains
<1>6. Files(t)' = Files(t) /\ (Uploads(t)' <=> Uploads(t)) /\ \A j : Pieces(t, j)' = Pieces(t, j)
  BY <1>1, SamePlan
<1>7. TaskTypes(t)'
  BY <1>1, <1>2, <1>4, <1>6 DEF TaskInv, TaskTypes, Gone
<1>8. InPhase(t)'
  BY <1>1, <1>2, <1>6 DEF TaskInv, InPhase
<1>9. Outcome(t)'
  <2>1. status[t] = "active" /\ firstErr[t] = None /\ ~Uploads(t)
    BY <1>1, <1>2 DEF TaskInv, InPhase
  <2>2. firstErr[t] = "canceled" => put'[t] = {}
    BY <2>1 DEF NoneAssumption
  <2>3. \A j \in put'[t] : temp'[t][j] = NoTemp
    BY <1>2, <1>4 DEF TaskInv, TaskTypes, Outcome, Gone
  <2>4. \A j \in DOMAIN Files(t) : temp'[t][j] = 1..Pieces(t, j) \/ (temp'[t][j] = NoTemp /\ j \in put'[t])
    BY <1>1, <1>2, <1>4 DEF TaskInv, Outcome, Gone, Complete
  <2> QED BY <1>1, <1>2, <1>6, <2>1, <2>2, <2>3, <2>4 DEF TaskInv, Outcome, Tidy, Gone, Complete
<1>10. TaskInv(t)'
  BY <1>1, <1>7, <1>8, <1>9, NotWorking DEF TaskInv
<1>11. PlacesInv' /\ place' \in [Places -> Contents]
  <2>1. \A s \in Tasks, x \in Places : Owes(s, x) => Owes(s, x)'
    BY <1>1, StillOwes
  <2> QED BY <1>0, <1>1, <1>2, <2>1, PutPlaces
<1> QED BY <1>1, <1>5, <1>10, <1>11, OneTask

LEMMA QuitInv ==
  ASSUME PlansAssumption, IInv, Quit
  PROVE  IInv'
<1>1. /\ plan' = plan /\ place' = place /\ before' = before /\ put' = put /\ removed' = removed
      /\ pc' = [t \in Tasks |-> IF Active(t) THEN "quit" ELSE pc[t]]
      /\ worker' = [t \in Tasks |-> [c \in DOMAIN worker[t] |-> Left]]
      /\ canceled' = canceled /\ todo' = todo /\ pieces' = pieces /\ firstErr' = firstErr
      /\ status' = status /\ alive' = alive /\ temp' = temp
  BY DEF Quit
<1>2. GlobalTypes
  BY DEF IInv
<1>3. Tasks' = Tasks /\ Contents' = Contents
  BY <1>1, SamePlan DEF Contents, Whole, Nothing, Old, Mixture
<1>4. GlobalTypes'
  BY <1>1, <1>2, <1>3 DEF GlobalTypes, Domains, Nothing, Old
<1>5. ASSUME NEW t \in Tasks
      PROVE  /\ pc'[t] = IF pc[t] \in {"left", "quit"} THEN pc[t] ELSE "quit"
             /\ DOMAIN worker'[t] = 1..plan[t].clients
             /\ \A c \in 1..plan[t].clients : worker'[t][c].at = "left"
  BY <1>1 DEF Active, IInv, TaskInv, TaskTypes, Left
<1>6. ASSUME NEW t \in Tasks, NEW x \in Places, Owes(t, x) PROVE Owes(t, x)'
  <2>1. CASE firstErr[t] # None
    BY <1>1, <2>1 DEF Owes
  <2>2. CASE pc[t] = "quit"
    BY <1>5, <2>2 DEF Owes
  <2>3. CASE \E c \in 1..plan[t].clients : worker[t][c].at = "rename"
    <3>1. pc[t] = "work"
      BY <2>3 DEF IInv, TaskInv, InPhase
    <3> QED BY <1>5, <3>1 DEF Owes
  <2> QED BY <1>6, <2>1, <2>2, <2>3 DEF Owes
<1>7. PlacesInv'
  BY <1>1, <1>6, QuietPlaces DEF IInv
<1>8. ASSUME NEW t \in Tasks PROVE TaskInv(t)'
  <2>0. TaskInv(t)
    BY DEF IInv
  <2>1. Files(t)' = Files(t) /\ (Uploads(t)' <=> Uploads(t)) /\ \A j : Pieces(t, j)' = Pieces(t, j)
    BY <1>1, SamePlan
  <2>2. TaskTypes(t)'
    BY <1>1, <1>5, <2>0, <2>1 DEF TaskInv, TaskTypes, Gone, Phases
  <2>3. InPhase(t)'
    BY <1>1, <1>5, <2>0, <2>1 DEF TaskInv, InPhase, TaskTypes, Phases
  <2>4. Outcome(t)'
    BY <1>1, <1>5, <2>0, <2>1 DEF TaskInv, Outcome, Tidy, Gone
  <2> QED BY <1>1, <1>5, <2>2, <2>3, <2>4, NotWorking DEF TaskInv
<1> QED BY <1>3, <1>4, <1>7, <1>8 DEF IInv

-----------------------------------------------------------------------------
(* The workers. *)

\* A step of a worker, after which it is in a given state.
WorkerStepTo(t, c, s) ==
  /\ plan' = plan /\ before' = before /\ pc' = pc /\ canceled' = canceled /\ status' = status
  /\ worker' = [worker EXCEPT ![t][c] = s]

LEMMA WorkerFacts ==
  ASSUME PlansAssumption, IInv, NEW t \in Tasks, NEW c \in DOMAIN worker[t], NEW s, WorkerStepTo(t, c, s)
  PROVE  /\ c \in 1..plan[t].clients /\ 1 \in 1..plan[t].clients
         /\ DOMAIN worker' = Tasks /\ DOMAIN worker'[t] = 1..plan[t].clients
         /\ worker'[t][c] = s
         /\ \A d \in 1..plan[t].clients : d # c => worker'[t][d] = worker[t][d]
         /\ \A r \in Tasks \ {t} : worker'[r] = worker[r]
         /\ Files(t)' = Files(t) /\ (Uploads(t)' <=> Uploads(t)) /\ \A j : Pieces(t, j)' = Pieces(t, j)
<1>1. Domains /\ DOMAIN worker[t] = 1..plan[t].clients
  BY DEF IInv, GlobalTypes, TaskInv, TaskTypes
<1>2. 1 \in 1..plan[t].clients
  BY PlanFacts DEF IInv, GlobalTypes
<1>3. plan' = plan /\ worker' = [worker EXCEPT ![t][c] = s]
  BY DEF WorkerStepTo
<1>4. /\ DOMAIN worker' = Tasks /\ DOMAIN worker'[t] = 1..plan[t].clients
      /\ worker'[t][c] = s
      /\ \A d \in 1..plan[t].clients : d # c => worker'[t][d] = worker[t][d]
      /\ \A r \in Tasks \ {t} : worker'[r] = worker[r]
  BY <1>1, <1>3 DEF Domains
<1> QED BY <1>1, <1>2, <1>3, <1>4, SamePlan

\* A worker is at work only while its task is.
LEMMA AtWork ==
  ASSUME IInv, NEW t \in Tasks, NEW c \in DOMAIN worker[t], worker[t][c].at # "left"
  PROVE  pc[t] = "work" /\ status[t] = "active"
BY DEF IInv, TaskInv, TaskTypes, InPhase

\* It fails, and has at most lowered what is left to hand out.
LEMMA FailedTask ==
  ASSUME PlansAssumption, IInv, NEW t \in Tasks, NEW c \in DOMAIN worker[t], WorkerStepTo(t, c, Left),
         worker[t][c].at # "left",
         firstErr'[t] \in {"canceled", "error"}, firstErr'[t] # None,
         temp'[t] = temp[t], pieces'[t] = pieces[t], put'[t] = put[t],
         removed'[t] \subseteq Places, ~Uploads(t) => removed'[t] = {},
         DOMAIN alive'[t] = 1..plan[t].clients,
         \A d \in 1..plan[t].clients : ~alive[t][d] => ~alive'[t][d],
         DOMAIN todo'[t] = DOMAIN Files(t),
         \A i \in DOMAIN Files(t) : todo'[t][i] \in 0..todo[t][i]
  PROVE  TaskInv(t)'
<1>1. /\ TaskInv(t) /\ plan \in Plans /\ pc[t] = "work" /\ status[t] = "active"
      /\ pc'[t] = "work" /\ status'[t] = "active" /\ canceled'[t] = canceled[t]
      /\ plan' = plan
  BY AtWork DEF IInv, GlobalTypes, WorkerStepTo
<1>2. /\ c \in 1..plan[t].clients
      /\ DOMAIN worker'[t] = 1..plan[t].clients
      /\ worker'[t][c].at = "left"
      /\ \A d \in 1..plan[t].clients : d # c => worker'[t][d] = worker[t][d]
      /\ Files(t)' = Files(t) /\ (Uploads(t)' <=> Uploads(t)) /\ \A j : Pieces(t, j)' = Pieces(t, j)
  BY WorkerFacts DEF Left
<1>3. \A i \in DOMAIN Files(t) :
        /\ Pieces(t, i) \in Nat /\ todo[t][i] \in 0..Pieces(t, i)
        /\ todo'[t][i] \in 0..Pieces(t, i) /\ todo'[t][i] <= todo[t][i]
        /\ 1..(Pieces(t, i) - todo[t][i]) \subseteq 1..(Pieces(t, i) - todo'[t][i])
        /\ todo[t][i] = 0 => todo'[t][i] = 0
  <2>1. \A i \in DOMAIN Files(t) : Pieces(t, i) \in Nat /\ todo[t][i] \in 0..Pieces(t, i)
    BY <1>1, PlanFacts DEF TaskInv, TaskTypes
  <2> QED BY <2>1
<1>4. TaskTypes(t)'
  <2>1. \A i \in DOMAIN Files(t) :
          /\ todo'[t][i] \in 0..Pieces(t, i) /\ pieces[t][i] \in 0..Pieces(t, i)
          /\ temp[t][i] = NoTemp \/ temp[t][i] \subseteq 1..(Pieces(t, i) - todo'[t][i])
    BY <1>1, <1>3 DEF TaskInv, TaskTypes, Gone
  <2>2. \A d \in 1..plan[t].clients : worker'[t][d].at \in {"idle", "left", "piece"} \cup Commits
    BY <1>1, <1>2 DEF TaskInv, TaskTypes
  <2> QED BY <1>1, <1>2, <2>1, <2>2 DEF TaskInv, TaskTypes, Gone, Phases
<1>5. InPhase(t)'
  BY <1>1, <1>2 DEF InPhase
<1>6. Outcome(t)'
  BY <1>1, <1>2 DEF TaskInv, Outcome, Tidy, Gone
<1>7. Counted(t)'
  BY <1>1, <1>2, <1>3 DEF TaskInv, Counted, Gone, HandedOut
<1>8. InHand(t)'
  <2>1. ASSUME NEW d \in 1..plan[t].clients, worker'[t][d].at = "piece"
        PROVE  /\ worker'[t][d].file \in DOMAIN Files(t)
               /\ worker'[t][d].n \in 1..(Pieces(t, worker'[t][d].file) - todo'[t][worker'[t][d].file])
               /\ temp[t][worker'[t][d].file] # NoTemp /\ worker'[t][d].n \notin temp[t][worker'[t][d].file]
               /\ \A b \in 1..plan[t].clients :
                    worker'[t][b].at = "piece" /\ worker'[t][b].file = worker'[t][d].file
                      /\ worker'[t][b].n = worker'[t][d].n => b = d
    <3>1. d # c /\ worker'[t][d] = worker[t][d]
      BY <1>2, <2>1
    <3>2. /\ worker[t][d].file \in DOMAIN Files(t)
          /\ worker[t][d].n \in 1..(Pieces(t, worker[t][d].file) - todo[t][worker[t][d].file])
          /\ temp[t][worker[t][d].file] # NoTemp /\ worker[t][d].n \notin temp[t][worker[t][d].file]
          /\ \A b \in 1..plan[t].clients : HasPiece(t, b, worker[t][d].file, worker[t][d].n) => b = d
      BY <1>1, <2>1, <3>1 DEF TaskInv, InHand, Gone
    <3> QED BY <1>2, <1>3, <3>1, <3>2 DEF HasPiece
  <2> QED BY <1>1, <1>2, <2>1 DEF InHand, Gone, HasPiece
<1>9. NothingLost(t)' /\ Committed(t)'
  BY <1>1, <1>2 DEF NothingLost, Committed, WorkDone
<1>10. Committing(t)'
  <2>1. ASSUME NEW d \in 1..plan[t].clients, worker'[t][d].at \in Commits
        PROVE  d # c /\ worker'[t][d] = worker[t][d]
    BY <1>2, <2>1 DEF Commits
  <2> QED BY <1>1, <1>2, <2>1 DEF TaskInv, Committing, CommitsFile, Complete, Gone
<1> QED BY <1>4, <1>5, <1>6, <1>7, <1>8, <1>9, <1>10 DEF TaskInv

\* What a worker that fails leaves as it was.
LEMMA WorkerFailsInv ==
  ASSUME PlansAssumption, NoneAssumption, IInv, NEW t \in Tasks, NEW c \in DOMAIN worker[t],
         WorkerStepTo(t, c, Left), worker[t][c].at # "left",
         \E e \in {"canceled", "error"} : SetError(t, e),
         place' = place, temp' = temp, pieces' = pieces, put' = put, removed' = removed, alive' = alive,
         \/ todo' = todo
         \/ \E i \in DOMAIN Files(t) : todo[t][i] > 0 /\ todo' = [todo EXCEPT ![t][i] = @ - 1]
  PROVE  IInv'
<1>1. Domains /\ TaskInv(t) /\ plan \in Plans
  BY DEF IInv, GlobalTypes
<1>2. /\ DOMAIN worker' = Tasks /\ \A r \in Tasks \ {t} : worker'[r] = worker[r]
      /\ worker'[t][c] = Left /\ c \in 1..plan[t].clients
      /\ \A d \in 1..plan[t].clients : d # c => worker'[t][d] = worker[t][d]
      /\ Files(t)' = Files(t)
  BY WorkerFacts
<1>3. /\ DOMAIN firstErr' = Tasks /\ \A r \in Tasks \ {t} : firstErr'[r] = firstErr[r]
      /\ firstErr'[t] \in {"canceled", "error"} /\ firstErr'[t] # None
  BY <1>1 DEF SetError, Domains, TaskInv, TaskTypes, NoneAssumption
<1>4. /\ DOMAIN todo' = Tasks /\ \A r \in Tasks \ {t} : todo'[r] = todo[r]
      /\ DOMAIN todo'[t] = DOMAIN Files(t)
      /\ \A i \in DOMAIN Files(t) : todo'[t][i] \in 0..todo[t][i]
  <2>1. DOMAIN todo[t] = DOMAIN Files(t) /\ \A i \in DOMAIN Files(t) : todo[t][i] \in Nat
    <3>1. \A i \in DOMAIN Files(t) : Pieces(t, i) \in Nat /\ todo[t][i] \in 0..Pieces(t, i)
      BY <1>1, PlanFacts DEF TaskInv, TaskTypes
    <3> QED BY <1>1, <3>1 DEF TaskInv, TaskTypes
  <2> QED BY <1>1, <2>1 DEF Domains
<1>5. TaskInv(t)'
  BY <1>1, <1>3, <1>4, FailedTask DEF TaskInv, TaskTypes, Outcome
<1>6. OnlyTask(t)
  BY <1>1, <1>2, <1>3, <1>4, SamePlan DEF OnlyTask, Same, Domains, WorkerStepTo
<1>7. ASSUME NEW x \in Places PROVE Owes(t, x)'
  BY <1>3 DEF Owes
<1> QED BY <1>5, <1>6, <1>7, QuietTask DEF WorkerStepTo

LEMMA PieceFailsInv ==
  ASSUME PlansAssumption, NoneAssumption, IInv, NEW t \in Tasks, NEW c \in DOMAIN worker[t], PieceFails(t, c)
  PROVE  IInv'
<1>1. WorkerStepTo(t, c, Left) /\ worker[t][c].at # "left"
  BY DEF PieceFails, WorkerStepTo, Becomes
<1>2. \E e \in {"canceled", "error"} : SetError(t, e)
  BY DEF PieceFails
<1> QED BY <1>1, <1>2, WorkerFailsInv DEF PieceFails

LEMMA LeaveInv ==
  ASSUME PlansAssumption, IInv, NEW t \in Tasks, NEW c \in DOMAIN worker[t], Leave(t, c)
  PROVE  IInv'
<1>1. /\ WorkerStepTo(t, c, Left) /\ worker[t][c] = Idle
      /\ place' = place /\ put' = put /\ removed' = removed /\ todo' = todo /\ pieces' = pieces
      /\ firstErr' = firstErr /\ alive' = alive /\ temp' = temp /\ plan' = plan /\ before' = before
      /\ pc' = pc /\ canceled' = canceled /\ status' = status
      /\ WorkDone(t) \/ \A i \in DOMAIN Files(t) : HandedOut(t, i)
  BY DEF Leave, WorkerStepTo, Becomes
<1>2. Domains /\ TaskInv(t) /\ plan \in Plans
  BY DEF IInv, GlobalTypes
<1>3. worker[t][c].at = "idle"
  BY <1>1 DEF Idle
<1>4. /\ DOMAIN worker' = Tasks /\ \A r \in Tasks \ {t} : worker'[r] = worker[r]
      /\ DOMAIN worker'[t] = 1..plan[t].clients
      /\ worker'[t][c].at = "left" /\ c \in 1..plan[t].clients
      /\ \A d \in 1..plan[t].clients : d # c => worker'[t][d] = worker[t][d]
      /\ Files(t)' = Files(t) /\ (Uploads(t)' <=> Uploads(t)) /\ \A j : Pieces(t, j)' = Pieces(t, j)
  BY <1>1, WorkerFacts DEF Left
<1>5. pc[t] = "work" /\ status[t] = "active"
  BY <1>3, AtWork
<1>6. OnlyTask(t)
  BY <1>1, <1>2, <1>4, SamePlan DEF OnlyTask, Same, Domains
<1>7. ASSUME NEW d \in 1..plan[t].clients, worker'[t][d].at \in {"piece"} \cup Commits \/ worker[t][d].at \in {"piece"} \cup Commits
      PROVE  d # c /\ worker'[t][d] = worker[t][d]
  BY <1>3, <1>4, <1>7 DEF Commits
<1>8. TaskTypes(t)'
  <2>1. \A d \in 1..plan[t].clients : worker'[t][d].at \in {"idle", "left", "piece"} \cup Commits
    BY <1>2, <1>4 DEF TaskInv, TaskTypes
  <2> QED BY <1>1, <1>2, <1>4, <2>1 DEF TaskInv, TaskTypes, Gone
<1>9. InPhase(t)'
  BY <1>1, <1>4, <1>5 DEF InPhase
<1>10. Outcome(t)' /\ Counted(t)'
  BY <1>1, <1>2, <1>4 DEF TaskInv, Outcome, Counted, Gone, Complete, Tidy, HandedOut
<1>11. InHand(t)'
  BY <1>1, <1>2, <1>4, <1>7 DEF TaskInv, InHand, Gone, HasPiece
<1>12. NothingLost(t)'
  <2>1. ASSUME firstErr[t] = None, NEW i \in DOMAIN Files(t), NEW n \in 1..(Pieces(t, i) - todo[t][i])
        PROVE  temp[t][i] = NoTemp \/ n \in temp[t][i]
                 \/ \E d \in 1..plan[t].clients : worker'[t][d].at = "piece" /\ worker'[t][d].file = i /\ worker'[t][d].n = n
    BY <1>2, <1>5, <1>7, <2>1 DEF TaskInv, NothingLost, Gone, HasPiece
  <2>2. ASSUME ~WorkDone(t), worker'[t][1].at = "left" PROVE \A i \in DOMAIN Files(t) : todo[t][i] = 0
    BY <1>1, <2>2 DEF HandedOut
  <2> QED BY <1>1, <1>4, <2>1, <2>2 DEF NothingLost, Gone, HasPiece, WorkDone, HandedOut
<1>13. Committing(t)'
  BY <1>1, <1>2, <1>4, <1>7 DEF TaskInv, Committing, CommitsFile, Complete, Gone
<1>14. Committed(t)'
  BY <1>1, <1>2, <1>4, <1>7 DEF TaskInv, Committed, CommitsFile
<1>15. TaskInv(t)'
  BY <1>8, <1>9, <1>10, <1>11, <1>12, <1>13, <1>14 DEF TaskInv
<1>16. ASSUME NEW x \in Places, Owes(t, x) PROVE Owes(t, x)'
  BY <1>1, <1>4, <1>7, <1>16 DEF Owes, Commits
<1> QED BY <1>1, <1>6, <1>15, <1>16, QuietTask

LEMMA TakeInv ==
  ASSUME PlansAssumption, NoneAssumption, IInv, NEW t \in Tasks, NEW c \in DOMAIN worker[t], Take(t, c)
  PROVE  IInv'
<1>1. /\ worker[t][c].at = "idle"
      /\ place' = place /\ put' = put /\ removed' = removed /\ pieces' = pieces
      /\ alive' = alive /\ temp' = temp /\ plan' = plan /\ before' = before
      /\ pc' = pc /\ canceled' = canceled /\ status' = status
  BY DEF Take, Idle
<1>2. PICK i \in DOMAIN Files(t) :
        /\ todo[t][i] > 0 /\ todo' = [todo EXCEPT ![t][i] = @ - 1]
        /\ IF WorkDone(t)
           THEN SetError(t, "canceled") /\ Becomes(t, c, Left)
           ELSE /\ Becomes(t, c, [at |-> "piece", file |-> i, n |-> Pieces(t, i) - todo[t][i] + 1])
                /\ firstErr' = firstErr
  BY DEF Take
<1>3. CASE WorkDone(t)
  <2>1. WorkerStepTo(t, c, Left)
    BY <1>1, <1>2, <1>3 DEF WorkerStepTo, Becomes
  <2> QED BY <1>1, <1>2, <1>3, <2>1, WorkerFailsInv
<1>4. CASE ~WorkDone(t)
  <2> DEFINE m == Pieces(t, i) - todo[t][i] + 1
             s == [at |-> "piece", file |-> i, n |-> m]
  <2>1. WorkerStepTo(t, c, s) /\ firstErr' = firstErr
    BY <1>1, <1>2, <1>4 DEF WorkerStepTo, Becomes
  <2>2. s.at = "piece" /\ s.file = i /\ s.n = m
    OBVIOUS
  <2>3. /\ Domains /\ TaskInv(t) /\ plan \in Plans
        /\ \A j \in DOMAIN Files(t) : Pieces(t, j) \in Nat /\ todo[t][j] \in 0..Pieces(t, j)
    BY PlanFacts DEF IInv, GlobalTypes, TaskInv, TaskTypes
  <2>4. m \in 1..Pieces(t, i) /\ m \notin 1..(Pieces(t, i) - todo[t][i])
    BY <1>2, <2>3
  <2> HIDE DEF m, s
  <2>5. /\ DOMAIN worker' = Tasks /\ \A r \in Tasks \ {t} : worker'[r] = worker[r]
        /\ DOMAIN worker'[t] = 1..plan[t].clients
        /\ worker'[t][c] = s /\ c \in 1..plan[t].clients
        /\ \A d \in 1..plan[t].clients : d # c => worker'[t][d] = worker[t][d]
        /\ Files(t)' = Files(t) /\ (Uploads(t)' <=> Uploads(t)) /\ \A j : Pieces(t, j)' = Pieces(t, j)
    BY <2>1, WorkerFacts
  <2>6. /\ DOMAIN todo' = Tasks /\ \A r \in Tasks \ {t} : todo'[r] = todo[r]
        /\ DOMAIN todo'[t] = DOMAIN Files(t)
        /\ \A j \in DOMAIN Files(t) :
             /\ todo'[t][j] = IF j = i THEN todo[t][j] - 1 ELSE todo[t][j]
             /\ todo'[t][j] \in 0..Pieces(t, j)
             /\ 1..(Pieces(t, j) - todo'[t][j]) = 1..(Pieces(t, j) - todo[t][j]) \cup (IF j = i THEN {m} ELSE {})
    <3>1. DOMAIN todo[t] = DOMAIN Files(t)
      BY <2>3 DEF TaskInv, TaskTypes
    <3>2. /\ DOMAIN todo' = Tasks /\ \A r \in Tasks \ {t} : todo'[r] = todo[r]
          /\ DOMAIN todo'[t] = DOMAIN Files(t)
          /\ \A j \in DOMAIN Files(t) : todo'[t][j] = IF j = i THEN todo[t][j] - 1 ELSE todo[t][j]
      BY <1>2, <2>3, <3>1 DEF Domains
    <3>3. ASSUME NEW j \in DOMAIN Files(t)
          PROVE  /\ todo'[t][j] \in 0..Pieces(t, j)
                 /\ 1..(Pieces(t, j) - todo'[t][j]) = 1..(Pieces(t, j) - todo[t][j]) \cup (IF j = i THEN {m} ELSE {})
      <4>1. CASE j = i
        <5>1. todo'[t][i] = todo[t][i] - 1
          BY <3>2
        <5>2. m = Pieces(t, i) - todo[t][i] + 1
          BY DEF m
        <5>3. todo'[t][i] \in 0..Pieces(t, i)
          BY <1>2, <2>3, <5>1
        <5>4. 1..(Pieces(t, i) - todo'[t][i]) = 1..(Pieces(t, i) - todo[t][i]) \cup {m}
          BY <1>2, <2>3, <5>1, <5>2
        <5> QED BY <4>1, <5>3, <5>4
      <4>2. CASE j # i
        BY <2>3, <3>2, <4>2
      <4> QED BY <4>1, <4>2
    <3> QED BY <3>2, <3>3
  <2>7. OnlyTask(t)
    BY <1>1, <2>1, <2>3, <2>5, <2>6, SamePlan DEF OnlyTask, Same, Domains
  <2>8. pc[t] = "work" /\ status[t] = "active"
    BY <1>1, AtWork
  <2>9. temp[t][i] # NoTemp /\ m \notin temp[t][i]
    <3>1. ~Gone(t, i)
      BY <1>2, <2>3, <2>8 DEF TaskInv, Counted, HandedOut
    <3>2. temp[t][i] \subseteq 1..(Pieces(t, i) - todo[t][i])
      BY <2>3, <3>1 DEF TaskInv, TaskTypes
    <3> QED BY <2>4, <3>1, <3>2 DEF Gone
  <2>10. TaskTypes(t)'
    <3>1. \A d \in 1..plan[t].clients : worker'[t][d].at \in {"idle", "left", "piece"} \cup Commits
      BY <2>2, <2>3, <2>5 DEF TaskInv, TaskTypes
    <3>2. \A j \in DOMAIN Files(t) :
            /\ todo'[t][j] \in 0..Pieces(t, j) /\ pieces[t][j] \in 0..Pieces(t, j)
            /\ temp[t][j] = NoTemp \/ temp[t][j] \subseteq 1..(Pieces(t, j) - todo'[t][j])
      BY <2>3, <2>6 DEF TaskInv, TaskTypes, Gone
    <3> QED BY <1>1, <2>1, <2>3, <2>5, <2>6, <3>1, <3>2 DEF TaskInv, TaskTypes, Gone
  <2>11. InPhase(t)'
    BY <1>1, <2>5, <2>8 DEF InPhase
  <2>12. Outcome(t)'
    BY <1>1, <2>1, <2>3, <2>5 DEF TaskInv, Outcome, Gone, Complete, Tidy
  <2>13. Counted(t)'
    <3>1. \A j \in DOMAIN Files(t) : todo[t][j] = 0 => todo'[t][j] = 0
      BY <1>2, <2>6
    <3> QED BY <1>1, <2>3, <2>5, <3>1 DEF TaskInv, Counted, Gone, HandedOut
  <2>14. ASSUME NEW d \in 1..plan[t].clients, NEW j, NEW n,
                worker'[t][d].at = "piece", worker'[t][d].file = j, worker'[t][d].n = n
         PROVE  IF d = c THEN j = i /\ n = m
                ELSE HasPiece(t, d, j, n) /\ j \in DOMAIN Files(t) /\ n \in 1..(Pieces(t, j) - todo[t][j])
    BY <2>2, <2>3, <2>5, <2>14 DEF HasPiece, TaskInv, InHand
  <2>15. InHand(t)'
    <3>1. ASSUME NEW d \in 1..plan[t].clients, worker'[t][d].at = "piece"
          PROVE  /\ worker'[t][d].file \in DOMAIN Files(t)
                 /\ worker'[t][d].n \in 1..(Pieces(t, worker'[t][d].file) - todo'[t][worker'[t][d].file])
                 /\ temp[t][worker'[t][d].file] # NoTemp /\ worker'[t][d].n \notin temp[t][worker'[t][d].file]
      <4>1. CASE d = c
        BY <2>2, <2>5, <2>6, <2>9, <4>1
      <4>2. CASE d # c
        <5>1. worker'[t][d] = worker[t][d]
          BY <2>5, <4>2
        <5>2. /\ worker[t][d].file \in DOMAIN Files(t)
              /\ worker[t][d].n \in 1..(Pieces(t, worker[t][d].file) - todo[t][worker[t][d].file])
              /\ temp[t][worker[t][d].file] # NoTemp /\ worker[t][d].n \notin temp[t][worker[t][d].file]
          BY <2>3, <3>1, <5>1 DEF TaskInv, InHand, Gone
        <5> QED BY <2>6, <5>1, <5>2
      <4> QED BY <4>1, <4>2
    <3>2. ASSUME NEW d \in 1..plan[t].clients, NEW b \in 1..plan[t].clients,
                 worker'[t][d].at = "piece", worker'[t][b].at = "piece",
                 worker'[t][b].file = worker'[t][d].file, worker'[t][b].n = worker'[t][d].n
          PROVE  b = d
      <4>1. CASE b = c \/ d = c
        BY <2>4, <2>14, <3>2, <4>1
      <4>2. CASE b # c /\ d # c
        BY <2>3, <2>5, <3>2, <4>2 DEF TaskInv, InHand, HasPiece
      <4> QED BY <4>1, <4>2
    <3> QED BY <1>1, <2>5, <3>1, <3>2 DEF InHand, Gone, HasPiece
  <2>16. NothingLost(t)'
    <3>1. ASSUME firstErr[t] = None, NEW j \in DOMAIN Files(t), NEW n \in 1..(Pieces(t, j) - todo'[t][j])
          PROVE  temp[t][j] = NoTemp \/ n \in temp[t][j]
                   \/ \E d \in 1..plan[t].clients : worker'[t][d].at = "piece" /\ worker'[t][d].file = j /\ worker'[t][d].n = n
      <4>1. CASE j = i /\ n = m
        BY <2>2, <2>5, <4>1
      <4>2. CASE n \in 1..(Pieces(t, j) - todo[t][j])
        <5>1. \A d \in 1..plan[t].clients : HasPiece(t, d, j, n) => d # c
          BY <1>1 DEF HasPiece
        <5> QED BY <2>3, <2>5, <2>8, <3>1, <4>2, <5>1 DEF TaskInv, NothingLost, Gone, HasPiece
      <4> QED BY <2>6, <4>1, <4>2
    <3>2. worker'[t][1].at # "left"
      <4>1. 1 \in 1..plan[t].clients
        BY <2>1, WorkerFacts
      <4>2. worker[t][1].at # "left"
        BY <1>2, <1>4, <2>3, <2>8 DEF TaskInv, NothingLost, HandedOut
      <4> QED BY <2>2, <2>5, <4>1, <4>2
    <3> QED BY <1>1, <2>1, <2>5, <3>1, <3>2 DEF NothingLost, Gone, HasPiece
  <2>17. ASSUME NEW d \in 1..plan[t].clients, worker'[t][d].at \in Commits \/ worker[t][d].at \in Commits
         PROVE  d # c /\ worker'[t][d] = worker[t][d]
    BY <1>1, <2>2, <2>5, <2>17 DEF Commits
  <2>18. Committing(t)'
    BY <1>1, <2>3, <2>5, <2>17 DEF TaskInv, Committing, CommitsFile, Complete, Gone
  <2>19. Committed(t)'
    BY <1>1, <2>1, <2>3, <2>5, <2>17 DEF TaskInv, Committed, CommitsFile
  <2>20. TaskInv(t)'
    BY <2>10, <2>11, <2>12, <2>13, <2>15, <2>16, <2>18, <2>19 DEF TaskInv
  <2>21. ASSUME NEW x \in Places, Owes(t, x) PROVE Owes(t, x)'
    BY <1>1, <2>1, <2>5, <2>17, <2>21 DEF Owes, Commits
  <2> QED BY <1>1, <2>7, <2>20, <2>21, QuietTask
<1> QED BY <1>3, <1>4

LEMMA PieceDoneInv ==
  ASSUME PlansAssumption, IInv, NEW t \in Tasks, NEW c \in DOMAIN worker[t], PieceDone(t, c)
  PROVE  IInv'
<1> DEFINE i == worker[t][c].file
           m == worker[t][c].n
           last == Uploads(t) /\ IsLastPiece(t, i)
           s == IF last THEN [at |-> "commit", file |-> i] ELSE Idle
<1>1. /\ worker[t][c].at = "piece"
      /\ temp' = [temp EXCEPT ![t][i] = @ \cup {m}] /\ pieces' = [pieces EXCEPT ![t][i] = @ + 1]
      /\ place' = place /\ put' = put /\ removed' = removed /\ todo' = todo /\ firstErr' = firstErr
      /\ alive' = alive /\ plan' = plan /\ before' = before
      /\ pc' = pc /\ canceled' = canceled /\ status' = status
      /\ WorkerStepTo(t, c, s)
  BY DEF PieceDone, WorkerStepTo, Becomes
<1>2. /\ Domains /\ TaskInv(t) /\ plan \in Plans
      /\ \A j \in DOMAIN Files(t) : Pieces(t, j) \in Nat /\ todo[t][j] \in 0..Pieces(t, j)
  BY PlanFacts DEF IInv, GlobalTypes, TaskInv, TaskTypes
<1>3. /\ DOMAIN worker' = Tasks /\ \A r \in Tasks \ {t} : worker'[r] = worker[r]
      /\ DOMAIN worker'[t] = 1..plan[t].clients
      /\ worker'[t][c] = s /\ c \in 1..plan[t].clients
      /\ \A d \in 1..plan[t].clients : d # c => worker'[t][d] = worker[t][d]
      /\ Files(t)' = Files(t) /\ (Uploads(t)' <=> Uploads(t)) /\ \A j : Pieces(t, j)' = Pieces(t, j)
  BY <1>1, WorkerFacts
<1>4. pc[t] = "work" /\ status[t] = "active"
  BY <1>1, AtWork
<1>5. s.at = IF last THEN "commit" ELSE "idle"
  BY DEF Idle
<1>6. last => s.file = i
  OBVIOUS
<1>7. /\ i \in DOMAIN Files(t) /\ m \in 1..(Pieces(t, i) - todo[t][i])
      /\ temp[t][i] # NoTemp /\ m \notin temp[t][i]
      /\ \A d \in 1..plan[t].clients : HasPiece(t, d, i, m) => d = c
  BY <1>1, <1>2, <1>3 DEF TaskInv, InHand, Gone
<1>8. last <=> Uploads(t) /\ pieces[t][i] + 1 = Pieces(t, i)
  BY DEF IsLastPiece
<1> HIDE DEF i, m, last, s
<1>9. /\ temp[t][i] \subseteq 1..(Pieces(t, i) - todo[t][i])
      /\ pieces[t][i] = Cardinality(temp[t][i])
  BY <1>2, <1>4, <1>7 DEF TaskInv, TaskTypes, Counted, Gone
<1>10. m \in 1..Pieces(t, i) /\ temp[t][i] \subseteq 1..Pieces(t, i)
  BY <1>2, <1>7, <1>9
<1>11. /\ IsFiniteSet(temp[t][i]) /\ pieces[t][i] \in Nat
       /\ Cardinality(temp[t][i] \cup {m}) = pieces[t][i] + 1
       /\ pieces[t][i] + 1 <= Pieces(t, i)
       /\ pieces[t][i] + 1 = Pieces(t, i) => temp[t][i] \cup {m} = 1..Pieces(t, i)
  <2>1. IsFiniteSet(1..Pieces(t, i)) /\ Cardinality(1..Pieces(t, i)) = Pieces(t, i)
    BY <1>2, <1>7, FS_Interval
  <2>2. IsFiniteSet(temp[t][i])
    BY <1>10, <2>1, FS_Subset
  <2>3. Cardinality(temp[t][i] \cup {m}) = pieces[t][i] + 1 /\ pieces[t][i] \in Nat
    <3>1. Cardinality(temp[t][i] \cup {m}) = Cardinality(temp[t][i]) + 1
      BY <1>7, <2>2, FS_AddElement
    <3>2. Cardinality(temp[t][i]) \in Nat
      BY <2>2, FS_CardinalityType
    <3> QED BY <1>9, <3>1, <3>2
  <2>4. (temp[t][i] \cup {m}) \in SUBSET (1..Pieces(t, i))
    BY <1>10
  <2>5. /\ Cardinality(temp[t][i] \cup {m}) <= Cardinality(1..Pieces(t, i))
        /\ Cardinality(1..Pieces(t, i)) = Cardinality(temp[t][i] \cup {m}) => 1..Pieces(t, i) = temp[t][i] \cup {m}
    BY <2>1, <2>4, FS_Subset
  <2> QED BY <2>1, <2>2, <2>3, <2>5
<1>12. /\ DOMAIN temp' = Tasks /\ DOMAIN pieces' = Tasks
       /\ \A r \in Tasks \ {t} : temp'[r] = temp[r] /\ pieces'[r] = pieces[r]
       /\ DOMAIN temp'[t] = DOMAIN Files(t) /\ DOMAIN pieces'[t] = DOMAIN Files(t)
       /\ \A j \in DOMAIN Files(t) : j # i => temp'[t][j] = temp[t][j] /\ pieces'[t][j] = pieces[t][j]
       /\ temp'[t][i] = temp[t][i] \cup {m} /\ pieces'[t][i] = pieces[t][i] + 1
  BY <1>1, <1>2, <1>7 DEF Domains, TaskInv, TaskTypes
<1>13. temp'[t][i] # NoTemp
  BY <1>10, <1>12 DEF NoTemp
<1>14. OnlyTask(t)
  BY <1>1, <1>2, <1>3, <1>12, SamePlan DEF OnlyTask, Same, Domains
<1>15. TaskTypes(t)'
  <2>1. \A d \in 1..plan[t].clients : worker'[t][d].at \in {"idle", "left", "piece"} \cup Commits
    BY <1>2, <1>3, <1>5 DEF TaskInv, TaskTypes, Commits
  <2>2. ASSUME NEW j \in DOMAIN Files(t)
        PROVE  /\ todo[t][j] \in 0..Pieces(t, j) /\ pieces'[t][j] \in 0..Pieces(t, j)
               /\ temp'[t][j] = NoTemp \/ temp'[t][j] \subseteq 1..(Pieces(t, j) - todo[t][j])
    <3>1. CASE j = i
      <4>1. pieces'[t][i] \in 0..Pieces(t, i)
        BY <1>2, <1>7, <1>11, <1>12
      <4>2. temp'[t][i] \subseteq 1..(Pieces(t, i) - todo[t][i])
        BY <1>7, <1>9, <1>12
      <4> QED BY <1>2, <3>1, <4>1, <4>2
    <3>2. CASE j # i
      BY <1>2, <1>12, <3>2 DEF TaskInv, TaskTypes, Gone
    <3> QED BY <3>1, <3>2
  <2> QED BY <1>1, <1>2, <1>3, <1>12, <2>1, <2>2 DEF TaskInv, TaskTypes, Gone
<1>16. InPhase(t)'
  BY <1>1, <1>3, <1>4 DEF InPhase
<1>17. Outcome(t)'
  <2>1. \A j \in put[t] : temp'[t][j] = NoTemp
    BY <1>2, <1>7, <1>12 DEF TaskInv, TaskTypes, Outcome, Gone
  <2> QED BY <1>1, <1>2, <1>3, <1>4, <2>1 DEF TaskInv, Outcome, Gone, Tidy
<1>18. Counted(t)'
  <2>1. ASSUME NEW j \in DOMAIN Files(t)
        PROVE  /\ temp'[t][j] = NoTemp => Uploads(t) /\ pieces'[t][j] = Pieces(t, j) /\ todo[t][j] = 0
               /\ temp'[t][j] # NoTemp => pieces'[t][j] = Cardinality(temp'[t][j])
    <3>1. CASE j = i
      BY <1>11, <1>12, <1>13, <3>1
    <3>2. CASE j # i
      BY <1>2, <1>4, <1>12, <3>2 DEF TaskInv, Counted, Gone, HandedOut
    <3> QED BY <3>1, <3>2
  <2> QED BY <1>1, <1>3, <2>1 DEF Counted, Gone, HandedOut
<1>19. ASSUME NEW d \in 1..plan[t].clients, worker'[t][d].at \in {"piece", "left"}
       PROVE  d # c /\ worker'[t][d] = worker[t][d]
  BY <1>3, <1>5, <1>19
<1>20. InHand(t)'
  <2>1. ASSUME NEW d \in 1..plan[t].clients, worker'[t][d].at = "piece"
        PROVE  /\ worker'[t][d].file \in DOMAIN Files(t)
               /\ worker'[t][d].n \in 1..(Pieces(t, worker'[t][d].file) - todo[t][worker'[t][d].file])
               /\ temp'[t][worker'[t][d].file] # NoTemp /\ worker'[t][d].n \notin temp'[t][worker'[t][d].file]
    <3>1. d # c /\ worker'[t][d] = worker[t][d]
      BY <1>19, <2>1
    <3>2. /\ worker[t][d].file \in DOMAIN Files(t)
          /\ worker[t][d].n \in 1..(Pieces(t, worker[t][d].file) - todo[t][worker[t][d].file])
          /\ temp[t][worker[t][d].file] # NoTemp /\ worker[t][d].n \notin temp[t][worker[t][d].file]
      BY <1>2, <2>1, <3>1 DEF TaskInv, InHand, Gone
    <3>3. ~(worker[t][d].file = i /\ worker[t][d].n = m)
      BY <1>7, <2>1, <3>1 DEF HasPiece
    <3> QED BY <1>12, <1>13, <3>1, <3>2, <3>3
  <2>2. ASSUME NEW d \in 1..plan[t].clients, NEW b \in 1..plan[t].clients,
               worker'[t][d].at = "piece", worker'[t][b].at = "piece",
               worker'[t][b].file = worker'[t][d].file, worker'[t][b].n = worker'[t][d].n
        PROVE  b = d
    BY <1>2, <1>19, <2>2 DEF TaskInv, InHand, HasPiece
  <2> QED BY <1>1, <1>3, <2>1, <2>2 DEF InHand, Gone, HasPiece
<1>21. NothingLost(t)'
  <2>1. ASSUME firstErr[t] = None, NEW j \in DOMAIN Files(t), NEW n \in 1..(Pieces(t, j) - todo[t][j])
        PROVE  temp'[t][j] = NoTemp \/ n \in temp'[t][j]
                 \/ \E d \in 1..plan[t].clients : worker'[t][d].at = "piece" /\ worker'[t][d].file = j /\ worker'[t][d].n = n
    <3>1. CASE temp[t][j] = NoTemp \/ n \in temp[t][j]
      BY <1>7, <1>12, <3>1
    <3>2. CASE \E d \in 1..plan[t].clients : HasPiece(t, d, j, n)
      <4>1. PICK d \in 1..plan[t].clients : HasPiece(t, d, j, n)
        BY <3>2
      <4>2. CASE d = c
        BY <1>12, <4>1, <4>2 DEF HasPiece, i, m
      <4>3. CASE d # c
        BY <1>3, <4>1, <4>3 DEF HasPiece
      <4> QED BY <4>2, <4>3
    <3> QED BY <1>2, <1>4, <2>1, <3>1, <3>2 DEF TaskInv, NothingLost, Gone
  <2>2. ASSUME ~WorkDone(t), worker'[t][1].at = "left" PROVE \A j \in DOMAIN Files(t) : todo[t][j] = 0
    <3>1. 1 \in 1..plan[t].clients
      BY <1>1, WorkerFacts
    <3>2. worker[t][1].at = "left"
      BY <1>19, <2>2, <3>1
    <3> QED BY <1>2, <1>4, <2>2, <3>2 DEF TaskInv, NothingLost, HandedOut
  <2> QED BY <1>1, <1>3, <2>1, <2>2 DEF NothingLost, Gone, HasPiece, WorkDone, HandedOut
<1>22. ASSUME NEW d \in 1..plan[t].clients, worker[t][d].at \in Commits
       PROVE  d # c /\ worker'[t][d] = worker[t][d] /\ worker[t][d].file # i
  <2>1. d # c /\ worker'[t][d] = worker[t][d]
    BY <1>1, <1>3, <1>22 DEF Commits
  <2>2. worker[t][d].file = i => Complete(t, i) \/ Gone(t, i)
    BY <1>2, <1>22 DEF TaskInv, Committing
  <2> QED BY <1>7, <1>10, <2>1, <2>2 DEF Complete, Gone
<1>23. ASSUME NEW d \in 1..plan[t].clients, worker'[t][d].at \in Commits
       PROVE  (d = c /\ last) \/ (d # c /\ worker[t][d].at \in Commits)
  BY <1>3, <1>5, <1>23 DEF Commits
<1>24. Committing(t)'
  <2>1. ASSUME NEW d \in 1..plan[t].clients, worker'[t][d].at \in Commits
        PROVE  LET j == worker'[t][d].file IN
               /\ Uploads(t) /\ j \in DOMAIN Files(t) /\ pieces'[t][j] = Pieces(t, j)
               /\ \/ temp'[t][j] = 1..Pieces(t, j)
                  \/ temp'[t][j] = NoTemp /\ worker'[t][d].at = "rename"
                  \/ temp'[t][j] = NoTemp /\ worker'[t][d].at = "look" /\ ~alive[t][d]
    <3>1. CASE d = c /\ last
      BY <1>3, <1>6, <1>7, <1>8, <1>11, <1>12, <3>1
    <3>2. CASE d # c /\ worker[t][d].at \in Commits
      BY <1>2, <1>12, <1>22, <3>2 DEF TaskInv, Committing, Complete, Gone
    <3> QED BY <1>23, <2>1, <3>1, <3>2
  <2>2. ASSUME NEW d \in 1..plan[t].clients, NEW b \in 1..plan[t].clients,
               worker'[t][d].at \in Commits, worker'[t][b].at \in Commits, worker'[t][b].file = worker'[t][d].file
        PROVE  b = d
    <3>1. CASE b = c \/ d = c
      BY <1>3, <1>6, <1>22, <1>23, <2>2, <3>1
    <3>2. CASE b # c /\ d # c
      BY <1>2, <1>3, <2>2, <3>2 DEF TaskInv, Committing, CommitsFile
    <3> QED BY <3>1, <3>2
  <2> QED BY <1>1, <1>3, <2>1, <2>2 DEF Committing, CommitsFile, Complete, Gone
<1>25. Committed(t)'
  <2>1. ASSUME Uploads(t), firstErr[t] = None, NEW j \in DOMAIN Files(t), pieces'[t][j] = Pieces(t, j)
        PROVE  j \in put[t] \/ \E d \in 1..plan[t].clients : worker'[t][d].at \in Commits /\ worker'[t][d].file = j
    <3>1. CASE j = i
      <4>1. last
        BY <1>8, <1>12, <2>1, <3>1
      <4> QED BY <1>3, <1>5, <1>6, <3>1, <4>1 DEF Commits
    <3>2. CASE j # i
      BY <1>2, <1>4, <1>12, <1>22, <2>1, <3>2 DEF TaskInv, Committed, CommitsFile
    <3> QED BY <3>1, <3>2
  <2> QED BY <1>1, <1>3, <2>1 DEF Committed, CommitsFile
<1>26. TaskInv(t)'
  BY <1>15, <1>16, <1>17, <1>18, <1>20, <1>21, <1>24, <1>25 DEF TaskInv
<1>27. ASSUME NEW x \in Places, Owes(t, x) PROVE Owes(t, x)'
  BY <1>1, <1>3, <1>22, <1>27 DEF Owes, Commits
<1> QED BY <1>1, <1>14, <1>26, <1>27, QuietTask

-----------------------------------------------------------------------------
(* The commit of a file. *)

\* What a worker at a commit has.
LEMMA AtCommit ==
  ASSUME PlansAssumption, IInv, NEW t \in Tasks, NEW c \in DOMAIN worker[t], worker[t][c].at \in Commits,
         NEW i, i = worker[t][c].file
  PROVE  /\ pc[t] = "work" /\ status[t] = "active"
         /\ Uploads(t) /\ i \in DOMAIN Files(t) /\ pieces[t][i] = Pieces(t, i) /\ todo[t][i] = 0
         /\ Complete(t, i) \/ Gone(t, i)
         /\ worker[t][c].at \in {"commit", "remove"} \/ (worker[t][c].at = "look" /\ alive[t][c]) => Complete(t, i)
         /\ Complete(t, i) => i \notin put[t] /\ ~Gone(t, i)
         /\ \A d \in 1..plan[t].clients :
              /\ CommitsFile(t, d, i) => d = c
              /\ worker[t][d].at = "piece" => worker[t][d].file # i
<1>1. /\ TaskInv(t) /\ plan \in Plans /\ c \in 1..plan[t].clients
      /\ pc[t] = "work" /\ status[t] = "active"
  BY AtWork DEF IInv, GlobalTypes, TaskInv, TaskTypes, Commits
<1>2. /\ Uploads(t) /\ i \in DOMAIN Files(t) /\ pieces[t][i] = Pieces(t, i)
      /\ \/ Complete(t, i)
         \/ Gone(t, i) /\ worker[t][c].at = "rename"
         \/ Gone(t, i) /\ worker[t][c].at = "look" /\ ~alive[t][c]
      /\ \A d \in 1..plan[t].clients : CommitsFile(t, d, i) => d = c
  BY <1>1 DEF TaskInv, Committing
<1>3. Pieces(t, i) \in Nat /\ Pieces(t, i) > 0 /\ todo[t][i] \in 0..Pieces(t, i)
  BY <1>1, <1>2, PlanFacts DEF TaskInv, TaskTypes
<1>4. Complete(t, i) => ~Gone(t, i)
  BY <1>3 DEF Complete, Gone, NoTemp
<1>5. todo[t][i] = 0
  <2>1. CASE Gone(t, i)
    BY <1>1, <1>2, <2>1 DEF TaskInv, Counted, HandedOut
  <2>2. CASE Complete(t, i)
    <3>1. 1..Pieces(t, i) \subseteq 1..(Pieces(t, i) - todo[t][i])
      BY <1>1, <1>2, <1>4, <2>2 DEF TaskInv, TaskTypes, Complete
    <3>2. Pieces(t, i) \in 1..Pieces(t, i)
      BY <1>3
    <3>3. Pieces(t, i) \in 1..(Pieces(t, i) - todo[t][i])
      BY <3>1, <3>2
    <3> QED BY <1>3, <3>3
  <2> QED BY <1>2, <2>1, <2>2
<1>6. Complete(t, i) => i \notin put[t]
  BY <1>1, <1>4 DEF TaskInv, Outcome
<1>7. ASSUME NEW d \in 1..plan[t].clients, worker[t][d].at = "piece" PROVE worker[t][d].file # i
  <2>1. ASSUME worker[t][d].file = i
        PROVE  ~Gone(t, i) /\ worker[t][d].n \in 1..Pieces(t, i) /\ worker[t][d].n \notin temp[t][i]
    <3>1. /\ worker[t][d].n \in 1..(Pieces(t, i) - todo[t][i])
          /\ ~Gone(t, i) /\ worker[t][d].n \notin temp[t][i]
      BY <1>1, <1>7, <2>1 DEF TaskInv, InHand
    <3> QED BY <1>3, <1>5, <3>1
  <2> QED BY <1>2, <2>1 DEF Complete
<1> QED BY <1>1, <1>2, <1>4, <1>5, <1>6, <1>7

\* It goes on with it.
LEMMA CommitGoesOn ==
  ASSUME PlansAssumption, IInv, NEW t \in Tasks, NEW c \in DOMAIN worker[t], worker[t][c].at \in Commits,
         NEW i, i = worker[t][c].file, NEW a \in Commits, WorkerStepTo(t, c, [at |-> a, file |-> i]),
         Complete(t, i) \/ (Gone(t, i) /\ a = "rename"),
         temp'[t] = temp[t], pieces'[t] = pieces[t], put'[t] = put[t], todo'[t] = todo[t],
         firstErr'[t] = firstErr[t], alive'[t] = alive[t], removed'[t] \subseteq Places
  PROVE  TaskInv(t)'
<1> DEFINE s == [at |-> a, file |-> i]
<1>1. /\ TaskInv(t) /\ pc[t] = "work" /\ status[t] = "active"
      /\ pc'[t] = "work" /\ status'[t] = "active" /\ canceled'[t] = canceled[t] /\ plan' = plan
      /\ Uploads(t) /\ i \in DOMAIN Files(t) /\ pieces[t][i] = Pieces(t, i)
      /\ \A d \in 1..plan[t].clients : CommitsFile(t, d, i) => d = c
  BY AtCommit DEF IInv, WorkerStepTo
<1>2. s.at = a /\ s.file = i
  OBVIOUS
<1>3. /\ DOMAIN worker'[t] = 1..plan[t].clients
      /\ worker'[t][c] = s /\ c \in 1..plan[t].clients
      /\ \A d \in 1..plan[t].clients : d # c => worker'[t][d] = worker[t][d]
      /\ Files(t)' = Files(t) /\ (Uploads(t)' <=> Uploads(t)) /\ \A j : Pieces(t, j)' = Pieces(t, j)
  BY WorkerFacts
<1> HIDE DEF s
<1>4. a \notin {"piece", "left", "idle"} /\ worker[t][c].at \notin {"piece", "left", "idle"}
  BY DEF Commits
<1>5. TaskTypes(t)'
  <2>1. \A d \in 1..plan[t].clients : worker'[t][d].at \in {"idle", "left", "piece"} \cup Commits
    BY <1>1, <1>2, <1>3 DEF TaskInv, TaskTypes
  <2> QED BY <1>1, <1>3, <2>1 DEF TaskInv, TaskTypes, Gone
<1>6. InPhase(t)'
  BY <1>1, <1>3 DEF InPhase
<1>7. Outcome(t)' /\ Counted(t)'
  BY <1>1, <1>3 DEF TaskInv, Outcome, Counted, Gone, Complete, Tidy, HandedOut
<1>8. ASSUME NEW d \in 1..plan[t].clients,
             worker'[t][d].at \in {"piece", "left"} \/ worker[t][d].at \in {"piece", "left"}
      PROVE  d # c /\ worker'[t][d] = worker[t][d]
  BY <1>2, <1>3, <1>4, <1>8
<1>9. InHand(t)'
  BY <1>1, <1>3, <1>8 DEF TaskInv, InHand, Gone, HasPiece
<1>10. NothingLost(t)'
  <2>1. ASSUME firstErr[t] = None, NEW j \in DOMAIN Files(t), NEW n \in 1..(Pieces(t, j) - todo[t][j])
        PROVE  temp[t][j] = NoTemp \/ n \in temp[t][j]
                 \/ \E d \in 1..plan[t].clients : worker'[t][d].at = "piece" /\ worker'[t][d].file = j /\ worker'[t][d].n = n
    BY <1>1, <1>8, <2>1 DEF TaskInv, NothingLost, Gone, HasPiece
  <2>2. 1 \in 1..plan[t].clients
    BY WorkerFacts
  <2>3. ASSUME ~WorkDone(t), worker'[t][1].at = "left" PROVE \A j \in DOMAIN Files(t) : todo[t][j] = 0
    BY <1>1, <1>8, <2>2, <2>3 DEF TaskInv, NothingLost, HandedOut
  <2> QED BY <1>1, <1>3, <2>1, <2>3 DEF NothingLost, Gone, HasPiece, WorkDone, HandedOut
<1>11. Committing(t)'
  <2>1. ASSUME NEW d \in 1..plan[t].clients, worker'[t][d].at \in Commits
        PROVE  LET j == worker'[t][d].file IN
               /\ Uploads(t) /\ j \in DOMAIN Files(t) /\ pieces[t][j] = Pieces(t, j)
               /\ \/ Complete(t, j)
                  \/ Gone(t, j) /\ worker'[t][d].at = "rename"
                  \/ Gone(t, j) /\ worker'[t][d].at = "look" /\ ~alive[t][d]
    <3>1. CASE d = c
      BY <1>1, <1>2, <1>3, <3>1
    <3>2. CASE d # c
      BY <1>1, <1>3, <2>1, <3>2 DEF TaskInv, Committing
    <3> QED BY <3>1, <3>2
  <2>2. ASSUME NEW d \in 1..plan[t].clients, NEW b \in 1..plan[t].clients,
               worker'[t][d].at \in Commits, worker'[t][b].at \in Commits, worker'[t][b].file = worker'[t][d].file
        PROVE  b = d
    <3>1. CASE b = c \/ d = c
      BY <1>1, <1>2, <1>3, <2>2, <3>1 DEF CommitsFile
    <3>2. CASE b # c /\ d # c
      BY <1>1, <1>3, <2>2, <3>2 DEF TaskInv, Committing, CommitsFile
    <3> QED BY <3>1, <3>2
  <2> QED BY <1>1, <1>3, <2>1, <2>2 DEF Committing, CommitsFile, Complete, Gone
<1>12. Committed(t)'
  <2>1. ASSUME NEW j, NEW d \in 1..plan[t].clients, CommitsFile(t, d, j)
        PROVE  worker'[t][d].at \in Commits /\ worker'[t][d].file = j
    BY <1>2, <1>3, <2>1 DEF CommitsFile
  <2> QED BY <1>1, <1>3, <2>1 DEF TaskInv, Committed, CommitsFile
<1> QED BY <1>5, <1>6, <1>7, <1>9, <1>10, <1>11, <1>12 DEF TaskInv

LEMMA LookInv ==
  ASSUME PlansAssumption, IInv, NEW t \in Tasks, NEW c \in DOMAIN worker[t], Look(t, c)
  PROVE  IInv'
<1> DEFINE i == worker[t][c].file
<1>0. /\ worker[t][c].at = "look"
      /\ \/ alive[t][c] /\ WorkerStepTo(t, c, [at |-> "remove", file |-> i])
         \/ WorkerStepTo(t, c, [at |-> "rename", file |-> i])
  BY DEF Look, WorkerStepTo, Becomes
<1> HIDE DEF i
<1>1. PICK a \in {"remove", "rename"} :
        WorkerStepTo(t, c, [at |-> a, file |-> i]) /\ (a = "remove" => alive[t][c])
  BY <1>0
<1>2. /\ place' = place /\ put' = put /\ removed' = removed /\ todo' = todo /\ pieces' = pieces
      /\ firstErr' = firstErr /\ alive' = alive /\ temp' = temp /\ plan' = plan /\ before' = before
      /\ pc' = pc /\ canceled' = canceled /\ status' = status
  BY DEF Look
<1>3. Domains /\ removed[t] \subseteq Places
  BY DEF IInv, GlobalTypes, TaskInv, TaskTypes
<1>4. worker[t][c].at \in Commits /\ a \in Commits
  BY <1>0 DEF Commits
<1>5. Complete(t, i) \/ (Gone(t, i) /\ a = "rename")
  BY <1>0, <1>1, <1>4, AtCommit DEF i
<1>6. TaskInv(t)'
  BY <1>1, <1>2, <1>3, <1>4, <1>5, CommitGoesOn DEF i
<1>7. /\ DOMAIN worker' = Tasks /\ \A r \in Tasks \ {t} : worker'[r] = worker[r]
      /\ \A d \in 1..plan[t].clients : d # c => worker'[t][d] = worker[t][d]
      /\ Files(t)' = Files(t)
  BY <1>1, WorkerFacts
<1>8. OnlyTask(t)
  BY <1>2, <1>3, <1>7, SamePlan DEF OnlyTask, Same, Domains
<1>9. ASSUME NEW x \in Places, Owes(t, x) PROVE Owes(t, x)'
  BY <1>0, <1>2, <1>7, <1>9 DEF Owes
<1> QED BY <1>2, <1>6, <1>8, <1>9, QuietTask

\* It puts the file at its place, and then goes on to the next piece, has
\* lost the answer and looks, or has lost it and gives up.
LEMMA WorkerPutsInv ==
  ASSUME PlansAssumption, NoneAssumption, IInv, NEW t \in Tasks, NEW c \in DOMAIN worker[t],
         worker[t][c].at \in Commits, NEW i, i = worker[t][c].file, Complete(t, i), Moves(t, i),
         NEW s, WorkerStepTo(t, c, s),
         todo' = todo, pieces' = pieces, removed' = removed,
         \/ s = Idle /\ firstErr' = firstErr /\ alive' = alive
         \/ s = [at |-> "look", file |-> i] /\ firstErr' = firstErr /\ alive' = [alive EXCEPT ![t][c] = FALSE]
         \/ s = Left /\ SetError(t, "error") /\ alive' = [alive EXCEPT ![t][c] = FALSE]
  PROVE  IInv'
<1>1. /\ Domains /\ TaskInv(t) /\ plan \in Plans
      /\ pc[t] = "work" /\ status[t] = "active" /\ Uploads(t) /\ i \in DOMAIN Files(t)
      /\ pieces[t][i] = Pieces(t, i) /\ todo[t][i] = 0 /\ i \notin put[t] /\ ~Gone(t, i)
      /\ \A d \in 1..plan[t].clients :
           /\ CommitsFile(t, d, i) => d = c
           /\ worker[t][d].at = "piece" => worker[t][d].file # i
  BY AtCommit DEF IInv, GlobalTypes
<1>2. /\ plan' = plan /\ before' = before /\ pc' = pc /\ canceled' = canceled /\ status' = status
      /\ temp' = [temp EXCEPT ![t][i] = NoTemp]
      /\ put' = [put EXCEPT ![t] = @ \cup {i}]
  BY DEF WorkerStepTo, Moves, Content, Complete
<1>3. /\ DOMAIN worker' = Tasks /\ \A r \in Tasks \ {t} : worker'[r] = worker[r]
      /\ DOMAIN worker'[t] = 1..plan[t].clients
      /\ worker'[t][c] = s /\ c \in 1..plan[t].clients /\ 1 \in 1..plan[t].clients
      /\ \A d \in 1..plan[t].clients : d # c => worker'[t][d] = worker[t][d]
      /\ Files(t)' = Files(t) /\ (Uploads(t)' <=> Uploads(t)) /\ \A j : Pieces(t, j)' = Pieces(t, j)
  BY WorkerFacts
<1>4. /\ DOMAIN firstErr' = Tasks /\ \A r \in Tasks \ {t} : firstErr'[r] = firstErr[r]
      /\ firstErr'[t] \in {None, "canceled", "error"}
      /\ firstErr[t] # None => firstErr'[t] # None
      /\ IF s = Left THEN firstErr'[t] # None ELSE firstErr'[t] = firstErr[t]
  <2>1. Left # Idle /\ Left # [at |-> "look", file |-> i]
    <3>1. Left.at = "left" /\ Idle.at = "idle" /\ [at |-> "look", file |-> i].at = "look"
      BY DEF Left, Idle
    <3> QED BY <3>1
  <2>2. "error" # None
    BY DEF NoneAssumption
  <2>3. DOMAIN firstErr = Tasks /\ firstErr[t] \in {None, "canceled", "error"}
    BY <1>1 DEF Domains, TaskInv, TaskTypes
  <2>4. firstErr' = firstErr \/ SetError(t, "error")
    OBVIOUS
  <2>5. /\ DOMAIN firstErr' = Tasks /\ \A r \in Tasks \ {t} : firstErr'[r] = firstErr[r]
        /\ firstErr'[t] \in {firstErr[t], "error"}
        /\ firstErr[t] # None => firstErr'[t] # None
    BY <2>2, <2>3, <2>4 DEF SetError
  <2>6. IF s = Left THEN firstErr'[t] # None ELSE firstErr'[t] = firstErr[t]
    BY <2>1, <2>2, <2>3 DEF SetError
  <2> QED BY <2>1, <2>3, <2>5, <2>6
<1>5. /\ DOMAIN alive' = Tasks /\ \A r \in Tasks \ {t} : alive'[r] = alive[r]
      /\ DOMAIN alive'[t] = 1..plan[t].clients
      /\ \A d \in 1..plan[t].clients : ~alive[t][d] => ~alive'[t][d]
      /\ s.at = "look" => ~alive'[t][c]
  <2>1. DOMAIN alive = Tasks /\ DOMAIN alive[t] = 1..plan[t].clients
    BY <1>1 DEF Domains, TaskInv, TaskTypes
  <2>2. CASE alive' = alive /\ s = Idle
    BY <2>1, <2>2 DEF Idle
  <2>3. CASE alive' = [alive EXCEPT ![t][c] = FALSE]
    BY <1>3, <2>1, <2>3
  <2> QED BY <2>2, <2>3
<1>6. /\ s.at \in {"idle", "look", "left"}
      /\ s.at = "look" => s.file = i
      /\ s.at = "left" => s = Left
  <2>1. CASE s = Idle
    BY <2>1 DEF Idle
  <2>2. CASE s = Left
    BY <2>2 DEF Left
  <2>3. CASE s = [at |-> "look", file |-> i]
    BY <2>3
  <2> QED BY <2>1, <2>2, <2>3
<1>7. /\ DOMAIN temp' = Tasks /\ DOMAIN put' = Tasks
      /\ \A r \in Tasks \ {t} : temp'[r] = temp[r] /\ put'[r] = put[r]
      /\ DOMAIN temp'[t] = DOMAIN Files(t)
      /\ \A j \in DOMAIN Files(t) : temp'[t][j] = IF j = i THEN NoTemp ELSE temp[t][j]
      /\ put'[t] = put[t] \cup {i}
  BY <1>1, <1>2 DEF Domains, TaskInv, TaskTypes
<1>8. OnlyTask(t)
  BY <1>1, <1>2, <1>3, <1>4, <1>5, <1>7, SamePlan DEF OnlyTask, Same, Domains
<1>9. ASSUME NEW d \in 1..plan[t].clients, worker'[t][d].at = "piece" \/ worker[t][d].at = "piece"
      PROVE  d # c /\ worker'[t][d] = worker[t][d] /\ worker[t][d].file # i
  BY <1>1, <1>3, <1>6, <1>9 DEF Commits
<1>10. TaskTypes(t)'
  <2>1. \A d \in 1..plan[t].clients : worker'[t][d].at \in {"idle", "left", "piece"} \cup Commits
    BY <1>1, <1>3, <1>6 DEF TaskInv, TaskTypes, Commits
  <2>2. \A j \in DOMAIN Files(t) :
          /\ todo[t][j] \in 0..Pieces(t, j) /\ pieces[t][j] \in 0..Pieces(t, j)
          /\ temp'[t][j] = NoTemp \/ temp'[t][j] \subseteq 1..(Pieces(t, j) - todo[t][j])
    BY <1>1, <1>7 DEF TaskInv, TaskTypes, Gone
  <2> QED BY <1>1, <1>2, <1>3, <1>4, <1>5, <1>7, <2>1, <2>2 DEF TaskInv, TaskTypes, Gone
<1>11. InPhase(t)'
  BY <1>1, <1>2, <1>3 DEF InPhase
<1>12. Outcome(t)'
  <2>1. \A j \in put'[t] : temp'[t][j] = NoTemp
    BY <1>1, <1>7 DEF TaskInv, TaskTypes, Outcome, Gone
  <2> QED BY <1>1, <1>2, <1>3, <2>1 DEF TaskInv, Outcome, Gone, Tidy
<1>13. Counted(t)'
  <2>1. ASSUME NEW j \in DOMAIN Files(t)
        PROVE  /\ temp'[t][j] = NoTemp => Uploads(t) /\ pieces[t][j] = Pieces(t, j) /\ todo[t][j] = 0
               /\ temp'[t][j] # NoTemp => pieces[t][j] = Cardinality(temp'[t][j])
    BY <1>1, <1>7 DEF TaskInv, Counted, Gone, HandedOut
  <2> QED BY <1>2, <1>3, <2>1 DEF Counted, Gone, HandedOut
<1>14. InHand(t)'
  <2>1. ASSUME NEW d \in 1..plan[t].clients, worker'[t][d].at = "piece"
        PROVE  /\ worker'[t][d].file \in DOMAIN Files(t)
               /\ worker'[t][d].n \in 1..(Pieces(t, worker'[t][d].file) - todo[t][worker'[t][d].file])
               /\ temp'[t][worker'[t][d].file] # NoTemp /\ worker'[t][d].n \notin temp'[t][worker'[t][d].file]
    BY <1>1, <1>7, <1>9, <2>1 DEF TaskInv, InHand, Gone
  <2>2. ASSUME NEW d \in 1..plan[t].clients, NEW b \in 1..plan[t].clients,
               worker'[t][d].at = "piece", worker'[t][b].at = "piece",
               worker'[t][b].file = worker'[t][d].file, worker'[t][b].n = worker'[t][d].n
        PROVE  b = d
    BY <1>1, <1>9, <2>2 DEF TaskInv, InHand, HasPiece
  <2> QED BY <1>2, <1>3, <2>1, <2>2 DEF InHand, Gone, HasPiece
<1>15. NothingLost(t)'
  <2>1. ASSUME firstErr'[t] = None, NEW j \in DOMAIN Files(t), NEW n \in 1..(Pieces(t, j) - todo[t][j])
        PROVE  temp'[t][j] = NoTemp \/ n \in temp'[t][j]
                 \/ \E d \in 1..plan[t].clients : worker'[t][d].at = "piece" /\ worker'[t][d].file = j /\ worker'[t][d].n = n
    <3>1. temp[t][j] = NoTemp \/ n \in temp[t][j] \/ \E d \in 1..plan[t].clients : HasPiece(t, d, j, n)
      BY <1>1, <1>4, <2>1 DEF TaskInv, NothingLost, Gone
    <3>2. CASE j = i
      BY <1>7, <3>2
    <3>3. CASE j # i
      BY <1>7, <1>9, <3>1, <3>3 DEF HasPiece
    <3> QED BY <3>2, <3>3
  <2>2. ASSUME ~canceled[t], firstErr'[t] = None, worker'[t][1].at = "left"
        PROVE  \A j \in DOMAIN Files(t) : todo[t][j] = 0
    <3>1. 1 # c /\ worker[t][1].at = "left" /\ firstErr[t] = None
      BY <1>3, <1>4, <1>6, <2>2
    <3> QED BY <1>1, <2>2, <3>1 DEF TaskInv, NothingLost, HandedOut, WorkDone
  <2> QED BY <1>2, <1>3, <2>1, <2>2 DEF NothingLost, Gone, HasPiece, WorkDone, HandedOut
<1>16. Committing(t)'
  <2>1. ASSUME NEW d \in 1..plan[t].clients, worker'[t][d].at \in Commits
        PROVE  LET j == worker'[t][d].file IN
               /\ Uploads(t) /\ j \in DOMAIN Files(t) /\ pieces[t][j] = Pieces(t, j)
               /\ \/ temp'[t][j] = 1..Pieces(t, j)
                  \/ temp'[t][j] = NoTemp /\ worker'[t][d].at = "rename"
                  \/ temp'[t][j] = NoTemp /\ worker'[t][d].at = "look" /\ ~alive'[t][d]
    <3>1. CASE d = c
      <4>1. s.at = "look"
        BY <1>3, <1>6, <2>1, <3>1 DEF Commits
      <4> QED BY <1>1, <1>3, <1>5, <1>6, <1>7, <3>1, <4>1
    <3>2. CASE d # c
      <4>1. worker'[t][d] = worker[t][d] /\ worker[t][d].file # i
        BY <1>1, <1>3, <2>1, <3>2 DEF CommitsFile
      <4> QED BY <1>1, <1>5, <1>7, <2>1, <4>1 DEF TaskInv, Committing, Complete, Gone
    <3> QED BY <3>1, <3>2
  <2>2. ASSUME NEW d \in 1..plan[t].clients, NEW b \in 1..plan[t].clients,
               worker'[t][d].at \in Commits, worker'[t][b].at \in Commits, worker'[t][b].file = worker'[t][d].file
        PROVE  b = d
    <3>1. CASE b = c \/ d = c
      <4>1. s.at = "look" /\ s.file = i
        BY <1>3, <1>6, <2>2, <3>1 DEF Commits
      <4> QED BY <1>1, <1>3, <2>2, <3>1, <4>1 DEF CommitsFile
    <3>2. CASE b # c /\ d # c
      BY <1>1, <1>3, <2>2, <3>2 DEF TaskInv, Committing, CommitsFile
    <3> QED BY <3>1, <3>2
  <2> QED BY <1>2, <1>3, <2>1, <2>2 DEF Committing, CommitsFile, Complete, Gone
<1>17. Committed(t)'
  <2>1. ASSUME Uploads(t), firstErr'[t] = None, NEW j \in DOMAIN Files(t), pieces[t][j] = Pieces(t, j)
        PROVE  j \in put'[t] \/ \E d \in 1..plan[t].clients : worker'[t][d].at \in Commits /\ worker'[t][d].file = j
    <3>1. CASE j = i
      BY <1>7, <3>1
    <3>2. CASE j # i
      <4>1. j \in put[t] \/ \E d \in 1..plan[t].clients : CommitsFile(t, d, j)
        BY <1>1, <1>4, <2>1 DEF TaskInv, Committed
      <4>2. ASSUME NEW d \in 1..plan[t].clients, CommitsFile(t, d, j) PROVE d # c
        BY <3>2, <4>2 DEF CommitsFile
      <4> QED BY <1>3, <1>7, <4>1, <4>2 DEF CommitsFile
    <3> QED BY <3>1, <3>2
  <2> QED BY <1>2, <1>3, <2>1 DEF Committed, CommitsFile
<1>18. TaskInv(t)'
  BY <1>10, <1>11, <1>12, <1>13, <1>14, <1>15, <1>16, <1>17 DEF TaskInv
<1>19. ASSUME NEW r \in Tasks, NEW x \in Places, x # Files(t)[i].place, Owes(r, x) PROVE Owes(r, x)'
  <2>1. CASE r = t
    BY <1>2, <1>3, <1>4, <1>19, <2>1 DEF Owes
  <2>2. CASE r # t
    BY <1>2, <1>8, <1>19, <2>2, StillOwes DEF OnlyTask, Same
  <2> QED BY <2>1, <2>2
<1>20. PlacesInv' /\ place' \in [Places -> Contents]
  BY <1>1, <1>2, <1>19, PutPlaces
<1> QED BY <1>2, <1>8, <1>18, <1>20, OneTask

LEMMA CommitAtOnceInv ==
  ASSUME PlansAssumption, NoneAssumption, IInv, NEW t \in Tasks, NEW c \in DOMAIN worker[t], CommitAtOnce(t, c)
  PROVE  IInv'
<1> DEFINE i == worker[t][c].file
<1>1. /\ worker[t][c].at = "commit"
      /\ plan' = plan /\ before' = before /\ pc' = pc /\ canceled' = canceled /\ status' = status
      /\ todo' = todo /\ pieces' = pieces /\ firstErr' = firstErr /\ removed' = removed
      /\ \/ Moves(t, i) /\ Becomes(t, c, Idle) /\ alive' = alive
         \/ Refused /\ Becomes(t, c, [at |-> "look", file |-> i])
         \/ AnswerLost(t, c, Moves(t, i)) /\ Becomes(t, c, [at |-> "look", file |-> i])
  BY DEF CommitAtOnce
<1> HIDE DEF i
<1>2. worker[t][c].at \in Commits
  BY <1>1 DEF Commits
<1>3. Complete(t, i)
  BY <1>1, <1>2, AtCommit DEF i
<1>4. CASE Moves(t, i) /\ Becomes(t, c, Idle) /\ alive' = alive
  <2>1. WorkerStepTo(t, c, Idle)
    BY <1>1, <1>4 DEF WorkerStepTo, Becomes
  <2> QED BY <1>1, <1>2, <1>3, <1>4, <2>1, WorkerPutsInv DEF i
<1>5. CASE AnswerLost(t, c, Moves(t, i)) /\ Becomes(t, c, [at |-> "look", file |-> i])
  <2>1. WorkerStepTo(t, c, [at |-> "look", file |-> i])
    BY <1>1, <1>5 DEF WorkerStepTo, Becomes
  <2>2. Moves(t, i) /\ alive' = [alive EXCEPT ![t][c] = FALSE]
    BY <1>5 DEF AnswerLost
  <2> QED BY <1>1, <1>2, <1>3, <2>1, <2>2, WorkerPutsInv DEF i
<1>6. CASE Refused /\ Becomes(t, c, [at |-> "look", file |-> i])
  <2>1. WorkerStepTo(t, c, [at |-> "look", file |-> i])
    BY <1>1, <1>6 DEF WorkerStepTo, Becomes
  <2>2. place' = place /\ temp' = temp /\ put' = put /\ alive' = alive
    BY <1>6 DEF Refused
  <2>3. Domains /\ removed[t] \subseteq Places /\ "look" \in Commits
    BY DEF IInv, GlobalTypes, TaskInv, TaskTypes, Commits
  <2>4. TaskInv(t)'
    BY <1>1, <1>2, <1>3, <2>1, <2>2, <2>3, CommitGoesOn DEF i
  <2>5. /\ DOMAIN worker' = Tasks /\ \A r \in Tasks \ {t} : worker'[r] = worker[r]
        /\ \A d \in 1..plan[t].clients : d # c => worker'[t][d] = worker[t][d]
        /\ Files(t)' = Files(t)
    BY <2>1, WorkerFacts
  <2>6. OnlyTask(t)
    BY <1>1, <2>2, <2>3, <2>5, SamePlan DEF OnlyTask, Same, Domains
  <2>7. ASSUME NEW x \in Places, Owes(t, x) PROVE Owes(t, x)'
    BY <1>1, <2>5, <2>7 DEF Owes
  <2> QED BY <1>1, <2>2, <2>4, <2>6, <2>7, QuietTask
<1> QED BY <1>1, <1>4, <1>5, <1>6

LEMMA RenameInv ==
  ASSUME PlansAssumption, NoneAssumption, IInv, NEW t \in Tasks, NEW c \in DOMAIN worker[t], Rename(t, c)
  PROVE  IInv'
<1> DEFINE i == worker[t][c].file
<1>1. /\ worker[t][c].at = "rename"
      /\ plan' = plan /\ before' = before /\ pc' = pc /\ canceled' = canceled /\ status' = status
      /\ todo' = todo /\ pieces' = pieces /\ removed' = removed
      /\ \/ ~Gone(t, i) /\ Moves(t, i) /\ Becomes(t, c, Idle) /\ alive' = alive /\ firstErr' = firstErr
         \/ Refused /\ RenameFails(t, c)
         \/ ~Gone(t, i) /\ AnswerLost(t, c, Moves(t, i)) /\ RenameFails(t, c)
  BY DEF Rename, Gone
<1> HIDE DEF i
<1>2. worker[t][c].at \in Commits /\ worker[t][c].at # "left"
  BY <1>1 DEF Commits
<1>3. Complete(t, i) \/ Gone(t, i)
  BY <1>2, AtCommit DEF i
<1>4. RenameFails(t, c) => WorkerStepTo(t, c, Left) /\ SetError(t, "error")
  BY <1>1 DEF RenameFails, WorkerStepTo, Becomes
<1>5. CASE ~Gone(t, i) /\ Moves(t, i) /\ Becomes(t, c, Idle) /\ alive' = alive /\ firstErr' = firstErr
  <2>1. WorkerStepTo(t, c, Idle)
    BY <1>1, <1>5 DEF WorkerStepTo, Becomes
  <2> QED BY <1>1, <1>2, <1>3, <1>5, <2>1, WorkerPutsInv DEF i
<1>6. CASE ~Gone(t, i) /\ AnswerLost(t, c, Moves(t, i)) /\ RenameFails(t, c)
  <2>1. Moves(t, i) /\ alive' = [alive EXCEPT ![t][c] = FALSE]
    BY <1>6 DEF AnswerLost
  <2> QED BY <1>1, <1>2, <1>3, <1>4, <1>6, <2>1, WorkerPutsInv DEF i
<1>7. CASE Refused /\ RenameFails(t, c)
  BY <1>1, <1>2, <1>4, <1>7, WorkerFailsInv DEF Refused
<1> QED BY <1>1, <1>5, <1>6, <1>7

LEMMA RemoveTargetInv ==
  ASSUME PlansAssumption, NoneAssumption, IInv, NEW t \in Tasks, NEW c \in DOMAIN worker[t], RemoveTarget(t, c)
  PROVE  IInv'
<1> DEFINE i == worker[t][c].file
           s == [at |-> "rename", file |-> i]
<1>1. /\ worker[t][c].at = "remove"
      /\ plan' = plan /\ before' = before /\ pc' = pc /\ canceled' = canceled /\ status' = status
      /\ todo' = todo /\ pieces' = pieces
      /\ \/ Removes(t, i) /\ Becomes(t, c, s) /\ alive' = alive /\ firstErr' = firstErr
         \/ Refused /\ SetError(t, "error") /\ Becomes(t, c, Left)
         \/ AnswerLost(t, c, Removes(t, i)) /\ SetError(t, "error") /\ Becomes(t, c, Left)
  BY DEF RemoveTarget
<1>2. s.at = "rename" /\ s.file = i
  OBVIOUS
<1> HIDE DEF i, s
<1>0. PICK p : p = Files(t)[i].place
  OBVIOUS
<1>3. worker[t][c].at \in Commits /\ worker[t][c].at # "left" /\ "rename" \in Commits
  BY <1>1 DEF Commits
<1>4. Complete(t, i) /\ i \notin put[t] /\ i \in DOMAIN Files(t) /\ Uploads(t)
  BY <1>1, <1>3, AtCommit DEF i
<1>5. /\ Domains /\ TaskInv(t) /\ removed[t] \subseteq Places
      /\ p \in Places
  BY <1>0, <1>4, PlanFacts DEF IInv, GlobalTypes, TaskInv, TaskTypes
<1>6. Removes(t, i) =>
        /\ temp' = temp /\ put' = put
        /\ DOMAIN removed' = Tasks /\ removed'[t] = removed[t] \cup {p}
        /\ \A r \in Tasks \ {t} : removed'[r] = removed[r]
  BY <1>0, <1>5 DEF Removes, Domains
<1>7. CASE Removes(t, i) /\ Becomes(t, c, s) /\ alive' = alive /\ firstErr' = firstErr
  <2>1. WorkerStepTo(t, c, s)
    BY <1>1, <1>7 DEF WorkerStepTo, Becomes
  <2>2. /\ DOMAIN worker' = Tasks /\ \A r \in Tasks \ {t} : worker'[r] = worker[r]
        /\ worker'[t][c] = s /\ c \in 1..plan[t].clients
        /\ \A d \in 1..plan[t].clients : d # c => worker'[t][d] = worker[t][d]
        /\ Files(t)' = Files(t)
    BY <2>1, WorkerFacts
  <2>3. TaskInv(t)'
    <3>1. removed'[t] \subseteq Places
      BY <1>5, <1>6, <1>7
    <3> QED BY <1>1, <1>3, <1>4, <1>6, <1>7, <2>1, <3>1, CommitGoesOn DEF i, s
  <2>4. OnlyTask(t)
    BY <1>1, <1>5, <1>6, <1>7, <2>2, SamePlan DEF OnlyTask, Same, Domains
  <2>5. Owes(t, p)'
    BY <1>0, <1>1, <1>2, <2>2 DEF Owes
  <2>6. ASSUME NEW r \in Tasks, NEW x \in Places, Owes(r, x) PROVE Owes(r, x)'
    <3>1. CASE r = t
      BY <1>1, <1>7, <2>2, <2>6, <3>1 DEF Owes
    <3>2. CASE r # t
      BY <1>1, <2>4, <2>6, <3>2, StillOwes DEF OnlyTask, Same
    <3> QED BY <3>1, <3>2
  <2>7. PlacesInv' /\ place' \in [Places -> Contents]
    BY <1>0, <1>1, <1>4, <1>7, <2>5, <2>6, RemovedPlaces
  <2> QED BY <1>1, <2>3, <2>4, <2>7, OneTask
<1>8. CASE Refused /\ SetError(t, "error") /\ Becomes(t, c, Left)
  <2>1. WorkerStepTo(t, c, Left)
    BY <1>1, <1>8 DEF WorkerStepTo, Becomes
  <2> QED BY <1>1, <1>3, <1>8, <2>1, WorkerFailsInv DEF Refused
<1>9. CASE AnswerLost(t, c, Removes(t, i)) /\ SetError(t, "error") /\ Becomes(t, c, Left)
  <2>1. WorkerStepTo(t, c, Left) /\ Removes(t, i) /\ alive' = [alive EXCEPT ![t][c] = FALSE]
    BY <1>1, <1>9 DEF WorkerStepTo, Becomes, AnswerLost
  <2>2. /\ DOMAIN worker' = Tasks /\ \A r \in Tasks \ {t} : worker'[r] = worker[r]
        /\ DOMAIN worker'[t] = 1..plan[t].clients /\ c \in 1..plan[t].clients
        /\ Files(t)' = Files(t)
    BY <2>1, WorkerFacts
  <2>3. /\ DOMAIN firstErr' = Tasks /\ \A r \in Tasks \ {t} : firstErr'[r] = firstErr[r]
        /\ firstErr'[t] \in {"canceled", "error"} /\ firstErr'[t] # None
    BY <1>5, <1>9 DEF SetError, Domains, TaskInv, TaskTypes, NoneAssumption
  <2>4. /\ DOMAIN alive' = Tasks /\ \A r \in Tasks \ {t} : alive'[r] = alive[r]
        /\ DOMAIN alive'[t] = 1..plan[t].clients
        /\ \A d \in 1..plan[t].clients : ~alive[t][d] => ~alive'[t][d]
    BY <1>5, <2>1, <2>2 DEF Domains, TaskInv, TaskTypes
  <2>5. TaskInv(t)'
    <3>1. removed'[t] \subseteq Places
      BY <1>5, <1>6, <2>1
    <3>2. DOMAIN todo'[t] = DOMAIN Files(t) /\ \A j \in DOMAIN Files(t) : todo'[t][j] \in 0..todo[t][j]
      <4>1. \A j \in DOMAIN Files(t) : Pieces(t, j) \in Nat /\ todo[t][j] \in 0..Pieces(t, j)
        BY <1>5, PlanFacts DEF IInv, GlobalTypes, TaskInv, TaskTypes
      <4> QED BY <1>1, <1>5, <4>1 DEF TaskInv, TaskTypes
    <3> QED BY <1>1, <1>3, <1>4, <1>6, <2>1, <2>3, <2>4, <3>1, <3>2, FailedTask
  <2>6. OnlyTask(t)
    BY <1>1, <1>5, <1>6, <2>1, <2>2, <2>3, <2>4, SamePlan DEF OnlyTask, Same, Domains
  <2>7. \A x : Owes(t, x)'
    BY <2>3 DEF Owes
  <2>8. ASSUME NEW r \in Tasks, NEW x \in Places, Owes(r, x) PROVE Owes(r, x)'
    <3>1. CASE r = t
      BY <2>7, <3>1
    <3>2. CASE r # t
      BY <1>1, <2>6, <2>8, <3>2, StillOwes DEF OnlyTask, Same
    <3> QED BY <3>1, <3>2
  <2>9. PlacesInv' /\ place' \in [Places -> Contents]
    BY <1>0, <1>1, <1>4, <2>1, <2>7, <2>8, RemovedPlaces
  <2> QED BY <1>1, <2>5, <2>6, <2>9, OneTask
<1> QED BY <1>1, <1>7, <1>8, <1>9

-----------------------------------------------------------------------------
LEMMA NextInv ==
  ASSUME PlansAssumption, NoneAssumption, IInv, [Next]_vars
  PROVE  IInv'
<1>1. CASE UNCHANGED vars
  <2>1. plan' = plan /\ place' = place /\ before' = before /\ Tasks' = Tasks /\ Contents' = Contents
    BY <1>1, SamePlan DEF vars, Contents, Whole, Nothing, Old, Mixture
  <2>2. \A t \in Tasks : Same(t)
    BY <1>1 DEF vars, task, Same
  <2>3. GlobalTypes'
    BY <1>1, <2>1 DEF vars, task, IInv, GlobalTypes, Domains, Nothing, Old
  <2>4. ASSUME NEW t \in Tasks, NEW x \in Places, Owes(t, x) PROVE Owes(t, x)'
    BY <2>1, <2>2, <2>4, StillOwes DEF Same
  <2>5. PlacesInv'
    BY <1>1, <2>1, <2>4, QuietPlaces DEF vars, task, IInv
  <2>6. \A t \in Tasks : TaskInv(t)'
    BY <2>2, OtherTask DEF IInv
  <2> QED BY <2>1, <2>3, <2>5, <2>6 DEF IInv
<1>2. CASE Quit
  BY <1>2, QuitInv
<1>3. ASSUME NEW t \in Tasks,
             \/ Prepare(t) \/ PrepareFails(t) \/ StartWorkers(t) \/ Join(t)
             \/ Publish(t) \/ PublishEnds(t) \/ PublishFails(t) \/ Clean(t) \/ Finish(t) \/ Cancel(t)
      PROVE  IInv'
  BY <1>3, PrepareInv, PrepareFailsInv, StartWorkersInv, JoinInv, PublishInv, PublishEndsInv, PublishFailsInv,
     CleanInv, FinishInv, CancelInv
<1>4. ASSUME NEW t \in Tasks, NEW c \in DOMAIN worker[t], WorkerStep(t, c)
      PROVE  IInv'
  BY <1>4, TakeInv, LeaveInv, PieceDoneInv, PieceFailsInv, CommitAtOnceInv, LookInv, RemoveTargetInv, RenameInv,
     BreakInv DEF WorkerStep
<1> QED BY <1>1, <1>2, <1>3, <1>4 DEF Next

-----------------------------------------------------------------------------
\* What the invariant says of the types, of the places and of the tasks.
LEMMA Typed == ASSUME PlansAssumption, IInv PROVE TypeOK
<1>1. place \in [Places -> Contents] /\ plan \in Plans
  BY DEF IInv, GlobalTypes
<1>2. ASSUME NEW t \in Tasks
      PROVE  /\ pc[t] \in {"prepare", "work", "publish", "clean", "finish", "left", "quit"}
             /\ status[t] \in {"active", "success", "failed", "canceled"}
             /\ firstErr[t] \in {None, "canceled", "error"}
             /\ put[t] \subseteq DOMAIN Files(t) /\ removed[t] \subseteq Places
  BY DEF IInv, TaskInv, TaskTypes, Phases
<1>3. ASSUME NEW t \in Tasks, NEW i \in DOMAIN Files(t)
      PROVE  /\ todo[t][i] \in 0..Pieces(t, i) /\ pieces[t][i] \in 0..Pieces(t, i)
             /\ temp[t][i] = NoTemp \/ temp[t][i] \subseteq 1..Pieces(t, i)
  <2>1. Pieces(t, i) \in Nat
    BY <1>1, PlanFacts
  <2>2. /\ todo[t][i] \in 0..Pieces(t, i) /\ pieces[t][i] \in 0..Pieces(t, i)
        /\ temp[t][i] = NoTemp \/ temp[t][i] \subseteq 1..(Pieces(t, i) - todo[t][i])
    BY DEF IInv, TaskInv, TaskTypes, Gone
  <2>3. 1..(Pieces(t, i) - todo[t][i]) \subseteq 1..Pieces(t, i)
    BY <2>1, <2>2
  <2> QED BY <2>2, <2>3
<1> QED BY <1>1, <1>2, <1>3 DEF TypeOK, Contents

LEMMA NoUnannouncedLoss == ASSUME IInv PROVE LossIsAnnounced
<1> SUFFICES ASSUME NEW x \in Places
             PROVE  /\ place[x] # Mixture
                    /\ place[x] = Nothing /\ before[x] = Old =>
                         \E t \in Tasks : x \in removed[t] /\ status[t] # "success"
  BY DEF LossIsAnnounced
<1>1. ASSUME NEW t \in Tasks, x \in removed[t], Owes(t, x) PROVE status[t] # "success"
  <2>1. TaskInv(t)
    BY DEF IInv
  <2>2. Uploads(t)
    BY <1>1, <2>1 DEF TaskInv, Outcome
  <2>3. CASE firstErr[t] # None
    BY <2>1, <2>3 DEF TaskInv, InPhase
  <2>4. CASE pc[t] = "quit"
    BY <2>1, <2>2, <2>4 DEF TaskInv, InPhase
  <2>5. CASE \E c \in 1..plan[t].clients : worker[t][c].at = "rename"
    BY <2>1, <2>5 DEF TaskInv, InPhase
  <2> QED BY <1>1, <2>3, <2>4, <2>5 DEF Owes
<1> QED BY <1>1 DEF IInv, PlacesInv

LEMMA Delivers == ASSUME IInv PROVE DeliveredWhenDone
<1> SUFFICES ASSUME NEW t \in Tasks PROVE Delivered(t) /\ Tidy(t) /\ CanceledInTime(t)
  BY DEF DeliveredWhenDone
<1>1. TaskInv(t) /\ PlacesInv
  BY DEF IInv
<1>2. Tidy(t)
  BY <1>1 DEF TaskInv, Outcome
<1>3. CanceledInTime(t)
  BY <1>1 DEF TaskInv, InPhase, Outcome, CanceledInTime
<1>4. Delivered(t)
  <2> SUFFICES ASSUME status[t] = "success", NEW i \in DOMAIN Files(t)
               PROVE  /\ i \in put[t]
                      /\ place[Files(t)[i].place] = Whole(t, i) \/ Shared(t, Files(t)[i].place)
    BY DEF Delivered, Shared
  <2>1. i \in put[t]
    BY <1>1 DEF TaskInv, Outcome
  <2> QED BY <1>1, <2>1 DEF PlacesInv
<1> QED BY <1>2, <1>3, <1>4

\* The invariant is one of the specification.
THEOREM Invariance ==
  ASSUME PlansAssumption, NoneAssumption
  PROVE  Spec => []IInv
<1>1. Init => IInv
  BY InitInv
<1>2. IInv /\ [Next]_vars => IInv'
  BY NextInv
<1> QED BY <1>1, <1>2, PTL DEF Spec

\* The variables have the values the code gives them.
THEOREM TypeCorrect ==
  ASSUME PlansAssumption, NoneAssumption
  PROVE  Spec => []TypeOK
<1>1. IInv => TypeOK
  BY Typed
<1> QED BY <1>1, Invariance, PTL

\* sshfileupload.go 282-294 and 376-386, sshfiledownload.go 324-343: whoever stops
\* whatever when, there is never a file at its place with pieces missing, and
\* what was there is gone only by an upload that has not reported success.
THEOREM LossAnnounced ==
  ASSUME PlansAssumption, NoneAssumption
  PROVE  Spec => []LossIsAnnounced
<1>1. IInv => LossIsAnnounced
  BY NoUnannouncedLoss
<1> QED BY <1>1, Invariance, PTL

\* A task that reports success has put every file at its place, whole; one
\* that is over has left no temporary file, unless it is an upload that lost
\* the connection that removes them; and a download that is reported as
\* canceled has not touched anything.
THEOREM Delivery ==
  ASSUME PlansAssumption, NoneAssumption
  PROVE  Spec => []DeliveredWhenDone
<1>1. IInv => DeliveredWhenDone
  BY Delivers
<1> QED BY <1>1, Invariance, PTL
=============================================================================
