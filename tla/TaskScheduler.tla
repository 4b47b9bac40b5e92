--------------------------- MODULE TaskScheduler ---------------------------
(***************************************************************************)
(* taskscheduler.go: the limiter of concurrent background tasks.           *)
(*                                                                         *)
(* The Go type keeps, under one mutex, the number of active tasks, the     *)
(* limit and a channel `changed`.  A caller that finds no slot takes the   *)
(* current channel while it still holds the mutex and sleeps on it; every  *)
(* Release and every SetLimit closes that channel and installs a fresh     *)
(* one, so all sleepers wake up and compete again (nothing is FIFO).       *)
(*                                                                         *)
(* A channel is never reopened, and only the current one is open, so all   *)
(* that matters of the channel a sleeper holds is whether it was closed    *)
(* since: `signalled` is the set of the sleepers whose channel was.        *)
(***************************************************************************)
EXTENDS Integers, FiniteSets

CONSTANTS Callers,        \* goroutines that run a background task
          LimitRequests   \* values the settings may pass to SetLimit

ASSUME LimitRequestsAssumption == LimitRequests \subseteq Int

MinLimit == 1
MaxLimit == 16

VARIABLES active,      \* s.active
          limit,       \* s.limit
          pc,          \* where each caller is in Acquire ... Release
          signalled,   \* the sleepers whose channel has been closed
          ctxDone      \* the callers whose context is done

vars == <<active, limit, pc, signalled, ctxDone>>

\* "trying": about to take the mutex in Acquire; "waiting": in the select;
\* "held": Acquire returned nil; "refused": Acquire returned ctx.Err().
PC == {"idle", "trying", "waiting", "held", "refused"}

Holders  == {c \in Callers : pc[c] = "held"}
Sleepers == {c \in Callers : pc[c] = "waiting"}
Wants(c) == pc[c] \in {"trying", "waiting"}

clampTaskLimitNoFloor(value) == IF value > MaxLimit THEN MaxLimit ELSE value
clampTaskLimit(value) ==
  IF value < MinLimit THEN MinLimit
  ELSE IF value > MaxLimit THEN MaxLimit ELSE value

Init ==
  /\ active = 0
  /\ limit \in {clampTaskLimit(v) : v \in LimitRequests}
  /\ pc = [c \in Callers |-> "idle"]
  /\ signalled = {}
  /\ ctxDone = {}

\* close(s.changed); s.changed = make(chan struct{})
Broadcast == signalled' = Sleepers

(***************************************************************************)
(* Next to some actions stands, under a telling name, the form a careless  *)
(* edit could give them (TakeSlotAtLimit, ReleaseSilently ...).  Next does *)
(* not use these; they serve to show that the properties notice.           *)
(*                                                                         *)
(* Acquire: the caller enters, looks under the mutex, and either owns a    *)
(* slot or sleeps on the channel it read in the same critical section.     *)
(***************************************************************************)
Call(c) ==
  /\ pc[c] = "idle"
  /\ pc' = [pc EXCEPT ![c] = "trying"]
  /\ UNCHANGED <<active, limit, signalled, ctxDone>>

Admit(c) ==
  /\ pc[c] = "trying"
  /\ active' = active + 1
  /\ pc' = [pc EXCEPT ![c] = "held"]
  /\ UNCHANGED <<limit, signalled, ctxDone>>

\* The admission test ignores the context: a free slot is taken even by a
\* caller whose context is already done.
TakeSlotAtLimit(c) == active <= limit /\ Admit(c)
TakeSlot(c) == active < limit /\ Admit(c)

Sleep(c) ==
  /\ pc[c] = "trying"
  /\ active >= limit
  /\ pc' = [pc EXCEPT ![c] = "waiting"]
  /\ UNCHANGED <<active, limit, signalled, ctxDone>>

\* select, case <-changed: back to the top of the loop.
WakeUp(c) ==
  /\ pc[c] = "waiting"
  /\ c \in signalled
  /\ pc' = [pc EXCEPT ![c] = "trying"]
  /\ signalled' = signalled \ {c}
  /\ UNCHANGED <<active, limit, ctxDone>>

\* select, case <-ctx.Done(): Acquire returns the context's error.
GiveUpNever(c) == FALSE /\ UNCHANGED vars
GiveUp(c) ==
  /\ pc[c] = "waiting"
  /\ c \in ctxDone
  /\ pc' = [pc EXCEPT ![c] = "refused"]
  /\ signalled' = signalled \ {c}
  /\ UNCHANGED <<active, limit, ctxDone>>

FreeSlot(c) ==
  /\ pc[c] = "held"
  /\ active' = IF active > 0 THEN active - 1 ELSE active
  /\ pc' = [pc EXCEPT ![c] = "idle"]
  /\ UNCHANGED <<limit, ctxDone>>

ReleaseSilently(c) == FreeSlot(c) /\ UNCHANGED signalled
Release(c) == FreeSlot(c) /\ Broadcast

Resize(value) == limit' = clampTaskLimit(value) /\ UNCHANGED <<active, pc, ctxDone>>

SetLimitSilently(value) == Resize(value) /\ UNCHANGED signalled
SetLimit(value) == Resize(value) /\ Broadcast

(***************************************************************************)
(* The owners of the tasks: a context may be cancelled, or expire, at any  *)
(* time, for all the callers that share it; and a caller that was refused, *)
(* or that finished, comes back with a new one.                            *)
(***************************************************************************)
Cancel(cs) ==
  /\ ctxDone' = ctxDone \cup cs
  /\ UNCHANGED <<active, limit, pc, signalled>>

Renew(c) ==
  /\ pc[c] \in {"idle", "refused"}
  /\ pc' = [pc EXCEPT ![c] = "idle"]
  /\ ctxDone' = ctxDone \ {c}
  /\ UNCHANGED <<active, limit, signalled>>

Next ==
  \/ \E v \in LimitRequests : SetLimit(v)
  \/ \E c \in Callers :
       Call(c) \/ TakeSlot(c) \/ Sleep(c) \/ WakeUp(c) \/ GiveUp(c)
         \/ Release(c) \/ Renew(c)
  \/ \E cs \in SUBSET Callers : Cancel(cs)

\* Goroutines that can run do run.  Go's select picks at random among its
\* ready cases, so a caller whose context stays done does not take the
\* other case for ever: that branch is strongly fair.  Nothing makes a
\* holder release: a task may run as long as it likes.
Fairness ==
  \A c \in Callers :
    /\ WF_vars(TakeSlot(c) \/ Sleep(c))
    /\ WF_vars(WakeUp(c))
    /\ SF_vars(GiveUp(c))

Spec == Init /\ [][Next]_vars /\ Fairness

-----------------------------------------------------------------------------
TypeOK ==
  /\ active \in Nat
  /\ limit \in MinLimit..MaxLimit
  /\ pc \in [Callers -> PC]
  /\ signalled \subseteq Sleepers
  /\ ctxDone \subseteq Callers

\* The counter of taskscheduler.go agrees with the goroutines that really
\* own a slot, so the `if s.active > 0` of Release never hides a double
\* release and a slot is never lost on any path.
SlotAccounting == active = Cardinality(Holders)

\* No wake-up is lost: a caller asleep on a channel nobody has closed yet
\* is asleep because there is no slot.  It holds because Acquire reads the
\* channel in the critical section that found the pool full, and because
\* Release and SetLimit both close it (taskscheduler.go 46-54, 31-39,
\* 63-73).
NoLostWakeup == Sleepers \ signalled # {} => active >= limit

\* The lock, counter and channel implement the pool of slots: nobody is
\* admitted at or above the limit, and resizing evicts nobody.
Pool == INSTANCE SlotPool WITH holders <- Holders
ImplementsSlotPool == Pool!Spec

\* A caller does not stay outside while slots stay free.
SlotNotWithheld ==
  \A c \in Callers :
    (Wants(c) /\ active < limit) ~> (~Wants(c) \/ active >= limit)

\* A queued task whose context is done leaves the queue, by being refused
\* or by getting a slot after all, whatever the other tasks do.
CanceledCallerLeaves ==
  \A c \in Callers :
    (pc[c] = "waiting" /\ c \in ctxDone) ~> ~Wants(c)
=============================================================================
