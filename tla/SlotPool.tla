------------------------------ MODULE SlotPool ------------------------------
(***************************************************************************)
(* What the background-task limiter of TinkerKit promises its two users,   *)
(* the FileService and the ImageService (taskscheduler.go, line 8: it      *)
(* limits user-initiated background tasks; a change of the limit concerns  *)
(* only tasks that queue afterwards and never interrupts a running one).   *)
(* No counter, no lock, no channel: a set of holders and a limit.          *)
(***************************************************************************)
EXTENDS Integers, FiniteSets

CONSTANT Callers    \* the goroutines that may ask for a slot

MinLimit == 1
MaxLimit == 16

VARIABLES holders,  \* the callers that own a slot
          limit     \* the limit in force

vars == <<holders, limit>>

TypeOK ==
  /\ holders \subseteq Callers
  /\ limit \in MinLimit..MaxLimit

Init ==
  /\ holders = {}
  /\ limit \in MinLimit..MaxLimit

\* A newcomer is admitted only below the limit in force at that moment.
Admit(c) ==
  /\ c \notin holders
  /\ Cardinality(holders) < limit
  /\ holders' = holders \cup {c}
  /\ UNCHANGED limit

Leave(c) ==
  /\ c \in holders
  /\ holders' = holders \ {c}
  /\ UNCHANGED limit

\* Resizing touches nobody that already runs, even when it leaves more
\* holders than the new limit.
Resize ==
  /\ limit' \in MinLimit..MaxLimit
  /\ UNCHANGED holders

Next == Resize \/ \E c \in Callers : Admit(c) \/ Leave(c)

Spec == Init /\ [][Next]_vars
=============================================================================
