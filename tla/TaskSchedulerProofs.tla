------------------------ MODULE TaskSchedulerProofs ------------------------
(***************************************************************************)
(* Proofs about TaskScheduler for every set of callers and every set of    *)
(* integers the settings may ask for.                                      *)
(*                                                                         *)
(* NoLostWakeup is not inductive by itself: to know that a Release leaves  *)
(* room one needs that `active` counts the holders (SlotAccounting), which *)
(* needs that there are finitely many of them.                             *)
(***************************************************************************)
EXTENDS TaskScheduler, FiniteSetTheorems, TLAPS

IInv ==
  /\ TypeOK
  /\ IsFiniteSet(Holders)
  /\ SlotAccounting
  /\ NoLostWakeup

-----------------------------------------------------------------------------
\* Whatever integer SetLimit is given, the limit stays in 1..16.
LEMMA ClampRange ==
  ASSUME NEW v \in Int
  PROVE  clampTaskLimit(v) \in MinLimit..MaxLimit
  BY DEF clampTaskLimit, MinLimit, MaxLimit

\* How the set of holders changes when the program counter of one caller
\* moves: it gains the caller, loses it, or stays.
LEMMA HoldersMove ==
  ASSUME pc \in [Callers -> PC], NEW c \in Callers, NEW p \in PC,
         pc' = [pc EXCEPT ![c] = p]
  PROVE  /\ p = "held"  => Holders' = Holders \cup {c}
         /\ p # "held" => Holders' = Holders \ {c}
  BY DEF Holders

\* The invariant holds initially.
LEMMA InitIInv == Init => IInv
<1> SUFFICES ASSUME Init PROVE IInv
  OBVIOUS
<1>1. Holders = {} /\ Sleepers = {}
  BY DEF Init, Holders, Sleepers
<1>2. limit \in MinLimit..MaxLimit
  BY ClampRange, LimitRequestsAssumption DEF Init
<1>3. TypeOK
  BY <1>2 DEF Init, TypeOK, PC
<1>4. IsFiniteSet(Holders) /\ SlotAccounting
  BY <1>1, FS_EmptySet DEF Init, SlotAccounting
<1>5. NoLostWakeup
  BY <1>1 DEF NoLostWakeup
<1> QED
  BY <1>3, <1>4, <1>5 DEF IInv

\* The invariant is inductive; one step per action.
LEMMA StepIInv == IInv /\ [Next]_vars => IInv'
<1> SUFFICES ASSUME IInv, [Next]_vars PROVE IInv'
  OBVIOUS
<1> USE DEF MinLimit, MaxLimit
<1>1. ASSUME NEW v \in LimitRequests, SetLimit(v) PROVE IInv'
  <2>1. limit' \in MinLimit..MaxLimit
    BY <1>1, ClampRange, LimitRequestsAssumption DEF SetLimit, Resize
  <2>2. Holders' = Holders /\ Sleepers' = Sleepers /\ signalled' = Sleepers
    BY <1>1 DEF SetLimit, Resize, Broadcast, Holders, Sleepers
  <2> QED
    BY <1>1, <2>1, <2>2 DEF SetLimit, Resize, IInv, TypeOK, SlotAccounting, NoLostWakeup
<1>2. ASSUME NEW c \in Callers, Call(c) PROVE IInv'
  <2>1. Holders' = Holders
    BY <1>2, HoldersMove DEF Call, IInv, TypeOK, PC, Holders
  <2>2. Sleepers' = Sleepers
    BY <1>2 DEF Call, IInv, TypeOK, Sleepers
  <2> QED
    BY <1>2, <2>1, <2>2 DEF Call, IInv, TypeOK, PC, SlotAccounting, NoLostWakeup
<1>3. ASSUME NEW c \in Callers, TakeSlot(c) PROVE IInv'
  <2>1. Holders' = Holders \cup {c} /\ c \notin Holders
    BY <1>3, HoldersMove DEF TakeSlot, Admit, IInv, TypeOK, PC, Holders
  <2>2. IsFiniteSet(Holders') /\ SlotAccounting'
    BY <1>3, <2>1, FS_AddElement DEF TakeSlot, Admit, IInv, TypeOK, SlotAccounting
  <2>3. Sleepers' = Sleepers
    BY <1>3 DEF TakeSlot, Admit, IInv, TypeOK, Sleepers
  <2>4. TypeOK'
    BY <1>3, <2>3 DEF TakeSlot, Admit, IInv, TypeOK, PC
  <2>5. NoLostWakeup'
    BY <1>3, <2>3 DEF TakeSlot, Admit, IInv, TypeOK, NoLostWakeup
  <2> QED
    BY <2>2, <2>4, <2>5 DEF IInv
<1>4. ASSUME NEW c \in Callers, Sleep(c) PROVE IInv'
  <2>1. Holders' = Holders
    BY <1>4, HoldersMove DEF Sleep, IInv, TypeOK, PC, Holders
  <2>2. Sleepers' = Sleepers \cup {c}
    BY <1>4 DEF Sleep, IInv, TypeOK, Sleepers
  <2> QED
    BY <1>4, <2>1, <2>2 DEF Sleep, IInv, TypeOK, PC, SlotAccounting, NoLostWakeup
<1>5. ASSUME NEW c \in Callers, WakeUp(c) PROVE IInv'
  <2>1. Holders' = Holders
    BY <1>5, HoldersMove DEF WakeUp, IInv, TypeOK, PC, Holders
  <2>2. Sleepers' = Sleepers \ {c}
    BY <1>5 DEF WakeUp, IInv, TypeOK, Sleepers
  <2> QED
    BY <1>5, <2>1, <2>2 DEF WakeUp, IInv, TypeOK, PC, SlotAccounting, NoLostWakeup
<1>6. ASSUME NEW c \in Callers, GiveUp(c) PROVE IInv'
  <2>1. Holders' = Holders
    BY <1>6, HoldersMove DEF GiveUp, IInv, TypeOK, PC, Holders
  <2>2. Sleepers' = Sleepers \ {c}
    BY <1>6 DEF GiveUp, IInv, TypeOK, Sleepers
  <2> QED
    BY <1>6, <2>1, <2>2 DEF GiveUp, IInv, TypeOK, PC, SlotAccounting, NoLostWakeup
<1>7. ASSUME NEW c \in Callers, Release(c) PROVE IInv'
  <2>1. Holders' = Holders \ {c} /\ c \in Holders
    BY <1>7, HoldersMove DEF Release, FreeSlot, IInv, TypeOK, PC, Holders
  <2>2. /\ IsFiniteSet(Holders')
        /\ Cardinality(Holders') = Cardinality(Holders) - 1
        /\ Cardinality(Holders) \in Nat /\ Cardinality(Holders) > 0
    BY <2>1, FS_RemoveElement, FS_EmptySet, FS_CardinalityType DEF IInv
  <2>3. SlotAccounting' /\ active' \in Nat
    BY <1>7, <2>2 DEF Release, FreeSlot, IInv, SlotAccounting
  <2>4. Sleepers' = Sleepers /\ signalled' = Sleepers
    BY <1>7 DEF Release, FreeSlot, Broadcast, IInv, TypeOK, Sleepers
  <2>5. TypeOK'
    BY <1>7, <2>3, <2>4 DEF Release, FreeSlot, IInv, TypeOK, PC
  <2>6. NoLostWakeup'
    BY <2>4 DEF NoLostWakeup
  <2> QED
    BY <2>2, <2>3, <2>5, <2>6 DEF IInv
<1>8. ASSUME NEW cs \in SUBSET Callers, Cancel(cs) PROVE IInv'
  <2>1. Holders' = Holders /\ Sleepers' = Sleepers
    BY <1>8 DEF Cancel, Holders, Sleepers
  <2> QED
    BY <1>8, <2>1 DEF Cancel, IInv, TypeOK, SlotAccounting, NoLostWakeup
<1>9. ASSUME NEW c \in Callers, Renew(c) PROVE IInv'
  <2>1. Holders' = Holders
    BY <1>9, HoldersMove DEF Renew, IInv, TypeOK, PC, Holders
  <2>2. Sleepers' = Sleepers
    BY <1>9 DEF Renew, IInv, TypeOK, Sleepers
  <2> QED
    BY <1>9, <2>1, <2>2 DEF Renew, IInv, TypeOK, PC, SlotAccounting, NoLostWakeup
<1>10. CASE UNCHANGED vars
  BY <1>10 DEF vars, IInv, TypeOK, SlotAccounting, NoLostWakeup, Holders, Sleepers
<1> QED
  BY <1>1, <1>2, <1>3, <1>4, <1>5, <1>6, <1>7, <1>8, <1>9, <1>10 DEF Next

-----------------------------------------------------------------------------
\* The invariant holds always.
LEMMA IInvAlways == Spec => []IInv
  BY InitIInv, StepIInv, PTL DEF Spec

\* Every variable keeps its type; in particular the limit in force is
\* always between 1 and 16, whatever the settings ask for.
THEOREM TypeCorrect == Spec => []TypeOK
  BY IInvAlways, PTL DEF IInv

\* The counter equals the number of goroutines that own a slot.
THEOREM SlotsAccounted == Spec => []SlotAccounting
  BY IInvAlways, PTL DEF IInv

\* Nobody sleeps on an open channel while a slot is free.
THEOREM WakeupsNotLost == Spec => []NoLostWakeup
  BY IInvAlways, PTL DEF IInv

\* Every step of the lock, the counter and the channel is a step of the
\* pool of slots or leaves it alone.
LEMMA StepRefines == IInv /\ [Next]_vars => [Pool!Next]_(Pool!vars)
<1> SUFFICES ASSUME IInv, [Next]_vars PROVE [Pool!Next]_(Pool!vars)
  OBVIOUS
<1> USE DEF MinLimit, MaxLimit, Pool!MinLimit, Pool!MaxLimit
<1>1. ASSUME NEW v \in LimitRequests, SetLimit(v) PROVE Pool!Resize
  BY <1>1, ClampRange, LimitRequestsAssumption DEF SetLimit, Resize, Pool!Resize, Holders
<1>2. ASSUME NEW c \in Callers, TakeSlot(c) PROVE Pool!Admit(c)
  <2>1. Pool!Cardinality(Holders) = Cardinality(Holders)
    BY DEF Pool!Cardinality, Cardinality
  <2> QED
    BY <1>2, <2>1, HoldersMove
       DEF TakeSlot, Admit, Pool!Admit, IInv, TypeOK, PC, SlotAccounting, Holders
<1>3. ASSUME NEW c \in Callers, Release(c) PROVE Pool!Leave(c)
  BY <1>3, HoldersMove DEF Release, FreeSlot, Pool!Leave, IInv, TypeOK, PC, Holders
<1>4. ASSUME NEW c \in Callers,
             Call(c) \/ Sleep(c) \/ WakeUp(c) \/ GiveUp(c) \/ Renew(c)
      PROVE  UNCHANGED Pool!vars
  BY <1>4, HoldersMove
     DEF Call, Sleep, WakeUp, GiveUp, Renew, Pool!vars, IInv, TypeOK, PC, Holders
<1>6. ASSUME NEW cs \in SUBSET Callers, Cancel(cs) PROVE UNCHANGED Pool!vars
  BY <1>6 DEF Cancel, Pool!vars, Holders
<1>5. CASE UNCHANGED vars
  BY <1>5 DEF vars, Pool!vars, Holders
<1> QED
  BY <1>1, <1>2, <1>3, <1>4, <1>5, <1>6 DEF Next, Pool!Next

\* The limiter implements the pool of slots: admission only below the limit
\* in force, and a resize that evicts nobody.
THEOREM Refinement == Spec => ImplementsSlotPool
<1>1. Init => Pool!Init
  <2> SUFFICES ASSUME Init PROVE Pool!Init
    OBVIOUS
  <2>1. Holders = {}
    BY DEF Init, Holders
  <2>2. limit \in MinLimit..MaxLimit
    BY ClampRange, LimitRequestsAssumption DEF Init
  <2> QED
    BY <2>1, <2>2 DEF Pool!Init, Pool!MinLimit, Pool!MaxLimit, MinLimit, MaxLimit
<1> QED
  BY <1>1, StepRefines, IInvAlways, PTL DEF Spec, ImplementsSlotPool, Pool!Spec
=============================================================================
