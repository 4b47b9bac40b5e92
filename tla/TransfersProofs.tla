-------------------------- MODULE TransfersProofs --------------------------
(***************************************************************************)
(* That whatever is copied, moved, carried or retagged is neither lost     *)
(* unannounced nor reported as done when it is not, for any tree, plan,    *)
(* number of items, tasks, pieces, tags and requests.                      *)
(*                                                                         *)
(* One section for each instance of Transfers, with the invariant of its   *)
(* state, the steps that keep it and what it implies; the last section     *)
(* puts them together.                                                     *)
(***************************************************************************)
EXTENDS Transfers, FiniteSetTheorems, WellFoundedInduction, TLAPS

\* Each instance has operators of its own for what is a finite set.
LEMMA FiniteIs ==
  /\ \A S : Host!IsFiniteSet(S) <=> IsFiniteSet(S)
  /\ \A S : Exports!IsFiniteSet(S) <=> IsFiniteSet(S)
  /\ \A S : Host!Cardinality(S) = Cardinality(S)
  /\ \A S : Exports!Cardinality(S) = Cardinality(S)
BY DEF Host!IsFiniteSet, Exports!IsFiniteSet, IsFiniteSet, Host!Cardinality, Exports!Cardinality, Cardinality

-----------------------------------------------------------------------------
(***************************************************************************)
(* The sessions with hosts, for every set of calls, sources, connections   *)
(* and sessions.                                                           *)
(*                                                                         *)
(* The counter of a session decides who closes it, so the invariant says   *)
(* what it counts: the calls that keep the session, which are those that   *)
(* borrow it and the one that has dialled it and not yet installed it.     *)
(* The rest is where a session can be: with one call before it is          *)
(* installed, in the map for one source, retired with its borrowers, or    *)
(* on its way to being closed, and never two of these at once.             *)
(***************************************************************************)
Keeping == {"install", "using", "drop", "release"}
Keepers(s) == {c \in Calls : held[c] = s /\ pc[c] \in Keeping}
Closers(s) == {c \in Calls : closing[c] = s}

\* session.refs counts the calls that keep the session while it is open.  (A
\* call that joins another session closes its own with the count at 1.)
Counted(s) == closes[s] = 0 /\ ~AboutToClose(s) => refs[s] = Cardinality(Keepers(s))
RefsCount == \A s \in Sessions : IsFiniteSet(Keepers(s)) /\ Counted(s)

\* A call that keeps a session keeps one for the connection it wanted, and
\* only the map entry of its own source can hold it.
KeptIsWanted ==
  \A c \in Calls : pc[c] \in Keeping =>
    /\ held[c] \in Sessions /\ connection[held[c]] = wanted[c]
    /\ \A x \in Sources : sessions[x] = held[c] => x = source[c]

\* A session that is being installed belongs to one call and is nowhere else.
InstallingAlone ==
  \A c \in Calls : pc[c] = "install" =>
    /\ ~retired[held[c]]
    /\ \A x \in Sources : sessions[x] # held[c]
    /\ \A d \in Calls : pc[d] \in Keeping /\ held[d] = held[c] => d = c

\* A borrowed session is in the map or has been retired.
BorrowedIsCached ==
  \A c \in Calls : pc[c] \in {"using", "drop", "release"} =>
    Cached(held[c]) \/ retired[held[c]]

\* The map holds open sessions, each for one source.
CachedIsOpen ==
  \A x \in Sources : sessions[x] # None =>
    /\ connection[sessions[x]] # None
    /\ ~retired[sessions[x]]
    /\ closes[sessions[x]] = 0 /\ \A c \in Calls : closing[c] # sessions[x]
    /\ \A y \in Sources : sessions[y] = sessions[x] => y = x

\* What is kept is open, and nobody is about to close it.
KeptIsOpen ==
  \A c \in Calls : pc[c] \in Keeping =>
    closes[held[c]] = 0 /\ \A d \in Calls : closing[d] # held[c]

\* A session is closed by one call, once.
ClosedOnce ==
  /\ \A s \in Sessions : closes[s] \in {0, 1}
  /\ \A c, d \in Calls : closing[c] # None =>
       /\ connection[closing[c]] # None /\ closes[closing[c]] = 0
       /\ closing[d] = closing[c] => d = c

\* Calls close what they were told to before they go on.
ClosingIsDone ==
  \A c \in Calls : pc[c] \in {"idle", "lookup", "dialing", "install", "drop"} => closing[c] = None

\* An identity that has not been used has left no trace.
FreshIsUnused ==
  \A s \in Sessions : connection[s] = None => closes[s] = 0 /\ ~retired[s]

\* A session that is open is in the map, kept, or about to be closed.
NotForgotten ==
  \A s \in Sessions : connection[s] # None =>
    closes[s] # 0 \/ Cached(s) \/ Keepers(s) # {} \/ AboutToClose(s)

IInv ==
  /\ TypeOK
  /\ RefsCount /\ KeptIsWanted /\ InstallingAlone /\ BorrowedIsCached
  /\ CachedIsOpen /\ KeptIsOpen /\ ClosedOnce /\ ClosingIsDone
  /\ FreshIsUnused /\ NotForgotten

-----------------------------------------------------------------------------
\* The count of a session that a call keeps is at least 1, and exactly 1 if
\* no other call keeps it.
LEMMA KeptIsCounted ==
  ASSUME IInv, NEW c \in Calls, pc[c] \in Keeping
  PROVE  /\ held[c] \in Sessions /\ c \in Keepers(held[c])
         /\ refs[held[c]] = Cardinality(Keepers(held[c]))
         /\ refs[held[c]] \in Nat \ {0}
         /\ refs[held[c]] = 1 <=> Keepers(held[c]) = {c}
<1> DEFINE K == Keepers(held[c])
<1>1. held[c] \in Sessions /\ c \in K
  BY DEF IInv, KeptIsWanted, Keepers
<1>2. IsFiniteSet(K) /\ refs[held[c]] = Cardinality(K)
  BY <1>1 DEF IInv, RefsCount, Counted, KeptIsOpen, AboutToClose
<1>3. refs[held[c]] \in Nat /\ refs[held[c]] # 0
  BY <1>1, <1>2, FS_EmptySet DEF IInv, TypeOK
<1>4. refs[held[c]] = 1 <=> K = {c}
  <2> HIDE DEF K
  <2> QED
    BY <1>1, <1>2, FS_Singleton
<1> QED
  BY <1>1, <1>2, <1>3, <1>4

\* A session whose count is 0, while it is open, is kept by nobody.
LEMMA UnusedIsKeptByNobody ==
  ASSUME IInv, NEW s \in Sessions, refs[s] = 0
  PROVE  Keepers(s) = {}
<1> SUFFICES ASSUME NEW c \in Keepers(s) PROVE FALSE
  OBVIOUS
<1>1. c \in Calls /\ pc[c] \in Keeping /\ held[c] = s
  BY DEF Keepers
<1> QED
  BY <1>1, KeptIsCounted

\* The invariant holds initially.
LEMMA InitIInv == Init => IInv
<1> SUFFICES ASSUME Init PROVE IInv
  OBVIOUS
<1>1. \A s \in Sessions : Keepers(s) = {}
  BY DEF Init, Keepers, Keeping
<1>2. TypeOK
  BY DEF Init, TypeOK, Phase
<1>3. RefsCount
  BY <1>1, FS_EmptySet DEF Init, RefsCount, Counted
<1>4. /\ KeptIsWanted /\ InstallingAlone /\ BorrowedIsCached /\ CachedIsOpen
      /\ KeptIsOpen /\ ClosedOnce /\ ClosingIsDone /\ FreshIsUnused /\ NotForgotten
  BY DEF Init, KeptIsWanted, InstallingAlone, BorrowedIsCached, CachedIsOpen, KeptIsOpen,
         ClosedOnce, ClosingIsDone, FreshIsUnused, NotForgotten, Keeping
<1> QED
  BY <1>2, <1>3, <1>4 DEF IInv

\* How the keepers of the sessions change when one call moves.
LEMMA KeepersMove ==
  ASSUME TypeOK, NEW c \in Calls, NEW p \in Phase, NEW h, 
         pc' = [pc EXCEPT ![c] = p], held' = [held EXCEPT ![c] = h], NEW s
  PROVE  Keepers(s)' = IF p \in Keeping /\ h = s THEN Keepers(s) \cup {c} ELSE Keepers(s) \ {c}
  BY DEF TypeOK, Keepers

\* A step that moves one call and leaves the sessions alone keeps the
\* invariant if the call keeps what it kept.
LEMMA PoolUntouched ==
  ASSUME IInv, NEW c \in Calls, NEW p \in Phase, UNCHANGED pool, UNCHANGED held,
         TypeOK', UNCHANGED closing, pc' = [pc EXCEPT ![c] = p],
         p \in Keeping <=> pc[c] \in Keeping, p # "install" /\ pc[c] # "install",
         p \in {"idle", "lookup", "dialing", "drop"} => closing[c] = None,
         pc[c] \in Keeping => UNCHANGED <<source, wanted>>,
         \A d \in Calls \ {c} : source'[d] = source[d] /\ wanted'[d] = wanted[d]
  PROVE  IInv'
<1>1. \A s : Keepers(s)' = Keepers(s)
  BY DEF IInv, TypeOK, Keepers
<1>2. RefsCount'
  BY <1>1 DEF IInv, RefsCount, Counted, AboutToClose, pool
<1>3. NotForgotten'
  BY <1>1 DEF IInv, NotForgotten, Cached, AboutToClose, pool
<1>4. KeptIsWanted' /\ InstallingAlone' /\ BorrowedIsCached'
  BY DEF IInv, TypeOK, KeptIsWanted, InstallingAlone, BorrowedIsCached, Cached, Keeping, pool
<1>5. CachedIsOpen' /\ KeptIsOpen' /\ ClosedOnce' /\ ClosingIsDone' /\ FreshIsUnused'
  BY DEF IInv, TypeOK, CachedIsOpen, KeptIsOpen, ClosedOnce, ClosingIsDone, FreshIsUnused, Keeping, pool
<1> QED
  BY <1>2, <1>3, <1>4, <1>5 DEF IInv

\* A call that borrows the session in the map is counted.
LEMMA LookupStep ==
  ASSUME IInv, NEW c \in Calls, Lookup(c) PROVE IInv'
<1> DEFINE s == sessions[source[c]]
<1>1. CASE ~Usable(c)
  <2>1. TypeOK'
    BY <1>1 DEF IInv, TypeOK, Lookup, GoTo, Phase
  <2> QED
    BY <1>1, <2>1, PoolUntouched DEF Lookup, GoTo, IInv, ClosingIsDone, Phase, Keeping, pool
<1>2. CASE Usable(c)
  <2>1. /\ pc[c] = "lookup" /\ s \in Sessions /\ connection[s] = wanted[c] /\ ~retired[s]
        /\ refs' = [refs EXCEPT ![s] = @ + 1]
        /\ held' = [held EXCEPT ![c] = s] /\ pc' = [pc EXCEPT ![c] = "using"]
        /\ UNCHANGED <<settings, sessions, connection, retired, closes, source, wanted, closing>>
    BY <1>2 DEF IInv, TypeOK, Lookup, Usable, Borrow, GoTo
  <2>2. closes[s] = 0 /\ \A d \in Calls : closing[d] # s
    BY <2>1, NoneAssumption DEF IInv, TypeOK, CachedIsOpen
  <2>3. TypeOK'
    BY <2>1 DEF IInv, TypeOK, Phase
  <2>4. /\ c \notin Keepers(s)
        /\ \A r \in Sessions : Keepers(r)' = IF r = s THEN Keepers(r) \cup {c} ELSE Keepers(r)
    BY <2>1 DEF IInv, TypeOK, Keepers, Keeping
  <2>5. RefsCount'
    BY <2>1, <2>4, FS_AddElement DEF IInv, TypeOK, RefsCount, Counted, AboutToClose
  <2>6. KeptIsWanted'
    BY <2>1, NoneAssumption DEF IInv, TypeOK, KeptIsWanted, CachedIsOpen, Keeping
  <2>7. InstallingAlone' /\ BorrowedIsCached'
    BY <2>1 DEF IInv, TypeOK, InstallingAlone, BorrowedIsCached, Cached, Keeping
  <2>8. CachedIsOpen' /\ KeptIsOpen' /\ ClosedOnce' /\ ClosingIsDone' /\ FreshIsUnused'
    BY <2>1, <2>2 DEF IInv, TypeOK, CachedIsOpen, KeptIsOpen, ClosedOnce, ClosingIsDone, FreshIsUnused
  <2>9. NotForgotten'
    BY <2>1, <2>4 DEF IInv, TypeOK, NotForgotten, Cached, AboutToClose
  <2> QED
    BY <2>3, <2>5, <2>6, <2>7, <2>8, <2>9 DEF IInv
<1> QED
  BY <1>1, <1>2

\* A session that has just been dialled is kept by the call that dialled it.
LEMMA DialedStep ==
  ASSUME IInv, NEW c \in Calls, Dialed(c) PROVE IInv'
<1>1. PICK s \in Fresh :
        /\ connection' = [connection EXCEPT ![s] = wanted[c]]
        /\ refs' = [refs EXCEPT ![s] = 1]
        /\ held' = [held EXCEPT ![c] = s]
  BY DEF Dialed
<1>2. /\ pc[c] = "dialing" /\ pc' = [pc EXCEPT ![c] = "install"]
      /\ s \in Sessions /\ connection[s] = None /\ wanted[c] # None
      /\ UNCHANGED <<settings, sessions, retired, closes, source, wanted, closing>>
  BY <1>1, NoneAssumption DEF Dialed, GoTo, Fresh, IInv, TypeOK
<1>3. /\ closes[s] = 0 /\ ~retired[s] /\ \A d \in Calls : closing[d] # s
      /\ \A x \in Sources : sessions[x] # s
      /\ \A d \in Calls : pc[d] \in Keeping => held[d] # s
  BY <1>2, NoneAssumption DEF IInv, TypeOK, FreshIsUnused, ClosedOnce, CachedIsOpen, KeptIsWanted
<1>4. TypeOK'
  BY <1>1, <1>2 DEF IInv, TypeOK, Phase
<1>5. /\ Keepers(s) = {}
      /\ \A r \in Sessions : Keepers(r)' = IF r = s THEN {c} ELSE Keepers(r)
  BY <1>1, <1>2, <1>3 DEF IInv, TypeOK, Keepers, Keeping
<1>6. RefsCount'
  <2> SUFFICES ASSUME NEW r \in Sessions PROVE IsFiniteSet(Keepers(r)') /\ Counted(r)'
    BY DEF RefsCount
  <2>1. CASE r = s
    <3>1. Keepers(r)' = {c} /\ refs'[r] = 1
      BY <1>1, <1>5, <2>1 DEF IInv, TypeOK
    <3> QED
      BY <3>1, FS_Singleton DEF Counted
  <2>2. CASE r # s
    <3>1. Keepers(r)' = Keepers(r) /\ refs'[r] = refs[r] /\ closes' = closes /\ closing' = closing
      BY <1>1, <1>2, <1>5, <2>2 DEF IInv, TypeOK
    <3> QED
      BY <3>1 DEF IInv, RefsCount, Counted, AboutToClose
  <2> QED
    BY <2>1, <2>2
<1>7. KeptIsWanted'
  BY <1>1, <1>2, <1>3 DEF IInv, TypeOK, KeptIsWanted, Keeping
<1>8. InstallingAlone'
  BY <1>1, <1>2, <1>3 DEF IInv, TypeOK, InstallingAlone, Keeping
<1>9. BorrowedIsCached'
  BY <1>1, <1>2, <1>3 DEF IInv, TypeOK, BorrowedIsCached, Cached, Keeping
<1>10. CachedIsOpen' /\ KeptIsOpen'
  BY <1>1, <1>2, <1>3 DEF IInv, TypeOK, CachedIsOpen, KeptIsOpen, Keeping
<1>11. ClosedOnce' /\ ClosingIsDone' /\ FreshIsUnused'
  BY <1>1, <1>2, <1>3 DEF IInv, TypeOK, ClosedOnce, ClosingIsDone, FreshIsUnused
<1>12. NotForgotten'
  BY <1>1, <1>2, <1>5 DEF IInv, TypeOK, NotForgotten, Cached, AboutToClose
<1> QED
  BY <1>4, <1>6, <1>7, <1>8, <1>9, <1>10, <1>11, <1>12 DEF IInv

\* A call that finds another session in the map leaves its own, which
\* nobody else knows, and is about to close it.
LEMMA JoinStep ==
  ASSUME IInv, NEW c \in Calls, Join(c) PROVE IInv'
<1> DEFINE s == sessions[source[c]]
           old == held[c]
<1>1. /\ pc[c] = "install" /\ s \in Sessions /\ connection[s] = wanted[c] /\ ~retired[s]
      /\ refs' = [refs EXCEPT ![s] = @ + 1]
      /\ held' = [held EXCEPT ![c] = s] /\ pc' = [pc EXCEPT ![c] = "using"]
      /\ closing' = [closing EXCEPT ![c] = old]
      /\ UNCHANGED <<settings, sessions, connection, retired, closes, source, wanted>>
  BY DEF IInv, TypeOK, Join, Usable, Borrow, GoTo
<1>2. closes[s] = 0 /\ \A d \in Calls : closing[d] # s
  BY <1>1, NoneAssumption DEF IInv, TypeOK, CachedIsOpen
<1>3. /\ old \in Sessions /\ old # s /\ old # None /\ connection[old] # None /\ closing[c] = None
      /\ closes[old] = 0 /\ \A d \in Calls : closing[d] # old
      /\ \A x \in Sources : sessions[x] # old
      /\ \A d \in Calls : pc[d] \in Keeping /\ held[d] = old => d = c
  BY <1>1, NoneAssumption
     DEF IInv, TypeOK, KeptIsWanted, InstallingAlone, KeptIsOpen, ClosingIsDone, Keeping
<1>4. TypeOK'
  BY <1>1, <1>3 DEF IInv, TypeOK, Phase
<1>5. /\ c \notin Keepers(s)
      /\ \A r \in Sessions : Keepers(r)' = IF r = s THEN Keepers(r) \cup {c} ELSE
                                            IF r = old THEN {} ELSE Keepers(r)
  BY <1>1, <1>3 DEF IInv, TypeOK, Keepers, Keeping
<1>6. RefsCount'
  <2> SUFFICES ASSUME NEW r \in Sessions PROVE IsFiniteSet(Keepers(r)') /\ Counted(r)'
    BY DEF RefsCount
  <2>1. CASE r = old
    <3>1. Keepers(r)' = {} /\ AboutToClose(r)'
      BY <1>1, <1>3, <1>5, <2>1 DEF IInv, TypeOK, AboutToClose
    <3> QED
      BY <3>1, FS_EmptySet DEF Counted
  <2>2. CASE r = s
    <3>1. Keepers(r)' = Keepers(r) \cup {c} /\ refs'[r] = refs[r] + 1 /\ c \notin Keepers(r)
      BY <1>1, <1>5, <2>2 DEF IInv, TypeOK
    <3>2. IsFiniteSet(Keepers(r)) /\ refs[r] = Cardinality(Keepers(r))
      BY <1>2, <2>2 DEF IInv, RefsCount, Counted, AboutToClose
    <3> QED
      BY <3>1, <3>2, FS_AddElement DEF Counted
  <2>3. CASE r # old /\ r # s
    <3>1. Keepers(r)' = Keepers(r) /\ refs'[r] = refs[r] /\ closes' = closes
      BY <1>1, <1>5, <2>3 DEF IInv, TypeOK
    <3>2. AboutToClose(r)' <=> AboutToClose(r)
      BY <1>1, <1>3, <2>3, NoneAssumption DEF IInv, TypeOK, AboutToClose
    <3> QED
      BY <3>1, <3>2 DEF IInv, RefsCount, Counted
  <2> QED
    BY <2>1, <2>2, <2>3
<1>7. KeptIsWanted'
  BY <1>1, NoneAssumption DEF IInv, TypeOK, KeptIsWanted, CachedIsOpen, Keeping
<1>8. InstallingAlone' /\ BorrowedIsCached'
  BY <1>1 DEF IInv, TypeOK, InstallingAlone, BorrowedIsCached, Cached, Keeping
<1>9. CachedIsOpen' /\ KeptIsOpen'
  BY <1>1, <1>2, <1>3 DEF IInv, TypeOK, CachedIsOpen, KeptIsOpen, Keeping
<1>10. ClosedOnce' /\ ClosingIsDone' /\ FreshIsUnused'
  BY <1>1, <1>2, <1>3 DEF IInv, TypeOK, ClosedOnce, ClosingIsDone, FreshIsUnused
<1>11. NotForgotten'
  <2> SUFFICES ASSUME NEW r \in Sessions, connection[r] # None
               PROVE  (closes[r] # 0 \/ Cached(r) \/ Keepers(r) # {} \/ AboutToClose(r))'
    BY <1>1 DEF NotForgotten
  <2>1. CASE r = old
    BY <1>1, <1>3, <2>1 DEF IInv, TypeOK, AboutToClose
  <2>2. CASE r # old
    <3>1. Keepers(r) # {} => Keepers(r)' # {}
      BY <1>5, <2>2
    <3>2. AboutToClose(r) => AboutToClose(r)'
      BY <1>1, <1>3, NoneAssumption DEF IInv, TypeOK, AboutToClose
    <3> QED
      BY <1>1, <3>1, <3>2 DEF IInv, NotForgotten, Cached
  <2> QED
    BY <2>1, <2>2
<1> QED
  BY <1>4, <1>6, <1>7, <1>8, <1>9, <1>10, <1>11 DEF IInv

\* A call that installs its session retires the one in the map, and is
\* about to close it if nobody keeps it.
LEMMA InstallStep ==
  ASSUME IInv, NEW c \in Calls, Install(c) PROVE IInv'
<1> DEFINE x == source[c]
           old == sessions[x]
           s == held[c]
<1>1. /\ pc[c] = "install" /\ pc' = [pc EXCEPT ![c] = "using"]
      /\ x \in Sources /\ sessions' = [sessions EXCEPT ![x] = s]
      /\ old = None => UNCHANGED <<retired, closing>>
      /\ old # None => /\ retired' = [retired EXCEPT ![old] = TRUE]
                       /\ closing' = [closing EXCEPT ![c] = IF refs[old] = 0 THEN old ELSE None]
      /\ UNCHANGED <<settings, connection, refs, closes, source, wanted, held>>
  BY DEF IInv, TypeOK, Install, GoTo, Retire, Unused
<1>2. /\ s \in Sessions /\ connection[s] # None /\ closing[c] = None /\ ~retired[s]
      /\ closes[s] = 0 /\ \A d \in Calls : closing[d] # s
      /\ \A y \in Sources : sessions[y] # s
      /\ \A d \in Calls : pc[d] \in Keeping /\ held[d] = s => d = c
  BY <1>1, NoneAssumption
     DEF IInv, TypeOK, KeptIsWanted, InstallingAlone, KeptIsOpen, ClosingIsDone, Keeping
<1>3. ASSUME old # None
      PROVE  /\ old \in Sessions /\ old # s /\ connection[old] # None /\ closes[old] = 0
             /\ \A d \in Calls : closing[d] # old
             /\ \A y \in Sources : sessions[y] = old => y = x
             /\ refs[old] = 0 => Keepers(old) = {}
  BY <1>1, <1>2, <1>3, UnusedIsKeptByNobody DEF IInv, TypeOK, CachedIsOpen
<1>4. TypeOK'
  BY <1>1, <1>2, <1>3 DEF IInv, TypeOK, Phase
<1>5. \A r : Keepers(r)' = Keepers(r)
  BY <1>1 DEF IInv, TypeOK, Keepers, Keeping
<1>6. \A r \in Sessions : AboutToClose(r)' <=> AboutToClose(r) \/ (r = old /\ refs[old] = 0)
  BY <1>1, <1>2, <1>3, NoneAssumption DEF IInv, TypeOK, AboutToClose
<1>7. RefsCount'
  BY <1>1, <1>5, <1>6 DEF IInv, RefsCount, Counted
<1>8. KeptIsWanted'
  BY <1>1, <1>2 DEF IInv, TypeOK, KeptIsWanted, Keeping
<1>9. InstallingAlone'
  BY <1>1, <1>2, <1>3 DEF IInv, TypeOK, InstallingAlone, KeptIsWanted, Keeping
<1>10. BorrowedIsCached'
  <2> SUFFICES ASSUME NEW d \in Calls, pc'[d] \in {"using", "drop", "release"}
               PROVE  Cached(held[d])' \/ retired'[held[d]]
    BY <1>1 DEF BorrowedIsCached, Cached
  <2>1. CASE d = c
    BY <1>1, <2>1 DEF IInv, TypeOK, Cached
  <2>2. CASE d # c
    <3>1. pc[d] \in {"using", "drop", "release"} /\ held[d] \in Sessions
      BY <1>1, <2>2 DEF IInv, TypeOK, KeptIsWanted, Keeping
    <3>2. CASE held[d] = old
      BY <1>1, <3>1, <3>2, NoneAssumption DEF IInv, TypeOK
    <3>3. CASE held[d] # old
      <4>1. Cached(held[d]) => Cached(held[d])'
        BY <1>1, <3>3 DEF IInv, TypeOK, Cached
      <4>2. retired[held[d]] => retired'[held[d]]
        BY <1>1, <3>1 DEF IInv, TypeOK
      <4> QED
        BY <3>1, <4>1, <4>2 DEF IInv, BorrowedIsCached
    <3> QED
      BY <3>2, <3>3
  <2> QED
    BY <2>1, <2>2
<1>11. CachedIsOpen'
  BY <1>1, <1>2, <1>3, NoneAssumption DEF IInv, TypeOK, CachedIsOpen
<1>12. KeptIsOpen'
  <2> SUFFICES ASSUME NEW d \in Calls, pc'[d] \in Keeping
               PROVE  closes[held[d]] = 0 /\ \A e \in Calls : closing'[e] # held[d]
    BY <1>1 DEF KeptIsOpen
  <2>1. pc[d] \in Keeping /\ held[d] \in Sessions /\ d \in Keepers(held[d])
    BY <1>1 DEF IInv, TypeOK, KeptIsWanted, Keepers, Keeping
  <2> QED
    BY <1>1, <1>3, <2>1, NoneAssumption DEF IInv, TypeOK, KeptIsOpen
<1>13. ClosedOnce'
  BY <1>1, <1>2, <1>3 DEF IInv, TypeOK, ClosedOnce
<1>14. ClosingIsDone' /\ FreshIsUnused'
  BY <1>1, <1>2, <1>3 DEF IInv, TypeOK, ClosingIsDone, FreshIsUnused
<1>15. NotForgotten'
  <2> SUFFICES ASSUME NEW r \in Sessions, connection[r] # None
               PROVE  (closes[r] # 0 \/ Cached(r) \/ Keepers(r) # {} \/ AboutToClose(r))'
    BY <1>1 DEF NotForgotten
  <2>1. CASE r = old
    <3>1. refs[old] # 0 => Keepers(old) # {}
      BY <1>3, <2>1, NoneAssumption, FS_EmptySet
         DEF IInv, RefsCount, Counted, AboutToClose
    <3> QED
      BY <1>5, <1>6, <2>1, <3>1
  <2>2. CASE r # old
    <3>1. Cached(r) => Cached(r)'
      BY <1>1, <2>2 DEF IInv, TypeOK, Cached
    <3> QED
      BY <1>1, <1>5, <1>6, <3>1 DEF IInv, NotForgotten
  <2> QED
    BY <2>1, <2>2
<1> QED
  BY <1>4, <1>7, <1>8, <1>9, <1>10, <1>11, <1>12, <1>13, <1>14, <1>15 DEF IInv

\* A call that drops its session keeps it, so nothing is closed yet.
LEMMA InvalidateStep ==
  ASSUME IInv, NEW c \in Calls, Invalidate(c) PROVE IInv'
<1> DEFINE s == held[c]
           x == source[c]
<1>1. /\ pc[c] = "drop" /\ pc' = [pc EXCEPT ![c] = "release"] /\ x \in Sources
      /\ sessions' = IF sessions[x] = s THEN [sessions EXCEPT ![x] = None] ELSE sessions
      /\ retired' = [retired EXCEPT ![s] = TRUE]
      /\ UNCHANGED <<settings, connection, refs, closes, source, wanted, held>>
  BY DEF IInv, TypeOK, Invalidate, Forget, Retire, GoTo
<1>2. /\ s \in Sessions /\ connection[s] # None /\ c \in Keepers(s) /\ refs[s] # 0
      /\ \A y \in Sources : sessions[y] = s => y = x
      /\ \A d \in Calls : pc[d] = "install" => held[d] # s
  BY <1>1, KeptIsCounted, NoneAssumption DEF IInv, TypeOK, KeptIsWanted, InstallingAlone, Keeping
<1>3. closing[c] = None /\ closing' = closing
  BY <1>1, <1>2 DEF IInv, TypeOK, Invalidate, ClosingIsDone
<1>4. TypeOK'
  BY <1>1, <1>2, <1>3 DEF IInv, TypeOK, Phase
<1>5. \A r : Keepers(r)' = Keepers(r) /\ AboutToClose(r)' = AboutToClose(r)
  BY <1>1, <1>3 DEF IInv, TypeOK, Keepers, Keeping, AboutToClose
<1>6. RefsCount'
  BY <1>1, <1>5 DEF IInv, RefsCount, Counted
<1>7. KeptIsWanted'
  BY <1>1, <1>2, NoneAssumption DEF IInv, TypeOK, KeptIsWanted, Keeping
<1>8. InstallingAlone'
  BY <1>1, <1>2, NoneAssumption DEF IInv, TypeOK, InstallingAlone, KeptIsWanted, Keeping
<1>9. BorrowedIsCached'
  BY <1>1, <1>2 DEF IInv, TypeOK, BorrowedIsCached, Cached, KeptIsWanted, Keeping
<1>10. CachedIsOpen'
  BY <1>1, <1>2, <1>3, NoneAssumption DEF IInv, TypeOK, CachedIsOpen
<1>11. KeptIsOpen' /\ ClosedOnce' /\ ClosingIsDone' /\ FreshIsUnused'
  BY <1>1, <1>2, <1>3 DEF IInv, TypeOK, KeptIsOpen, ClosedOnce, ClosingIsDone, FreshIsUnused, Keeping
<1>12. NotForgotten'
  BY <1>1, <1>2, <1>5 DEF IInv, TypeOK, NotForgotten, Cached
<1> QED
  BY <1>4, <1>6, <1>7, <1>8, <1>9, <1>10, <1>11, <1>12 DEF IInv

\* A call that returns its session no longer keeps it; if it was the last
\* one and the session has been retired, it is about to close it.
LEMMA ReleaseStep ==
  ASSUME IInv, NEW c \in Calls, Release(c) PROVE IInv'
<1> DEFINE s == held[c]
<1>1. /\ pc[c] = "release" /\ closing[c] = None /\ pc' = [pc EXCEPT ![c] = "done"]
      /\ refs' = [refs EXCEPT ![s] = @ - 1]
      /\ closing' = [closing EXCEPT ![c] = IF retired[s] /\ refs[s] = 1 THEN s ELSE None]
      /\ UNCHANGED <<settings, sessions, connection, retired, closes, source, wanted, held>>
  BY DEF Release, Free, LastCloses, GoTo
<1>2. /\ s \in Sessions /\ connection[s] # None /\ closes[s] = 0
      /\ \A d \in Calls : closing[d] # s
      /\ \A d \in Calls : pc[d] = "install" => held[d] # s
      /\ Cached(s) \/ retired[s]
  BY <1>1, NoneAssumption
     DEF IInv, TypeOK, KeptIsWanted, KeptIsOpen, InstallingAlone, BorrowedIsCached, Keeping
<1>3. /\ c \in Keepers(s) /\ refs[s] \in Nat \ {0} /\ IsFiniteSet(Keepers(s))
      /\ refs[s] = Cardinality(Keepers(s))
      /\ refs[s] = 1 <=> Keepers(s) = {c}
  BY <1>1, <1>2, KeptIsCounted DEF IInv, RefsCount, Keeping
<1>4. TypeOK'
  BY <1>1, <1>2, <1>3 DEF IInv, TypeOK, Phase
<1>5. \A r \in Sessions : Keepers(r)' = IF r = s THEN Keepers(r) \ {c} ELSE Keepers(r)
  BY <1>1 DEF IInv, TypeOK, Keepers, Keeping
<1>6. \A r \in Sessions : AboutToClose(r)' <=> AboutToClose(r) \/ (r = s /\ retired[s] /\ refs[s] = 1)
  BY <1>1, <1>2, NoneAssumption DEF IInv, TypeOK, AboutToClose
<1>7. RefsCount'
  <2> SUFFICES ASSUME NEW r \in Sessions PROVE IsFiniteSet(Keepers(r)') /\ Counted(r)'
    BY DEF RefsCount
  <2>1. CASE r = s
    <3>1. Keepers(r)' = Keepers(r) \ {c} /\ refs'[r] = refs[r] - 1
      BY <1>1, <1>2, <1>5, <2>1 DEF IInv, TypeOK
    <3> QED
      BY <1>3, <2>1, <3>1, FS_RemoveElement DEF Counted
  <2>2. CASE r # s
    <3>1. Keepers(r)' = Keepers(r) /\ refs'[r] = refs[r] /\ closes' = closes
      BY <1>1, <1>5, <2>2 DEF IInv, TypeOK
    <3> QED
      BY <1>6, <2>2, <3>1 DEF IInv, RefsCount, Counted
  <2> QED
    BY <2>1, <2>2
<1>8. KeptIsWanted' /\ InstallingAlone' /\ BorrowedIsCached'
  BY <1>1 DEF IInv, TypeOK, KeptIsWanted, InstallingAlone, BorrowedIsCached, Cached, Keeping
<1>9. CachedIsOpen'
  BY <1>1, <1>2 DEF IInv, TypeOK, CachedIsOpen
<1>10. KeptIsOpen'
  <2> SUFFICES ASSUME NEW d \in Calls, pc'[d] \in Keeping
               PROVE  closes[held[d]] = 0 /\ \A e \in Calls : closing'[e] # held[d]
    BY <1>1 DEF KeptIsOpen
  <2>1. d # c /\ pc[d] \in Keeping /\ held[d] \in Sessions /\ d \in Keepers(held[d])
    BY <1>1 DEF IInv, TypeOK, KeptIsWanted, Keepers, Keeping
  <2> QED
    BY <1>1, <1>3, <2>1, NoneAssumption DEF IInv, TypeOK, KeptIsOpen
<1>11. ClosedOnce' /\ ClosingIsDone' /\ FreshIsUnused'
  BY <1>1, <1>2 DEF IInv, TypeOK, ClosedOnce, ClosingIsDone, FreshIsUnused
<1>12. NotForgotten'
  <2> SUFFICES ASSUME NEW r \in Sessions, connection[r] # None
               PROVE  (closes[r] # 0 \/ Cached(r) \/ Keepers(r) # {} \/ AboutToClose(r))'
    BY <1>1 DEF NotForgotten
  <2>1. CASE r = s
    <3>1. refs[s] # 1 => Keepers(s) \ {c} # {}
      BY <1>3
    <3>2. Cached(r) => Cached(r)'
      BY <1>1 DEF Cached
    <3> QED
      BY <1>2, <1>5, <1>6, <2>1, <3>1, <3>2
  <2>2. CASE r # s
    BY <1>1, <1>5, <1>6, <2>2 DEF IInv, NotForgotten, Cached
  <2> QED
    BY <2>1, <2>2
<1> QED
  BY <1>4, <1>7, <1>8, <1>9, <1>10, <1>11, <1>12 DEF IInv

\* Nobody keeps a session that is closed, and it is closed once.
LEMMA CloseStep ==
  ASSUME IInv, NEW c \in Calls, CloseSession(c) PROVE IInv'
<1> DEFINE s == closing[c]
<1>1. /\ s \in Sessions /\ closes' = [closes EXCEPT ![s] = @ + 1]
      /\ closing' = [closing EXCEPT ![c] = None]
      /\ UNCHANGED <<settings, sessions, connection, refs, retired, pc, source, wanted, held>>
  BY DEF IInv, TypeOK, CloseSession
<1>2. /\ connection[s] # None /\ closes[s] = 0
      /\ \A d \in Calls : closing[d] = s => d = c
      /\ \A x \in Sources : sessions[x] # s
      /\ \A d \in Calls : pc[d] \in Keeping => held[d] # s
  BY <1>1, NoneAssumption DEF IInv, TypeOK, ClosedOnce, CachedIsOpen, KeptIsOpen
<1>3. TypeOK'
  BY <1>1, <1>2 DEF IInv, TypeOK
<1>4. \A r : Keepers(r)' = Keepers(r)
  BY <1>1 DEF Keepers
<1>5. \A r \in Sessions : r # s => (AboutToClose(r)' <=> AboutToClose(r)) /\ closes'[r] = closes[r]
  BY <1>1, NoneAssumption DEF IInv, TypeOK, AboutToClose
<1>6. closes'[s] = 1
  BY <1>1, <1>2 DEF IInv, TypeOK
<1>7. RefsCount'
  BY <1>1, <1>4, <1>5, <1>6 DEF IInv, RefsCount, Counted
<1>8. KeptIsWanted' /\ InstallingAlone' /\ BorrowedIsCached'
  BY <1>1 DEF IInv, TypeOK, KeptIsWanted, InstallingAlone, BorrowedIsCached, Cached, Keeping
<1>9. CachedIsOpen' /\ KeptIsOpen'
  BY <1>1, <1>2, NoneAssumption DEF IInv, TypeOK, CachedIsOpen, KeptIsOpen, KeptIsWanted
<1>10. ClosedOnce' /\ ClosingIsDone' /\ FreshIsUnused'
  BY <1>1, <1>2 DEF IInv, TypeOK, ClosedOnce, ClosingIsDone, FreshIsUnused
<1>11. NotForgotten'
  BY <1>1, <1>4, <1>5, <1>6 DEF IInv, NotForgotten, Cached
<1> QED
  BY <1>3, <1>7, <1>8, <1>9, <1>10, <1>11 DEF IInv

\* Shutting down retires what is in the map, and closes what nobody keeps.
LEMMA ShutdownStep == ASSUME IInv, Shutdown PROVE IInv'
<1> DEFINE kept == {s \in Sessions : \E x \in Sources : sessions[x] = s}
<1>1. /\ sessions' = [x \in Sources |-> None]
      /\ retired' = [s \in Sessions |-> retired[s] \/ s \in kept]
      /\ closes' = [s \in Sessions |-> IF s \in kept /\ refs[s] = 0 THEN closes[s] + 1 ELSE closes[s]]
      /\ UNCHANGED <<settings, connection, refs, pc, source, wanted, held, closing>>
  BY DEF Shutdown, call
<1>2. \A s \in kept : /\ connection[s] # None /\ closes[s] = 0
                      /\ \A d \in Calls : closing[d] # s
                      /\ \A d \in Calls : pc[d] = "install" => held[d] # s
  BY NoneAssumption DEF IInv, TypeOK, CachedIsOpen, InstallingAlone
<1>3. \A s \in Sessions : refs[s] = 0 => Keepers(s) = {}
  BY UnusedIsKeptByNobody
<1>4. TypeOK'
  BY <1>1 DEF IInv, TypeOK
<1>5. \A r : Keepers(r)' = Keepers(r) /\ AboutToClose(r)' = AboutToClose(r)
  BY <1>1 DEF Keepers, AboutToClose
<1>6. RefsCount'
  <2> SUFFICES ASSUME NEW s \in Sessions PROVE IsFiniteSet(Keepers(s)') /\ Counted(s)'
    BY DEF RefsCount
  <2>1. closes'[s] = 0 => closes[s] = 0
    BY <1>1, <1>2 DEF IInv, TypeOK
  <2> QED
    BY <1>1, <1>5, <2>1 DEF IInv, RefsCount, Counted
<1>7. \A x \in Sources : sessions'[x] = None
  BY <1>1
<1>8. KeptIsWanted' /\ InstallingAlone'
  BY <1>1, <1>2, <1>7, NoneAssumption DEF IInv, TypeOK, KeptIsWanted, InstallingAlone, Keeping
<1>9. BorrowedIsCached'
  BY <1>1 DEF IInv, TypeOK, BorrowedIsCached, Cached, KeptIsWanted, Keeping
<1>10. CachedIsOpen'
  BY <1>7 DEF CachedIsOpen
<1>11. KeptIsOpen'
  BY <1>1, <1>3 DEF IInv, TypeOK, KeptIsOpen, KeptIsWanted, Keepers
<1>12. ClosedOnce' /\ ClosingIsDone' /\ FreshIsUnused'
  BY <1>1, <1>2 DEF IInv, TypeOK, ClosedOnce, ClosingIsDone, FreshIsUnused
<1>13. NotForgotten'
  <2> SUFFICES ASSUME NEW r \in Sessions, connection[r] # None
               PROVE  (closes[r] # 0 \/ Cached(r) \/ Keepers(r) # {} \/ AboutToClose(r))'
    BY <1>1 DEF NotForgotten
  <2>1. CASE r \in kept
    <3>1. refs[r] = 0 => closes'[r] # 0
      BY <1>1, <1>2, <2>1
    <3>2. refs[r] # 0 => Keepers(r) # {}
      BY <1>2, <2>1, FS_EmptySet DEF IInv, RefsCount, Counted, AboutToClose
    <3> QED
      BY <1>5, <3>1, <3>2
  <2>2. CASE r \notin kept
    <3>1. ~Cached(r) /\ closes'[r] = closes[r]
      BY <1>1, <2>2 DEF Cached
    <3> QED
      BY <1>5, <3>1 DEF IInv, NotForgotten
  <2> QED
    BY <2>1, <2>2
<1> QED
  BY <1>4, <1>6, <1>8, <1>9, <1>10, <1>11, <1>12, <1>13 DEF IInv

\* The window calls again: what the call held is forgotten, not kept.
LEMMA AgainStep ==
  ASSUME IInv, NEW c \in Calls, Again(c) PROVE IInv'
<1>1. /\ pc[c] = "done" /\ closing[c] = None /\ pc' = [pc EXCEPT ![c] = "idle"]
      /\ held' = [held EXCEPT ![c] = None]
      /\ UNCHANGED <<settings, sessions, connection, refs, retired, closes, source, wanted, closing>>
  BY DEF Again, Free, GoTo, pool
<1>2. TypeOK'
  BY <1>1 DEF IInv, TypeOK, Phase
<1>3. \A r : Keepers(r)' = Keepers(r) /\ AboutToClose(r)' = AboutToClose(r)
  BY <1>1 DEF IInv, TypeOK, Keepers, Keeping, AboutToClose
<1>4. RefsCount' /\ NotForgotten'
  BY <1>1, <1>3 DEF IInv, RefsCount, Counted, NotForgotten, Cached
<1>5. KeptIsWanted' /\ InstallingAlone' /\ BorrowedIsCached'
  BY <1>1 DEF IInv, TypeOK, KeptIsWanted, InstallingAlone, BorrowedIsCached, Cached, Keeping
<1>6. CachedIsOpen' /\ KeptIsOpen' /\ ClosedOnce' /\ ClosingIsDone' /\ FreshIsUnused'
  BY <1>1 DEF IInv, TypeOK, CachedIsOpen, KeptIsOpen, ClosedOnce, ClosingIsDone, FreshIsUnused, Keeping
<1> QED
  BY <1>2, <1>4, <1>5, <1>6 DEF IInv

\* The steps that leave the sessions as they are.
LEMMA QuietStep ==
  ASSUME IInv, NEW c \in Calls,
         DialFails(c) \/ Used(c) \/ \E x \in Sources : Start(c, x)
  PROVE  IInv'
<1>1. CASE DialFails(c)
  <2>1. TypeOK'
    BY <1>1 DEF IInv, TypeOK, DialFails, GoTo, Phase, pool
  <2> QED
    BY <1>1, <2>1, PoolUntouched DEF DialFails, GoTo, Phase, Keeping
<1>2. CASE Used(c)
  <2>1. PICK p \in {"drop", "release"} : pc' = [pc EXCEPT ![c] = p]
    BY <1>2 DEF Used, GoTo
  <2>2. TypeOK'
    BY <1>2, <2>1 DEF IInv, TypeOK, Used, Phase, pool
  <2> QED
    BY <1>2, <2>1, <2>2, PoolUntouched DEF Used, Free, Phase, Keeping
<1>3. ASSUME NEW x \in Sources, Start(c, x) PROVE IInv'
  <2>1. TypeOK'
    BY <1>3 DEF IInv, TypeOK, Start, GoTo, Phase, pool
  <2>2. /\ pc[c] = "idle" /\ closing[c] = None
        /\ \A d \in Calls \ {c} : source'[d] = source[d] /\ wanted'[d] = wanted[d]
    BY <1>3 DEF IInv, TypeOK, ClosingIsDone, Start
  <2> QED
    BY <1>3, <2>1, <2>2, PoolUntouched DEF Start, GoTo, Phase, Keeping
<1> QED
  BY <1>1, <1>2, <1>3

\* The invariant is inductive.
LEMMA StepIInv == IInv /\ [Next]_vars => IInv'
<1> SUFFICES ASSUME IInv, [Next]_vars PROVE IInv'
  OBVIOUS
<1>1. ASSUME NEW c \in Calls, CallStep(c) PROVE IInv'
  BY <1>1, LookupStep, DialedStep, QuietStep, JoinStep, InstallStep, InvalidateStep,
     ReleaseStep, AgainStep, CloseStep DEF CallStep
<1>2. ASSUME NEW c \in Calls, NEW x \in Sources, Start(c, x) PROVE IInv'
  BY <1>2, QuietStep
<1>3. CASE Shutdown
  BY <1>3, ShutdownStep
<1>4. ASSUME (\E x \in Sources, k \in Connections : ChangeSettings(x, k)) \/ UNCHANGED vars
      PROVE  IInv'
  <2>1. TypeOK' /\ UNCHANGED <<pool, call>>
    BY <1>4 DEF IInv, TypeOK, ChangeSettings, vars, pool, call
  <2>2. \A r : Keepers(r)' = Keepers(r) /\ AboutToClose(r)' = AboutToClose(r) /\ Cached(r)' = Cached(r)
    BY <2>1 DEF Keepers, AboutToClose, Cached, pool, call
  <2>3. RefsCount' /\ NotForgotten' /\ BorrowedIsCached'
    BY <2>1, <2>2 DEF IInv, RefsCount, Counted, NotForgotten, BorrowedIsCached, pool, call
  <2>4. KeptIsWanted' /\ InstallingAlone' /\ CachedIsOpen' /\ KeptIsOpen'
    BY <2>1 DEF IInv, KeptIsWanted, InstallingAlone, CachedIsOpen, KeptIsOpen, pool, call
  <2>5. ClosedOnce' /\ ClosingIsDone' /\ FreshIsUnused'
    BY <2>1 DEF IInv, ClosedOnce, ClosingIsDone, FreshIsUnused, pool, call
  <2> QED
    BY <2>1, <2>3, <2>4, <2>5 DEF IInv
<1> QED
  BY <1>1, <1>2, <1>3, <1>4 DEF Next

\* The invariant holds always.
LEMMA IInvAlways == Spec => []IInv
  BY InitIInv, StepIInv, PTL DEF Spec

-----------------------------------------------------------------------------
\* Every variable keeps its type; in particular no count of borrowers ever
\* falls below zero.
THEOREM TypeCorrect == Spec => []TypeOK
  BY IInvAlways, PTL DEF IInv

\* A session is closed by one call, and once, and while a call uses it
\* nobody has closed it or is about to.
THEOREM ClosedAfterUse == Spec => []NotClosedUnderUse
<1>1. IInv => NotClosedUnderUse
  <2> SUFFICES ASSUME IInv, NEW s \in Sessions
               PROVE  /\ Borrowers(s) # {} => closes[s] = 0 /\ ~AboutToClose(s)
                      /\ closes[s] + Cardinality(Closers(s)) <= 1
    BY DEF NotClosedUnderUse, Closers
  <2>1. Borrowers(s) # {} => closes[s] = 0 /\ ~AboutToClose(s)
    BY DEF IInv, KeptIsOpen, Borrowers, AboutToClose, Keeping
  <2>2. CASE Closers(s) = {}
    <3>1. Cardinality(Closers(s)) = 0
      BY <2>2, FS_EmptySet
    <3>2. closes[s] = 0 \/ closes[s] = 1
      BY DEF IInv, ClosedOnce
    <3> QED
      BY <2>1, <3>1, <3>2
  <2>3. ASSUME NEW c \in Closers(s) PROVE closes[s] + Cardinality(Closers(s)) <= 1
    <3>1. c \in Calls /\ closing[c] = s /\ closing[c] # None
      BY <2>3, NoneAssumption DEF Closers
    <3>2. closes[s] = 0 /\ Closers(s) = {c}
      BY <3>1 DEF IInv, ClosedOnce, Closers
    <3>3. Cardinality(Closers(s)) = 1
      BY <3>2, FS_Singleton
    <3> QED
      BY <3>2, <3>3
  <2> QED
    BY <2>1, <2>2, <2>3
<1> QED
  BY <1>1, IInvAlways, PTL

\* A call works on a session for the connection the settings gave its source
\* when it started, however often they change while it dials and waits.
THEOREM ConnectionIsRight == Spec => []RightConnection
<1>1. IInv => RightConnection
  BY DEF IInv, KeptIsWanted, RightConnection, Borrowers, Keeping
<1> QED
  BY <1>1, IInvAlways, PTL

\* No session is forgotten while it is open: the map has it, a call keeps it,
\* or a call is about to close it; and what the map has can be handed out.
THEOREM SessionsNotLeaked == Spec => []NoSessionLeak
<1>1. IInv => NoSessionLeak
  <2> SUFFICES ASSUME IInv, NEW s \in Sessions
               PROVE  /\ connection[s] # None /\ closes[s] = 0
                           => \/ Cached(s) \/ AboutToClose(s) \/ Borrowers(s) # {}
                              \/ \E c \in Calls : pc[c] = "install" /\ held[c] = s
                      /\ Cached(s) => ~retired[s] /\ closes[s] = 0
    BY DEF NoSessionLeak
  <2>1. Keepers(s) # {} => Borrowers(s) # {} \/ \E c \in Calls : pc[c] = "install" /\ held[c] = s
    BY DEF Keepers, Keeping, Borrowers
  <2>2. Cached(s) => ~retired[s] /\ closes[s] = 0
    BY NoneAssumption DEF IInv, CachedIsOpen, Cached
  <2> QED
    BY <2>1, <2>2 DEF IInv, NotForgotten
<1> QED
  BY <1>1, IInvAlways, PTL

-----------------------------------------------------------------------------
(***************************************************************************)
(* Copies and moves on a host.  HostIInv says, for a job in each of its    *)
(* phases, that the tree is one, that the places of the items it has begun *)
(* differ and belong to it, and, path by path, that what was in the tree   *)
(* before the job is there still or is announced (KeptAt).  QInv is about  *)
(* a tree that nobody else changes, and items that do not contain each     *)
(* other: each item that is done has arrived, each that is not is as it    *)
(* was.                                                                    *)
(***************************************************************************)
\* The names there may be, and the paths they make.
Names == Host!GivenNames \cup {Append(x, n) : x \in Host!GivenNames, n \in Nat}
Paths == Seq(Names)

-----------------------------------------------------------------------------
LessThan == {ss \in Nat \X Nat : ss[1] < ss[2]}
LEMMA LessThanIs == LessThan = OpToRel(<, Nat)
  BY Zenon DEF OpToRel, LessThan

\* A set of natural numbers has a least element.
LEMMA Least == ASSUME NEW S \in SUBSET Nat, S # {} PROVE \E x \in S : \A y \in S : x <= y
<1>1. IsWellFoundedOn(LessThan, Nat)
  BY NatLessThanWellFounded, LessThanIs
<1>2. \E x \in S : \A y \in S : ~ (<<y, x>> \in LessThan)
  BY <1>1, WFMin
<1>3. \A x, y \in Nat : <<y, x>> \in LessThan <=> y < x
  BY DEF LessThan
<1>4. PICK x \in S : \A y \in S : ~ (<<y, x>> \in LessThan)
  BY <1>2
<1>5. ASSUME NEW y \in S PROVE x <= y
  <2>1. x \in Nat /\ y \in Nat
    BY <1>5
  <2>2. ~(y < x)
    BY <1>3, <1>4, <2>1
  <2> QED BY <2>1, <2>2
<1> QED BY <1>5

-----------------------------------------------------------------------------
(* Paths. *)

LEMMA Beginning ==
  ASSUME NEW N, NEW p \in Seq(N), NEW l \in 0..Len(p)
  PROVE  SubSeq(p, 1, l) \in Seq(N) /\ Len(SubSeq(p, 1, l)) = l /\ \A i \in 1..l : SubSeq(p, 1, l)[i] = p[i]
OBVIOUS

LEMMA Appended ==
  ASSUME NEW N, NEW p \in Seq(N), NEW x \in N
  PROVE  /\ Append(p, x) \in Seq(N) /\ Len(Append(p, x)) = Len(p) + 1 /\ Append(p, x)[Len(p) + 1] = x
         /\ \A i \in 1..Len(p) : Append(p, x)[i] = p[i]
OBVIOUS

LEMMA PrefixIs ==
  ASSUME NEW a \in Paths, NEW b \in Paths
  PROVE  Host!IsPrefix(a, b) <=> Len(a) <= Len(b) /\ \A i \in 1..Len(a) : a[i] = b[i]
BY DEF Host!IsPrefix, Paths

LEMMA Equal ==
  ASSUME NEW a \in Paths, NEW b \in Paths, Len(a) = Len(b), \A i \in 1..Len(a) : a[i] = b[i]
  PROVE  a = b
BY DEF Paths

LEMMA Lengths == \A a \in Paths : Len(a) \in Nat
BY DEF Paths

\* Being above is an order, and what is above the same path is comparable.
LEMMA Order ==
  /\ \A a \in Paths : Host!IsPrefix(a, a)
  /\ \A a, b, c \in Paths : Host!IsPrefix(a, b) /\ Host!IsPrefix(b, c) => Host!IsPrefix(a, c)
  /\ \A a, b \in Paths : Host!IsPrefix(a, b) /\ Host!IsPrefix(b, a) => a = b
  /\ \A a, b, c \in Paths : Host!IsPrefix(a, c) /\ Host!IsPrefix(b, c) => Host!IsPrefix(a, b) \/ Host!IsPrefix(b, a)
  /\ \A a, b \in Paths : Host!IsPrefix(a, b) => Len(a) <= Len(b)
  /\ \A a, b \in Paths : Host!IsPrefix(a, b) /\ Len(a) = Len(b) => a = b
<1>1. \A a \in Paths : Host!IsPrefix(a, a)
  BY PrefixIs, Lengths
<1>2. \A a, b, c \in Paths : Host!IsPrefix(a, b) /\ Host!IsPrefix(b, c) => Host!IsPrefix(a, c)
  BY PrefixIs, Lengths
<1>3. \A a, b \in Paths : Host!IsPrefix(a, b) /\ Len(a) = Len(b) => a = b
  BY PrefixIs, Equal
<1>4. \A a, b \in Paths : Host!IsPrefix(a, b) => Len(a) <= Len(b)
  BY PrefixIs
<1>5. \A a, b \in Paths : Host!IsPrefix(a, b) /\ Host!IsPrefix(b, a) => a = b
  BY <1>3, <1>4, Lengths
<1>6. \A a, b, c \in Paths : Host!IsPrefix(a, c) /\ Host!IsPrefix(b, c) => Host!IsPrefix(a, b) \/ Host!IsPrefix(b, a)
  BY PrefixIs, Lengths
<1> QED BY <1>1, <1>2, <1>3, <1>4, <1>5, <1>6

LEMMA Fronts ==
  ASSUME NEW p \in Paths, p # <<>>
  PROVE  /\ Host!Front(p) \in Paths /\ Len(Host!Front(p)) = Len(p) - 1 /\ Host!IsPrefix(Host!Front(p), p) /\ Host!Front(p) # p
         /\ \A a \in Paths : Host!IsPrefix(a, p) /\ a # p => Host!IsPrefix(a, Host!Front(p))
         /\ Host!Last(p) \in Names
<1>1. Len(p) \in Nat \ {0} /\ Host!Last(p) \in Names
  BY DEF Paths, Host!Last
<1>2. Host!Front(p) \in Paths /\ Len(Host!Front(p)) = Len(p) - 1 /\ \A i \in 1..(Len(p) - 1) : Host!Front(p)[i] = p[i]
  <2>1. p \in Seq(Names)
    BY DEF Paths
  <2>2. Len(p) - 1 \in 0..Len(p)
    BY <1>1
  <2> QED BY <2>1, <2>2, Beginning DEF Paths, Host!Front
<1>3. Host!IsPrefix(Host!Front(p), p) /\ Host!Front(p) # p
  BY <1>1, <1>2, PrefixIs
<1>4. \A a \in Paths : Host!IsPrefix(a, p) /\ a # p => Host!IsPrefix(a, Host!Front(p))
  <2> SUFFICES ASSUME NEW a \in Paths, Host!IsPrefix(a, p), a # p PROVE Host!IsPrefix(a, Host!Front(p))
    OBVIOUS
  <2>1. Len(a) < Len(p) /\ Len(a) \in Nat
    BY <1>1, Order, Lengths
  <2> QED BY <1>1, <1>2, <2>1, PrefixIs
<1> QED BY <1>1, <1>2, <1>3, <1>4

LEMMA Appends ==
  ASSUME NEW p \in Paths, NEW x \in Names
  PROVE  /\ Append(p, x) \in Paths /\ Len(Append(p, x)) = Len(p) + 1 /\ Append(p, x) # <<>>
         /\ Host!Front(Append(p, x)) = p /\ Host!Last(Append(p, x)) = x /\ Host!IsPrefix(p, Append(p, x))
<1> DEFINE s == Append(p, x)
<1>1. s \in Paths /\ Len(s) = Len(p) + 1 /\ s[Len(p) + 1] = x /\ \A i \in 1..Len(p) : s[i] = p[i]
  BY Appended DEF Paths
<1>2. Len(p) \in Nat /\ Len(<<>>) = 0
  BY Lengths
<1>3. Host!Last(s) = x
  BY <1>1 DEF Host!Last
<1> HIDE DEF s
<1>4. s # <<>>
  BY <1>1, <1>2
<1>5. Host!IsPrefix(p, s)
  BY <1>1, <1>2, PrefixIs
<1>6. p # s
  BY <1>1, <1>2
<1>7. Host!Front(s) \in Paths /\ Len(Host!Front(s)) = Len(p) /\ Host!IsPrefix(p, Host!Front(s))
  BY <1>1, <1>2, <1>4, <1>5, <1>6, Fronts
<1>8. Host!Front(s) = p
  BY <1>7, Order
<1> QED BY <1>1, <1>3, <1>4, <1>5, <1>8 DEF s

LEMMA Above ==
  ASSUME NEW p \in Paths
  PROVE  \A a : a \in Host!Prefixes(p) <=> a \in Paths /\ Host!IsPrefix(a, p)
<1>1. ASSUME NEW l \in 0..Len(p)
      PROVE  /\ SubSeq(p, 1, l) \in Paths /\ Len(SubSeq(p, 1, l)) = l /\ \A i \in 1..l : SubSeq(p, 1, l)[i] = p[i]
             /\ Host!IsPrefix(SubSeq(p, 1, l), p)
  <2> DEFINE s == SubSeq(p, 1, l)
  <2>1. s \in Paths /\ Len(s) = l /\ \A i \in 1..l : s[i] = p[i]
    BY Beginning DEF Paths
  <2>2. l \in Nat /\ l <= Len(p) /\ Len(p) \in Nat
    BY Lengths
  <2> HIDE DEF s
  <2>3. Host!IsPrefix(s, p)
    BY <2>1, <2>2, PrefixIs
  <2> QED BY <2>1, <2>3 DEF s
<1>2. ASSUME NEW a \in Paths, Host!IsPrefix(a, p) PROVE Len(a) \in 0..Len(p) /\ a = SubSeq(p, 1, Len(a))
  <2>1. Len(a) \in 0..Len(p) /\ Len(p) \in Nat
    BY <1>2, Order, Lengths
  <2>2. \A i \in 1..Len(a) : a[i] = p[i]
    BY <1>2, PrefixIs
  <2> DEFINE s == SubSeq(p, 1, Len(a))
  <2>3. s \in Paths /\ Len(s) = Len(a) /\ \A i \in 1..Len(a) : s[i] = p[i]
    BY <1>1, <2>1
  <2> HIDE DEF s
  <2>4. a = s
    BY <2>2, <2>3, Equal
  <2> QED BY <2>1, <2>4 DEF s
<1> QED BY <1>1, <1>2, Zenon DEF Host!Prefixes

LEMMA RebaseIs ==
  ASSUME NEW f \in Paths, NEW t \in Paths, NEW q \in Paths, Host!IsPrefix(f, q)
  PROVE  /\ Host!Rebase(q, f, t) \in Paths /\ Len(Host!Rebase(q, f, t)) = Len(t) + Len(q) - Len(f)
         /\ \A i \in 1..Len(t) : Host!Rebase(q, f, t)[i] = t[i]
         /\ \A i \in (Len(t) + 1)..(Len(t) + Len(q) - Len(f)) : Host!Rebase(q, f, t)[i] = q[i - Len(t) + Len(f)]
<1>1. Len(f) <= Len(q)
  BY Order
<1> QED BY <1>1 DEF Paths, Host!Rebase

\* Rebasing is undone by rebasing back, and keeps what is above what.
LEMMA Rebasing ==
  ASSUME NEW f \in Paths, NEW t \in Paths, NEW q \in Paths, Host!IsPrefix(f, q)
  PROVE  /\ Host!Rebase(q, f, t) \in Paths /\ Host!IsPrefix(t, Host!Rebase(q, f, t))
         /\ Host!Rebase(Host!Rebase(q, f, t), t, f) = q
         /\ Host!Rebase(f, f, t) = t
         /\ \A r \in Paths : Host!IsPrefix(q, r) => Host!IsPrefix(Host!Rebase(q, f, t), Host!Rebase(r, f, t))
<1> DEFINE p == Host!Rebase(q, f, t)
<1>1. Len(f) \in Nat /\ Len(t) \in Nat /\ Len(q) \in Nat /\ Len(f) <= Len(q) /\ \A i \in 1..Len(f) : f[i] = q[i]
  BY Order, Lengths, PrefixIs
<1>2. /\ p \in Paths /\ Len(p) = Len(t) + Len(q) - Len(f) /\ \A i \in 1..Len(t) : p[i] = t[i]
      /\ \A i \in (Len(t) + 1)..(Len(t) + Len(q) - Len(f)) : p[i] = q[i - Len(t) + Len(f)]
  BY RebaseIs
<1> HIDE DEF p
<1>3. Host!IsPrefix(t, p)
  BY <1>1, <1>2, PrefixIs
<1>4. Host!Rebase(p, t, f) = q
  <2>1. /\ Host!Rebase(p, t, f) \in Paths /\ Len(Host!Rebase(p, t, f)) = Len(f) + Len(p) - Len(t)
        /\ \A i \in 1..Len(f) : Host!Rebase(p, t, f)[i] = f[i]
        /\ \A i \in (Len(f) + 1)..(Len(f) + Len(p) - Len(t)) : Host!Rebase(p, t, f)[i] = p[i - Len(f) + Len(t)]
    BY <1>2, <1>3, RebaseIs
  <2>2. Len(Host!Rebase(p, t, f)) = Len(q)
    BY <1>1, <1>2, <2>1
  <2>3. ASSUME NEW i \in 1..Len(q) PROVE Host!Rebase(p, t, f)[i] = q[i]
    <3>1. CASE i <= Len(f)
      BY <1>1, <2>1, <3>1
    <3>2. CASE i > Len(f)
      <4>1. i \in (Len(f) + 1)..(Len(f) + Len(p) - Len(t))
            /\ i - Len(f) + Len(t) \in (Len(t) + 1)..(Len(t) + Len(q) - Len(f))
            /\ (i - Len(f) + Len(t)) - Len(t) + Len(f) = i
        BY <1>1, <1>2, <3>2
      <4> QED BY <1>2, <2>1, <4>1
    <3> QED BY <1>1, <3>1, <3>2
  <2> QED BY <2>1, <2>2, <2>3, Equal
<1>5. Host!Rebase(f, f, t) = t
  <2>1. Host!IsPrefix(f, f)
    BY Order
  <2>2. /\ Host!Rebase(f, f, t) \in Paths /\ Len(Host!Rebase(f, f, t)) = Len(t) + Len(f) - Len(f)
        /\ \A i \in 1..Len(t) : Host!Rebase(f, f, t)[i] = t[i]
    BY <2>1, RebaseIs
  <2> QED BY <1>1, <2>2, Equal
<1>6. ASSUME NEW r \in Paths, Host!IsPrefix(q, r) PROVE Host!IsPrefix(p, Host!Rebase(r, f, t))
  <2>1. Host!IsPrefix(f, r) /\ Len(q) <= Len(r) /\ Len(r) \in Nat /\ \A i \in 1..Len(q) : q[i] = r[i]
    BY <1>6, Order, Lengths, PrefixIs
  <2>2. /\ Host!Rebase(r, f, t) \in Paths /\ Len(Host!Rebase(r, f, t)) = Len(t) + Len(r) - Len(f)
        /\ \A i \in 1..Len(t) : Host!Rebase(r, f, t)[i] = t[i]
        /\ \A i \in (Len(t) + 1)..(Len(t) + Len(r) - Len(f)) : Host!Rebase(r, f, t)[i] = r[i - Len(t) + Len(f)]
    BY <2>1, RebaseIs
  <2>3. Len(p) <= Len(Host!Rebase(r, f, t))
    BY <1>1, <1>2, <2>1, <2>2
  <2>4. ASSUME NEW i \in 1..Len(p) PROVE p[i] = Host!Rebase(r, f, t)[i]
    <3>1. CASE i <= Len(t)
      BY <1>1, <1>2, <2>2, <3>1
    <3>2. CASE i > Len(t)
      <4>1. /\ i \in (Len(t) + 1)..(Len(t) + Len(q) - Len(f)) /\ i \in (Len(t) + 1)..(Len(t) + Len(r) - Len(f))
            /\ i - Len(t) + Len(f) \in 1..Len(q)
        BY <1>1, <1>2, <2>1, <3>2
      <4> QED BY <1>2, <2>1, <2>2, <4>1
    <3> QED BY <1>1, <3>1, <3>2
  <2> QED BY <1>2, <2>2, <2>3, <2>4, PrefixIs
<1> QED BY <1>2, <1>3, <1>4, <1>5, <1>6 DEF p

-----------------------------------------------------------------------------
(* Trees: what is above an entry is a directory. *)

Rooted(t) ==
  /\ IsFiniteSet(DOMAIN t) /\ DOMAIN t \subseteq Paths
  /\ \A p \in DOMAIN t : \A a \in Paths : Host!IsPrefix(a, p) /\ a # p => Host!IsDir(t, a)

\* With an entry, a set has what is above it, up to f; or what is below it.
DownTo(f, ps) == \A q \in ps : \A r \in Paths : Host!IsPrefix(f, r) /\ Host!IsPrefix(r, q) => r \in ps
UpIn(t, ps) == \A q \in ps : \A r \in DOMAIN t : Host!IsPrefix(q, r) => r \in ps

LEMMA RootedFacts ==
  ASSUME NEW t, Rooted(t)
  PROVE  /\ DOMAIN t \subseteq Paths
         /\ \A p \in DOMAIN t : \A a \in Paths : Host!IsPrefix(a, p) => a \in DOMAIN t /\ (a # p => t[a] = "dir")
         /\ \A f : Host!Subtree(t, f) \subseteq DOMAIN t
BY DEF Rooted, Host!IsDir, Host!Exists, Host!Subtree

LEMMA SubtreeShape ==
  ASSUME NEW t, Rooted(t), NEW f \in Paths
  PROVE  DownTo(f, Host!Subtree(t, f)) /\ UpIn(t, Host!Subtree(t, f))
<1>1. DownTo(f, Host!Subtree(t, f))
  BY RootedFacts DEF DownTo, Host!Subtree
<1>2. UpIn(t, Host!Subtree(t, f))
  BY RootedFacts, Order DEF UpIn, Host!Subtree
<1> QED BY <1>1, <1>2

LEMMA BeginningsShape ==
  ASSUME NEW t, Rooted(t), NEW f \in Paths, NEW ps \in Host!Beginnings(t, f)
  PROVE  ps \subseteq Host!Subtree(t, f) /\ DownTo(f, ps)
<1>1. ps \subseteq Host!Subtree(t, f) /\ \A q \in ps : q = f \/ Host!Front(q) \in ps
  BY DEF Host!Beginnings
<1>2. \A q \in ps : q \in Paths /\ q \in DOMAIN t /\ Host!IsPrefix(f, q)
  BY <1>1, RootedFacts DEF Host!Subtree
<1>3. ASSUME NEW q \in ps, NEW r \in Paths, Host!IsPrefix(f, r), Host!IsPrefix(r, q), r \notin ps PROVE FALSE
  <2> DEFINE S == {Len(s) : s \in {x \in ps : Host!IsPrefix(r, x)}}
  <2>1. S \subseteq Nat /\ S # {}
    BY <1>2, <1>3, Lengths
  <2>2. PICK n \in S : \A m \in S : n <= m
    BY <2>1, Least
  <2>3. PICK s \in ps : Host!IsPrefix(r, s) /\ Len(s) = n
    OBVIOUS
  <2>4. s # f
    BY <1>2, <1>3, <2>3, Order
  <2>5. s # r /\ s # <<>>
    <3>1. Host!IsPrefix(f, s) /\ s # f /\ s \in Paths
      BY <1>2, <2>3, <2>4
    <3>2. Len(f) \in Nat /\ Len(s) \in Nat /\ Len(f) <= Len(s) /\ Len(f) # Len(s) /\ Len(<<>>) = 0
      BY <3>1, Order, Lengths
    <3> QED BY <1>3, <2>3, <3>2
  <2>6. Host!Front(s) \in ps
    BY <1>1, <2>4
  <2>7. Host!IsPrefix(r, Host!Front(s)) /\ Len(Host!Front(s)) = Len(s) - 1 /\ Len(s) \in Nat
    BY <1>2, <2>3, <2>5, Fronts, Lengths
  <2>8. Len(Host!Front(s)) \in S
    BY <2>6, <2>7
  <2> QED BY <2>2, <2>3, <2>7, <2>8
<1> QED BY <1>1, <1>3 DEF DownTo

LEMMA GoneShape ==
  ASSUME NEW t, NEW f, NEW ps \in Host!Gone(t, f)
  PROVE  ps \subseteq Host!Subtree(t, f) /\ UpIn(t, ps)
BY DEF Host!Gone, UpIn, Host!Subtree

LEMMA WithoutRooted ==
  ASSUME NEW t, Rooted(t), NEW ps, UpIn(t, ps)
  PROVE  Rooted(Host!Without(t, ps))
<1> DEFINE w == Host!Without(t, ps)
<1>1. DOMAIN w = DOMAIN t \ ps /\ \A p \in DOMAIN t \ ps : w[p] = t[p]
  BY DEF Host!Without
<1>2. IsFiniteSet(DOMAIN w) /\ DOMAIN w \subseteq Paths
  BY <1>1, FS_Subset DEF Rooted
<1> HIDE DEF w
<1>3. ASSUME NEW p \in DOMAIN w, NEW a \in Paths, Host!IsPrefix(a, p), a # p PROVE Host!IsDir(w, a)
  <2>1. a \in DOMAIN t /\ t[a] = "dir" /\ p \in DOMAIN t /\ p \notin ps
    BY <1>1, <1>3, RootedFacts
  <2>2. a \notin ps
    BY <1>3, <2>1 DEF UpIn
  <2> QED BY <1>1, <2>1, <2>2 DEF Host!IsDir, Host!Exists
<1>4. Rooted(w)
  BY <1>2, <1>3 DEF Rooted
<1> QED BY <1>4 DEF w

\* What is written, and what stays.
LEMMA WrittenIs ==
  ASSUME NEW t, Rooted(t), NEW f \in Paths, NEW d \in Paths, NEW ps \in SUBSET Host!Subtree(t, f)
  PROVE  LET w == Host!Written(t, ps, f, d) IN
         /\ DOMAIN w = DOMAIN t \cup {Host!Rebase(q, f, d) : q \in ps} /\ DOMAIN w \subseteq Paths
         /\ \A q \in ps : Host!Rebase(q, f, d) \in DOMAIN w /\ Host!IsPrefix(d, Host!Rebase(q, f, d)) /\ w[Host!Rebase(q, f, d)] = t[q]
         /\ \A p \in DOMAIN t : ~Host!IsPrefix(d, p) => w[p] = t[p]
         /\ \A p \in DOMAIN w : \/ p \in DOMAIN t /\ w[p] = t[p]
                               \/ \E q \in ps : p = Host!Rebase(q, f, d) /\ w[p] = t[q]
<1> DEFINE w == Host!Written(t, ps, f, d)
<1>1. \A q \in ps : q \in DOMAIN t /\ q \in Paths /\ Host!IsPrefix(f, q)
  BY RootedFacts DEF Host!Subtree
<1>2. \A q \in ps : /\ Host!Rebase(q, f, d) \in Paths /\ Host!IsPrefix(d, Host!Rebase(q, f, d))
                    /\ Host!Rebase(Host!Rebase(q, f, d), d, f) = q
  BY <1>1, Rebasing
<1>3. DOMAIN w = DOMAIN t \cup {Host!Rebase(q, f, d) : q \in ps}
  BY DEF Host!Written
<1>4. \A p \in DOMAIN w : w[p] = IF Host!IsPrefix(d, p) /\ Host!Rebase(p, d, f) \in ps THEN t[Host!Rebase(p, d, f)] ELSE t[p]
  BY DEF Host!Written
<1> HIDE DEF w
<1>5. DOMAIN w \subseteq Paths
  BY <1>2, <1>3, RootedFacts
<1>6. \A q \in ps : Host!Rebase(q, f, d) \in DOMAIN w /\ Host!IsPrefix(d, Host!Rebase(q, f, d)) /\ w[Host!Rebase(q, f, d)] = t[q]
  BY <1>2, <1>3, <1>4
<1>7. \A p \in DOMAIN t : ~Host!IsPrefix(d, p) => w[p] = t[p]
  BY <1>3, <1>4
<1>8. ASSUME NEW p \in DOMAIN w
      PROVE  \/ p \in DOMAIN t /\ w[p] = t[p]
             \/ \E q \in ps : p = Host!Rebase(q, f, d) /\ w[p] = t[q]
  <2>1. CASE Host!IsPrefix(d, p) /\ Host!Rebase(p, d, f) \in ps
    <3>1. p \in Paths /\ Host!Rebase(Host!Rebase(p, d, f), f, d) = p
      BY <1>5, <2>1, Rebasing
    <3> QED BY <1>4, <2>1, <3>1
  <2>2. CASE ~(Host!IsPrefix(d, p) /\ Host!Rebase(p, d, f) \in ps)
    <3>1. w[p] = t[p]
      BY <1>4, <2>2
    <3>2. CASE p \in DOMAIN t
      BY <3>1, <3>2
    <3>3. CASE p \notin DOMAIN t
      <4>1. PICK q \in ps : p = Host!Rebase(q, f, d)
        BY <1>3, <3>3
      <4> QED BY <1>2, <2>2, <4>1
    <3> QED BY <3>2, <3>3
  <2> QED BY <2>1, <2>2
<1> QED BY <1>3, <1>5, <1>6, <1>7, <1>8 DEF w

LEMMA WrittenRooted ==
  ASSUME NEW t, Rooted(t), NEW f \in Paths, NEW d \in Paths, d # <<>>, Host!IsDir(t, Host!Front(d)),
         NEW ps \in SUBSET Host!Subtree(t, f), DownTo(f, ps),
         \A q \in Host!Subtree(t, f) : Host!Exists(t, Host!Rebase(q, f, d)) => (Host!IsDir(t, Host!Rebase(q, f, d)) <=> Host!IsDir(t, q))
  PROVE  Rooted(Host!Written(t, ps, f, d))
<1> DEFINE w == Host!Written(t, ps, f, d)
<1>1. /\ DOMAIN w = DOMAIN t \cup {Host!Rebase(q, f, d) : q \in ps} /\ DOMAIN w \subseteq Paths
      /\ \A q \in ps : Host!Rebase(q, f, d) \in DOMAIN w /\ Host!IsPrefix(d, Host!Rebase(q, f, d)) /\ w[Host!Rebase(q, f, d)] = t[q]
      /\ \A p \in DOMAIN t : ~Host!IsPrefix(d, p) => w[p] = t[p]
      /\ \A p \in DOMAIN w : \/ p \in DOMAIN t /\ w[p] = t[p]
                            \/ \E q \in ps : p = Host!Rebase(q, f, d) /\ w[p] = t[q]
  BY WrittenIs
<1>2. IsFiniteSet(DOMAIN w)
  <2>1. IsFiniteSet(DOMAIN t) /\ ps \in SUBSET DOMAIN t
    BY RootedFacts DEF Rooted
  <2>2. IsFiniteSet(ps)
    BY <2>1, FS_Subset
  <2>3. IsFiniteSet({Host!Rebase(q, f, d) : q \in ps})
    <3> DEFINE g == [q \in ps |-> Host!Rebase(q, f, d)]
               R == {Host!Rebase(q, f, d) : q \in ps}
    <3>1. g \in Surjection(ps, R)
      BY DEF Surjection
    <3> QED BY <2>2, <3>1, FS_Surjection
  <2> DEFINE R == {Host!Rebase(q, f, d) : q \in ps}
  <2>4. DOMAIN w = DOMAIN t \cup R
    BY <1>1
  <2>5. IsFiniteSet(R)
    BY <2>3
  <2> HIDE DEF w, R
  <2>6. IsFiniteSet(DOMAIN t \cup R)
    BY <2>1, <2>5, FS_Union
  <2> QED BY <2>4, <2>6
<1> HIDE DEF w
<1>3. \A q \in ps : q \in DOMAIN t /\ q \in Paths /\ Host!IsPrefix(f, q) /\ q \in Host!Subtree(t, f)
  BY RootedFacts DEF Host!Subtree
<1>4. ASSUME NEW p \in DOMAIN w, NEW a \in Paths, Host!IsPrefix(a, p), a # p PROVE Host!IsDir(w, a)
  <2>1. CASE p \in DOMAIN t
    <3>1. a \in DOMAIN t /\ t[a] = "dir" /\ a \in DOMAIN w
      BY <1>1, <1>4, <2>1, RootedFacts
    <3>2. CASE \E q \in ps : a = Host!Rebase(q, f, d) /\ w[a] = t[q]
      BY <1>3, <3>1, <3>2 DEF Host!IsDir, Host!Exists
    <3> QED BY <1>1, <3>1, <3>2 DEF Host!IsDir, Host!Exists
  <2>2. ASSUME NEW q \in ps, p = Host!Rebase(q, f, d) PROVE Host!IsDir(w, a)
    <3>1. p \in Paths /\ Host!IsPrefix(d, p) /\ Host!Rebase(p, d, f) = q
      BY <1>3, <2>2, Rebasing
    <3>2. CASE ~Host!IsPrefix(d, a)
      <4>1. Host!IsPrefix(a, Host!Front(d)) /\ Host!Front(d) \in Paths
        BY <1>4, <3>1, <3>2, Order, Fronts
      <4>2. a \in DOMAIN t /\ t[a] = "dir"
        BY <4>1, RootedFacts DEF Host!IsDir, Host!Exists
      <4> QED BY <1>1, <3>2, <4>2 DEF Host!IsDir, Host!Exists
    <3>3. CASE Host!IsPrefix(d, a)
      <4> DEFINE b == Host!Rebase(a, d, f)
      <4>1. b \in Paths /\ Host!IsPrefix(f, b) /\ Host!Rebase(b, f, d) = a /\ Host!IsPrefix(b, q)
        BY <1>4, <3>1, <3>3, Rebasing
      <4> HIDE DEF b
      <4>2. b \in ps /\ b # q
        BY <1>4, <2>2, <4>1 DEF DownTo
      <4>3. t[b] = "dir" /\ w[a] = t[b] /\ a \in DOMAIN w
        BY <1>1, <1>3, <4>1, <4>2, RootedFacts
      <4> QED BY <4>3 DEF Host!IsDir, Host!Exists
    <3> QED BY <3>2, <3>3
  <2> QED BY <1>1, <2>1, <2>2
<1>5. Rooted(w)
  BY <1>1, <1>2, <1>4 DEF Rooted
<1> QED BY <1>5 DEF w

-----------------------------------------------------------------------------
(* The invariant. *)

HostPCs == {"validate", "check", "item", "remove", "command"} \cup Host!Ended
Items == [source : Paths, destination : Paths, noOp : BOOLEAN, exists : BOOLEAN]
Looping == {"item", "remove", "command", "done"}
Working == {"remove", "command"}
Begun == 1..Len(placed)
IsMove == job.operation = "move"

HostTypes ==
  /\ before \in Trees /\ job \in Host!Requests(before) /\ jobPc \in HostPCs /\ guests \subseteq Guests
  /\ Rooted(tree)
  /\ items \in Seq(Items)
  /\ placed \in Seq(Paths) /\ Len(placed) <= Len(items)

\* What prepareRemoteTransfers has made of the request.
Accepted ==
  \A n \in DOMAIN job.sources : job.sources[n] # <<>> /\ ~Host!IsPrefix(job.sources[n], job.target)
Prepared(n) ==
  LET i == items[n] IN
  /\ i.source = job.sources[n] /\ i.destination = Append(job.target, Host!Last(i.source))
  /\ i.noOp <=> IsMove /\ i.destination = i.source
  /\ i.noOp => ~i.exists
  /\ i.destination \in DOMAIN before => i.exists \/ i.noOp
Phases ==
  /\ jobPc \in {"validate", "check"} => items = <<>>
  /\ jobPc \in {"check"} \cup Looping => Accepted
  /\ jobPc \in Looping => Len(items) = Len(job.sources)
  /\ jobPc \in Looping /\ job.policy = "ask" => \A n \in DOMAIN items : ~items[n].exists
  /\ jobPc = "item" => Len(placed) < Len(items)
  /\ jobPc = "done" => Len(placed) = Len(items)
  /\ jobPc \in Working => Len(placed) # 0 /\ ~items[Len(placed)].noOp
  /\ jobPc = "remove" => Host!Replaces(items[Len(placed)])
  /\ jobPc \in Working /\ Host!Replaces(items[Len(placed)]) => placed[Len(placed)] = items[Len(placed)].destination
  /\ items # <<>> => Len(items) = Len(job.sources) /\ \A n \in DOMAIN items : Prepared(n)

\* The places of the items begun are different entries of the target.
InTarget(p) == Host!IsPrefix(job.target, p) /\ Len(p) = Len(job.target) + 1
HostPlaces ==
  /\ \A m \in Begun : IF items[m].noOp THEN placed[m] = items[m].source ELSE InTarget(placed[m])
  /\ \A m, n \in Begun : ~items[m].noOp /\ ~items[n].noOp /\ placed[m] = placed[n] => m = n

\* Until the first item is begun, everything is where it was; later it is
\* there, or below the place of an item, unless its loss was announced, and
\* never below the place of the item at work.
Found == jobPc \in {"validate", "check"} => \A p \in DOMAIN before : p \in DOMAIN tree /\ tree[p] = before[p]
Announced(p) == \E n \in DOMAIN items : Host!Replaces(items[n]) /\ Host!IsPrefix(items[n].destination, p)
KeptAt(p, e) ==
  /\ e \in DOMAIN tree /\ tree[e] = before[p]
  /\ e = p \/ \E m \in Begun : ~items[m].noOp /\ Host!IsPrefix(placed[m], e)
  /\ jobPc \in Working => ~Host!IsPrefix(placed[Len(placed)], e)
Kept == \A p \in DOMAIN before : before[p] = "dir" \/ Announced(p) \/ \E e \in DOMAIN tree : KeptAt(p, e)

HostIInv == HostTypes /\ Phases /\ HostPlaces /\ Found /\ Kept

-----------------------------------------------------------------------------
LEMMA GivenPathsAre ==
  ASSUME Host!TreesAssumption
  PROVE  /\ \A p \in Host!GivenPaths : p \in Paths /\ \A n \in DOMAIN p : p[n] \in Host!GivenNames
         /\ \A t \in Trees : DOMAIN t \subseteq Host!GivenPaths
         /\ Targets \subseteq Host!GivenPaths /\ Guests \subseteq Host!GivenPaths
<1>1. \A p \in Host!GivenPaths : p \in Seq(Host!GivenNames)
  BY DEF Host!TreesAssumption
<1>2. Host!GivenNames \subseteq Names
  BY DEF Names
<1>3. ASSUME NEW p \in Host!GivenPaths PROVE p \in Paths /\ \A n \in DOMAIN p : p[n] \in Host!GivenNames
  BY <1>1, <1>2 DEF Paths
<1>4. ASSUME NEW t \in Trees PROVE DOMAIN t \subseteq Host!GivenPaths
  <2>1. DOMAIN t \in {DOMAIN u : u \in Trees}
    OBVIOUS
  <2>2. DOMAIN t \subseteq UNION {DOMAIN u : u \in Trees}
    BY <2>1, Zenon
  <2> QED BY <2>2 DEF Host!GivenPaths
<1>5. Targets \subseteq Host!GivenPaths /\ Guests \subseteq Host!GivenPaths
  BY DEF Host!GivenPaths
<1> QED BY <1>3, <1>4, <1>5

LEMMA TreesRooted ==
  ASSUME Host!TreesAssumption, NEW t \in Trees
  PROVE  Rooted(t)
<1>1. DOMAIN t \subseteq Paths /\ IsFiniteSet(DOMAIN t)
  BY GivenPathsAre, FiniteIs DEF Host!TreesAssumption
<1>2. ASSUME NEW p \in DOMAIN t, NEW a \in Paths, Host!IsPrefix(a, p), a # p PROVE Host!IsDir(t, a)
  <2>1. a \in Host!Prefixes(p) \ {p}
    BY <1>1, <1>2, Above
  <2> QED BY <2>1 DEF Host!TreesAssumption, Host!IsDir, Host!Exists
<1> QED BY <1>1, <1>2 DEF Rooted

LEMMA JobFacts ==
  ASSUME Host!MaxItemsAssumption, Host!TreesAssumption, before \in Trees, job \in Host!Requests(before)
  PROVE  /\ job.operation \in Host!Operations /\ job.policy \in Host!Policies
         /\ job.target \in Paths
         /\ Len(job.sources) \in 1..MaxItems /\ DOMAIN job.sources = 1..Len(job.sources)
         /\ \A n \in DOMAIN job.sources : job.sources[n] \in DOMAIN before /\ job.sources[n] \in Paths
         /\ \A n \in DOMAIN job.sources : job.sources[n] # <<>> => Host!Last(job.sources[n]) \in Host!GivenNames
         /\ \A m, n \in DOMAIN job.sources : job.sources[m] = job.sources[n] => m = n
         /\ MaxItems \in Nat
<1>1. PICK op \in Host!Operations, policy \in Host!Policies, target \in Targets,
           s \in {q \in UNION {[1..n -> DOMAIN before] : n \in 1..MaxItems} : Host!IsInjective(q)} :
        job = [operation |-> op, policy |-> policy, sources |-> s, target |-> target]
  BY DEF Host!Requests
<1>2. job.operation = op /\ job.policy = policy /\ job.sources = s /\ job.target = target
  BY <1>1
<1>3. PICK n \in 1..MaxItems : s \in [1..n -> DOMAIN before]
  OBVIOUS
<1>4. MaxItems \in Nat /\ n \in Nat /\ DOMAIN s = 1..n
  BY <1>3 DEF Host!MaxItemsAssumption
<1>5. s \in Seq(DOMAIN before) /\ Len(s) = n
  BY <1>3, <1>4
<1>6. \A k, l \in DOMAIN s : s[k] = s[l] => k = l
  BY DEF Host!IsInjective
<1>7. target \in Paths
  BY GivenPathsAre
<1>8. ASSUME NEW k \in DOMAIN s
      PROVE  s[k] \in DOMAIN before /\ s[k] \in Paths /\ (s[k] # <<>> => Host!Last(s[k]) \in Host!GivenNames)
  <2>1. s[k] \in DOMAIN before /\ s[k] \in Host!GivenPaths /\ s[k] \in Paths
    BY <1>3, <1>4, <1>8, GivenPathsAre
  <2>2. s[k] # <<>> => Len(s[k]) \in DOMAIN s[k]
    <3> DEFINE p == s[k]
    <3>1. p \in Seq(Names)
      BY <2>1 DEF Paths
    <3> HIDE DEF p
    <3>2. p # <<>> => Len(p) \in DOMAIN p
      BY <3>1
    <3> QED BY <3>2 DEF p
  <2> QED BY <2>1, <2>2, GivenPathsAre DEF Host!Last
<1> QED BY <1>2, <1>4, <1>5, <1>6, <1>7, <1>8

LEMMA HostInitInv == ASSUME Host!MaxItemsAssumption, Host!TreesAssumption, Host!Init PROVE HostIInv
<1>1. HostTypes
  <2>1. Rooted(tree)
    BY TreesRooted DEF Host!Init
  <2>2. items \in Seq(Items) /\ placed \in Seq(Paths) /\ Len(placed) <= Len(items)
    BY DEF Host!Init
  <2> QED BY <2>1, <2>2 DEF Host!Init, HostTypes, HostPCs
<1>2. Phases /\ HostPlaces
  BY DEF Host!Init, Phases, HostPlaces, Looping, Working, Begun
<1>3. Found
  BY DEF Host!Init, Found
<1>4. Kept
  <2>1. \A p \in DOMAIN before : p \in DOMAIN tree /\ KeptAt(p, p)
    BY DEF Host!Init, KeptAt, Working
  <2> QED BY <2>1 DEF Kept
<1> QED BY <1>1, <1>2, <1>3, <1>4 DEF HostIInv

-----------------------------------------------------------------------------
(* Steps that leave the tree alone, or have not begun an item yet. *)

LEMMA SequenceFacts ==
  ASSUME HostTypes
  PROVE  /\ Len(items) \in Nat /\ DOMAIN items = 1..Len(items) /\ \A n \in DOMAIN items : items[n] \in Items
         /\ Len(placed) \in Nat /\ DOMAIN placed = Begun /\ Begun \subseteq DOMAIN items
         /\ \A m \in Begun : placed[m] \in Paths
<1>1. Len(items) \in Nat /\ DOMAIN items = 1..Len(items) /\ \A n \in DOMAIN items : items[n] \in Items
  <2>1. items \in Seq(Items)
    BY DEF HostTypes
  <2> QED BY <2>1
<1>2. Len(placed) \in Nat /\ DOMAIN placed = 1..Len(placed) /\ \A m \in DOMAIN placed : placed[m] \in Paths
  <2>1. placed \in Seq(Paths)
    BY DEF HostTypes
  <2> QED BY <2>1
<1>3. Len(placed) <= Len(items)
  BY DEF HostTypes
<1> QED BY <1>1, <1>2, <1>3 DEF Begun

\* An item as the second loop of prepareRemoteTransfers leaves it.
LEMMA ItemFacts ==
  ASSUME Host!MaxItemsAssumption, Host!TreesAssumption, HostTypes, Phases, Accepted, NEW n \in DOMAIN items
  PROVE  /\ Prepared(n) /\ n \in DOMAIN job.sources
         /\ items[n].source \in Paths /\ items[n].source # <<>> /\ items[n].source \in DOMAIN before
         /\ Host!Last(items[n].source) \in Host!GivenNames /\ Host!Last(items[n].source) \in Names
         /\ ~Host!IsPrefix(items[n].source, job.target)
         /\ items[n].destination \in Paths /\ InTarget(items[n].destination)
         /\ job.target \in Paths
<1>1. items # <<>> /\ Len(items) \in Nat /\ DOMAIN items = 1..Len(items)
  BY SequenceFacts
<1>2. Len(items) = Len(job.sources) /\ Prepared(n)
  BY <1>1 DEF Phases
<1>3. /\ n \in DOMAIN job.sources /\ job.target \in Paths
      /\ job.sources[n] \in DOMAIN before /\ job.sources[n] \in Paths
      /\ job.sources[n] # <<>> => Host!Last(job.sources[n]) \in Host!GivenNames
  BY <1>1, <1>2, JobFacts DEF HostTypes
<1>4. /\ items[n].source = job.sources[n] /\ job.sources[n] # <<>> /\ ~Host!IsPrefix(job.sources[n], job.target)
      /\ items[n].destination = Append(job.target, Host!Last(items[n].source))
  BY <1>2, <1>3 DEF Prepared, Accepted
<1>5. Host!Last(items[n].source) \in Names
  BY <1>3, <1>4 DEF Names
<1>6. items[n].destination \in Paths /\ InTarget(items[n].destination)
  BY <1>3, <1>4, <1>5, Appends DEF InTarget
<1> QED BY <1>2, <1>3, <1>4, <1>5, <1>6

LEMMA StopInv ==
  ASSUME HostIInv, jobPc' = "failed", UNCHANGED <<tree, job, items, placed, before, guests>>
  PROVE  HostIInv'
<1>1. HostTypes'
  BY DEF HostIInv, HostTypes, HostPCs, Host!Ended
<1>2. Phases'
  BY DEF HostIInv, Phases, Looping, Working, Prepared, IsMove
<1>3. HostPlaces' /\ Found'
  BY DEF HostIInv, HostPlaces, Found, Begun, InTarget
<1>4. Kept'
  BY DEF HostIInv, Kept, KeptAt, Announced, Host!Replaces, Begun, Working
<1> QED BY <1>1, <1>2, <1>3, <1>4 DEF HostIInv

LEMMA ValidateInv ==
  ASSUME Host!MaxItemsAssumption, Host!TreesAssumption, HostIInv, Host!Validate
  PROVE  HostIInv'
<1> DEFINE T == job.target
<1>1. /\ jobPc = "validate" /\ jobPc' = "check" /\ tree' = Host!EnsureDirectory(tree, T) /\ Host!CanBeDirectory(tree, T)
      /\ UNCHANGED <<job, items, placed, before, guests>>
      /\ \A n \in DOMAIN job.sources : Host!Acceptable(job.sources[n])
  BY DEF Host!Validate, Host!Acceptances
<1>2. T \in Paths /\ Rooted(tree) /\ items = <<>>
  BY <1>1, JobFacts DEF HostIInv, HostTypes, Phases
<1>3. DOMAIN tree' = DOMAIN tree \cup Host!Prefixes(T)
      /\ \A q \in DOMAIN tree' : tree'[q] = IF q \in DOMAIN tree THEN tree[q] ELSE "dir"
  BY <1>1 DEF Host!EnsureDirectory, Host!Exists
<1>4. \A q \in Host!Prefixes(T) : tree'[q] = "dir"
  BY <1>1, <1>3 DEF Host!CanBeDirectory, Host!IsDir, Host!Exists
<1>5. \A q : q \in Host!Prefixes(T) <=> q \in Paths /\ Host!IsPrefix(q, T)
  BY <1>2, Above
<1>6. Rooted(tree')
  <2>1. IsFiniteSet(Host!Prefixes(T))
    <3> DEFINE g == [l \in 0..Len(T) |-> SubSeq(T, 1, l)]
    <3>1. g \in Surjection(0..Len(T), Host!Prefixes(T))
      BY DEF Surjection, Host!Prefixes
    <3>2. IsFiniteSet(0..Len(T))
      BY <1>2, Lengths, FS_Interval
    <3> QED BY <3>1, <3>2, FS_Surjection
  <2>2. IsFiniteSet(DOMAIN tree')
    BY <1>2, <1>3, <2>1, FS_Union DEF Rooted
  <2>3. DOMAIN tree' \subseteq Paths
    BY <1>2, <1>3, <1>5, RootedFacts
  <2>4. ASSUME NEW p \in DOMAIN tree', NEW a \in Paths, Host!IsPrefix(a, p), a # p PROVE Host!IsDir(tree', a)
    <3>1. CASE p \in DOMAIN tree
      BY <1>2, <1>3, <2>4, <3>1, RootedFacts DEF Host!IsDir, Host!Exists
    <3>2. CASE p \in Host!Prefixes(T)
      <4>1. a \in Host!Prefixes(T)
        BY <1>2, <1>5, <2>4, <3>2, Order
      <4> QED BY <1>3, <1>4, <4>1 DEF Host!IsDir, Host!Exists
    <3> QED BY <1>3, <3>1, <3>2
  <2> QED BY <2>2, <2>3, <2>4 DEF Rooted
<1>7. Accepted
  <2> SUFFICES ASSUME NEW n \in DOMAIN job.sources
               PROVE  job.sources[n] # <<>> /\ ~Host!IsPrefix(job.sources[n], T)
    BY DEF Accepted
  <2> DEFINE s == job.sources[n]
  <2>1. s # <<>> /\ Host!Exists(tree, s) /\ (Host!IsDir(tree, s) => ~Host!IsInside(s, T)) /\ s \in Paths
    BY <1>1, JobFacts DEF Host!Acceptable, HostIInv, HostTypes
  <2>2. Host!IsPrefix(s, T) => Host!IsDir(tree, s)
    BY <1>1, <1>5, <2>1 DEF Host!CanBeDirectory
  <2> QED BY <2>1, <2>2 DEF Host!IsInside
<1>8. HostTypes'
  BY <1>1, <1>6 DEF HostIInv, HostTypes, HostPCs
<1>9. Phases'
  BY <1>1, <1>2, <1>7 DEF Phases, Looping, Working, Accepted
<1>10. Begun = {}
  BY <1>2, SequenceFacts DEF HostIInv, HostTypes
<1>11. HostPlaces'
  BY <1>1, <1>10 DEF HostPlaces, Begun
<1>12. Found'
  BY <1>1, <1>3 DEF HostIInv, Found
<1>13. Kept'
  <2>1. \A p \in DOMAIN before : p \in DOMAIN tree' /\ KeptAt(p, p)'
    BY <1>1, <1>12 DEF Found, KeptAt, Working
  <2> QED BY <1>1, <2>1 DEF Kept
<1> QED BY <1>8, <1>9, <1>11, <1>12, <1>13 DEF HostIInv

LEMMA HostCheckInv == ASSUME Host!MaxItemsAssumption, Host!TreesAssumption, HostIInv, Host!Check PROVE HostIInv'
<1>1. /\ jobPc = "check" /\ items' = [n \in DOMAIN job.sources |-> Host!PreparedItem(job.sources[n])]
      /\ jobPc' = IF job.policy = "ask" /\ \E n \in DOMAIN items' : items'[n].exists THEN "conflict" ELSE "item"
      /\ UNCHANGED <<tree, job, placed, before, guests>>
  BY DEF Host!Check
<1>2. Accepted /\ HostTypes /\ items = <<>> /\ Found
  BY <1>1 DEF HostIInv, Phases
<1>3. /\ Len(job.sources) \in Nat \ {0} /\ DOMAIN job.sources = 1..Len(job.sources)
      /\ job.target \in Paths
      /\ \A n \in DOMAIN job.sources : job.sources[n] \in Paths
      /\ \A n \in DOMAIN job.sources : job.sources[n] # <<>> => Host!Last(job.sources[n]) \in Host!GivenNames
  BY <1>2, JobFacts DEF HostTypes, Host!MaxItemsAssumption
<1>4. ASSUME NEW n \in DOMAIN job.sources
      PROVE  items'[n] \in Items /\ Prepared(n)'
  <2> DEFINE s == job.sources[n]
             d == Append(job.target, Host!Last(s))
             noOp == job.operation = "move" /\ d = s
  <2>1. items'[n] = [source |-> s, destination |-> d, noOp |-> noOp, exists |-> ~noOp /\ Host!Exists(tree, d)]
    BY <1>1 DEF Host!PreparedItem
  <2>2. s \in Paths /\ d \in Paths
    BY <1>2, <1>3, Appends DEF Accepted, Names
  <2>3. d \in DOMAIN before => Host!Exists(tree, d)
    BY <1>1, <1>2 DEF Found, Host!Exists
  <2>4. noOp \in BOOLEAN /\ (~noOp /\ Host!Exists(tree, d)) \in BOOLEAN
    BY DEF Host!Exists
  <2>5. items'[n] \in Items
    BY <2>1, <2>2, <2>4 DEF Items
  <2>6. items'[n].source = s /\ items'[n].destination = d /\ items'[n].noOp = noOp
    BY <2>1
  <2>7. items'[n].exists = (~noOp /\ Host!Exists(tree, d))
    BY <2>1
  <2>8. /\ items'[n].noOp <=> IsMove /\ d = s
        /\ items'[n].exists <=> ~items'[n].noOp /\ Host!Exists(tree, d)
    <3> DEFINE f == items'[n].noOp
               g == items'[n].exists
               h == Host!Exists(tree, d)
    <3>1. f = noOp /\ g = (~noOp /\ h)
      BY <2>6, <2>7
    <3> HIDE DEF f, g, h, d
    <3>2. (f <=> IsMove /\ d = s) /\ (g <=> ~f /\ h)
      BY <3>1, Zenon DEF IsMove
    <3> QED BY <3>2 DEF f, g, h
  <2> HIDE DEF d
  <2>9. Prepared(n)'
    BY <1>1, <2>3, <2>6, <2>8 DEF Prepared, IsMove, d
  <2> QED BY <2>5, <2>9
<1>5. items' \in Seq(Items) /\ Len(items') = Len(job.sources) /\ DOMAIN items' = DOMAIN job.sources
  <2>1. items' \in [1..Len(job.sources) -> Items]
    BY <1>1, <1>3, <1>4
  <2> QED BY <1>3, <2>1
<1>6. placed = <<>> /\ Len(placed) = 0
  <2>1. placed \in Seq(Paths) /\ Len(placed) = 0
    BY <1>2, SequenceFacts DEF HostTypes
  <2> QED BY <2>1
<1>7. HostTypes'
  BY <1>1, <1>2, <1>3, <1>5, <1>6 DEF HostTypes, HostPCs, Host!Ended
<1>8. Phases'
  <2>1. /\ jobPc' \in {"conflict", "item"}
        /\ jobPc' = "item" /\ job.policy = "ask" => \A n \in DOMAIN items' : ~items'[n].exists
    BY <1>1
  <2>2. Accepted'
    BY <1>1, <1>2 DEF Accepted
  <2>3. Len(placed') < Len(items')
    BY <1>1, <1>3, <1>5, <1>6
  <2> QED BY <1>1, <1>4, <1>5, <2>1, <2>2, <2>3 DEF Phases, Looping, Working
<1>9. HostPlaces' /\ Found'
  BY <1>1, <1>6 DEF HostPlaces, Begun, Found
<1>10. Kept'
  <2>1. \A p \in DOMAIN before : p \in DOMAIN tree' /\ KeptAt(p, p)'
    BY <1>1, <1>2 DEF Found, KeptAt, Working
  <2> QED BY <1>1, <2>1 DEF Kept
<1> QED BY <1>7, <1>8, <1>9, <1>10 DEF HostIInv

-----------------------------------------------------------------------------
(* Beginning an item. *)

LEMMA WorkFacts ==
  ASSUME Host!MaxItemsAssumption, Host!TreesAssumption, HostIInv, jobPc \in Looping
  PROVE  /\ Accepted /\ job.target \in Paths /\ MaxItems \in Nat /\ Len(items) \in Nat /\ Len(items) <= MaxItems
         /\ job.policy \in Host!Policies /\ job.operation \in Host!Operations
         /\ Len(placed) \in Nat /\ Len(placed) <= Len(items) /\ Begun = 1..Len(placed) /\ DOMAIN placed = Begun
         /\ DOMAIN items = 1..Len(items) /\ Begun \subseteq DOMAIN items
         /\ \A m \in Begun : placed[m] \in Paths
         /\ \A n \in DOMAIN items :
              /\ items[n] \in Items /\ Prepared(n) /\ n \in DOMAIN job.sources
              /\ items[n].source \in Paths /\ items[n].source # <<>> /\ items[n].source \in DOMAIN before
              /\ Host!Last(items[n].source) \in Host!GivenNames /\ Host!Last(items[n].source) \in Names
              /\ ~Host!IsPrefix(items[n].source, job.target)
              /\ items[n].destination \in Paths /\ InTarget(items[n].destination)
         /\ \A m, n \in DOMAIN items : items[m].source = items[n].source => m = n
<1>1. HostTypes /\ Phases /\ Accepted /\ Len(items) = Len(job.sources)
  BY DEF HostIInv, Phases
<1>2. /\ job.target \in Paths /\ MaxItems \in Nat /\ Len(items) \in Nat /\ Len(items) <= MaxItems
      /\ job.policy \in Host!Policies /\ job.operation \in Host!Operations
      /\ \A m, n \in DOMAIN job.sources : job.sources[m] = job.sources[n] => m = n
  BY <1>1, JobFacts, SequenceFacts DEF HostTypes
<1>3. /\ Len(placed) \in Nat /\ Len(placed) <= Len(items) /\ Begun = 1..Len(placed) /\ DOMAIN placed = Begun
      /\ DOMAIN items = 1..Len(items) /\ Begun \subseteq DOMAIN items
      /\ \A m \in Begun : placed[m] \in Paths
  BY <1>1, SequenceFacts DEF Begun, HostTypes
<1>4. ASSUME NEW n \in DOMAIN items
      PROVE  /\ items[n] \in Items /\ Prepared(n) /\ n \in DOMAIN job.sources
             /\ items[n].source \in Paths /\ items[n].source # <<>> /\ items[n].source \in DOMAIN before
             /\ Host!Last(items[n].source) \in Host!GivenNames /\ Host!Last(items[n].source) \in Names
             /\ ~Host!IsPrefix(items[n].source, job.target)
             /\ items[n].destination \in Paths /\ InTarget(items[n].destination)
             /\ items[n].source = job.sources[n]
  BY <1>1, SequenceFacts, ItemFacts DEF Prepared
<1>5. ASSUME NEW m \in DOMAIN items, NEW n \in DOMAIN items, items[m].source = items[n].source PROVE m = n
  BY <1>2, <1>4, <1>5
<1> HIDE DEF Begun
<1> QED BY <1>1, <1>2, <1>3, <1>4, <1>5

\* The attempts make different names of one name.
LEMMA AttemptsDiffer ==
  ASSUME Host!TreesAssumption, NEW x \in Host!GivenNames, NEW a \in Nat, NEW b \in Nat, Append(x, a) = Append(x, b)
  PROVE  a = b
<1> DEFINE N == {x[n] : n \in 1..Len(x)} \cup Nat
<1>1. Len(x) \in Nat /\ x = [n \in 1..Len(x) |-> x[n]]
  BY DEF Host!TreesAssumption
<1>2. [n \in 1..Len(x) |-> x[n]] \in Seq(N)
  BY <1>1
<1>3. x \in Seq(N) /\ a \in N /\ b \in N
  BY <1>1, <1>2
<1> HIDE DEF N
<1>4. Append(x, a)[Len(x) + 1] = a /\ Append(x, b)[Len(x) + 1] = b
  BY <1>3, Appended
<1> QED BY <1>4

LEMMA CandidateFacts ==
  ASSUME Host!MaxItemsAssumption, Host!TreesAssumption, HostIInv, jobPc = "item"
  PROVE  /\ \A a \in Nat : Host!Candidate(a) \in Paths /\ InTarget(Host!Candidate(a))
         /\ \A a, b \in Nat : Host!Candidate(a) = Host!Candidate(b) => a = b
<1>1. /\ job.target \in Paths /\ Host!Item = items[Len(placed) + 1] /\ Len(placed) + 1 \in DOMAIN items
  BY WorkFacts DEF Host!Item, Looping, HostIInv, Phases
<1> DEFINE x == Host!Last(Host!Item.source)
<1>2. x \in Host!GivenNames
  BY <1>1, WorkFacts DEF Looping
<1> HIDE DEF x
<1>3. \A a \in Nat : Append(x, a) \in Names
  BY <1>2 DEF Names
<1>4. \A a : Host!Candidate(a) = Append(job.target, Append(x, a))
  BY DEF Host!Candidate, x
<1>5. ASSUME NEW a \in Nat
      PROVE  Host!Candidate(a) \in Paths /\ InTarget(Host!Candidate(a)) /\ Host!Last(Host!Candidate(a)) = Append(x, a)
  <2> DEFINE y == Append(x, a)
  <2>1. y \in Names /\ Host!Candidate(a) = Append(job.target, y)
    BY <1>3, <1>4
  <2> HIDE DEF y
  <2>2. Host!Candidate(a) \in Paths /\ InTarget(Host!Candidate(a)) /\ Host!Last(Host!Candidate(a)) = y
    BY <1>1, <2>1, Appends DEF InTarget
  <2> QED BY <2>2 DEF y
<1>6. ASSUME NEW a \in Nat, NEW b \in Nat, Host!Candidate(a) = Host!Candidate(b) PROVE a = b
  <2>1. Append(x, a) = Append(x, b)
    BY <1>5, <1>6
  <2> QED BY <1>2, <2>1, AttemptsDiffer
<1> QED BY <1>5, <1>6

\* resolveRemoteTransferDestination finds a free candidate, and the first.
LEMMA FirstFreeIs ==
  ASSUME Host!MaxItemsAssumption, Host!TreesAssumption, HostIInv, jobPc = "item"
  PROVE  Host!FirstFree \in Paths /\ InTarget(Host!FirstFree) /\ Host!FirstFree \notin Host!Reserved /\ Host!FirstFree \notin DOMAIN tree
<1> DEFINE M == Host!Cardinality(DOMAIN tree) + MaxItems
           R == {placed[n] : n \in Begun}
           T == DOMAIN tree \cup R
<1>1. /\ IsFiniteSet(DOMAIN tree) /\ MaxItems \in Nat /\ Begun = 1..Len(placed) /\ Len(placed) \in Nat
      /\ Len(placed) <= MaxItems /\ DOMAIN placed = Begun
  BY WorkFacts DEF HostIInv, HostTypes, Rooted, Looping
<1>2. Cardinality(DOMAIN tree) \in Nat /\ Host!Cardinality(DOMAIN tree) = Cardinality(DOMAIN tree)
  BY <1>1, FS_CardinalityType, FiniteIs
<1>3. IsFiniteSet(R) /\ Cardinality(R) <= Len(placed) /\ Cardinality(R) \in Nat
  <2> DEFINE g == [n \in Begun |-> placed[n]]
  <2>1. g \in Surjection(Begun, R)
    BY DEF Surjection
  <2>2. IsFiniteSet(1..Len(placed)) /\ Cardinality(1..Len(placed)) = Len(placed)
    <3> DEFINE l == Len(placed)
    <3>1. l \in Nat
      BY <1>1
    <3> HIDE DEF l
    <3>2. IsFiniteSet(1..l) /\ Cardinality(1..l) = IF 1 > l THEN 0 ELSE l - 1 + 1
      BY <3>1, FS_Interval
    <3>3. IsFiniteSet(1..l) /\ Cardinality(1..l) = l
      BY <3>1, <3>2
    <3> QED BY <3>3 DEF l
  <2>3. IsFiniteSet(Begun) /\ Cardinality(Begun) = Len(placed)
    BY <1>1, <2>2
  <2> HIDE DEF g, R
  <2> QED BY <2>1, <2>3, FS_Surjection, FS_CardinalityType
<1> HIDE DEF R
<1>4. IsFiniteSet(T) /\ Cardinality(T) <= M
  <2>1. IsFiniteSet(T) /\ Cardinality(T) = Cardinality(DOMAIN tree) + Cardinality(R) - Cardinality(DOMAIN tree \cap R)
    BY <1>1, <1>3, FS_Union
  <2>2. Cardinality(DOMAIN tree \cap R) \in Nat
    <3>1. IsFiniteSet(DOMAIN tree \cap R)
      BY <1>1, FS_Subset
    <3> QED BY <3>1, FS_CardinalityType
  <2> QED BY <1>1, <1>2, <1>3, <2>1, <2>2
<1>5. IsFiniteSet(0..M) /\ Cardinality(0..M) = M + 1 /\ M \in Nat
  <2>1. M \in Nat
    BY <1>1, <1>2
  <2> HIDE DEF M
  <2>2. IsFiniteSet(0..M) /\ Cardinality(0..M) = IF 0 > M THEN 0 ELSE M - 0 + 1
    BY <2>1, FS_Interval
  <2> QED BY <2>1, <2>2
<1>6. Cardinality(T) \in Nat
  BY <1>4, FS_CardinalityType
<1> HIDE DEF M, T
<1>7. \E a \in 0..M : Host!Candidate(a) \notin T
  <2> SUFFICES ASSUME \A a \in 0..M : Host!Candidate(a) \in T PROVE FALSE
    OBVIOUS
  <2> DEFINE g == [a \in 0..M |-> Host!Candidate(a)]
  <2>1. g \in [0..M -> T]
    OBVIOUS
  <2>2. \A a \in 0..M : g[a] = Host!Candidate(a)
    OBVIOUS
  <2> HIDE DEF g
  <2>3. PICK a, b \in 0..M : a # b /\ g[a] = g[b]
    BY <1>4, <1>5, <1>6, <2>1, FS_PigeonHole
  <2> QED BY <1>5, <2>2, <2>3, CandidateFacts
<1>8. \A a : Host!Candidate(a) \notin T => Host!Free(a)
  BY <1>1 DEF T, R, Host!Free, Host!Reserved, Host!Exists
<1> DEFINE S == {a \in 0..M : Host!Free(a)}
<1>9. S \subseteq Nat /\ S # {}
  BY <1>5, <1>7, <1>8
<1>10. PICK a \in S : \A b \in S : a <= b
  BY <1>9, Least
<1>11. a \in 0..M /\ Host!Free(a) /\ \A b \in 0..(a - 1) : ~Host!Free(b)
  BY <1>5, <1>10
<1>12. PICK c \in 0..M : Host!Free(c) /\ Host!FirstFree = Host!Candidate(c)
  <2> DEFINE P(e) == Host!Free(e) /\ \A b \in 0..(e - 1) : ~Host!Free(b)
             c == CHOOSE e \in 0..M : P(e)
  <2>1. c \in 0..M /\ P(c)
    BY <1>11
  <2>2. Host!FirstFree = Host!Candidate(c)
    BY DEF Host!FirstFree, M
  <2> QED BY <2>1, <2>2
<1>13. c \in Nat
  BY <1>5, <1>12
<1> QED BY <1>12, <1>13, CandidateFacts DEF Host!Free, Host!Exists

LEMMA Placing ==
  ASSUME HostTypes, NEW d \in Paths, placed' = Append(placed, d)
  PROVE  /\ placed' \in Seq(Paths) /\ Len(placed') = Len(placed) + 1 /\ Begun' = Begun \cup {Len(placed) + 1}
         /\ \A m \in Begun : placed'[m] = placed[m]
         /\ placed'[Len(placed) + 1] = d
<1>1. placed \in Seq(Paths) /\ Len(placed) \in Nat /\ Begun = 1..Len(placed)
  BY SequenceFacts DEF HostTypes, Begun
<1>2. /\ placed' \in Seq(Paths) /\ Len(placed') = Len(placed) + 1 /\ placed'[Len(placed) + 1] = d
      /\ \A m \in Begun : placed'[m] = placed[m]
  BY <1>1, Appended
<1>3. Begun' = Begun \cup {Len(placed) + 1}
  BY <1>1, <1>2 DEF Begun
<1> QED BY <1>2, <1>3

\* Where the loop goes on after item l.
LEMMA AfterIs ==
  ASSUME NEW l \in Nat, NEW k \in Nat, l <= k, k = Len(items), NEW c, c = Host!AfterItem(l)
  PROVE  (c = "done" /\ l = k) \/ (c = "item" /\ l < k)
BY DEF Host!AfterItem

LEMMA SkipItemInv ==
  ASSUME Host!MaxItemsAssumption, Host!TreesAssumption, HostIInv, Host!SkipItem
  PROVE  HostIInv'
<1> DEFINE l == Len(placed) + 1
<1>1. /\ jobPc = "item" /\ items[l].noOp /\ placed' = Append(placed, items[l].destination) /\ jobPc' = Host!AfterItem(l)
      /\ UNCHANGED <<tree, job, items, before, guests>>
  BY DEF Host!SkipItem, Host!Item
<1>2. /\ HostTypes /\ Phases /\ l \in DOMAIN items /\ l \in Nat /\ Len(items) \in Nat /\ l <= Len(items)
      /\ items[l].destination \in Paths /\ Prepared(l) /\ Begun \subseteq DOMAIN items /\ Accepted
      /\ Begun = 1..Len(placed)
  BY <1>1, WorkFacts DEF HostIInv, Looping, Phases
<1>3. /\ placed' \in Seq(Paths) /\ Len(placed') = l /\ Begun' = Begun \cup {l}
      /\ \A m \in Begun : placed'[m] = placed[m]
      /\ placed'[l] = items[l].destination
  BY <1>1, <1>2, Placing
<1> HIDE DEF l
<1>4. (jobPc' = "done" /\ l = Len(items)) \/ (jobPc' = "item" /\ l < Len(items))
  BY <1>1, <1>2, AfterIs
<1>5. HostTypes'
  BY <1>1, <1>2, <1>3, <1>4 DEF HostTypes, HostPCs, Host!Ended
<1>6. Phases'
  <2>1. Accepted' /\ \A n \in DOMAIN items : Prepared(n)' <=> Prepared(n)
    BY <1>1, <1>2 DEF Accepted, Prepared, IsMove
  <2> QED BY <1>1, <1>2, <1>3, <1>4, <2>1 DEF Phases, Looping, Working
<1>7. HostPlaces'
  <2>1. HostPlaces /\ items[l].destination = items[l].source
    BY <1>1, <1>2 DEF HostIInv, Prepared
  <2>2. \A m \in Begun : m \in Begun' /\ (InTarget(placed[m])' <=> InTarget(placed[m]))
    BY <1>1, <1>3 DEF InTarget
  <2>3. ASSUME NEW m \in Begun'
        PROVE  IF items[m].noOp THEN placed'[m] = items[m].source ELSE InTarget(placed[m])'
    <3>1. CASE m = l
      BY <1>1, <1>3, <2>1, <3>1
    <3>2. CASE m \in Begun
      BY <1>1, <1>3, <2>1, <3>2 DEF HostPlaces, InTarget
    <3> QED BY <1>3, <3>1, <3>2
  <2>4. ASSUME NEW m \in Begun', NEW n \in Begun', ~items[m].noOp, ~items[n].noOp, placed'[m] = placed'[n]
        PROVE  m = n
    <3>1. m \in Begun /\ n \in Begun
      BY <1>1, <1>3, <2>4
    <3> QED BY <1>3, <2>1, <2>4, <3>1 DEF HostPlaces
  <2> QED BY <1>1, <2>3, <2>4 DEF HostPlaces
<1>8. Found'
  BY <1>4 DEF Found
<1>9. Kept'
  <2>1. \A p, e : KeptAt(p, e) => KeptAt(p, e)'
    BY <1>1, <1>3, <1>4 DEF KeptAt, Working
  <2>2. \A p : Announced(p) => Announced(p)'
    BY <1>1 DEF Announced, Host!Replaces
  <2> QED BY <1>1, <2>1, <2>2 DEF HostIInv, Kept
<1> QED BY <1>5, <1>6, <1>7, <1>8, <1>9 DEF HostIInv

\* The destination an item is given is an entry of the target that is given
\* to no other; nothing stands there that the check has not found.
LEMMA ResolvedIs ==
  ASSUME Host!MaxItemsAssumption, Host!TreesAssumption, HostIInv, jobPc = "item", ~Host!Item.noOp
  PROVE  /\ Host!ResolvedDestination \in Paths /\ InTarget(Host!ResolvedDestination)
         /\ Host!Replaces(Host!Item) => Host!ResolvedDestination = Host!Item.destination
         /\ ~Host!Replaces(Host!Item) => \/ Host!ResolvedDestination \notin DOMAIN tree
                                         \/ Host!ResolvedDestination \notin DOMAIN before /\ ~Host!Item.exists
         /\ ~Host!Item.exists => Host!ResolvedDestination = Host!Item.destination
<1>1. /\ Host!Item = items[Len(placed) + 1] /\ Len(placed) + 1 \in DOMAIN items
      /\ Host!Item.destination \in Paths /\ InTarget(Host!Item.destination)
      /\ job.policy \in {"ask", "overwrite", "keep-both"}
      /\ Host!Item.exists => job.policy # "ask"
      /\ Host!Item.destination \in DOMAIN before => Host!Item.exists
  <2>1. Host!Item = items[Len(placed) + 1] /\ Len(placed) + 1 \in DOMAIN items
    BY WorkFacts DEF Host!Item, Looping, HostIInv, Phases
  <2>2. /\ Host!Item.destination \in Paths /\ InTarget(Host!Item.destination)
        /\ job.policy \in {"ask", "overwrite", "keep-both"} /\ Prepared(Len(placed) + 1)
    BY <2>1, WorkFacts DEF Looping, Host!Policies
  <2>3. Host!Item.exists => job.policy # "ask"
    BY <2>1 DEF HostIInv, Phases, Looping
  <2> QED BY <2>1, <2>2, <2>3 DEF Prepared
<1>2. CASE Host!Item.exists /\ job.policy = "keep-both"
  BY <1>2, FirstFreeIs DEF Host!ResolvedDestination, Host!Replaces
<1>3. CASE Host!Item.exists /\ job.policy = "overwrite"
  BY <1>1, <1>3 DEF Host!ResolvedDestination, Host!Replaces
<1>4. CASE ~Host!Item.exists
  BY <1>1, <1>4 DEF Host!ResolvedDestination, Host!Replaces
<1> QED BY <1>1, <1>2, <1>3, <1>4

LEMMA BeginItemInv ==
  ASSUME Host!MaxItemsAssumption, Host!TreesAssumption, HostIInv, Host!BeginItem
  PROVE  HostIInv'
<1> DEFINE l == Len(placed) + 1
           d == Host!ResolvedDestination
<1>1. /\ jobPc = "item" /\ ~items[l].noOp /\ placed' = Append(placed, d)
      /\ jobPc' = IF Host!Replaces(items[l]) THEN "remove" ELSE "command"
      /\ d \notin Host!Reserved
      /\ UNCHANGED <<tree, job, items, before, guests>>
  BY DEF Host!BeginItem, Host!Item, Host!Impossible
<1>2. /\ HostTypes /\ Phases /\ l \in DOMAIN items /\ l \in Nat /\ l # 0 /\ Len(items) \in Nat /\ l <= Len(items)
      /\ Begun \subseteq DOMAIN items /\ Accepted /\ Begun = 1..Len(placed) /\ DOMAIN placed = Begun
      /\ job.target \in Paths /\ \A m \in Begun : placed[m] \in Paths
  BY <1>1, WorkFacts DEF HostIInv, Looping, Phases
<1>3. /\ d \in Paths /\ InTarget(d)
      /\ Host!Replaces(items[l]) => d = items[l].destination
      /\ ~Host!Replaces(items[l]) => d \notin DOMAIN tree \/ d \notin DOMAIN before
  BY <1>1, ResolvedIs DEF Host!Item
<1> HIDE DEF d
<1>4. /\ placed' \in Seq(Paths) /\ Len(placed') = l /\ Begun' = Begun \cup {l}
      /\ \A m \in Begun : placed'[m] = placed[m]
      /\ placed'[l] = d
  BY <1>1, <1>2, <1>3, Placing
<1> HIDE DEF l
<1>5. jobPc' \in Working
  BY <1>1 DEF Working
<1>6. HostTypes'
  BY <1>1, <1>2, <1>4, <1>5 DEF HostTypes, HostPCs, Host!Ended, Working
<1>7. Phases'
  <2>1. Accepted' /\ \A n \in DOMAIN items : Prepared(n)' <=> Prepared(n)
    BY <1>1, <1>2 DEF Accepted, Prepared, IsMove
  <2>2. \A i : Host!Replaces(i)' <=> Host!Replaces(i)
    BY <1>1 DEF Host!Replaces
  <2> QED BY <1>1, <1>2, <1>3, <1>4, <1>5, <2>1, <2>2 DEF Phases, Looping, Working
<1>8. \A m \in Begun : ~items[m].noOp => placed[m] # d /\ InTarget(placed[m])
  BY <1>1, <1>2 DEF Host!Reserved, HostIInv, HostPlaces
<1>9. HostPlaces'
  <2>1. job' = job /\ Host!IsPrefix(job.target, d) /\ Len(d) = Len(job.target) + 1
    BY <1>1, <1>3 DEF InTarget
  <2>2. ASSUME NEW m \in Begun'
        PROVE  IF items[m].noOp THEN placed'[m] = items[m].source ELSE InTarget(placed[m])'
    <3>1. CASE m = l
      BY <1>1, <1>4, <2>1, <3>1 DEF InTarget
    <3>2. CASE m \in Begun
      BY <1>1, <1>4, <3>2 DEF HostIInv, HostPlaces, InTarget
    <3> QED BY <1>4, <3>1, <3>2
  <2>3. ASSUME NEW m \in Begun', NEW n \in Begun', ~items[m].noOp, ~items[n].noOp, placed'[m] = placed'[n]
        PROVE  m = n
    <3>1. CASE m = l /\ n = l
      BY <3>1
    <3>2. CASE m = l /\ n \in Begun
      BY <1>4, <1>8, <2>3, <3>2
    <3>3. CASE m \in Begun /\ n = l
      BY <1>4, <1>8, <2>3, <3>3
    <3>4. CASE m \in Begun /\ n \in Begun
      BY <1>4, <2>3, <3>4 DEF HostIInv, HostPlaces
    <3> QED BY <1>4, <3>1, <3>2, <3>3, <3>4
  <2> QED BY <1>1, <2>2, <2>3 DEF HostPlaces
<1>10. Found'
  BY <1>5 DEF Found, Working
<1>11. Kept'
  <2>1. Rooted(tree) /\ Rooted(before)
    BY <1>2, TreesRooted DEF HostTypes
  <2>2. ASSUME NEW p \in DOMAIN before, NEW e \in DOMAIN tree, KeptAt(p, e)
        PROVE  Announced(p) \/ KeptAt(p, e)'
    <3>1. e \in Paths /\ p \in Paths
      BY <2>1, RootedFacts
    <3>2. CASE Host!IsPrefix(d, e)
      <4>1. e = p
        <5> SUFFICES ASSUME NEW m \in Begun, ~items[m].noOp, Host!IsPrefix(placed[m], e) PROVE FALSE
          BY <2>2 DEF KeptAt
        <5>1. placed[m] \in Paths /\ Len(placed[m]) = Len(d) /\ placed[m] # d
          BY <1>2, <1>3, <1>8 DEF InTarget
        <5> QED BY <1>3, <3>1, <3>2, <5>1, Order
      <4>2. d \in DOMAIN tree /\ d \in DOMAIN before
        BY <1>3, <2>1, <3>2, <4>1, RootedFacts
      <4>3. Host!Replaces(items[l]) /\ d = items[l].destination
        BY <1>3, <4>2
      <4> QED BY <1>2, <3>2, <4>1, <4>3 DEF Announced
    <3>3. CASE ~Host!IsPrefix(d, e)
      BY <1>1, <1>4, <2>2, <3>3 DEF KeptAt
    <3> QED BY <3>2, <3>3
  <2>3. \A p : Announced(p) => Announced(p)'
    BY <1>1 DEF Announced, Host!Replaces
  <2> QED BY <1>1, <2>2, <2>3 DEF HostIInv, Kept
<1> QED BY <1>6, <1>7, <1>9, <1>10, <1>11 DEF HostIInv

-----------------------------------------------------------------------------
(* The remote steps of the item at work. *)

\* A step of the item at work that leaves everything outside its place, or
\* takes it to below its place when the item's work is over.
LEMMA WorkStepInv ==
  ASSUME Host!MaxItemsAssumption, Host!TreesAssumption, HostIInv, jobPc \in Working,
         UNCHANGED <<job, items, placed, before, guests>>, Rooted(tree'),
         \/ jobPc' = "command" \/ jobPc' = "failed" \/ jobPc' = Host!AfterItem(Len(placed)),
         \A e \in DOMAIN tree : ~Host!IsPrefix(placed[Len(placed)], e) =>
            \E f \in DOMAIN tree' : /\ tree'[f] = tree[e]
                                    /\ f = e \/ (Host!IsPrefix(placed[Len(placed)], f) /\ jobPc' \notin Working)
  PROVE  HostIInv'
<1> DEFINE l == Len(placed)
           d == placed[l]
<1>1. /\ HostTypes /\ Phases /\ l \in Begun /\ l \in Nat /\ Len(items) \in Nat /\ l <= Len(items) /\ ~items[l].noOp
      /\ Accepted /\ jobPc \in Looping /\ Begun = 1..l
  <2>1. HostTypes /\ Phases /\ jobPc \in Looping /\ l # 0 /\ ~items[l].noOp
    BY DEF HostIInv, Looping, Working, Phases
  <2> QED BY <2>1, WorkFacts
<1> HIDE DEF l
<1>2. jobPc' = "command" \/ jobPc' = "failed" \/ (jobPc' = "done" /\ l = Len(items)) \/ (jobPc' = "item" /\ l < Len(items))
  BY <1>1, AfterIs DEF l
<1>3. HostTypes'
  BY <1>1, <1>2 DEF HostTypes, HostPCs, Host!Ended
<1>4. Phases'
  <2>1. (Accepted' <=> Accepted) /\ \A n \in DOMAIN items : Prepared(n)' <=> Prepared(n)
    BY DEF Accepted, Prepared, IsMove
  <2>2. \A i : Host!Replaces(i)' <=> Host!Replaces(i)
    BY DEF Host!Replaces
  <2> QED BY <1>1, <1>2, <2>1, <2>2 DEF Phases, Looping, Working, l
<1>5. HostPlaces' /\ Found'
  <2>1. HostPlaces'
    BY DEF HostIInv, HostPlaces, Begun, InTarget
  <2> QED BY <1>2, <2>1 DEF Found
<1>6. Kept'
  <2>1. ASSUME NEW p \in DOMAIN before, NEW e \in DOMAIN tree, KeptAt(p, e)
        PROVE  \E f \in DOMAIN tree' : KeptAt(p, f)'
    <3>1. ~Host!IsPrefix(d, e) /\ tree[e] = before[p]
      BY <2>1 DEF KeptAt, l
    <3>2. PICK f \in DOMAIN tree' : tree'[f] = tree[e] /\ (f = e \/ (Host!IsPrefix(d, f) /\ jobPc' \notin Working))
      BY <3>1 DEF l
    <3>3. CASE f = e
      BY <2>1, <3>1, <3>2, <3>3 DEF KeptAt, Begun, l
    <3>4. CASE Host!IsPrefix(d, f) /\ jobPc' \notin Working
      BY <1>1, <3>1, <3>2, <3>4 DEF KeptAt, Begun, l
    <3> QED BY <3>2, <3>3, <3>4
  <2>2. \A p : Announced(p)' <=> Announced(p)
    BY DEF Announced, Host!Replaces
  <2> QED BY <2>1, <2>2 DEF HostIInv, Kept
<1> QED BY <1>3, <1>4, <1>5, <1>6 DEF HostIInv

\* The item at work, and the place it was given.
LEMMA CurrentIs ==
  ASSUME Host!MaxItemsAssumption, Host!TreesAssumption, HostIInv, jobPc \in Working
  PROVE  /\ Len(placed) \in Begun /\ Host!Current = items[Len(placed)] /\ Host!Destination = placed[Len(placed)]
         /\ Host!Destination \in Paths /\ InTarget(Host!Destination) /\ Host!Destination # <<>>
         /\ Host!Current.source \in Paths /\ Host!Last(Host!Current.source) \in Names /\ Host!Current.source \in DOMAIN before
         /\ ~Host!Current.noOp /\ Host!Current.source # <<>>
         /\ Rooted(tree)
<1>1. jobPc \in Looping /\ Len(placed) # 0 /\ Phases /\ Rooted(tree) /\ ~items[Len(placed)].noOp
  BY DEF HostIInv, Phases, HostTypes, Looping, Working
<1>2. Len(placed) \in Begun /\ Begun \subseteq DOMAIN items
  BY <1>1, WorkFacts
<1>3. Host!Current = items[Len(placed)] /\ Host!Destination = placed[Len(placed)]
  BY DEF Host!Current, Host!Destination, Host!Last
<1>4. /\ placed[Len(placed)] \in Paths /\ InTarget(placed[Len(placed)])
      /\ Host!Current.source \in Paths /\ Host!Last(Host!Current.source) \in Names /\ job.target \in Paths
      /\ Host!Current.source # <<>> /\ Host!Current.source \in DOMAIN before
  BY <1>1, <1>2, <1>3, WorkFacts DEF HostIInv, HostPlaces
<1>5. placed[Len(placed)] # <<>>
  <2>1. Len(job.target) \in Nat /\ Len(<<>>) = 0
    BY <1>4, Lengths
  <2> QED BY <1>4, <2>1 DEF InTarget
<1> QED BY <1>1, <1>2, <1>3, <1>4, <1>5

LEMMA RemovedInv ==
  ASSUME Host!MaxItemsAssumption, Host!TreesAssumption, HostIInv, jobPc \in Working, NEW ps,
         ps \subseteq Host!Subtree(tree, Host!Destination), UpIn(tree, ps), tree' = Host!Without(tree, ps),
         jobPc' = "command" \/ jobPc' = "failed",
         UNCHANGED <<job, items, placed, before, guests>>
  PROVE  HostIInv'
<1>1. Rooted(tree')
  BY CurrentIs, WithoutRooted
<1>2. DOMAIN tree' = DOMAIN tree \ ps /\ \A e \in DOMAIN tree \ ps : tree'[e] = tree[e]
  BY DEF Host!Without
<1>3. \A e \in DOMAIN tree : ~Host!IsPrefix(placed[Len(placed)], e) => e \in DOMAIN tree' /\ tree'[e] = tree[e]
  BY <1>2, CurrentIs DEF Host!Subtree
<1> QED BY <1>1, <1>3, WorkStepInv

LEMMA RemoveInv ==
  ASSUME Host!MaxItemsAssumption, Host!TreesAssumption, HostIInv, Host!RemoveDestination \/ Host!RemoveFails
  PROVE  HostIInv'
<1>1. jobPc \in Working
  BY DEF Host!RemoveDestination, Host!RemoveFails, Working
<1>2. CASE Host!RemoveDestination
  <2>1. UpIn(tree, Host!Subtree(tree, Host!Destination))
    BY <1>1, CurrentIs, SubtreeShape
  <2> QED BY <1>1, <1>2, <2>1, RemovedInv DEF Host!RemoveDestination
<1>3. CASE Host!RemoveFails
  <2>1. PICK ps \in Host!Gone(tree, Host!Destination) : tree' = Host!Without(tree, ps)
    BY <1>3 DEF Host!RemoveFails
  <2>2. ps \subseteq Host!Subtree(tree, Host!Destination) /\ UpIn(tree, ps)
    BY GoneShape
  <2> QED BY <1>1, <1>3, <2>1, <2>2, RemovedInv DEF Host!RemoveFails
<1> QED BY <1>2, <1>3

LEMMA LandingIs ==
  ASSUME Host!MaxItemsAssumption, Host!TreesAssumption, HostIInv, jobPc \in Working
  PROVE  Host!Landing \in Paths /\ Host!Landing # <<>> /\ Host!IsPrefix(Host!Destination, Host!Landing)
<1>1. Host!Destination \in Paths /\ Host!Destination # <<>> /\ Host!Last(Host!Current.source) \in Names
  BY CurrentIs
<1> DEFINE x == Host!Last(Host!Current.source)
           d == Host!Destination
<1>2. Append(d, x) \in Paths /\ Append(d, x) # <<>> /\ Host!IsPrefix(d, Append(d, x))
  BY <1>1, Appends
<1>3. Host!IsPrefix(d, d)
  BY <1>1, Order
<1> QED BY <1>1, <1>2, <1>3 DEF Host!Landing

\* What a runnable command writes is written outside its source, by mv to
\* places where no directory stands.
LEMMA RunnableIs ==
  ASSUME Host!MaxItemsAssumption, Host!TreesAssumption, HostIInv, jobPc \in Working, Host!Runnable
  PROVE  /\ Host!Current.source \in DOMAIN tree
         /\ Host!IsDir(tree, Host!Front(Host!Landing)) /\ ~Host!IsPrefix(Host!Current.source, Host!Landing)
         /\ \A q \in Host!Subtree(tree, Host!Current.source) :
              Host!Exists(tree, Host!Rebase(q, Host!Current.source, Host!Landing)) =>
                (Host!IsDir(tree, Host!Rebase(q, Host!Current.source, Host!Landing)) <=> Host!IsDir(tree, q))
         /\ IsMove => \A r \in Paths : Host!IsPrefix(Host!Landing, r) => ~Host!IsPrefix(Host!Current.source, r)
<1> DEFINE s == Host!Current.source
           d == Host!Landing
<1>1. /\ s \in DOMAIN tree /\ Host!IsDir(tree, Host!Front(d)) /\ ~Host!IsPrefix(s, d)
      /\ \A q \in Host!Subtree(tree, s) :
           Host!Exists(tree, Host!Rebase(q, s, d)) =>
             /\ Host!IsDir(tree, Host!Rebase(q, s, d)) <=> Host!IsDir(tree, q)
             /\ IsMove => ~Host!IsDir(tree, Host!Rebase(q, s, d))
  BY Zenon DEF Host!Runnable, Host!Exists, IsMove
<1>2. s \in Paths /\ d \in Paths /\ Rooted(tree)
  BY CurrentIs, LandingIs
<1> HIDE DEF s, d
<1>3. ASSUME IsMove, NEW r \in Paths, Host!IsPrefix(d, r), Host!IsPrefix(s, r) PROVE FALSE
  <2>1. Host!IsPrefix(d, s) /\ d # s
    BY <1>1, <1>2, <1>3, Order
  <2>2. Host!IsDir(tree, d) /\ Host!Exists(tree, d)
    BY <1>1, <1>2, <2>1, RootedFacts DEF Host!IsDir, Host!Exists
  <2>3. Host!IsPrefix(s, s) /\ Host!Rebase(s, s, d) = d
    BY <1>2, Order, Rebasing
  <2>4. s \in Host!Subtree(tree, s)
    BY <1>1, <2>3 DEF Host!Subtree
  <2> QED BY <1>1, <1>3, <2>2, <2>3, <2>4
<1>4. \A q \in Host!Subtree(tree, s) : Host!Exists(tree, Host!Rebase(q, s, d)) => (Host!IsDir(tree, Host!Rebase(q, s, d)) <=> Host!IsDir(tree, q))
  BY <1>1
<1> QED BY <1>1, <1>3, <1>4 DEF s, d

\* A part of the source has been written.
LEMMA WrittenInv ==
  ASSUME Host!MaxItemsAssumption, Host!TreesAssumption, HostIInv, jobPc = "command", Host!Runnable, NEW ps,
         ps \subseteq Host!Subtree(tree, Host!Current.source), DownTo(Host!Current.source, ps),
         tree' = Host!Written(tree, ps, Host!Current.source, Host!Landing),
         jobPc' = "failed" \/ jobPc' = Host!AfterItem(Len(placed)),
         UNCHANGED <<job, items, placed, before, guests>>
  PROVE  HostIInv'
<1> DEFINE s == Host!Current.source
           d == Host!Landing
<1>0. jobPc \in Working
  BY DEF Working
<1>1. s \in Paths /\ d \in Paths /\ d # <<>> /\ Rooted(tree) /\ Host!IsPrefix(Host!Destination, d) /\ Host!Destination \in Paths
      /\ Host!Destination = placed[Len(placed)]
  BY <1>0, CurrentIs, LandingIs
<1>2. Host!IsDir(tree, Host!Front(d)) /\ \A q \in Host!Subtree(tree, s) : Host!Exists(tree, Host!Rebase(q, s, d)) => (Host!IsDir(tree, Host!Rebase(q, s, d)) <=> Host!IsDir(tree, q))
  BY <1>0, RunnableIs
<1> HIDE DEF s, d
<1>3. Rooted(tree')
  BY <1>1, <1>2, WrittenRooted DEF s, d
<1>4. ASSUME NEW e \in DOMAIN tree, ~Host!IsPrefix(placed[Len(placed)], e)
      PROVE  e \in DOMAIN tree' /\ tree'[e] = tree[e]
  <2>1. e \in Paths /\ ~Host!IsPrefix(d, e)
    BY <1>1, <1>4, RootedFacts, Order
  <2> DEFINE w == Host!Written(tree, ps, s, d)
  <2>2. /\ DOMAIN w = DOMAIN tree \cup {Host!Rebase(q, s, d) : q \in ps} /\ DOMAIN w \subseteq Paths
        /\ \A q \in ps : Host!Rebase(q, s, d) \in DOMAIN w /\ Host!IsPrefix(d, Host!Rebase(q, s, d)) /\ w[Host!Rebase(q, s, d)] = tree[q]
        /\ \A p \in DOMAIN tree : ~Host!IsPrefix(d, p) => w[p] = tree[p]
        /\ \A p \in DOMAIN w : \/ p \in DOMAIN tree /\ w[p] = tree[p]
                               \/ \E q \in ps : p = Host!Rebase(q, s, d) /\ w[p] = tree[q]
    <3>1. ps \in SUBSET Host!Subtree(tree, s)
      BY DEF s
    <3> QED BY <1>1, <3>1, WrittenIs
  <2>3. DOMAIN tree' = DOMAIN tree \cup {Host!Rebase(q, s, d) : q \in ps} /\ \A p \in DOMAIN tree : ~Host!IsPrefix(d, p) => tree'[p] = tree[p]
    BY <2>2 DEF s, d
  <2> QED BY <2>1, <2>3
<1> QED BY <1>0, <1>3, <1>4, WorkStepInv

\* All of it has been written, and a part of the source removed.
LEMMA MovedInv ==
  ASSUME Host!MaxItemsAssumption, Host!TreesAssumption, HostIInv, jobPc = "command", Host!Runnable, IsMove, NEW ps,
         ps \subseteq Host!Subtree(tree, Host!Current.source), UpIn(tree, ps),
         tree' = Host!Without(Host!Written(tree, Host!Subtree(tree, Host!Current.source), Host!Current.source, Host!Landing), ps),
         jobPc' = "failed" \/ jobPc' = Host!AfterItem(Len(placed)),
         UNCHANGED <<job, items, placed, before, guests>>
  PROVE  HostIInv'
<1> DEFINE s == Host!Current.source
           d == Host!Landing
           all == Host!Subtree(tree, s)
           w == Host!Written(tree, all, s, d)
<1>0. jobPc \in Working
  BY DEF Working
<1>1. s \in Paths /\ d \in Paths /\ d # <<>> /\ Rooted(tree) /\ Host!IsPrefix(Host!Destination, d) /\ Host!Destination \in Paths
      /\ Host!Destination = placed[Len(placed)]
  BY <1>0, CurrentIs, LandingIs
<1>2. /\ Host!IsDir(tree, Host!Front(d))
      /\ \A q \in Host!Subtree(tree, s) : Host!Exists(tree, Host!Rebase(q, s, d)) => (Host!IsDir(tree, Host!Rebase(q, s, d)) <=> Host!IsDir(tree, q))
      /\ \A r \in Paths : Host!IsPrefix(d, r) => ~Host!IsPrefix(s, r)
  BY <1>0, RunnableIs
<1>3. tree' = Host!Without(w, ps) /\ ps \subseteq all
  OBVIOUS
<1> HIDE DEF s, d
<1>4. DownTo(s, all) /\ all \subseteq DOMAIN tree
  BY <1>1, SubtreeShape, RootedFacts
<1>5. Rooted(w)
  BY <1>1, <1>2, <1>4, WrittenRooted
<1>6. /\ DOMAIN w = DOMAIN tree \cup {Host!Rebase(q, s, d) : q \in all} /\ DOMAIN w \subseteq Paths
      /\ \A q \in all : Host!Rebase(q, s, d) \in DOMAIN w /\ Host!IsPrefix(d, Host!Rebase(q, s, d)) /\ w[Host!Rebase(q, s, d)] = tree[q]
      /\ \A p \in DOMAIN tree : ~Host!IsPrefix(d, p) => w[p] = tree[p]
      /\ \A p \in DOMAIN w : \/ p \in DOMAIN tree /\ w[p] = tree[p]
                             \/ \E q \in all : p = Host!Rebase(q, s, d) /\ w[p] = tree[q]
  <2>1. all \in SUBSET Host!Subtree(tree, s)
    OBVIOUS
  <2> HIDE DEF all
  <2> QED BY <1>1, <2>1, WrittenIs
<1> HIDE DEF w
<1>7. \A q \in all : q \in Paths /\ Host!IsPrefix(s, q)
  BY <1>1, RootedFacts DEF Host!Subtree
<1> HIDE DEF all
<1>8. \A q \in all : Host!Rebase(q, s, d) \in Paths /\ Host!Rebase(q, s, d) \notin ps
  BY <1>2, <1>3, <1>6, <1>7
<1>9. UpIn(w, ps)
  <2> SUFFICES ASSUME NEW q \in ps, NEW r \in DOMAIN w, Host!IsPrefix(q, r) PROVE r \in ps
    BY DEF UpIn
  <2>1. CASE r \in DOMAIN tree
    BY <2>1 DEF UpIn
  <2>2. ASSUME NEW x \in all, r = Host!Rebase(x, s, d) PROVE FALSE
    <3>1. q \in Paths /\ r \in Paths /\ Host!IsPrefix(s, q) /\ Host!IsPrefix(d, r)
      BY <1>3, <1>6, <1>7, <2>2
    <3>2. Host!IsPrefix(s, r)
      BY <1>1, <3>1, Order
    <3> QED BY <1>2, <3>1, <3>2
  <2> QED BY <1>6, <2>1, <2>2
<1>10. Rooted(tree')
  BY <1>3, <1>5, <1>9, WithoutRooted
<1>11. DOMAIN tree' = DOMAIN w \ ps /\ \A p \in DOMAIN w \ ps : tree'[p] = w[p]
  BY <1>3 DEF Host!Without
<1>12. jobPc' \notin Working
  BY DEF Host!AfterItem, Working
<1>13. ASSUME NEW e \in DOMAIN tree, ~Host!IsPrefix(placed[Len(placed)], e)
       PROVE  \E f \in DOMAIN tree' : tree'[f] = tree[e] /\ (f = e \/ (Host!IsPrefix(placed[Len(placed)], f) /\ jobPc' \notin Working))
  <2>1. e \in Paths /\ ~Host!IsPrefix(d, e)
    BY <1>1, <1>13, RootedFacts, Order
  <2>2. CASE e \notin ps
    BY <1>6, <1>11, <2>1, <2>2
  <2>3. CASE e \in ps
    <3> DEFINE f == Host!Rebase(e, s, d)
    <3>1. e \in all /\ f \in DOMAIN w /\ f \in Paths /\ f \notin ps /\ Host!IsPrefix(d, f) /\ w[f] = tree[e]
      BY <1>3, <1>6, <1>8, <2>3
    <3> HIDE DEF f
    <3>2. Host!IsPrefix(placed[Len(placed)], f)
      BY <1>1, <3>1, Order
    <3>3. f \in DOMAIN tree' /\ tree'[f] = tree[e]
      BY <1>11, <3>1
    <3> QED BY <1>12, <3>2, <3>3
  <2> QED BY <2>2, <2>3
<1> QED BY <1>0, <1>10, <1>13, WorkStepInv

LEMMA CommandSucceedsInv ==
  ASSUME Host!MaxItemsAssumption, Host!TreesAssumption, HostIInv, Host!CommandSucceeds
  PROVE  HostIInv'
<1> DEFINE s == Host!Current.source
           all == Host!Subtree(tree, s)
           w == Host!Written(tree, all, s, Host!Landing)
<1>1. /\ jobPc = "command" /\ Host!Runnable /\ jobPc' = Host!AfterItem(Len(placed))
      /\ tree' = IF job.operation = "copy" THEN w ELSE Host!Without(w, all)
      /\ UNCHANGED <<job, items, placed, before, guests>>
  BY DEF Host!CommandSucceeds
<1>2. DownTo(s, all) /\ UpIn(tree, all)
  BY <1>1, CurrentIs, SubtreeShape DEF Working
<1>3. CASE job.operation = "copy"
  BY <1>1, <1>2, <1>3, WrittenInv
<1>4. CASE job.operation # "copy"
  <2>1. IsMove
    BY <1>1, <1>4, WorkFacts DEF IsMove, Host!Operations, Looping
  <2> QED BY <1>1, <1>2, <1>4, <2>1, MovedInv
<1> QED BY <1>3, <1>4

LEMMA CommandFailsInv ==
  ASSUME Host!MaxItemsAssumption, Host!TreesAssumption, HostIInv, Host!CommandFails
  PROVE  HostIInv'
<1> DEFINE s == Host!Current.source
           all == Host!Subtree(tree, s)
<1>1. jobPc = "command" /\ jobPc' = "failed" /\ UNCHANGED <<job, items, placed, before, guests>>
  BY DEF Host!CommandFails
<1>2. CASE tree' = tree
  BY <1>1, <1>2, StopInv
<1>3. ASSUME Host!Runnable, NEW ps \in Host!Beginnings(tree, s), tree' = Host!Written(tree, ps, s, Host!Landing)
      PROVE  HostIInv'
  <2>1. ps \subseteq all /\ DownTo(s, ps)
    BY <1>1, CurrentIs, BeginningsShape DEF Working
  <2> QED BY <1>1, <1>3, <2>1, WrittenInv
<1>4. ASSUME Host!Runnable, IsMove, NEW ps \in Host!Gone(tree, s), tree' = Host!Without(Host!Written(tree, all,
             s, Host!Landing), ps)
      PROVE  HostIInv'
  <2>1. ps \subseteq all /\ UpIn(tree, ps)
    BY GoneShape
  <2> QED BY <1>1, <1>4, <2>1, MovedInv
<1> QED BY <1>2, <1>3, <1>4 DEF Host!CommandFails, IsMove

LEMMA GuestInv ==
  ASSUME Host!MaxItemsAssumption, Host!TreesAssumption, HostIInv, NEW p \in Guests, Host!Guest(p)
  PROVE  HostIInv'
<1>1. /\ jobPc \notin Host!Ended /\ p \notin DOMAIN tree /\ Host!IsDir(tree, Host!Front(p)) /\ guests' = guests \cup {p}
      /\ UNCHANGED <<job, jobPc, items, placed, before>>
  BY DEF Host!Guest, Host!Exists
<1>2. PICK node : tree' = [q \in DOMAIN tree \cup {p} |-> IF q = p THEN node ELSE tree[q]]
  BY DEF Host!Guest
<1>3. DOMAIN tree' = DOMAIN tree \cup {p} /\ \A q \in DOMAIN tree : tree'[q] = tree[q]
  BY <1>1, <1>2
<1>4. Rooted(tree) /\ p \in Paths
  BY GivenPathsAre DEF HostIInv, HostTypes
<1>5. p # <<>>
  <2>1. p = <<>> => Host!Front(p) = p
    BY DEF Host!Front
  <2> QED BY <1>1, <2>1 DEF Host!IsDir, Host!Exists
<1>6. Rooted(tree')
  <2>1. IsFiniteSet(DOMAIN tree') /\ DOMAIN tree' \subseteq Paths
    <3>1. IsFiniteSet(DOMAIN tree) /\ IsFiniteSet({p}) /\ DOMAIN tree \subseteq Paths
      BY <1>4, FS_Singleton DEF Rooted
    <3>2. IsFiniteSet(DOMAIN tree \cup {p})
      BY <3>1, FS_Union
    <3> QED BY <1>3, <1>4, <3>1, <3>2
  <2>2. ASSUME NEW q \in DOMAIN tree', NEW a \in Paths, Host!IsPrefix(a, q), a # q PROVE Host!IsDir(tree', a)
    <3>1. a \in DOMAIN tree /\ tree[a] = "dir"
      <4>1. CASE q = p
        <5>1. Host!IsPrefix(a, Host!Front(p))
          BY <1>4, <1>5, <2>2, <4>1, Fronts
        <5> QED BY <1>1, <1>4, <5>1, RootedFacts DEF Host!IsDir, Host!Exists
      <4>2. CASE q \in DOMAIN tree
        BY <1>4, <2>2, <4>2, RootedFacts
      <4> QED BY <1>3, <4>1, <4>2
    <3> QED BY <1>3, <3>1 DEF Host!IsDir, Host!Exists
  <2> QED BY <2>1, <2>2 DEF Rooted
<1>7. HostTypes'
  BY <1>1, <1>6 DEF HostIInv, HostTypes
<1>8. Phases'
  BY <1>1 DEF HostIInv, Phases, Looping, Working, Accepted, Prepared, IsMove, Host!Replaces
<1>9. HostPlaces' /\ Found'
  BY <1>1, <1>3 DEF HostIInv, HostPlaces, Begun, InTarget, Found
<1>10. Kept'
  <2>1. \A r, e : KeptAt(r, e) => e \in DOMAIN tree' /\ KeptAt(r, e)'
    BY <1>1, <1>3 DEF KeptAt, Begun, Working
  <2>2. \A r : Announced(r) => Announced(r)'
    BY <1>1 DEF Announced, Host!Replaces
  <2> QED BY <1>1, <2>1, <2>2 DEF HostIInv, Kept
<1> QED BY <1>7, <1>8, <1>9, <1>10 DEF HostIInv

LEMMA HostNextInv ==
  ASSUME Host!MaxItemsAssumption, Host!TreesAssumption, HostIInv, [Host!Next]_hostVars
  PROVE  HostIInv'
<1>1. CASE Host!Reject \/ Host!Refuse \/ Host!Break
  BY <1>1, StopInv DEF Host!Reject, Host!Refuse, Host!Break
<1>2. CASE Host!Validate
  BY <1>2, ValidateInv
<1>3. CASE Host!Check
  BY <1>3, HostCheckInv
<1>4. CASE Host!SkipItem
  BY <1>4, SkipItemInv
<1>5. CASE Host!BeginItem
  BY <1>5, BeginItemInv
<1>6. CASE Host!RemoveDestination \/ Host!RemoveFails
  BY <1>6, RemoveInv
<1>7. CASE Host!CommandSucceeds
  BY <1>7, CommandSucceedsInv
<1>8. CASE Host!CommandFails
  BY <1>8, CommandFailsInv
<1>9. ASSUME NEW p \in Guests, Host!Guest(p) PROVE HostIInv'
  BY <1>9, GuestInv
<1>10. CASE UNCHANGED hostVars
  <2>1. UNCHANGED <<tree, job, jobPc, items, placed, before, guests>>
    BY <1>10 DEF hostVars
  <2>2. HostTypes' /\ Phases' /\ HostPlaces' /\ Found'
    BY <2>1
       DEF HostIInv, HostTypes, Phases, Looping, Working, Accepted, Prepared, IsMove, Host!Replaces, HostPlaces,
           Begun, InTarget, Found
  <2>3. Kept'
    BY <2>1 DEF HostIInv, Kept, KeptAt, Announced, Host!Replaces, Begun, Working
  <2> QED BY <2>2, <2>3 DEF HostIInv
<1> QED BY <1>1, <1>2, <1>3, <1>4, <1>5, <1>6, <1>7, <1>8, <1>9, <1>10 DEF Host!Next

LEMMA HostInvariants ==
  ASSUME Host!MaxItemsAssumption, Host!TreesAssumption, HostIInv
  PROVE  Host!TypeOK /\ Host!LossIsAnnounced
<1>1. HostTypes /\ Phases /\ Rooted(tree)
  BY DEF HostIInv, HostTypes
<1>2. \A p \in DOMAIN tree : p = <<>> \/ Host!IsDir(tree, Host!Front(p))
  BY <1>1, RootedFacts, Fronts DEF Host!IsDir, Host!Exists
<1>3. Len(items) \in 0..MaxItems
  <2>1. MaxItems \in Nat /\ Len(job.sources) \in 1..MaxItems /\ Len(items) \in Nat
    BY <1>1, JobFacts, SequenceFacts DEF HostTypes
  <2>2. items = <<>> => Len(items) = 0
    OBVIOUS
  <2> QED BY <1>1, <2>1, <2>2 DEF Phases
<1>4. Host!TypeOK
  BY <1>1, <1>2, <1>3 DEF HostTypes, Host!TypeOK, HostPCs
<1>5. Host!LossIsAnnounced
  <2> SUFFICES ASSUME NEW p \in DOMAIN before, before[p] # "dir", ~Announced(p)
               PROVE  before[p] \in Host!Contents(tree)
    BY DEF Host!LossIsAnnounced, Announced
  <2>1. PICK e \in DOMAIN tree : tree[e] = before[p]
    BY DEF HostIInv, Kept, KeptAt
  <2> QED BY <2>1 DEF Host!Contents
<1> QED BY <1>4, <1>5

-----------------------------------------------------------------------------
(* While nobody else writes, and for independent requests. *)

Quiet == guests = {} /\ Host!Independent
Apart(p, q) == ~Host!IsPrefix(p, q) /\ ~Host!IsPrefix(q, p)

\* Two trees have the same below p.
Agree(t, u, p) ==
  \A q \in DOMAIN t \cup DOMAIN u : Host!IsPrefix(p, q) => q \in DOMAIN t /\ q \in DOMAIN u /\ t[q] = u[q]

Finished(m) == ~(jobPc \in Working /\ m = Len(placed))
Arrived(m) ==
  /\ \A r \in DOMAIN tree : Host!IsPrefix(placed[m], r) =>
        /\ Host!Rebase(r, placed[m], items[m].source) \in DOMAIN before
        /\ tree[r] = before[Host!Rebase(r, placed[m], items[m].source)]
  /\ \A q \in DOMAIN before : Host!IsPrefix(items[m].source, q) => Host!Rebase(q, items[m].source, placed[m]) \in DOMAIN tree
Emptied(m) == IsMove /\ ~items[m].noOp => \A q \in DOMAIN tree : ~Host!IsPrefix(items[m].source, q)

Settled == \A m \in Begun : Finished(m) => Arrived(m) /\ Emptied(m)
Pending == \A n \in DOMAIN items : n \notin Begun => Agree(before, tree, items[n].source)
AtWork ==
  jobPc \in Working => \/ Agree(before, tree, items[Len(placed)].source)
                       \/ jobPc = "command" /\ items[Len(placed)].source \notin DOMAIN tree
Cleared == jobPc = "command" => placed[Len(placed)] \notin DOMAIN tree
Vacant ==
  \A n \in DOMAIN items : n \notin Begun /\ ~items[n].exists /\ ~items[n].noOp =>
    \/ items[n].destination \notin DOMAIN tree
    \/ \E m \in Begun : ~items[m].noOp /\ placed[m] = items[n].destination
Beside == \A m \in Begun : \A n \in DOMAIN items : n # m => ~Host!IsPrefix(placed[m], items[n].source)
Remaining == job.policy # "overwrite" => \A p \in DOMAIN before : InTarget(p) => p \in DOMAIN tree

HostUntouched ==
  guests = {} /\ jobPc \in {"validate", "check"} => \A q \in DOMAIN tree : q \in DOMAIN before \/ Host!IsPrefix(q, job.target)
Progress == Settled /\ Pending /\ AtWork /\ Cleared /\ Vacant /\ Beside /\ Remaining
QInv == HostUntouched /\ (Quiet /\ jobPc \in Looping => Progress)

LEMMA InitQuiet == ASSUME Host!Init PROVE QInv
BY DEF Host!Init, QInv, HostUntouched, Looping

LEMMA QuietSame ==
  ASSUME UNCHANGED <<job, items, guests>>
  PROVE  Quiet' <=> Quiet
BY DEF Quiet, Host!Independent

LEMMA SourceAbove ==
  ASSUME NEW s \in Paths, NEW d \in Paths, job.target \in Paths, ~Host!IsPrefix(s, job.target), InTarget(d), Host!IsPrefix(s, d)
  PROVE  s = d
<1> SUFFICES ASSUME s # d PROVE FALSE
  OBVIOUS
<1>1. Len(job.target) \in Nat /\ Len(d) = Len(job.target) + 1 /\ Host!IsPrefix(job.target, d) /\ Len(<<>>) = 0
  BY Lengths DEF InTarget
<1>2. d # <<>> /\ job.target # d
  BY <1>1
<1>3. Host!Front(d) \in Paths /\ Len(Host!Front(d)) = Len(job.target) /\ Host!IsPrefix(job.target, Host!Front(d)) /\ Host!IsPrefix(s, Host!Front(d))
  BY <1>1, <1>2, Fronts
<1>4. Host!Front(d) = job.target
  BY <1>3, Order
<1> QED BY <1>3, <1>4

\* What is kept apart.
LEMMA ApartFacts ==
  ASSUME Host!MaxItemsAssumption, Host!TreesAssumption, HostIInv, Quiet, Beside, jobPc \in Looping
  PROVE  /\ \A m \in Begun : InTarget(placed[m]) /\ placed[m] \in Paths
         /\ \A m, n \in Begun : placed[m] = placed[n] => m = n
         /\ \A m, n \in Begun : m # n => Apart(placed[m], placed[n])
         /\ \A m \in Begun : \A n \in DOMAIN items : m # n => Apart(placed[m], items[n].source)
         /\ IsMove => \A m, n \in DOMAIN items : m # n => Apart(items[m].source, items[n].source)
         /\ \A m, n \in DOMAIN items : m # n => ~Host!IsPrefix(items[m].destination, items[n].source)
<1>1. ASSUME NEW m \in Begun PROVE InTarget(placed[m]) /\ placed[m] \in Paths
  <2>1. m \in DOMAIN items /\ placed[m] \in Paths /\ Prepared(m) /\ InTarget(items[m].destination)
    BY <1>1, WorkFacts
  <2> QED BY <1>1, <2>1 DEF Prepared, HostIInv, HostPlaces
<1>2. ASSUME NEW m \in Begun, NEW n \in Begun, placed[m] = placed[n] PROVE m = n
  <2>1. m \in DOMAIN items /\ n \in DOMAIN items /\ Host!IsPrefix(placed[m], placed[n]) /\ Host!IsPrefix(placed[n], placed[m])
    BY <1>1, <1>2, WorkFacts, Order
  <2>2. CASE items[n].noOp
    BY <1>2, <2>1, <2>2 DEF HostIInv, HostPlaces, Beside
  <2>3. CASE items[m].noOp
    BY <1>2, <2>1, <2>3 DEF HostIInv, HostPlaces, Beside
  <2>4. CASE ~items[m].noOp /\ ~items[n].noOp
    BY <1>2, <2>4 DEF HostIInv, HostPlaces
  <2> QED BY <2>2, <2>3, <2>4
<1>3. ASSUME NEW m \in Begun, NEW n \in Begun, m # n PROVE Apart(placed[m], placed[n])
  <2>1. Len(placed[m]) = Len(placed[n]) /\ placed[m] # placed[n]
    BY <1>1, <1>2, <1>3 DEF InTarget
  <2> QED BY <1>1, <2>1, Order DEF Apart
<1>4. ASSUME NEW m \in Begun, NEW n \in DOMAIN items, m # n PROVE Apart(placed[m], items[n].source)
  <2>1. ~Host!IsPrefix(placed[m], items[n].source)
    BY <1>4 DEF Beside
  <2>2. items[n].source \in Paths /\ ~Host!IsPrefix(items[n].source, job.target) /\ job.target \in Paths
    BY WorkFacts
  <2>3. Host!IsPrefix(items[n].source, placed[m]) => items[n].source = placed[m]
    BY <1>1, <2>2, SourceAbove
  <2>4. Host!IsPrefix(placed[m], placed[m])
    BY <1>1, Order
  <2> QED BY <2>1, <2>3, <2>4 DEF Apart
<1>5. IsMove => \A m, n \in DOMAIN items : m # n => Apart(items[m].source, items[n].source)
  BY DEF Quiet, Host!Independent, IsMove, Apart
<1>6. \A m, n \in DOMAIN items : m # n => ~Host!IsPrefix(items[m].destination, items[n].source)
  BY DEF Quiet, Host!Independent
<1> QED BY <1>1, <1>2, <1>3, <1>4, <1>5, <1>6

\* An item that has arrived stays so while its place is left alone.
LEMMA StaysArrived ==
  ASSUME Host!MaxItemsAssumption, Host!TreesAssumption, HostIInv, jobPc \in Looping, NEW m \in Begun, Arrived(m),
         UNCHANGED <<items, before>>, placed'[m] = placed[m], Agree(tree, tree', placed[m])
  PROVE  Arrived(m)'
<1>1. placed[m] \in Paths /\ items[m].source \in Paths /\ DOMAIN before \subseteq Paths
  BY WorkFacts, TreesRooted, RootedFacts DEF HostIInv, HostTypes
<1>2. ASSUME NEW r \in DOMAIN tree', Host!IsPrefix(placed[m], r)
      PROVE  Host!Rebase(r, placed[m], items[m].source) \in DOMAIN before /\ tree'[r] = before[Host!Rebase(r, placed[m], items[m].source)]
  <2>1. r \in DOMAIN tree /\ tree'[r] = tree[r]
    BY <1>2 DEF Agree
  <2> QED BY <1>2, <2>1 DEF Arrived
<1>3. ASSUME NEW q \in DOMAIN before, Host!IsPrefix(items[m].source, q)
      PROVE  Host!Rebase(q, items[m].source, placed[m]) \in DOMAIN tree'
  <2>1. Host!Rebase(q, items[m].source, placed[m]) \in DOMAIN tree
    BY <1>3 DEF Arrived
  <2>2. Host!IsPrefix(placed[m], Host!Rebase(q, items[m].source, placed[m]))
    BY <1>1, <1>3, Rebasing
  <2> QED BY <2>1, <2>2 DEF Agree
<1> QED BY <1>2, <1>3 DEF Arrived

LEMMA StaysSame ==
  ASSUME NEW t, NEW u, NEW w, NEW p, Agree(t, u, p), Agree(u, w, p)
  PROVE  Agree(t, w, p)
BY DEF Agree

LEMMA CheckQuiet ==
  ASSUME Host!MaxItemsAssumption, Host!TreesAssumption, HostIInv, QInv, Host!Check
  PROVE  QInv'
<1>1. /\ jobPc = "check" /\ items' = [n \in DOMAIN job.sources |-> Host!PreparedItem(job.sources[n])]
      /\ jobPc' \in {"conflict", "item"}
      /\ UNCHANGED <<tree, job, placed, before, guests>>
  BY DEF Host!Check
<1>2. HostIInv' /\ Accepted /\ Found /\ HostUntouched /\ Rooted(tree) /\ HostTypes /\ items = <<>>
  BY <1>1, HostCheckInv DEF HostIInv, QInv, HostTypes, Phases, Looping
<1>3. placed = <<>> /\ Len(placed) = 0 /\ Begun' = {}
  <2>1. placed \in Seq(Paths) /\ Len(placed) = 0
    BY <1>2, SequenceFacts DEF HostTypes
  <2> QED BY <1>1, <2>1 DEF Begun
<1>4. HostUntouched'
  BY <1>1 DEF HostUntouched
<1> SUFFICES ASSUME guests = {}, jobPc' = "item" PROVE Progress'
  BY <1>1, <1>4 DEF QInv, Quiet, Looping
<1>5. Settled' /\ Beside'
  BY <1>3 DEF Settled, Beside
<1>6. AtWork' /\ Cleared'
  BY DEF AtWork, Cleared, Working
<1>7. Pending'
  <2> SUFFICES ASSUME NEW n \in DOMAIN items' PROVE Agree(before, tree, items'[n].source)
    BY <1>1 DEF Pending
  <2>1. n \in DOMAIN job.sources /\ items'[n].source = job.sources[n] /\ job.sources[n] \in Paths /\ job.target \in Paths
    BY <1>1, <1>2, JobFacts DEF Host!PreparedItem, HostTypes
  <2>2. ~Host!IsPrefix(job.sources[n], job.target)
    BY <1>2, <2>1 DEF Accepted
  <2>3. ASSUME NEW q \in DOMAIN tree, Host!IsPrefix(job.sources[n], q) PROVE q \in DOMAIN before
    <3>1. q \in Paths
      BY <1>2, RootedFacts
    <3>2. ~Host!IsPrefix(q, job.target)
      BY <2>1, <2>2, <2>3, <3>1, Order
    <3> QED BY <1>1, <1>2, <3>2 DEF HostUntouched
  <2> QED BY <1>1, <1>2, <2>1, <2>3 DEF Found, Agree
<1>8. Vacant'
  <2> SUFFICES ASSUME NEW n \in DOMAIN items', ~items'[n].exists, ~items'[n].noOp
               PROVE  items'[n].destination \notin DOMAIN tree
    BY <1>1 DEF Vacant
  <2> DEFINE s == job.sources[n]
             d == Append(job.target, Host!Last(s))
             noOp == job.operation = "move" /\ d = s
  <2>1. items'[n] = [source |-> s, destination |-> d, noOp |-> noOp, exists |-> ~noOp /\ Host!Exists(tree, d)]
    BY <1>1 DEF Host!PreparedItem
  <2>2. items'[n].destination = d /\ items'[n].noOp = noOp
    BY <2>1
  <2>3. items'[n].exists = (~noOp /\ Host!Exists(tree, d))
    BY <2>1
  <2> HIDE DEF d, noOp
  <2>4. Host!Exists(tree, d) => items'[n].exists
    BY <2>2, <2>3
  <2> QED BY <2>2, <2>4 DEF Host!Exists
<1>9. Remaining'
  BY <1>1, <1>2 DEF Remaining, Found, InTarget
<1> QED BY <1>5, <1>6, <1>7, <1>8, <1>9 DEF Progress

LEMMA ValidateQuiet ==
  ASSUME Host!MaxItemsAssumption, Host!TreesAssumption, HostIInv, QInv, Host!Validate
  PROVE  QInv'
<1>1. /\ jobPc = "validate" /\ jobPc' = "check" /\ tree' = Host!EnsureDirectory(tree, job.target)
      /\ UNCHANGED <<job, items, placed, before, guests>>
  BY DEF Host!Validate
<1>2. DOMAIN tree' = DOMAIN tree \cup Host!Prefixes(job.target) /\ job.target \in Paths
  BY <1>1, JobFacts DEF Host!EnsureDirectory, HostIInv, HostTypes
<1>3. HostUntouched'
  BY <1>1, <1>2, Above DEF QInv, HostUntouched
<1> QED BY <1>1, <1>3 DEF QInv, Looping

LEMMA SkipItemQuiet ==
  ASSUME Host!MaxItemsAssumption, Host!TreesAssumption, HostIInv, QInv, Host!SkipItem
  PROVE  QInv'
<1> DEFINE l == Len(placed) + 1
<1>1. /\ jobPc = "item" /\ items[l].noOp /\ placed' = Append(placed, items[l].destination) /\ jobPc' = Host!AfterItem(l)
      /\ UNCHANGED <<tree, job, items, before, guests>>
  BY DEF Host!SkipItem, Host!Item
<1>2. /\ HostTypes /\ Phases /\ l \in DOMAIN items /\ l \in Nat /\ Len(items) \in Nat /\ l <= Len(items)
      /\ items[l].destination \in Paths /\ Prepared(l) /\ Begun \subseteq DOMAIN items /\ Accepted
      /\ Begun = 1..Len(placed) /\ l \notin Begun /\ items[l].source \in Paths
  BY <1>1, WorkFacts DEF HostIInv, Looping, Phases
<1>3. /\ placed' \in Seq(Paths) /\ Len(placed') = l /\ Begun' = Begun \cup {l}
      /\ \A m \in Begun : placed'[m] = placed[m]
      /\ placed'[l] = items[l].destination
  BY <1>1, <1>2, Placing
<1> HIDE DEF l
<1>4. jobPc' \in {"done", "item"}
  BY <1>1, <1>2, AfterIs
<1>5. HostUntouched'
  BY <1>4 DEF HostUntouched
<1> SUFFICES ASSUME Quiet PROVE Progress'
  BY <1>1, <1>4, <1>5, QuietSame DEF QInv
<1>6. Progress /\ jobPc \in Looping
  BY <1>1 DEF QInv, Looping
<1>7. items[l].source = items[l].destination
  BY <1>1, <1>2 DEF Prepared
<1>8. Settled'
  <2> SUFFICES ASSUME NEW m \in Begun' PROVE Arrived(m)' /\ Emptied(m)'
    BY DEF Settled
  <2>1. CASE m = l
    <3>1. Agree(before, tree, items[l].source)
      BY <1>2, <1>6 DEF Progress, Pending
    <3>2. DOMAIN before \subseteq Paths /\ DOMAIN tree \subseteq Paths
      BY <1>2, TreesRooted, RootedFacts DEF HostTypes
    <3>3. \A q \in Paths : Host!IsPrefix(items[l].source, q) => Host!Rebase(q, items[l].source, items[l].source) = q
      <4> SUFFICES ASSUME NEW q \in Paths, Host!IsPrefix(items[l].source, q)
                   PROVE  Host!Rebase(q, items[l].source, items[l].source) = q
        OBVIOUS
      <4> DEFINE s == items[l].source
                 r == Host!Rebase(q, s, s)
      <4>0. s \in Paths /\ Host!IsPrefix(s, q)
        BY <1>2
      <4> HIDE DEF s
      <4>1. /\ r \in Paths /\ Len(r) = Len(s) + Len(q) - Len(s) /\ \A i \in 1..Len(s) : r[i] = s[i]
            /\ \A i \in (Len(s) + 1)..(Len(s) + Len(q) - Len(s)) : r[i] = q[i - Len(s) + Len(s)]
        BY <4>0, RebaseIs
      <4>2. Len(s) \in Nat /\ Len(q) \in Nat /\ \A i \in 1..Len(s) : s[i] = q[i]
        BY <4>0, Lengths, PrefixIs
      <4> HIDE DEF r
      <4>3. Len(r) = Len(q) /\ \A i \in 1..Len(r) : r[i] = q[i]
        <5>1. Len(r) = Len(q)
          BY <4>1, <4>2
        <5>2. ASSUME NEW i \in 1..Len(r) PROVE r[i] = q[i]
          <6>1. CASE i <= Len(s)
            BY <4>1, <4>2, <6>1
          <6>2. CASE i > Len(s)
            <7>1. i \in (Len(s) + 1)..(Len(s) + Len(q) - Len(s)) /\ i - Len(s) + Len(s) = i
              BY <4>2, <5>1, <6>2
            <7> QED BY <4>1, <7>1
          <6> QED BY <4>2, <5>1, <6>1, <6>2
        <5> QED BY <5>1, <5>2
      <4>4. r = q
        BY <4>1, <4>3, Equal
      <4> QED BY <4>4 DEF r, s
    <3>4. Arrived(m)'
      BY <1>1, <1>3, <1>7, <2>1, <3>1, <3>2, <3>3 DEF Arrived, Agree
    <3> QED BY <1>1, <2>1, <3>4 DEF Emptied
  <2>2. CASE m \in Begun
    <3>1. Arrived(m) /\ Emptied(m)
      BY <1>1, <1>6, <2>2 DEF Progress, Settled, Finished, Working
    <3> QED BY <1>1, <1>3, <2>2, <3>1 DEF Arrived, Emptied, IsMove
  <2> QED BY <1>3, <2>1, <2>2
<1>9. Pending' /\ AtWork' /\ Cleared' /\ Remaining'
  BY <1>1, <1>3, <1>4, <1>6 DEF Progress, Pending, AtWork, Cleared, Remaining, Working, InTarget
<1>10. Vacant'
  <2> SUFFICES ASSUME NEW n \in DOMAIN items, n \notin Begun', ~items[n].exists, ~items[n].noOp
               PROVE  \/ items[n].destination \notin DOMAIN tree
                      \/ \E m \in Begun' : ~items[m].noOp /\ placed'[m] = items[n].destination
    BY <1>1 DEF Vacant
  <2>1. n \notin Begun
    BY <1>3
  <2>2. \/ items[n].destination \notin DOMAIN tree
        \/ \E m \in Begun : ~items[m].noOp /\ placed[m] = items[n].destination
    BY <1>6, <2>1 DEF Progress, Vacant
  <2> QED BY <1>3, <2>2
<1>11. Beside'
  <2>1. \A n \in DOMAIN items : n # l => ~Host!IsPrefix(items[l].destination, items[n].source)
    BY <1>2 DEF Quiet, Host!Independent
  <2> QED BY <1>1, <1>3, <1>6, <2>1 DEF Progress, Beside
<1> QED BY <1>8, <1>9, <1>10, <1>11 DEF Progress

LEMMA BeginItemQuiet ==
  ASSUME Host!MaxItemsAssumption, Host!TreesAssumption, HostIInv, QInv, Host!BeginItem
  PROVE  QInv'
<1> DEFINE l == Len(placed) + 1
           d == Host!ResolvedDestination
<1>1. /\ jobPc = "item" /\ ~items[l].noOp /\ placed' = Append(placed, d)
      /\ jobPc' = IF Host!Replaces(items[l]) THEN "remove" ELSE "command"
      /\ d \notin Host!Reserved /\ Host!Item = items[l]
      /\ UNCHANGED <<tree, job, items, before, guests>>
  BY DEF Host!BeginItem, Host!Item, Host!Impossible
<1>2. /\ HostTypes /\ l \in DOMAIN items /\ l \in Nat
      /\ Begun \subseteq DOMAIN items /\ Begun = 1..Len(placed) /\ DOMAIN placed = Begun /\ l \notin Begun
  BY <1>1, WorkFacts DEF HostIInv, Looping, Phases
<1>3. /\ d \in Paths /\ InTarget(d)
      /\ ~Host!Replaces(items[l]) => d \notin DOMAIN tree \/ ~items[l].exists
      /\ ~items[l].exists => d = items[l].destination
      /\ Host!Replaces(items[l]) => d = items[l].destination
  BY <1>1, ResolvedIs
<1> HIDE DEF d
<1>4. /\ Len(placed') = l /\ Begun' = Begun \cup {l}
      /\ \A m \in Begun : placed'[m] = placed[m]
      /\ placed'[l] = d
  BY <1>1, <1>2, <1>3, Placing
<1> HIDE DEF l
<1>5. jobPc' \in Working
  BY <1>1 DEF Working
<1>6. HostUntouched'
  BY <1>5 DEF HostUntouched, Working
<1> SUFFICES ASSUME Quiet PROVE Progress'
  BY <1>1, <1>6, QuietSame DEF QInv
<1>7. Progress /\ jobPc \in Looping
  BY <1>1 DEF QInv, Looping
<1>8. Settled'
  <2> SUFFICES ASSUME NEW m \in Begun, m # l PROVE Arrived(m)' /\ Emptied(m)'
    BY <1>4, <1>5 DEF Settled, Finished
  <2>1. Arrived(m) /\ Emptied(m)
    BY <1>1, <1>7 DEF Progress, Settled, Finished, Working
  <2> QED BY <1>1, <1>4, <2>1 DEF Arrived, Emptied, IsMove
<1>9. Pending' /\ Remaining'
  BY <1>1, <1>4, <1>7 DEF Progress, Pending, Remaining, InTarget
<1>10. AtWork'
  BY <1>1, <1>2, <1>4, <1>7 DEF Progress, Pending, AtWork
<1>11. Cleared'
  <2> SUFFICES ASSUME ~Host!Replaces(items[l]) PROVE d \notin DOMAIN tree
    BY <1>1, <1>4 DEF Cleared
  <2>1. CASE ~items[l].exists
    <3>1. \/ items[l].destination \notin DOMAIN tree
          \/ \E m \in Begun : ~items[m].noOp /\ placed[m] = items[l].destination
      BY <1>1, <1>2, <1>7, <2>1 DEF Progress, Vacant
    <3>2. \A m \in Begun : ~items[m].noOp => placed[m] # d
      BY <1>1, <1>2 DEF Host!Reserved
    <3> QED BY <1>3, <2>1, <3>1, <3>2
  <2> QED BY <1>3, <2>1
<1>12. Vacant'
  <2> SUFFICES ASSUME NEW n \in DOMAIN items, n \notin Begun', ~items[n].exists, ~items[n].noOp
               PROVE  \/ items[n].destination \notin DOMAIN tree
                      \/ \E m \in Begun' : ~items[m].noOp /\ placed'[m] = items[n].destination
    BY <1>1 DEF Vacant
  <2>1. n \notin Begun
    BY <1>4
  <2>2. \/ items[n].destination \notin DOMAIN tree
        \/ \E m \in Begun : ~items[m].noOp /\ placed[m] = items[n].destination
    BY <1>7, <2>1 DEF Progress, Vacant
  <2> QED BY <1>4, <2>2
<1>13. Beside'
  <2>1. ASSUME NEW n \in DOMAIN items, n # l, Host!IsPrefix(d, items[n].source) PROVE FALSE
    <3>1. d # items[l].destination
      BY <1>2, <2>1 DEF Quiet, Host!Independent
    <3>2. items[l].exists /\ d \notin DOMAIN tree /\ job.policy # "overwrite"
      BY <1>3, <3>1 DEF Host!Replaces
    <3>3. items[n].source \in DOMAIN before /\ Rooted(before)
      BY <1>2, <1>7, WorkFacts, TreesRooted DEF HostTypes
    <3>4. d \in DOMAIN before
      BY <1>3, <2>1, <3>3, RootedFacts
    <3>5. \A p \in DOMAIN before : InTarget(p) => p \in DOMAIN tree
      BY <1>7, <3>2 DEF Progress, Remaining
    <3>6. InTarget(d)
      BY <1>3
    <3>7. d \in DOMAIN tree
      BY <3>4, <3>5, <3>6, Zenon
    <3> QED BY <3>2, <3>7
  <2>2. Beside
    BY <1>7 DEF Progress
  <2>3. ASSUME NEW m \in Begun', NEW n \in DOMAIN items, n # m PROVE ~Host!IsPrefix(placed'[m], items[n].source)
    <3>1. CASE m = l
      BY <1>4, <2>1, <2>3, <3>1
    <3>2. CASE m \in Begun
      BY <1>4, <2>2, <2>3, <3>2 DEF Beside
    <3> QED BY <1>4, <3>1, <3>2
  <2> QED BY <1>1, <2>3 DEF Beside
<1> QED BY <1>8, <1>9, <1>10, <1>11, <1>12, <1>13 DEF Progress

LEMMA ApartBelow ==
  ASSUME NEW p \in Paths, NEW d \in Paths, NEW q \in Paths, Apart(p, d), Host!IsPrefix(p, q)
  PROVE  ~Host!IsPrefix(d, q)
BY Order DEF Apart

\* A step of the item at work that leaves alone what is apart from its place
\* and, if it moves, from its source, and makes entries only below its place.
LEMMA OthersStay ==
  ASSUME Host!MaxItemsAssumption, Host!TreesAssumption, HostIInv, Quiet, Progress, jobPc \in Working,
         UNCHANGED <<job, items, placed, before, guests>>,
         \A p \in Paths : Apart(p, placed[Len(placed)]) /\ (IsMove => Apart(p, items[Len(placed)].source))
                            => Agree(tree, tree', p),
         \A e \in DOMAIN tree' : e \in DOMAIN tree \/ Host!IsPrefix(placed[Len(placed)], e)
  PROVE  /\ \A m \in Begun : m # Len(placed) => Arrived(m)' /\ Emptied(m)'
         /\ Pending' /\ Vacant' /\ Beside'
<1> DEFINE l == Len(placed)
<1>1. jobPc \in Looping /\ l \in Begun /\ ~items[l].noOp /\ Begun \subseteq DOMAIN items /\ Beside /\ Begun' = Begun
  <2>1. jobPc \in Looping
    BY DEF Looping, Working
  <2>2. l \in Begun /\ ~items[l].noOp
    BY CurrentIs
  <2> QED BY <2>1, <2>2, WorkFacts DEF Progress, Begun
<1>2. /\ \A m \in Begun : InTarget(placed[m]) /\ placed[m] \in Paths
      /\ \A m, n \in Begun : m # n => Apart(placed[m], placed[n])
      /\ \A m \in Begun : \A n \in DOMAIN items : m # n => Apart(placed[m], items[n].source)
      /\ IsMove => \A m, n \in DOMAIN items : m # n => Apart(items[m].source, items[n].source)
  BY <1>1, ApartFacts
<1>3. \A n \in DOMAIN items : items[n].source \in Paths /\ items[n].destination \in Paths /\ InTarget(items[n].destination)
  BY <1>1, WorkFacts
<1> HIDE DEF l
<1>4. \A m \in Begun : m # l => Agree(tree, tree', placed[m])
  BY <1>1, <1>2 DEF l
<1>5. \A n \in DOMAIN items : n # l => Agree(tree, tree', items[n].source)
  <2> SUFFICES ASSUME NEW n \in DOMAIN items, n # l PROVE Agree(tree, tree', items[n].source)
    OBVIOUS
  <2>1. Apart(items[n].source, placed[l]) /\ (IsMove => Apart(items[n].source, items[l].source))
    BY <1>1, <1>2 DEF Apart
  <2> QED BY <1>3, <2>1 DEF l
<1>6. ASSUME NEW m \in Begun, m # l PROVE Arrived(m)' /\ Emptied(m)'
  <2>1. Arrived(m) /\ Emptied(m)
    BY <1>6 DEF Progress, Settled, Finished, l
  <2>2. Arrived(m)'
    BY <1>1, <1>4, <1>6, <2>1, StaysArrived
  <2>3. Emptied(m)'
    BY <1>1, <1>5, <1>6, <2>1 DEF Emptied, Agree, IsMove
  <2> QED BY <2>2, <2>3
<1>7. Pending'
  <2> SUFFICES ASSUME NEW n \in DOMAIN items, n \notin Begun PROVE Agree(before, tree', items[n].source)
    BY <1>1 DEF Pending
  <2>1. Agree(before, tree, items[n].source) /\ Agree(tree, tree', items[n].source)
    BY <1>1, <1>5 DEF Progress, Pending
  <2> QED BY <2>1, StaysSame
<1>8. Vacant'
  <2> SUFFICES ASSUME NEW n \in DOMAIN items, n \notin Begun, ~items[n].exists, ~items[n].noOp, items[n].destination \in DOMAIN tree'
               PROVE  \E m \in Begun : ~items[m].noOp /\ placed[m] = items[n].destination
    BY <1>1 DEF Vacant
  <2>1. CASE items[n].destination \in DOMAIN tree
    BY <2>1 DEF Progress, Vacant
  <2>2. CASE Host!IsPrefix(placed[l], items[n].destination)
    <3>1. placed[l] = items[n].destination
      BY <1>1, <1>2, <1>3, <2>2, Order DEF InTarget
    <3> QED BY <1>1, <3>1
  <2> QED BY <2>1, <2>2 DEF l
<1>9. Beside'
  BY <1>1 DEF Beside
<1> QED BY <1>6, <1>7, <1>8, <1>9 DEF l

LEMMA RemoveQuiet ==
  ASSUME Host!MaxItemsAssumption, Host!TreesAssumption, HostIInv, QInv, Host!RemoveDestination
  PROVE  QInv'
<1> DEFINE l == Len(placed)
           d == placed[l]
           s == items[l].source
<1>1. /\ jobPc = "remove" /\ jobPc \in Working /\ jobPc \in Looping /\ jobPc' = "command"
      /\ tree' = Host!Without(tree, Host!Subtree(tree, Host!Destination))
      /\ UNCHANGED <<job, items, placed, before, guests>>
  BY DEF Host!RemoveDestination, Working, Looping
<1>2. /\ l \in Begun /\ Host!Destination = d /\ d \in Paths /\ InTarget(d) /\ s \in Paths /\ Rooted(tree)
      /\ Begun \subseteq DOMAIN items /\ Host!Replaces(items[l]) /\ job.target \in Paths /\ ~Host!IsPrefix(s, job.target)
  BY <1>1, CurrentIs, WorkFacts DEF HostIInv, Phases
<1>3. DOMAIN tree \subseteq Paths
  BY <1>2, RootedFacts
<1>4. DOMAIN tree' = {e \in DOMAIN tree : ~Host!IsPrefix(d, e)} /\ \A e \in DOMAIN tree' : tree'[e] = tree[e]
  BY <1>1, <1>2 DEF Host!Without, Host!Subtree
<1>5. HostUntouched'
  BY <1>1 DEF HostUntouched
<1> SUFFICES ASSUME Quiet PROVE Progress'
  BY <1>1, <1>5, QuietSame DEF QInv
<1>6. Progress
  BY <1>1 DEF QInv
<1> HIDE DEF l
<1>7. \A p \in Paths : Apart(p, d) => Agree(tree, tree', p)
  BY <1>2, <1>3, <1>4, ApartBelow DEF Agree
<1>8. /\ \A m \in Begun : m # l => Arrived(m)' /\ Emptied(m)'
      /\ Pending' /\ Vacant' /\ Beside'
  BY <1>1, <1>4, <1>6, <1>7, OthersStay DEF l
<1>9. Settled'
  BY <1>1, <1>8 DEF Settled, Finished, Begun, Working, l
<1>10. AtWork'
  <2>1. CASE Host!IsPrefix(d, s)
    <3>1. s \notin DOMAIN tree'
      BY <1>4, <2>1
    <3> QED BY <1>1, <3>1 DEF AtWork, l
  <2>2. CASE ~Host!IsPrefix(d, s)
    <3>1. Host!IsPrefix(s, d) => s = d
      BY <1>2, SourceAbove
    <3>2. Apart(s, d)
      BY <1>2, <2>2, <3>1, Order DEF Apart
    <3>3. Agree(before, tree, s)
      BY <1>1, <1>6 DEF Progress, AtWork, l
    <3>4. Agree(before, tree', s)
      BY <1>2, <1>7, <3>2, <3>3, StaysSame
    <3> QED BY <1>1, <3>4 DEF AtWork, l
  <2> QED BY <2>1, <2>2
<1>11. Cleared'
  <2>1. d \notin DOMAIN tree'
    BY <1>2, <1>4, Order
  <2> QED BY <1>1, <2>1 DEF Cleared, l
<1>12. Remaining'
  BY <1>1, <1>2 DEF Remaining, Host!Replaces
<1> QED BY <1>8, <1>9, <1>10, <1>11, <1>12 DEF Progress

LEMMA InTargetIs ==
  ASSUME NEW p \in Paths, job.target \in Paths, InTarget(p)
  PROVE  p = Append(job.target, Host!Last(p))
<1> DEFINE x == Host!Last(p)
           t == job.target
           a == Append(t, x)
<1>1. Host!IsPrefix(t, p) /\ Len(p) = Len(t) + 1 /\ Len(t) \in Nat /\ Len(<<>>) = 0
  BY Lengths DEF InTarget
<1>2. p # <<>>
  BY <1>1
<1>3. x \in Names /\ x = p[Len(p)]
  BY <1>2, Fronts DEF Host!Last
<1> HIDE DEF x
<1>4. a \in Paths /\ Len(a) = Len(t) + 1 /\ a[Len(t) + 1] = x /\ \A i \in 1..Len(t) : a[i] = t[i]
  BY <1>3, Appended DEF Paths
<1>5. \A i \in 1..Len(t) : t[i] = p[i]
  BY <1>1, PrefixIs
<1> HIDE DEF a, t
<1>6. \A i \in 1..Len(p) : p[i] = a[i]
  BY <1>1, <1>3, <1>4, <1>5
<1>7. p = a
  BY <1>1, <1>4, <1>6, Equal
<1> QED BY <1>7 DEF a, t, x

\* Nothing stands at the place of the item being done.
IsFree == Host!Destination \notin DOMAIN tree

\* What a command that succeeds makes of the tree, when nothing stood at the
\* place of its item: the source is there, and gone from where it was if it
\* is moved; everything else is as before.
LEMMA CommandMakes ==
  ASSUME Host!MaxItemsAssumption, Host!TreesAssumption, HostIInv, Host!CommandSucceeds, IsFree
  PROVE  /\ DOMAIN tree' \subseteq Paths
         /\ \A r \in DOMAIN tree' : Host!IsPrefix(Host!Destination, r) =>
              Host!Rebase(r, Host!Destination, Host!Current.source) \in DOMAIN tree /\ Host!IsPrefix(Host!Current.source, Host!Rebase(r, Host!Destination, Host!Current.source)) /\ tree'[r] = tree[Host!Rebase(r, Host!Destination, Host!Current.source)]
         /\ \A q \in DOMAIN tree : Host!IsPrefix(Host!Current.source, q) => Host!Rebase(q, Host!Current.source, Host!Destination) \in DOMAIN tree'
         /\ \A e \in Paths : ~Host!IsPrefix(Host!Destination, e) =>
              /\ e \in DOMAIN tree' <=> e \in DOMAIN tree /\ (IsMove => ~Host!IsPrefix(Host!Current.source, e))
              /\ e \in DOMAIN tree' => tree'[e] = tree[e]
         /\ IsMove => \A e \in DOMAIN tree' : ~Host!IsPrefix(Host!Current.source, e)
         /\ Host!Current.source \in DOMAIN tree
<1> DEFINE s == Host!Current.source
           d == Host!Destination
           all == Host!Subtree(tree, s)
           w == Host!Written(tree, all, s, d)
<1>1. /\ jobPc = "command" /\ jobPc \in Working /\ Host!Runnable
      /\ Host!Landing = d
      /\ tree' = IF job.operation = "copy" THEN w ELSE Host!Without(w, all)
      /\ job.operation \in Host!Operations
  <2>1. jobPc = "command" /\ jobPc \in Working /\ Host!Runnable /\ jobPc \in Looping
    BY DEF Host!CommandSucceeds, Working, Looping
  <2>2. Host!Landing = d
    BY DEF Host!Landing, Host!IsDir, Host!Exists, IsFree
  <2>3. tree' = IF job.operation = "copy" THEN Host!Written(tree, Host!Subtree(tree, s), s, Host!Landing)
                ELSE Host!Without(Host!Written(tree, Host!Subtree(tree, s), s, Host!Landing), Host!Subtree(tree, s))
    BY DEF Host!CommandSucceeds
  <2> QED BY <2>1, <2>2, <2>3, WorkFacts
<1>2. /\ s \in Paths /\ d \in Paths /\ Rooted(tree) /\ s \in DOMAIN tree
      /\ IsMove => \A r \in Paths : Host!IsPrefix(d, r) => ~Host!IsPrefix(s, r)
  BY <1>1, CurrentIs, RunnableIs
<1> HIDE DEF s, d
<1>3. \A q \in DOMAIN tree : q \in Paths /\ ~Host!IsPrefix(d, q) /\ (q \in all <=> Host!IsPrefix(s, q))
  BY <1>2, RootedFacts DEF Host!Subtree, d, IsFree
<1>4. all \subseteq DOMAIN tree
  BY DEF Host!Subtree
<1>5. /\ DOMAIN w = DOMAIN tree \cup {Host!Rebase(q, s, d) : q \in all} /\ DOMAIN w \subseteq Paths
      /\ \A q \in all : Host!Rebase(q, s, d) \in DOMAIN w /\ Host!IsPrefix(d, Host!Rebase(q, s, d)) /\ w[Host!Rebase(q, s, d)] = tree[q]
      /\ \A p \in DOMAIN tree : ~Host!IsPrefix(d, p) => w[p] = tree[p]
      /\ \A p \in DOMAIN w : \/ p \in DOMAIN tree /\ w[p] = tree[p]
                             \/ \E q \in all : p = Host!Rebase(q, s, d) /\ w[p] = tree[q]
  <2>1. all \in SUBSET Host!Subtree(tree, s)
    OBVIOUS
  <2> HIDE DEF all
  <2>2. s \in Paths /\ d \in Paths /\ Rooted(tree)
    BY <1>2
  <2> QED BY <2>1, <2>2, WrittenIs
<1>6. \A q \in all : q \in Paths /\ Host!Rebase(q, s, d) \in Paths /\ Host!Rebase(Host!Rebase(q, s, d), d, s) = q
  BY <1>2, <1>3, <1>4, Rebasing
<1>7. IsMove => tree' = Host!Without(w, all)
  BY <1>1 DEF IsMove
<1>8. ~IsMove => tree' = w
  BY <1>1 DEF IsMove, Host!Operations
<1> HIDE DEF w, all
<1>9. ASSUME NEW r \in DOMAIN w, Host!IsPrefix(d, r)
      PROVE  Host!Rebase(r, d, s) \in all /\ w[r] = tree[Host!Rebase(r, d, s)]
  <2>1. PICK q \in all : r = Host!Rebase(q, s, d) /\ w[r] = tree[q]
    BY <1>3, <1>5, <1>9
  <2> QED BY <1>6, <2>1
<1>10. \A e \in Paths : ~Host!IsPrefix(d, e) => (e \in DOMAIN w <=> e \in DOMAIN tree) /\ (e \in DOMAIN w => w[e] = tree[e])
  BY <1>5
<1>11. CASE ~IsMove
  <2>1. tree' = w
    BY <1>8, <1>11
  <2> QED BY <1>2, <1>3, <1>4, <1>5, <1>9, <1>10, <1>11, <2>1 DEF s, d
<1>12. CASE IsMove
  <2>1. DOMAIN tree' = DOMAIN w \ all /\ \A e \in DOMAIN tree' : tree'[e] = w[e]
    BY <1>7, <1>12 DEF Host!Without
  <2>2. \A q \in all : Host!Rebase(q, s, d) \in DOMAIN tree'
    <3>1. \A q \in all : Host!IsPrefix(s, q)
      BY <1>3, <1>4
    <3>2. \A q \in all : ~Host!IsPrefix(s, Host!Rebase(q, s, d))
      BY <1>2, <1>5, <1>6, <1>12
    <3> QED BY <1>5, <2>1, <3>1, <3>2
  <2>3. \A e \in DOMAIN tree' : ~Host!IsPrefix(s, e)
    <3> SUFFICES ASSUME NEW e \in DOMAIN tree', Host!IsPrefix(s, e) PROVE FALSE
      OBVIOUS
    <3>1. e \in DOMAIN w /\ e \notin all /\ e \in Paths
      BY <1>5, <2>1
    <3>2. ~Host!IsPrefix(d, e)
      BY <1>2, <1>12, <3>1
    <3> QED BY <1>3, <1>10, <3>1, <3>2
  <2>4. \A e \in Paths : ~Host!IsPrefix(d, e) =>
           /\ e \in DOMAIN tree' <=> e \in DOMAIN tree /\ ~Host!IsPrefix(s, e)
           /\ e \in DOMAIN tree' => tree'[e] = tree[e]
    BY <1>3, <1>10, <2>1
  <2>5. \A r \in DOMAIN tree' : Host!IsPrefix(d, r) =>
          Host!Rebase(r, d, s) \in DOMAIN tree /\ Host!IsPrefix(s, Host!Rebase(r, d, s)) /\ tree'[r] = tree[Host!Rebase(r, d, s)]
    BY <1>3, <1>4, <1>9, <2>1
  <2>6. DOMAIN tree' \subseteq Paths /\ \A q \in DOMAIN tree : Host!IsPrefix(s, q) => Host!Rebase(q, s, d) \in DOMAIN tree'
    BY <1>3, <1>5, <2>1, <2>2
  <2> QED BY <1>2, <1>12, <2>3, <2>4, <2>5, <2>6 DEF s, d
<1> QED BY <1>11, <1>12 DEF s, d

LEMMA CommandQuiet ==
  ASSUME Host!MaxItemsAssumption, Host!TreesAssumption, HostIInv, QInv, Host!CommandSucceeds
  PROVE  QInv'
<1> DEFINE l == Len(placed)
           d == placed[l]
           s == items[l].source
<1>1. /\ jobPc = "command" /\ jobPc \in Working /\ jobPc \in Looping /\ jobPc' = Host!AfterItem(l)
      /\ UNCHANGED <<job, items, placed, before, guests>>
  BY DEF Host!CommandSucceeds, Working, Looping
<1>2. /\ l \in Begun /\ l \in Nat /\ Host!Destination = d /\ Host!Current = items[l] /\ d \in Paths /\ InTarget(d) /\ s \in Paths
      /\ Rooted(tree) /\ Rooted(before)
      /\ Begun \subseteq DOMAIN items /\ ~items[l].noOp /\ job.target \in Paths /\ ~Host!IsPrefix(s, job.target)
      /\ Prepared(l)
  BY <1>1, CurrentIs, WorkFacts, TreesRooted DEF HostIInv, HostTypes
<1>3. jobPc' \in {"item", "done"}
  BY <1>1 DEF Host!AfterItem
<1>4. HostUntouched'
  BY <1>3 DEF HostUntouched
<1> SUFFICES ASSUME Quiet PROVE Progress'
  BY <1>1, <1>4, QuietSame DEF QInv
<1>5. Progress
  BY <1>1 DEF QInv
<1>6. d \notin DOMAIN tree
  BY <1>1, <1>5 DEF Progress, Cleared
<1>7. /\ DOMAIN tree' \subseteq Paths
      /\ \A r \in DOMAIN tree' : Host!IsPrefix(d, r) =>
           Host!Rebase(r, d, s) \in DOMAIN tree /\ Host!IsPrefix(s, Host!Rebase(r, d, s)) /\ tree'[r] = tree[Host!Rebase(r, d, s)]
      /\ \A q \in DOMAIN tree : Host!IsPrefix(s, q) => Host!Rebase(q, s, d) \in DOMAIN tree'
      /\ \A e \in Paths : ~Host!IsPrefix(d, e) =>
           /\ e \in DOMAIN tree' <=> e \in DOMAIN tree /\ (IsMove => ~Host!IsPrefix(s, e))
           /\ e \in DOMAIN tree' => tree'[e] = tree[e]
      /\ IsMove => \A e \in DOMAIN tree' : ~Host!IsPrefix(s, e)
      /\ s \in DOMAIN tree
  BY <1>2, <1>6, CommandMakes DEF IsFree
<1>8. Agree(before, tree, s)
  BY <1>1, <1>5, <1>7 DEF Progress, AtWork
<1>9. DOMAIN tree \subseteq Paths /\ DOMAIN before \subseteq Paths
  BY <1>2, RootedFacts
<1> HIDE DEF l, d, s
<1>10. ASSUME NEW p \in Paths, Apart(p, d), IsMove => Apart(p, s) PROVE Agree(tree, tree', p)
  <2> SUFFICES ASSUME NEW q \in DOMAIN tree \cup DOMAIN tree', Host!IsPrefix(p, q)
               PROVE  q \in DOMAIN tree /\ q \in DOMAIN tree' /\ tree[q] = tree'[q]
    BY DEF Agree
  <2>1. q \in Paths /\ ~Host!IsPrefix(d, q) /\ (IsMove => ~Host!IsPrefix(s, q))
    BY <1>2, <1>7, <1>9, <1>10, ApartBelow
  <2> QED BY <1>7, <2>1
<1>11. \A e \in DOMAIN tree' : e \in DOMAIN tree \/ Host!IsPrefix(d, e)
  BY <1>7
<1>12. /\ \A m \in Begun : m # l => Arrived(m)' /\ Emptied(m)'
       /\ Pending' /\ Vacant' /\ Beside'
  <2>1. \A p \in Paths : Apart(p, placed[Len(placed)]) /\ (IsMove => Apart(p, items[Len(placed)].source))
                            => Agree(tree, tree', p)
    BY <1>10 DEF d, s, l
  <2>2. \A e \in DOMAIN tree' : e \in DOMAIN tree \/ Host!IsPrefix(placed[Len(placed)], e)
    BY <1>11 DEF d, l
  <2>3. /\ \A m \in Begun : m # Len(placed) => Arrived(m)' /\ Emptied(m)'
        /\ Pending' /\ Vacant' /\ Beside'
    BY <1>1, <1>5, <2>1, <2>2, OthersStay
  <2> QED BY <2>3 DEF l
<1>13. Arrived(l)'
  <2>1. ASSUME NEW r \in DOMAIN tree', Host!IsPrefix(d, r)
        PROVE  Host!Rebase(r, d, s) \in DOMAIN before /\ tree'[r] = before[Host!Rebase(r, d, s)]
    BY <1>7, <1>8, <2>1 DEF Agree
  <2>2. ASSUME NEW q \in DOMAIN before, Host!IsPrefix(s, q) PROVE Host!Rebase(q, s, d) \in DOMAIN tree'
    BY <1>7, <1>8, <2>2 DEF Agree
  <2>4. before' = before
    BY <1>1
  <2>5. placed' = placed /\ items' = items /\ l' = l
    BY <1>1 DEF l
  <2> QED BY <2>1, <2>2, <2>4, <2>5 DEF Arrived, d, s
<1>14. Emptied(l)'
  <2>1. IsMove' <=> IsMove
    BY <1>1 DEF IsMove
  <2>2. items' = items /\ l' = l
    BY <1>1 DEF l
  <2> QED BY <1>7, <2>1, <2>2 DEF Emptied, s
<1>15. Settled'
  <2>1. Begun' = Begun /\ l' = l
    BY <1>1 DEF Begun, l
  <2>2. ASSUME NEW m \in Begun PROVE Arrived(m)' /\ Emptied(m)'
    BY <1>12, <1>13, <1>14, <2>1
  <2> QED BY <2>1, <2>2 DEF Settled
<1>16. AtWork' /\ Cleared'
  BY <1>3 DEF AtWork, Cleared, Working
<1>17. Remaining'
  <2> SUFFICES ASSUME job.policy # "overwrite", NEW p \in DOMAIN before, InTarget(p) PROVE p \in DOMAIN tree'
    BY <1>1 DEF Remaining, InTarget
  <2>1. p \in DOMAIN tree /\ p \in Paths
    BY <1>5, <1>9 DEF Progress, Remaining
  <2>2. ~Host!IsPrefix(d, p)
    BY <1>2, <1>6, <2>1, Order DEF InTarget
  <2>3. ASSUME IsMove, Host!IsPrefix(s, p) PROVE FALSE
    <3>1. s = p
      BY <1>2, <2>1, <2>3, SourceAbove
    <3>2. s = Append(job.target, Host!Last(s))
      BY <1>2, <3>1, InTargetIs
    <3>3. items[l].destination = s
      BY <1>2, <3>2 DEF Prepared, s
    <3> QED BY <1>2, <2>3, <3>3 DEF Prepared, s
  <2> QED BY <1>7, <2>1, <2>2, <2>3
<1> QED BY <1>12, <1>15, <1>16, <1>17 DEF Progress

LEMMA NextQuiet ==
  ASSUME Host!MaxItemsAssumption, Host!TreesAssumption, HostIInv, QInv, [Host!Next]_hostVars
  PROVE  QInv'
<1>1. CASE Host!Reject \/ Host!Refuse \/ Host!RemoveFails \/ Host!CommandFails \/ Host!Break
  BY <1>1
     DEF Host!Reject, Host!Refuse, Host!RemoveFails, Host!CommandFails, Host!Break, QInv, HostUntouched, Looping
<1>2. CASE Host!Validate
  BY <1>2, ValidateQuiet
<1>3. CASE Host!Check
  BY <1>3, CheckQuiet
<1>4. CASE Host!SkipItem
  BY <1>4, SkipItemQuiet
<1>5. CASE Host!BeginItem
  BY <1>5, BeginItemQuiet
<1>6. CASE Host!RemoveDestination
  BY <1>6, RemoveQuiet
<1>7. CASE Host!CommandSucceeds
  BY <1>7, CommandQuiet
<1>8. ASSUME NEW p \in Guests, Host!Guest(p) PROVE QInv'
  <2>1. guests' # {}
    BY <1>8 DEF Host!Guest
  <2> QED BY <2>1 DEF QInv, HostUntouched, Quiet
<1>9. CASE UNCHANGED hostVars
  <2>1. UNCHANGED <<tree, job, jobPc, items, placed, before, guests>>
    BY <1>9 DEF hostVars
  <2>2. (Quiet' <=> Quiet) /\ (HostUntouched' <=> HostUntouched)
    BY <2>1, QuietSame DEF HostUntouched
  <2>3. (Settled' <=> Settled) /\ (Pending' <=> Pending)
    BY <2>1 DEF Settled, Pending, Begun, Finished, Arrived, Emptied, Agree, IsMove, Working
  <2>4. /\ AtWork' <=> AtWork
        /\ Cleared' <=> Cleared
        /\ Vacant' <=> Vacant
        /\ Beside' <=> Beside
        /\ Remaining' <=> Remaining
    BY <2>1 DEF AtWork, Cleared, Vacant, Beside, Remaining, Begun, Agree, Working, InTarget
  <2> QED BY <2>1, <2>2, <2>3, <2>4 DEF QInv, Progress, Looping
<1> QED BY <1>1, <1>2, <1>3, <1>4, <1>5, <1>6, <1>7, <1>8, <1>9 DEF Host!Next

LEMMA Delivers ==
  ASSUME Host!MaxItemsAssumption, Host!TreesAssumption, HostIInv, QInv
  PROVE  Host!DeliveredWhenDone
<1> SUFFICES ASSUME jobPc = "done", Quiet, NEW n \in DOMAIN items
             PROVE  /\ \A m \in DOMAIN items : placed[m] = placed[n] => m = n
                    /\ Host!Subtree(tree, placed[n]) =
                         {Host!Rebase(q, items[n].source, placed[n]) : q \in Host!Subtree(before, items[n].source)}
                    /\ \A q \in Host!Subtree(before, items[n].source) :
                         tree[Host!Rebase(q, items[n].source, placed[n])] = before[q]
                    /\ (items[n].noOp \/ job.operation = "copy") \/ Host!Subtree(tree, items[n].source) = {}
  BY DEF Host!DeliveredWhenDone, Quiet
<1>1. jobPc \in Looping /\ Progress /\ jobPc \notin Working
  BY DEF QInv, Looping, Working
<1>2. /\ Begun = DOMAIN items /\ job.operation \in Host!Operations
      /\ placed[n] \in Paths /\ items[n].source \in Paths
      /\ Rooted(tree) /\ Rooted(before)
  BY <1>1, WorkFacts, TreesRooted DEF HostIInv, Phases, HostTypes
<1>3. \A m \in DOMAIN items : placed[m] = placed[n] => m = n
  BY <1>1, <1>2, ApartFacts DEF Progress
<1>4. Arrived(n) /\ Emptied(n)
  BY <1>1, <1>2 DEF Progress, Settled, Finished
<1>5. DOMAIN tree \subseteq Paths /\ DOMAIN before \subseteq Paths
  BY <1>2, RootedFacts
<1> DEFINE d == placed[n]
           s == items[n].source
<1>6. d \in Paths /\ s \in Paths
  BY <1>2
<1>7. /\ \A r \in DOMAIN tree : Host!IsPrefix(d, r) => Host!Rebase(r, d, s) \in DOMAIN before /\ tree[r] = before[Host!Rebase(r, d, s)]
      /\ \A q \in DOMAIN before : Host!IsPrefix(s, q) => Host!Rebase(q, s, d) \in DOMAIN tree
  BY <1>4 DEF Arrived
<1> HIDE DEF d, s
<1>8. ASSUME NEW q \in Host!Subtree(before, s)
      PROVE  Host!Rebase(q, s, d) \in Host!Subtree(tree, d) /\ tree[Host!Rebase(q, s, d)] = before[q]
  <2>1. q \in DOMAIN before /\ Host!IsPrefix(s, q) /\ q \in Paths
    BY <1>5 DEF Host!Subtree
  <2>2. Host!IsPrefix(d, Host!Rebase(q, s, d)) /\ Host!Rebase(Host!Rebase(q, s, d), d, s) = q
    BY <1>6, <2>1, Rebasing
  <2> QED BY <1>7, <2>1, <2>2 DEF Host!Subtree
<1>9. ASSUME NEW r \in Host!Subtree(tree, d)
      PROVE  Host!Rebase(r, d, s) \in Host!Subtree(before, s) /\ r = Host!Rebase(Host!Rebase(r, d, s), s, d)
  <2>1. r \in DOMAIN tree /\ Host!IsPrefix(d, r) /\ r \in Paths
    BY <1>5 DEF Host!Subtree
  <2>2. Host!IsPrefix(s, Host!Rebase(r, d, s)) /\ Host!Rebase(Host!Rebase(r, d, s), s, d) = r
    BY <1>6, <2>1, Rebasing
  <2> QED BY <1>7, <2>1, <2>2 DEF Host!Subtree
<1>10. Host!Subtree(tree, d) = {Host!Rebase(q, s, d) : q \in Host!Subtree(before, s)}
  BY <1>8, <1>9
<1>11. (items[n].noOp \/ job.operation = "copy") \/ Host!Subtree(tree, s) = {}
  <2> SUFFICES ASSUME ~items[n].noOp, job.operation # "copy" PROVE Host!Subtree(tree, s) = {}
    OBVIOUS
  <2>1. IsMove
    BY <1>2 DEF IsMove, Host!Operations
  <2>2. \A q \in DOMAIN tree : ~Host!IsPrefix(s, q)
    BY <1>4, <2>1 DEF Emptied, s
  <2> QED BY <2>2 DEF Host!Subtree
<1> QED BY <1>3, <1>8, <1>10, <1>11 DEF d, s

-----------------------------------------------------------------------------
(***************************************************************************)
(* What is carried to a host and back: FileTransferProofs has the          *)
(* invariant and what it survives.  Its instance has the operators of the  *)
(* instance of FileTransfer under other names.                             *)
(***************************************************************************)
FilesP == INSTANCE FileTransferProofs WITH Plans <- FilePlans, pc <- taskPc, before <- found

\* What a task does.
LEMMA FilesActions ==
  ASSUME NEW t
  PROVE  /\ Files!Prepare(t) => FilesP!Prepare(t)
         /\ Files!PrepareFails(t) => FilesP!PrepareFails(t)
         /\ Files!Join(t) => FilesP!Join(t)
         /\ Files!Publish(t) => FilesP!Publish(t)
         /\ Files!PublishEnds(t) => FilesP!PublishEnds(t)
         /\ Files!PublishFails(t) => FilesP!PublishFails(t)
         /\ Files!Clean(t) => FilesP!Clean(t)
         /\ Files!Finish(t) => FilesP!Finish(t)
         /\ Files!Cancel(t) => FilesP!Cancel(t)
         /\ Files!StartWorkers(t) => FilesP!StartWorkers(t)
         /\ \A c : Files!WorkerStep(t, c) => FilesP!WorkerStep(t, c)
<1>1. (Files!Prepare(t) => FilesP!Prepare(t)) /\ (Files!PrepareFails(t) => FilesP!PrepareFails(t))
  BY DEF Files!NoTemp, FilesP!NoTemp, Files!Files, FilesP!Files, Files!Uploads, FilesP!Uploads, Files!SetError,
         FilesP!SetError, Files!GoTo, FilesP!GoTo, Files!NextToCreate, FilesP!NextToCreate, Files!Prepare,
         FilesP!Prepare, Files!PrepareFails, FilesP!PrepareFails
<1>2. (Files!Join(t) => FilesP!Join(t)) /\ (Files!Publish(t) => FilesP!Publish(t))
  BY DEF Files!Mixture, FilesP!Mixture, Files!Whole, FilesP!Whole, Files!NoTemp, FilesP!NoTemp, Files!Files,
         FilesP!Files, Files!Uploads, FilesP!Uploads, Files!Pieces, FilesP!Pieces, Files!Content,
         FilesP!Content, Files!Left, FilesP!Left, Files!GoTo, FilesP!GoTo, Files!FirstOfEnding,
         FilesP!FirstOfEnding, Files!Moves, FilesP!Moves, Files!Join, FilesP!Join, Files!NextToPublish,
         FilesP!NextToPublish, Files!Publish, FilesP!Publish
<1>3. (Files!PublishEnds(t) => FilesP!PublishEnds(t)) /\ (Files!PublishFails(t) => FilesP!PublishFails(t))
  BY DEF Files!NoTemp, FilesP!NoTemp, Files!Files, FilesP!Files, Files!SetError, FilesP!SetError, Files!GoTo,
         FilesP!GoTo, Files!NextToPublish, FilesP!NextToPublish, Files!PublishEnds, FilesP!PublishEnds,
         Files!PublishFails, FilesP!PublishFails
<1>4. (Files!Clean(t) => FilesP!Clean(t)) /\ (Files!Finish(t) => FilesP!Finish(t))
  BY DEF Files!NoTemp, FilesP!NoTemp, Files!Files, FilesP!Files, Files!Uploads, FilesP!Uploads, Files!GoTo,
         FilesP!GoTo, Files!AfterFinish, FilesP!AfterFinish, Files!AfterClean, FilesP!AfterClean, Files!Clean,
         FilesP!Clean, Files!Finish, FilesP!Finish
<1>5. (Files!Cancel(t) => FilesP!Cancel(t))
  BY DEF Files!Active, FilesP!Active, Files!Cancel, FilesP!Cancel
<1>6. Files!StartWorkers(t) => FilesP!StartWorkers(t)
  <2>1. \A S : Files!Cardinality(S) = FilesP!Cardinality(S)
    BY DEF Files!Cardinality, FilesP!Cardinality, Files!IsFiniteSet, FilesP!IsFiniteSet
  <2> QED
    BY <2>1 DEF Files!NoTemp, FilesP!NoTemp, Files!Files, FilesP!Files, Files!Uploads, FilesP!Uploads,
                Files!Pieces, FilesP!Pieces, Files!Segments, FilesP!Segments, Files!Idle, FilesP!Idle,
                Files!Left, FilesP!Left, Files!GoTo, FilesP!GoTo, Files!StartWorkers, FilesP!StartWorkers
<1>7. \A c : Files!WorkerStep(t, c) => FilesP!WorkerStep(t, c)
  BY DEF Files!Nothing, FilesP!Nothing, Files!Mixture, FilesP!Mixture, Files!Whole, FilesP!Whole, Files!NoTemp,
         FilesP!NoTemp, Files!Files, FilesP!Files, Files!Uploads, FilesP!Uploads, Files!Pieces, FilesP!Pieces,
         Files!Content, FilesP!Content, Files!Idle, FilesP!Idle, Files!Left, FilesP!Left, Files!WorkDone,
         FilesP!WorkDone, Files!Active, FilesP!Active, Files!SetError, FilesP!SetError, Files!Becomes,
         FilesP!Becomes, Files!Take, FilesP!Take, Files!HandedOut, FilesP!HandedOut, Files!Leave, FilesP!Leave,
         Files!IsLastPiece, FilesP!IsLastPiece, Files!PieceDone, FilesP!PieceDone, Files!PieceFails,
         FilesP!PieceFails, Files!Moves, FilesP!Moves, Files!Refused, FilesP!Refused, Files!AnswerLost,
         FilesP!AnswerLost, Files!CommitAtOnce, FilesP!CommitAtOnce, Files!Look, FilesP!Look, Files!Removes,
         FilesP!Removes, Files!RemoveTarget, FilesP!RemoveTarget, Files!RenameFails, FilesP!RenameFails,
         Files!Rename, FilesP!Rename, Files!Break, FilesP!Break, Files!WorkerStep, FilesP!WorkerStep
<1> QED BY <1>1, <1>2, <1>3, <1>4, <1>5, <1>6, <1>7

LEMMA FilesNext == ASSUME Files!Next PROVE FilesP!Next
<1>1. Files!Quit => FilesP!Quit
  BY DEF Files!Tasks, FilesP!Tasks, Files!Left, FilesP!Left, Files!Active, FilesP!Active, Files!Quit,
         FilesP!Quit
<1>2. FilesP!Tasks = Files!Tasks
  BY DEF FilesP!Tasks, Files!Tasks
<1> QED BY <1>1, <1>2, FilesActions DEF Files!Next, FilesP!Next

LEMMA FilesInitInv ==
  ASSUME Files!PlansAssumption, Files!Init
  PROVE  FilesP!IInv
<1>1. FilesP!PlansAssumption
  BY DEF Files!PlansAssumption, FilesP!PlansAssumption
<1>2. FilesP!Init
  BY DEF Files!Nothing, FilesP!Nothing, Files!Old, FilesP!Old, Files!NoTemp, FilesP!NoTemp, Files!Tasks,
         FilesP!Tasks, Files!Files, FilesP!Files, Files!Uploads, FilesP!Uploads, Files!Pieces, FilesP!Pieces,
         Files!Left, FilesP!Left, Files!Init, FilesP!Init
<1> QED BY <1>1, <1>2, FilesP!InitInv

LEMMA FilesNextInv ==
  ASSUME Files!PlansAssumption, Files!NoneAssumption, FilesP!IInv, [Files!Next]_fileVars
  PROVE  FilesP!IInv'
<1>1. FilesP!PlansAssumption /\ FilesP!NoneAssumption
  BY DEF Files!PlansAssumption, FilesP!PlansAssumption, Files!NoneAssumption, FilesP!NoneAssumption
<1>2. [FilesP!Next]_(FilesP!vars)
  BY FilesNext DEF fileVars, FilesP!vars, FilesP!task
<1> QED BY <1>1, <1>2, FilesP!NextInv

LEMMA FilesInvariants ==
  ASSUME Files!PlansAssumption, FilesP!IInv
  PROVE  Files!TypeOK /\ Files!LossIsAnnounced /\ Files!DeliveredWhenDone
<1>1. FilesP!PlansAssumption
  BY DEF Files!PlansAssumption, FilesP!PlansAssumption
<1>2. FilesP!TypeOK /\ FilesP!LossIsAnnounced /\ FilesP!DeliveredWhenDone
  BY <1>1, FilesP!Typed, FilesP!NoUnannouncedLoss, FilesP!Delivers
<1>3. FilesP!TypeOK => Files!TypeOK
  BY DEF Files!Nothing, FilesP!Nothing, Files!Old, FilesP!Old, Files!Mixture, FilesP!Mixture, Files!Whole,
         FilesP!Whole, Files!NoTemp, FilesP!NoTemp, Files!Tasks, FilesP!Tasks, Files!Files, FilesP!Files,
         Files!Uploads, FilesP!Uploads, Files!Pieces, FilesP!Pieces, Files!TypeOK, FilesP!TypeOK
<1>4. FilesP!LossIsAnnounced => Files!LossIsAnnounced
  BY DEF Files!Nothing, FilesP!Nothing, Files!Old, FilesP!Old, Files!Mixture, FilesP!Mixture, Files!Tasks,
         FilesP!Tasks, Files!LossIsAnnounced, FilesP!LossIsAnnounced
<1>5. FilesP!DeliveredWhenDone => Files!DeliveredWhenDone
  BY DEF Files!Whole, FilesP!Whole, Files!NoTemp, FilesP!NoTemp, Files!Tasks, FilesP!Tasks, Files!Files,
         FilesP!Files, Files!Uploads, FilesP!Uploads, Files!Delivered, FilesP!Delivered, Files!Tidy,
         FilesP!Tidy, Files!CanceledInTime, FilesP!CanceledInTime, Files!DeliveredWhenDone,
         FilesP!DeliveredWhenDone
<1> QED BY <1>2, <1>3, <1>4, <1>5

-----------------------------------------------------------------------------
(***************************************************************************)
(* Exports of images.  ExportIInv follows the phases of each task; two     *)
(* exports of a batch never write to one path, since the n-th of the batch *)
(* takes the n-th free path.                                               *)
(***************************************************************************)
Contents == {Exports!Nothing, Exports!Other, Exports!Part} \cup {Exports!Image(t) : t \in Exports!Tasks}
ExportPCs == {"asked", "queued", "open", "stream", "commit", "unlink", "clean", "finish", "left", "cleared", "quit"}
ExportStatuses == {None, "queued", "running", "success", "failed", "canceled"}

ExportTypes ==
  /\ exports \in ExportPlans
  /\ file \in [Exports!Paths -> Contents]
  /\ exportPc \in [Exports!Tasks -> ExportPCs]
  /\ path \in [Exports!Tasks -> Exports!Paths \cup {None}]
  /\ partial \in [Exports!Tasks -> Contents]
  /\ exportCanceled \in [Exports!Tasks -> BOOLEAN]
  /\ failure \in [Exports!Tasks -> {None, "canceled", "error"}]
  /\ exportStatus \in [Exports!Tasks -> ExportStatuses]
  /\ runs \in [Exports!Tasks -> Nat]
  /\ quitting \in BOOLEAN
  /\ exported \in [Exports!Tasks -> BOOLEAN]
  /\ replacers \in [Exports!Paths -> SUBSET Exports!Tasks]

Running == {"open", "stream", "commit", "unlink", "clean", "finish"}

TaskInv(t) ==
  /\ partial[t] \in {Exports!Nothing, Exports!Part, Exports!Image(t)}
  /\ exportPc[t] = "asked" => exportStatus[t] = None /\ ~exported[t] /\ partial[t] = Exports!Nothing /\ failure[t] = None
  /\ exportPc[t] = "queued" => exportStatus[t] = "queued" /\ ~exported[t] /\ partial[t] = Exports!Nothing /\ failure[t] = None
  /\ exportPc[t] \in Running => exportStatus[t] = "running"
  /\ exportPc[t] \in {"left", "cleared"} => exportStatus[t] \in {"success", "failed", "canceled"} /\ partial[t] = Exports!Nothing
  /\ exportPc[t] \in {"open", "stream", "commit"} => ~exported[t] /\ failure[t] = None
  /\ exportPc[t] = "commit" => partial[t] = Exports!Image(t)
  /\ exportPc[t] = "unlink" => exported[t] /\ failure[t] = None
  /\ exportPc[t] = "clean" => failure[t] # None
  /\ exportPc[t] = "finish" => partial[t] = Exports!Nothing /\ (failure[t] = None => exported[t])
  /\ failure[t] = "canceled" => ~exported[t]
  /\ exportStatus[t] = "success" => exported[t]
  /\ exportStatus[t] = "canceled" => ~exported[t]
  /\ exportPc[t] \in {"queued", "left", "cleared"} \cup Running => path[t] \in Exports!Paths /\ runs[t] > 0
  /\ exported[t] => path[t] \in Exports!Paths /\ (file[path[t]] = Exports!Image(t) \/ \E s \in replacers[path[t]] : s # t)

ExportIInv ==
  /\ ExportTypes /\ Exports!LossIsAnnounced
  /\ \A t \in Exports!Tasks : TaskInv(t)
  /\ \A t, s \in Exports!Tasks : t # s => Exports!Apart(t, s)

-----------------------------------------------------------------------------
LEMMA Different ==
  /\ \A t : Exports!Image(t) \notin {Exports!Nothing, Exports!Other, Exports!Part}
  /\ \A t, s : Exports!Image(t) = Exports!Image(s) => t = s
  /\ Exports!Nothing # Exports!Other /\ Exports!Nothing # Exports!Part /\ Exports!Other # Exports!Part
BY DEF Exports!Image, Exports!Nothing, Exports!Other, Exports!Part

LEMMA ExportInitInv == ASSUME Exports!ImageExportsAssumption, Exports!Init PROVE ExportIInv
<1>1. ExportTypes
  <2>1. file \in [Exports!Paths -> Contents]
    BY DEF Exports!Init, Contents
  <2>2. partial \in [Exports!Tasks -> Contents]
    BY DEF Exports!Init, Contents
  <2>3. exportPc \in [Exports!Tasks -> ExportPCs] /\ exportStatus \in [Exports!Tasks -> ExportStatuses] /\ path \in [Exports!Tasks -> Exports!Paths \cup {None}]
    BY DEF Exports!Init, ExportPCs, ExportStatuses
  <2>4. /\ exportCanceled \in [Exports!Tasks -> BOOLEAN] /\ failure \in [Exports!Tasks -> {None, "canceled", "error"}]
        /\ exported \in [Exports!Tasks -> BOOLEAN]
    BY DEF Exports!Init
  <2>5. runs \in [Exports!Tasks -> Nat] /\ quitting \in BOOLEAN /\ exports \in ExportPlans
    BY DEF Exports!Init
  <2>6. replacers \in [Exports!Paths -> SUBSET Exports!Tasks]
    <3>1. replacers = [p \in Exports!Paths |-> {}]
      BY DEF Exports!Init
    <3>2. {} \in SUBSET Exports!Tasks
      OBVIOUS
    <3> QED BY <3>1, <3>2, Zenon
  <2> QED BY <2>1, <2>2, <2>3, <2>4, <2>5, <2>6, Zenon DEF ExportTypes
<1>2. Exports!LossIsAnnounced
  <2>1. ASSUME NEW p \in Exports!Paths PROVE file[p] \in {Exports!Nothing, Exports!Other}
    BY DEF Exports!Init
  <2>2. ASSUME NEW p \in Exports!Paths PROVE replacers[p] = {}
    BY DEF Exports!Init
  <2> QED BY <2>1, <2>2, Different DEF Exports!LossIsAnnounced
<1>3. \A t \in Exports!Tasks : TaskInv(t)
  BY DEF Exports!Init, TaskInv, Exports!ImageExportsAssumption, Running
<1>4. \A t, s \in Exports!Tasks : t # s => Exports!Apart(t, s)
  BY DEF Exports!Init, Exports!Apart, Exports!Active, Exports!ImageExportsAssumption
<1> QED BY <1>1, <1>2, <1>3, <1>4 DEF ExportIInv

\* A step of one task that leaves the files alone.
LEMMA QuietInv ==
  ASSUME Exports!ImageExportsAssumption, ExportIInv, NEW t \in Exports!Tasks,
         Exports!Begin(t) \/ Exports!NeverBegins(t) \/ Exports!Open(t) \/ Exports!Stream(t) \/ Exports!Fails(t) \/ Exports!Unlink(t) \/ Exports!CommitFails(t) \/ Exports!Clean(t)
           \/ Exports!Finish(t) \/ Exports!Cancel(t) \/ Exports!Clear(t)
  PROVE  ExportIInv'
<1> USE DEF Exports!ImageExportsAssumption
<1>0. exports' = exports /\ Exports!Tasks' = Exports!Tasks /\ file' = file /\ replacers' = replacers /\ path' = path /\ runs' = runs /\ Exports!Paths' = Exports!Paths
  BY DEF Exports!Begin, Exports!NeverBegins, Exports!Open, Exports!Stream, Exports!Fails, Exports!Unlink,
         Exports!CommitFails, Exports!Clean, Exports!Finish, Exports!Cancel, Exports!Clear, Exports!Tasks,
         Exports!Paths
<1>1. ExportTypes'
  <2>1. Contents' = Contents
    BY <1>0 DEF Contents, Exports!Image, Exports!Nothing, Exports!Other, Exports!Part
  <2>2. partial' \in [Exports!Tasks -> Contents]
    <3>1. Exports!Nothing \in Contents /\ Exports!Part \in Contents /\ Exports!Image(t) \in Contents
      BY DEF Contents
    <3> QED
      BY <1>0, <3>1
         DEF ExportIInv, ExportTypes, Exports!Begin, Exports!NeverBegins, Exports!Open, Exports!Stream,
             Exports!Fails, Exports!Unlink, Exports!CommitFails, Exports!Clean, Exports!Finish, Exports!Cancel,
             Exports!Clear
  <2>3. exportPc' \in [Exports!Tasks -> ExportPCs] /\ exportStatus' \in [Exports!Tasks -> ExportStatuses]
    BY <1>0
       DEF ExportIInv, ExportTypes, Exports!Begin, Exports!NeverBegins, Exports!Open, Exports!Stream,
           Exports!Fails, Exports!Unlink, Exports!CommitFails, Exports!Clean, Exports!Finish, Exports!Cancel,
           Exports!Clear, Exports!GoTo, ExportPCs, ExportStatuses
  <2>4. /\ exportCanceled' \in [Exports!Tasks -> BOOLEAN] /\ failure' \in [Exports!Tasks -> {None, "canceled", "error"}]
        /\ quitting' = quitting /\ exported' = exported
    BY <1>0
       DEF ExportIInv, ExportTypes, Exports!Begin, Exports!NeverBegins, Exports!Open, Exports!Stream,
           Exports!Fails, Exports!Unlink, Exports!CommitFails, Exports!Clean, Exports!Finish, Exports!Cancel,
           Exports!Clear
  <2> QED BY <1>0, <2>1, <2>2, <2>3, <2>4 DEF ExportIInv, ExportTypes
<1>2. Exports!LossIsAnnounced'
  BY <1>0 DEF ExportIInv, Exports!LossIsAnnounced, Exports!Exclusive, Exports!Part
<1>3. ASSUME NEW s \in Exports!Tasks PROVE TaskInv(s)'
  <2>1. TaskInv(s) BY DEF ExportIInv
  <2> QED
    BY <1>0, <2>1, Different
       DEF ExportIInv, ExportTypes, TaskInv, Running, Exports!Begin, Exports!NeverBegins, Exports!Open,
           Exports!Stream, Exports!Fails, Exports!Unlink, Exports!CommitFails, Exports!Clean, Exports!Finish,
           Exports!Cancel, Exports!Clear, Exports!GoTo, ExportPCs, ExportStatuses
<1>4. ASSUME NEW s \in Exports!Tasks, NEW r \in Exports!Tasks, s # r PROVE Exports!Apart(s, r)'
  <2>1. Exports!Apart(s, r) BY <1>4 DEF ExportIInv
  <2>2. TaskInv(t) BY DEF ExportIInv
  <2>3. Exports!Active(s)' => Exports!Active(s)
     BY <2>2, <1>0
        DEF ExportIInv, ExportTypes, TaskInv, Running, Exports!Active, Exports!Begin, Exports!NeverBegins,
            Exports!Open, Exports!Stream, Exports!Fails, Exports!Unlink, Exports!CommitFails, Exports!Clean,
            Exports!Finish, Exports!Cancel, Exports!Clear, Exports!GoTo
  <2>4. Exports!Active(r)' => Exports!Active(r)
     BY <2>2, <1>0
        DEF ExportIInv, ExportTypes, TaskInv, Running, Exports!Active, Exports!Begin, Exports!NeverBegins,
            Exports!Open, Exports!Stream, Exports!Fails, Exports!Unlink, Exports!CommitFails, Exports!Clean,
            Exports!Finish, Exports!Cancel, Exports!Clear, Exports!GoTo
  <2> QED BY <1>0, <2>1, <2>3, <2>4 DEF Exports!Apart, Exports!Exclusive
<1> QED BY <1>0, <1>1, <1>2, <1>3, <1>4 DEF ExportIInv

LEMMA StartSingleInv ==
  ASSUME Exports!ImageExportsAssumption, ExportIInv, NEW t \in Exports!Tasks, Exports!StartSingle(t) \/ Exports!Retry(t)
  PROVE  ExportIInv'
<1>0. exports' = exports /\ Exports!Tasks' = Exports!Tasks /\ file' = file /\ replacers' = replacers /\ Exports!Paths' = Exports!Paths
  BY DEF Exports!StartSingle, Exports!Retry, Exports!Tasks, Exports!Paths
<1>1. ExportTypes'
  <2>1. Contents' = Contents
    BY <1>0 DEF Contents, Exports!Image, Exports!Nothing, Exports!Other, Exports!Part
  <2>2. path' \in [Exports!Tasks -> Exports!Paths \cup {None}]
    <3>1. Exports!StartSingle(t) => exports[t].path \in Exports!Paths
      BY DEF Exports!StartSingle, Exports!Exclusive, Exports!ImageExportsAssumption, ExportIInv, ExportTypes,
             Exports!Tasks, Exports!Paths
    <3> QED BY <3>1 DEF Exports!StartSingle, Exports!Retry, ExportIInv, ExportTypes
  <2>3. exportPc' \in [Exports!Tasks -> ExportPCs] /\ exportStatus' \in [Exports!Tasks -> ExportStatuses]
    BY <1>0
       DEF ExportIInv, ExportTypes, Exports!StartSingle, Exports!Retry, Exports!GoTo, ExportPCs, ExportStatuses
  <2>4. /\ exportCanceled' \in [Exports!Tasks -> BOOLEAN] /\ failure' \in [Exports!Tasks -> {None, "canceled", "error"}]
        /\ quitting' = quitting /\ partial' = partial
    BY <1>0 DEF ExportIInv, ExportTypes, Exports!StartSingle, Exports!Retry
  <2>5. exported' \in [Exports!Tasks -> BOOLEAN]
    BY <1>0 DEF ExportIInv, ExportTypes, Exports!StartSingle, Exports!Retry
  <2>6. runs' \in [Exports!Tasks -> Nat]
    BY <1>0 DEF ExportIInv, ExportTypes, Exports!StartSingle, Exports!Retry
  <2> QED BY <1>0, <2>1, <2>2, <2>3, <2>4, <2>5, <2>6 DEF ExportIInv, ExportTypes
<1>2. Exports!LossIsAnnounced'
  BY <1>0 DEF ExportIInv, Exports!LossIsAnnounced, Exports!Exclusive, Exports!Part
<1>3. ASSUME NEW s \in Exports!Tasks PROVE TaskInv(s)'
  <2>1. TaskInv(s)
    BY DEF ExportIInv
  <2>2. Exports!StartSingle(t) => exports[t].path \in Exports!Paths
    BY DEF Exports!StartSingle, Exports!Exclusive, Exports!ImageExportsAssumption, ExportIInv, ExportTypes,
           Exports!Tasks, Exports!Paths
  <2>3. Exports!Image(s)' = Exports!Image(s) /\ Exports!Nothing' = Exports!Nothing /\ Exports!Part' = Exports!Part
    BY DEF Exports!Image, Exports!Nothing, Exports!Part
  <2>4. CASE s # t
    BY <1>0, <2>1, <2>3, <2>4
       DEF ExportIInv, ExportTypes, TaskInv, Running, Exports!StartSingle, Exports!Retry, Exports!GoTo
  <2>5. CASE s = t /\ Exports!StartSingle(t)
    BY <1>0, <2>1, <2>2, <2>3, <2>5
       DEF ExportIInv, ExportTypes, TaskInv, Running, Exports!StartSingle, Exports!GoTo,
           Exports!ImageExportsAssumption
  <2>6. CASE s = t /\ Exports!Retry(t)
    BY <1>0, <2>1, <2>3, <2>6
       DEF ExportIInv, ExportTypes, TaskInv, Running, Exports!Retry, Exports!GoTo,
           Exports!ImageExportsAssumption
  <2> QED BY <2>4, <2>5, <2>6
<1>4. ASSUME NEW s \in Exports!Tasks, NEW r \in Exports!Tasks, s # r PROVE Exports!Apart(s, r)'
  <2>1. Exports!Apart(s, r)
    BY <1>4 DEF ExportIInv
  <2>2. TaskInv(t)
    BY DEF ExportIInv
  <2>3. CASE Exports!StartSingle(t)
    BY <1>0, <2>1, <2>2, <2>3
       DEF Exports!Apart, Exports!Exclusive, Exports!Active, Exports!StartSingle, ExportIInv, ExportTypes
  <2>4. CASE Exports!Retry(t)
    BY <1>0, <2>1, <2>2, <2>4
       DEF Exports!Apart, Exports!Exclusive, Exports!Active, Exports!Retry, ExportIInv, ExportTypes, TaskInv,
           Running
  <2> QED BY <2>3, <2>4
<1> QED BY <1>0, <1>1, <1>2, <1>3, <1>4 DEF ExportIInv

LEMMA CommitInv ==
  ASSUME Exports!ImageExportsAssumption, ExportIInv, NEW t \in Exports!Tasks, Exports!Commit(t)
  PROVE  ExportIInv'
<1>0. /\ exports' = exports /\ Exports!Tasks' = Exports!Tasks /\ Exports!Paths' = Exports!Paths /\ path' = path /\ runs' = runs /\ exportStatus' = exportStatus
      /\ exportCanceled' = exportCanceled /\ failure' = failure /\ quitting' = quitting
  BY DEF Exports!Commit, Exports!Tasks, Exports!Paths
<1>1. TaskInv(t) /\ path[t] \in Exports!Paths /\ partial[t] = Exports!Image(t) /\ Exports!Image(t) \in Contents /\ Exports!Nothing \in Contents
  BY DEF ExportIInv, TaskInv, Exports!Commit, Running, Contents
<1>2. ExportTypes'
  <2>1. Contents' = Contents
    BY <1>0 DEF Contents, Exports!Image, Exports!Nothing, Exports!Other, Exports!Part
  <2>2. file' \in [Exports!Paths -> Contents] /\ replacers' \in [Exports!Paths -> SUBSET Exports!Tasks]
    BY <1>0, <1>1 DEF Exports!Commit, Exports!PutsFile, ExportIInv, ExportTypes
  <2>3. exportPc' \in [Exports!Tasks -> ExportPCs]
    BY <1>0 DEF ExportIInv, ExportTypes, Exports!Commit, Exports!GoTo, ExportPCs
  <2>4. exported' \in [Exports!Tasks -> BOOLEAN] /\ partial' \in [Exports!Tasks -> Contents]
    BY <1>0, <1>1 DEF ExportIInv, ExportTypes, Exports!Commit, Exports!PutsFile
  <2> QED BY <1>0, <2>1, <2>2, <2>3, <2>4 DEF ExportIInv, ExportTypes
<1>3. Exports!LossIsAnnounced'
  <2> SUFFICES ASSUME NEW p \in Exports!Paths
               PROVE  file'[p] # Exports!Part /\ \A s \in replacers'[p] : ~Exports!Exclusive(s)
    BY <1>0 DEF Exports!LossIsAnnounced, Exports!Exclusive, Exports!Part
  <2>1. file[p] # Exports!Part /\ \A s \in replacers[p] : ~Exports!Exclusive(s)
    BY DEF ExportIInv, Exports!LossIsAnnounced
  <2> QED
    BY <1>1, <2>1, Different
       DEF Exports!Commit, Exports!PutsFile, Exports!MayReplace, ExportIInv, ExportTypes
<1>4. ASSUME NEW s \in Exports!Tasks PROVE TaskInv(s)'
  <2>1. TaskInv(s) /\ Exports!Image(s)' = Exports!Image(s)
    BY DEF ExportIInv, Exports!Image
  <2>2. exported'[s] => path'[s] \in Exports!Paths /\ (file'[path'[s]] = Exports!Image(s) \/ \E r \in replacers'[path'[s]] : r # s)
    <3>1. CASE s = t
      BY <1>0, <1>1, <3>1 DEF Exports!Commit, Exports!PutsFile, ExportIInv, ExportTypes
    <3>2. CASE s # t
      <4> SUFFICES ASSUME exported'[s]
                   PROVE  path[s] \in Exports!Paths /\ (file'[path[s]] = Exports!Image(s) \/ \E r \in replacers'[path[s]] : r # s)
        BY <1>0
      <4>1. path[s] \in Exports!Paths /\ (file[path[s]] = Exports!Image(s) \/ \E r \in replacers[path[s]] : r # s)
        BY <2>1, <3>2 DEF Exports!Commit, Exports!PutsFile, ExportIInv, ExportTypes, TaskInv
      <4>2. CASE path[s] # path[t]
        BY <1>1, <4>1, <4>2 DEF Exports!Commit, Exports!PutsFile, ExportIInv, ExportTypes
      <4>3. CASE path[s] = path[t] /\ file[path[s]] = Exports!Image(s)
        BY <1>1, <3>2, <4>1, <4>3, Different DEF Exports!Commit, Exports!PutsFile, ExportIInv, ExportTypes
      <4>4. CASE path[s] = path[t] /\ \E r \in replacers[path[s]] : r # s
        BY <1>1, <3>2, <4>1, <4>4, Different DEF Exports!Commit, Exports!PutsFile, ExportIInv, ExportTypes
      <4> QED BY <4>1, <4>2, <4>3, <4>4
    <3> QED BY <3>1, <3>2
  <2>3. Exports!Nothing' = Exports!Nothing /\ Exports!Part' = Exports!Part
    BY DEF Exports!Nothing, Exports!Part
  <2>4. CASE s = t
    BY <1>0, <1>1, <2>1, <2>2, <2>3, <2>4, Different
    DEF ExportIInv, ExportTypes, TaskInv, Running, Exports!Commit, Exports!PutsFile, Exports!GoTo,
        Exports!ImageExportsAssumption
  <2>5. CASE s # t
    BY <1>0, <1>1, <2>1, <2>2, <2>3, <2>5
       DEF ExportIInv, ExportTypes, TaskInv, Running, Exports!Commit, Exports!PutsFile, Exports!GoTo
  <2> QED BY <2>4, <2>5
<1>5. ASSUME NEW s \in Exports!Tasks, NEW r \in Exports!Tasks, s # r PROVE Exports!Apart(s, r)'
  BY <1>0, <1>5 DEF Exports!Apart, Exports!Exclusive, Exports!Active, ExportIInv
<1> QED BY <1>0, <1>2, <1>3, <1>4, <1>5 DEF ExportIInv

\* Whoever else writes, or stops the tasks.
LEMMA OutsideInv ==
  ASSUME Exports!ImageExportsAssumption, ExportIInv, (\E p \in Exports!Paths : Exports!Guest(p)) \/ Exports!Shutdown \/ Exports!Killed \/ UNCHANGED exportVars
  PROVE  ExportIInv'
<1>0. /\ exports' = exports /\ Exports!Tasks' = Exports!Tasks /\ Exports!Paths' = Exports!Paths /\ path' = path /\ runs' = runs /\ exportStatus' = exportStatus
      /\ failure' = failure /\ exported' = exported /\ partial' = partial /\ replacers' = replacers
  BY DEF Exports!Guest, Exports!Shutdown, Exports!Killed, exportVars, Exports!task, Exports!Tasks, Exports!Paths
<1>1. /\ file' \in [Exports!Paths -> Contents]
      /\ \A p \in Exports!Paths : file'[p] = file[p] \/ (file[p] = Exports!Nothing /\ file'[p] = Exports!Other)
  BY DEF Exports!Guest, Exports!Shutdown, Exports!Killed, exportVars, Exports!task, Contents, ExportIInv,
         ExportTypes
<1>2. exportPc' = exportPc \/ exportPc' = [t \in Exports!Tasks |-> "quit"]
  BY DEF Exports!Guest, Exports!Shutdown, Exports!Killed, exportVars, Exports!task
<1>3. ExportTypes'
  <2>1. Contents' = Contents
    BY <1>0 DEF Contents, Exports!Image, Exports!Nothing, Exports!Other, Exports!Part
  <2>2. exportCanceled' \in [Exports!Tasks -> BOOLEAN] /\ quitting' \in BOOLEAN
    BY DEF Exports!Guest, Exports!Shutdown, Exports!Killed, exportVars, Exports!task, ExportIInv, ExportTypes,
           Exports!Active
  <2> QED BY <1>0, <1>1, <1>2, <2>1, <2>2 DEF ExportIInv, ExportTypes, ExportPCs
<1>4. Exports!LossIsAnnounced'
  BY <1>0, <1>1, Different DEF ExportIInv, Exports!LossIsAnnounced, Exports!Exclusive, Exports!Part
<1>5. ASSUME NEW s \in Exports!Tasks PROVE TaskInv(s)'
  <2>1. TaskInv(s) /\ Exports!Image(s)' = Exports!Image(s) /\ Exports!Nothing' = Exports!Nothing /\ Exports!Part' = Exports!Part
    BY DEF ExportIInv, Exports!Image, Exports!Nothing, Exports!Part
  <2>2. exported[s] => path[s] \in Exports!Paths /\ (file'[path[s]] = Exports!Image(s) \/ \E r \in replacers[path[s]] : r # s)
    BY <1>1, <2>1, Different DEF TaskInv
  <2>3. exportPc'[s] = exportPc[s] \/ exportPc'[s] = "quit"
    BY <1>2
  <2> QED BY <1>0, <2>1, <2>2, <2>3 DEF TaskInv, Running
<1>6. ASSUME NEW s \in Exports!Tasks, NEW r \in Exports!Tasks, s # r PROVE Exports!Apart(s, r)'
  BY <1>0, <1>6 DEF Exports!Apart, Exports!Exclusive, Exports!Active, ExportIInv
<1> QED BY <1>0, <1>3, <1>4, <1>5, <1>6 DEF ExportIInv

LEMMA StartBatchInv ==
  ASSUME Exports!ImageExportsAssumption, ExportIInv, NEW b, b # None, Exports!StartBatch(b)
  PROVE  ExportIInv'
<1> DEFINE batch == {t \in Exports!Tasks : exports[t].batch = b}
           new(t) == CHOOSE p \in Exports!Paths : Exports!IsNthFree(t, p)
<1>0. /\ exports' = exports /\ Exports!Tasks' = Exports!Tasks /\ file' = file /\ replacers' = replacers /\ Exports!Paths' = Exports!Paths
      /\ partial' = partial /\ exportCanceled' = exportCanceled /\ failure' = failure /\ quitting' = quitting /\ exported' = exported
  BY DEF Exports!StartBatch, Exports!Tasks, Exports!Paths
<1>1. ASSUME NEW t \in batch
      PROVE  new(t) \in Exports!Paths /\ Exports!IsNthFree(t, new(t)) /\ exportPc[t] = "asked"
  BY DEF Exports!StartBatch
<1>2. /\ path' = [t \in Exports!Tasks |-> IF t \in batch THEN new(t) ELSE path[t]]
      /\ exportStatus' = [t \in Exports!Tasks |-> IF t \in batch THEN "queued" ELSE exportStatus[t]]
      /\ exportPc' = [t \in Exports!Tasks |-> IF t \in batch THEN "queued" ELSE exportPc[t]]
      /\ runs' = [t \in Exports!Tasks |-> IF t \in batch THEN 1 ELSE runs[t]]
  BY DEF Exports!StartBatch
<1> HIDE DEF new, batch
<1>3. ExportTypes'
  <2>1. Contents' = Contents
    BY <1>0 DEF Contents, Exports!Image, Exports!Nothing, Exports!Other, Exports!Part
  <2>2. path' \in [Exports!Tasks -> Exports!Paths \cup {None}]
    BY <1>1, <1>2 DEF ExportIInv, ExportTypes
  <2>3. exportPc' \in [Exports!Tasks -> ExportPCs] /\ exportStatus' \in [Exports!Tasks -> ExportStatuses]
    BY <1>2 DEF ExportIInv, ExportTypes, ExportPCs, ExportStatuses
  <2>4. runs' \in [Exports!Tasks -> Nat]
    BY <1>2 DEF ExportIInv, ExportTypes
  <2> QED BY <1>0, <2>1, <2>2, <2>3, <2>4 DEF ExportIInv, ExportTypes
<1>4. Exports!LossIsAnnounced'
  BY <1>0 DEF ExportIInv, Exports!LossIsAnnounced, Exports!Exclusive, Exports!Part
<1>5. ASSUME NEW s \in Exports!Tasks PROVE TaskInv(s)'
  <2>1. TaskInv(s) /\ Exports!Image(s)' = Exports!Image(s) /\ Exports!Nothing' = Exports!Nothing /\ Exports!Part' = Exports!Part
    BY DEF ExportIInv, Exports!Image, Exports!Nothing, Exports!Part
  <2>2. CASE s \in batch
    BY <1>0, <1>1, <1>2, <2>1, <2>2
       DEF ExportIInv, ExportTypes, TaskInv, Running, Exports!ImageExportsAssumption
  <2>3. CASE s \notin batch
    BY <1>0, <1>2, <2>1, <2>3 DEF ExportIInv, ExportTypes, TaskInv, Running
  <2> QED BY <2>2, <2>3
\* Two tasks of the batch are not the n-th for the same n.
<1>6. ASSUME NEW t \in batch, NEW s \in batch, t < s PROVE new(t) # new(s)
  <2>1. /\ Exports!Tasks \subseteq Nat /\ IsFiniteSet(Exports!Tasks) /\ t \in Exports!Tasks /\ s \in Exports!Tasks
        /\ exports[t].batch = b /\ exports[s].batch = b
    BY FiniteIs DEF ExportIInv, ExportTypes, Exports!Tasks, Exports!ImageExportsAssumption, batch
  <2>0. t \in Nat /\ s \in Nat /\ ~(s <= t) /\ \A q \in Exports!Tasks : q <= t => q <= s
    <3>1. t \in Nat /\ s \in Nat /\ \A q \in Exports!Tasks : q \in Nat
      BY <2>1
    <3> QED BY <1>6, <3>1
  <2> DEFINE upTo(r) == {q \in Exports!Tasks : q <= r /\ exports[q].batch = exports[r].batch}
  <2>2. IsFiniteSet(upTo(s)) /\ upTo(t) \subseteq upTo(s) /\ s \in upTo(s) /\ s \notin upTo(t)
    <3>1. upTo(s) \subseteq Exports!Tasks /\ s \notin upTo(t)
      BY <2>0
    <3>2. s \in upTo(s)
      BY <2>0, <2>1
    <3>3. ASSUME NEW q \in upTo(t) PROVE q \in upTo(s)
      BY <2>0, <2>1, <3>3
    <3> QED BY <2>1, <3>1, <3>2, <3>3, FS_Subset
  <2>3. Exports!Nth(t) # Exports!Nth(s)
    <3>1. Cardinality(upTo(t)) # Cardinality(upTo(s))
      <4> HIDE DEF upTo
      <4> QED BY <2>2, FS_Subset
    <3> QED BY <3>1, FiniteIs DEF Exports!Nth
  <2> QED BY <1>1, <2>3 DEF Exports!IsNthFree
<1>7. ASSUME NEW t \in batch, NEW s \in Exports!Tasks \ batch, Exports!Active(s) PROVE new(t) # path[s]
  BY <1>1, <1>7 DEF Exports!IsNthFree, Exports!Free, Exports!Reserved
<1>8. ASSUME NEW s \in Exports!Tasks, NEW r \in Exports!Tasks, s # r PROVE Exports!Apart(s, r)'
  <2>1. Exports!Apart(s, r)
    BY <1>8 DEF ExportIInv
  <2>2. CASE s \in batch /\ r \in batch
    <3>1. s < r \/ r < s
      <4>1. s \in Nat /\ r \in Nat
        BY DEF ExportIInv, ExportTypes, Exports!Tasks, Exports!ImageExportsAssumption
      <4> QED BY <1>8, <4>1
    <3>2. path'[s] # path'[r]
      BY <1>2, <1>6, <2>2, <3>1
    <3> QED BY <3>2 DEF Exports!Apart
  <2>3. CASE s \in batch /\ r \notin batch
    BY <1>2, <1>7, <2>3 DEF Exports!Apart, Exports!Active
  <2>4. CASE s \notin batch /\ r \in batch
    BY <1>2, <1>7, <2>4 DEF Exports!Apart, Exports!Active
  <2>5. CASE s \notin batch /\ r \notin batch
    BY <1>0, <1>2, <2>1, <2>5 DEF Exports!Apart, Exports!Active, Exports!Exclusive
  <2> QED BY <2>2, <2>3, <2>4, <2>5
<1> QED BY <1>0, <1>3, <1>4, <1>5, <1>8 DEF ExportIInv

LEMMA ExportNextInv ==
  ASSUME Exports!ImageExportsAssumption, ExportIInv, [Exports!Next]_exportVars
  PROVE  ExportIInv'
<1>1. ASSUME NEW t \in Exports!Tasks, Exports!Exclusive(t) /\ Exports!StartBatch(exports[t].batch)
      PROVE  ExportIInv'
  BY <1>1, StartBatchInv DEF Exports!Exclusive
<1>2. ASSUME NEW t \in Exports!Tasks,
             Exports!StartSingle(t) \/ Exports!Retry(t) \/ Exports!Cancel(t) \/ Exports!Clear(t) \/ Exports!Run(t)
      PROVE  ExportIInv'
  BY <1>2, StartSingleInv, QuietInv, CommitInv DEF Exports!Run
<1> QED BY <1>1, <1>2, OutsideInv DEF Exports!Next

LEMMA ExportInvariants == ExportIInv => Exports!TypeOK /\ Exports!LossIsAnnounced /\ Exports!DeliveredWhenDone
<1> SUFFICES ASSUME ExportIInv PROVE Exports!TypeOK /\ Exports!DeliveredWhenDone
  BY DEF ExportIInv
<1>1. Exports!TypeOK
  BY DEF ExportIInv, ExportTypes, TaskInv, Exports!TypeOK, Contents, ExportPCs, ExportStatuses
<1>2. ASSUME NEW t \in Exports!Tasks PROVE Exports!Delivered(t) /\ Exports!Tidy(t)
  BY DEF ExportIInv, TaskInv, Exports!Delivered, Exports!Tidy
<1> QED BY <1>1, <1>2 DEF ExportIInv, Exports!DeliveredWhenDone

-----------------------------------------------------------------------------
(***************************************************************************)
(* The tags of a registry.  RequestInv follows the phases of each request; *)
(* what it knows of a tag holds as long as no other request has changed    *)
(* the tag since it looked (disturbed).                                    *)
(***************************************************************************)
TagPCs == {"asked", "refused", "queued", "acquire", "check", "next", "write",
           "resolve", "read", "list", "delete", "put", "restore", "left", "quit"}
TagStatuses == {"active", "success", "failed", "canceled"}

TagTypes ==
  /\ requests \in TagPlans
  /\ manifests \subseteq Manifests /\ tags \in [Tags -> manifests \cup {None}]
  /\ last \in [Tags -> Registry!Requests \cup {Registry!Nobody}]
  /\ mutation \in Registry!Requests \cup {Registry!Nobody}
  /\ requestPc \in [Registry!Requests -> TagPCs] /\ requestStatus \in [Registry!Requests -> TagStatuses] /\ requestCanceled \in [Registry!Requests -> BOOLEAN]
  /\ done \in [Registry!Requests -> Nat]
  /\ published \in [Registry!Requests -> [Tags -> Manifests \cup {None}]]
  /\ digest \in [Registry!Requests -> Manifests \cup {None}] /\ survivors \in [Registry!Requests -> SUBSET Tags]
  /\ disturbed \in [Registry!Requests -> SUBSET Tags] /\ unsure \in [Registry!Requests -> BOOLEAN]
  /\ DOMAIN replaced = Registry!Requests

Holding == {"check", "next", "write"}
Source(r) == requests[r].source
Target(r) == requests[r].target
Puts(r) == requests[r].puts
Succeeded(r) == requestStatus[r] = "success"

\* Which steps there are for which kinds of requests.
InPhase(r) ==
  /\ mutation = r <=> requestPc[r] \in Holding
  /\ requestPc[r] = "left" <=> requestStatus[r] # "active"
  /\ requestPc[r] \in {"acquire", "check", "next", "write"} => Registry!Imports(r)
  /\ requestPc[r] \in {"resolve", "read", "list", "delete", "put", "restore"} => ~Registry!Imports(r)
  /\ requestPc[r] = "queued" => ~Registry!IsCall(r)
  /\ requestPc[r] \in {"asked", "refused", "queued", "acquire", "check"} => done[r] = 0
  /\ requestPc[r] = "read" => Registry!Kind(r) # "deleteAll"
  /\ requestPc[r] = "put" => Registry!Kind(r) \in {"copy", "rename"}
  /\ requestPc[r] \in {"list", "restore"} => Registry!Kind(r) \in {"rename", "delete"}
  /\ requestPc[r] = "delete" => Registry!Kind(r) # "copy"
  /\ requestPc[r] \in {"list", "delete", "put", "restore"} => digest[r] \in Manifests
  /\ Registry!Imports(r) => done[r] \in 0..Len(Puts(r))
  /\ requestPc[r] = "write" => done[r] < Len(Puts(r))
  /\ ~Registry!Imports(r) => Source(r) \notin survivors[r] /\ Target(r) \notin survivors[r]

\* Before its first write, a request has written nothing.
TagUntouched(r) ==
  requestPc[r] \in {"asked", "refused", "queued", "acquire", "check", "resolve", "read", "list", "delete"} =>
           \A x \in Tags : last[x] # r

\* A tag that a request has removed.
Removed(r) ==
  \A x \in Tags : tags[x] = None /\ last[x] = r =>
    /\ Registry!Kind(r) \in {"rename", "delete", "deleteAll"}
    /\ \/ Registry!Kind(r) = "deleteAll" \/ x = Source(r) \/ disturbed[r] # {}
       \/ requestPc[r] = "put" /\ x = Target(r)
       \/ requestPc[r] \in {"put", "restore"} /\ x \in survivors[r]
       \/ requestPc[r] # "restore" /\ requestPc[r] # "put" /\ requestStatus[r] # "success"

\* What a change finds and leaves.
Changed(r) ==
  /\ requestPc[r] = "delete" /\ Registry!Kind(r) # "deleteAll" /\ disturbed[r] = {} => survivors[r] = Registry!Survivors(r)
  /\ requestPc[r] \in {"list", "delete"} => Registry!Is(r, Source(r), digest[r])
  /\ Registry!Kind(r) \in {"rename", "delete", "deleteAll"} /\ (requestPc[r] \in {"put", "restore"} \/ Succeeded(r)) =>
       Registry!Is(r, Source(r), None)
  /\ Registry!Kind(r) = "rename" /\ (requestPc[r] = "restore" \/ Succeeded(r)) => Registry!Is(r, Target(r), digest[r])
  /\ Registry!Kind(r) = "copy" /\ Succeeded(r) => Registry!Is(r, Target(r), digest[r])

\* What an import knows, finds and leaves.
Known(r) ==
  \A x \in Tags : published[r][x] # None =>
    Registry!Imports(r) /\ \E i \in DOMAIN Puts(r) : Puts(r)[i].tag = x /\ Puts(r)[i].manifest = published[r][x]
Ahead(r) ==
  requestPc[r] \in {"next", "write"} =>
           /\ \A i \in DOMAIN Puts(r) : i > done[r] =>
                Puts(r)[i].tag \in disturbed[r] \/ tags[Puts(r)[i].tag] \in {None, Puts(r)[i].manifest}
           /\ \A x \in disturbed[r] : last[x] = r \/ (last[x] \in Registry!Requests /\ ~Registry!Imports(last[x]))
           /\ \A x \in Tags : last[x] = r => \E j \in DOMAIN Puts(r) : j <= done[r] /\ Puts(r)[j].tag = x
Behind(r) ==
  /\ requestPc[r] \in {"next", "write"} =>
              \A i \in DOMAIN Puts(r) : i <= done[r] => Registry!Is(r, Puts(r)[i].tag, Puts(r)[i].manifest)
  /\ Registry!Imports(r) /\ Succeeded(r) => \A i \in DOMAIN Puts(r) : Registry!Is(r, Puts(r)[i].tag, Puts(r)[i].manifest)
Resumable(r) ==
  Registry!Kind(r) = "import" /\ requestPc[r] \notin {"asked", "refused", "quit"} =>
    \A x \in Registry!ImportTargets(r) : x \in disturbed[r] \/ unsure[r] \/ tags[x] = None \/ tags[x] = published[r][x]
Replaced(r) == \A e \in replaced[r] : e.since /\ ~Registry!Imports(e.by)

RequestInv(r) ==
  /\ InPhase(r) /\ TagUntouched(r) /\ Removed(r) /\ Changed(r)
  /\ Known(r) /\ Ahead(r) /\ Behind(r) /\ Resumable(r) /\ Replaced(r)

\* A retry that was refused.
Refused(r) ==
  requestPc[r] = "refused" /\ Registry!Kind(r) = "retry" =>
           LET of == requests[r].of IN
           requestPc[of] = "left" /\ (unsure[of] \/ \E x \in Registry!ImportTargets(r) : x \in disturbed[of])

TagIInv == TagTypes /\ \A r \in Registry!Requests : RequestInv(r) /\ Refused(r)

-----------------------------------------------------------------------------
LEMMA Elements == ASSUME NEW S, NEW s \in Seq(S) PROVE \A i \in DOMAIN s : s[i] \in S
  OBVIOUS

\* What the assumption says of one request.
LEMMA RequestFacts ==
  ASSUME Registry!RegistryTagsAssumption, requests \in TagPlans, NEW r \in Registry!Requests
  PROVE  /\ r \in Nat \ {0} /\ r # Registry!Nobody /\ Registry!Nobody \notin Registry!Requests
         /\ Registry!Kind(r) \in {"import", "pull", "retry", "copy", "rename", "delete", "deleteAll"}
         /\ Registry!Imports(r) =>
              /\ Len(Puts(r)) \in Nat /\ DOMAIN Puts(r) = 1..Len(Puts(r))
              /\ \A i \in DOMAIN Puts(r) : Puts(r)[i].tag \in Tags /\ Puts(r)[i].manifest \in Manifests
              /\ \A i, j \in DOMAIN Puts(r) : Puts(r)[i].tag = Puts(r)[j].tag => i = j
         /\ Registry!Kind(r) = "retry" =>
              requests[r].of \in Registry!Requests \ {r} /\ Registry!Kind(requests[r].of) = "import" /\ Puts(r) = Puts(requests[r].of)
         /\ ~Registry!Imports(r) => Source(r) \in Tags /\ Source(r) # Target(r)
         /\ Registry!Kind(r) \in {"copy", "rename"} => Target(r) \in Tags
         /\ Registry!IsCall(r) => Target(r) \notin Tags
         /\ None \notin Tags /\ None \notin Manifests
<1>1. /\ r \in Nat \ {0} /\ Registry!Nobody \notin Registry!Requests
      /\ Registry!Kind(r) \in {"import", "pull", "retry", "copy", "rename", "delete", "deleteAll"}
      /\ None \notin Tags /\ None \notin Manifests
  BY DEF Registry!RegistryTagsAssumption, Registry!Requests, Registry!Kind, Registry!Nobody
<1>2. ASSUME Registry!Imports(r)
      PROVE  /\ Len(Puts(r)) \in Nat /\ DOMAIN Puts(r) = 1..Len(Puts(r))
             /\ \A i \in DOMAIN Puts(r) : Puts(r)[i].tag \in Tags /\ Puts(r)[i].manifest \in Manifests
             /\ \A i, j \in DOMAIN Puts(r) : Puts(r)[i].tag = Puts(r)[j].tag => i = j
  <2>1. /\ Puts(r) \in Seq([tag : Tags, manifest : Manifests])
        /\ \A i, j \in DOMAIN Puts(r) : Puts(r)[i].tag = Puts(r)[j].tag => i = j
    BY <1>2 DEF Registry!RegistryTagsAssumption, Registry!Requests, Registry!Imports, Registry!Kind, Puts
  <2>2. Len(Puts(r)) \in Nat /\ DOMAIN Puts(r) = 1..Len(Puts(r))
    BY <2>1
  <2>3. \A i \in DOMAIN Puts(r) : Puts(r)[i] \in [tag : Tags, manifest : Manifests]
    BY <2>1, Elements
  <2> QED BY <2>1, <2>2, <2>3
<1>3. Registry!Kind(r) = "retry" =>
        requests[r].of \in Registry!Requests \ {r} /\ Registry!Kind(requests[r].of) = "import" /\ Puts(r) = Puts(requests[r].of)
  <2>1. Registry!Kind(r) = "retry" =>
          requests[r].of \in Registry!Requests /\ requests[r].of < r /\ Registry!Kind(requests[r].of) = "import"
            /\ Puts(r) = Puts(requests[r].of)
    BY DEF Registry!RegistryTagsAssumption, Registry!Requests, Registry!Kind, Puts
  <2> QED BY <1>1, <2>1
<1>4. /\ ~Registry!Imports(r) => Source(r) \in Tags /\ Source(r) # Target(r)
      /\ Registry!Kind(r) \in {"copy", "rename"} => Target(r) \in Tags
      /\ Registry!IsCall(r) => Target(r) \notin Tags
  BY DEF Registry!RegistryTagsAssumption, Registry!Requests, Registry!Imports, Registry!IsCall, Registry!Kind,
         Source, Target
<1> QED BY <1>1, <1>2, <1>3, <1>4

LEMMA TagInitInv == ASSUME Registry!RegistryTagsAssumption, Registry!Init PROVE TagIInv
<1>1. TagTypes
  <2>1. requests \in TagPlans /\ tags \in [Tags -> Manifests \cup {None}]
    BY DEF Registry!Init, Registry!RegistryTagsAssumption
  <2>2. tags \in [Tags -> manifests \cup {None}] /\ manifests \subseteq Manifests
    BY <2>1 DEF Registry!Init
  <2>3. requestPc \in [Registry!Requests -> TagPCs] /\ requestStatus \in [Registry!Requests -> TagStatuses] /\ requestCanceled \in [Registry!Requests -> BOOLEAN]
    BY DEF Registry!Init, TagPCs, TagStatuses
  <2>4. done \in [Registry!Requests -> Nat] /\ unsure \in [Registry!Requests -> BOOLEAN] /\ last \in [Tags -> Registry!Requests \cup {Registry!Nobody}]
    BY DEF Registry!Init
  <2>5. published \in [Registry!Requests -> [Tags -> Manifests \cup {None}]]
    BY DEF Registry!Init
  <2>6. digest \in [Registry!Requests -> Manifests \cup {None}]
    <3>1. \A r \in Registry!Requests : Registry!IsCall(r) => requests[r].source \in Tags
      BY <2>1, RequestFacts DEF Source, Registry!IsCall, Registry!Imports
    <3> QED BY <2>1, <3>1 DEF Registry!Init
  <2>7. survivors \in [Registry!Requests -> SUBSET Tags] /\ disturbed \in [Registry!Requests -> SUBSET Tags]
    <3>1. survivors = [r \in Registry!Requests |-> {}] /\ disturbed = [r \in Registry!Requests |-> {}] /\ {} \in SUBSET Tags
      BY DEF Registry!Init
    <3> QED BY <3>1, Zenon
  <2>8. mutation \in Registry!Requests \cup {Registry!Nobody} /\ DOMAIN replaced = Registry!Requests
    BY DEF Registry!Init
  <2> QED BY <2>1, <2>2, <2>3, <2>4, <2>5, <2>6, <2>7, <2>8, Zenon DEF TagTypes
<1>2. ASSUME NEW r \in Registry!Requests PROVE RequestInv(r) /\ Refused(r)
  <2>1. /\ requestPc[r] = "asked" /\ requestStatus[r] = "active" /\ mutation = Registry!Nobody /\ done[r] = 0 /\ survivors[r] = {}
        /\ replaced[r] = {} /\ \A x \in Tags : last[x] = Registry!Nobody /\ published[r][x] = None
    BY DEF Registry!Init
  <2>2. requests \in TagPlans
    BY DEF Registry!Init
  <2>3. InPhase(r)
    BY <2>1, <2>2, RequestFacts DEF InPhase, Holding
  <2> QED BY <2>1, <2>2, <2>3, RequestFacts
          DEF RequestInv, Refused, TagUntouched, Removed, Changed, Known, Ahead, Behind, Resumable, Replaced,
              Succeeded
<1> QED BY <1>1, <1>2 DEF TagIInv

-----------------------------------------------------------------------------
\* A step of r that changes the tags xs, as the others see it.
Same(s) ==
  /\ requestPc'[s] = requestPc[s] /\ requestStatus'[s] = requestStatus[s] /\ done'[s] = done[s] /\ published'[s] = published[s]
  /\ digest'[s] = digest[s] /\ survivors'[s] = survivors[s] /\ unsure'[s] = unsure[s] /\ replaced'[s] = replaced[s]
  /\ mutation' = s <=> mutation = s
Others(r, xs) ==
  /\ requests' = requests /\ xs \subseteq Tags
  /\ \A x \in Tags \ xs : tags'[x] = tags[x] /\ last'[x] = last[x]
  /\ \A x \in xs : last'[x] = r
  /\ \A s \in Registry!Requests \ {r} : disturbed'[s] = disturbed[s] \cup xs /\ Same(s)

LEMMA OtherRequest ==
  ASSUME Registry!RegistryTagsAssumption, TagIInv, NEW r \in Registry!Requests, NEW xs, Others(r, xs),
         requestPc[r] # "left", xs = {} \/ ~Registry!Imports(r) \/ mutation = r,
         NEW s \in Registry!Requests, s # r
  PROVE  RequestInv(s)' /\ Refused(s)'
<1>1. requests' = requests /\ Same(s) /\ xs \subseteq Tags /\ disturbed'[s] = disturbed[s] \cup xs
  BY DEF Others
<1>2. \A x \in Tags \ xs : tags'[x] = tags[x] /\ last'[x] = last[x]
  BY DEF Others
<1>3. \A x \in xs : last'[x] = r
  BY DEF Others
<1>4. RequestInv(s) /\ Refused(s) /\ requests \in TagPlans
  BY DEF TagIInv, TagTypes
<1>5. \A t \in Registry!Requests : /\ Registry!Kind(t)' = Registry!Kind(t) /\ Source(t)' = Source(t) /\ Target(t)' = Target(t)
                                   /\ Puts(t)' = Puts(t) /\ Registry!Imports(t)' = Registry!Imports(t) /\ Registry!IsCall(t)' = Registry!IsCall(t)
                                   /\ Registry!ImportTargets(t)' = Registry!ImportTargets(t)
  BY <1>1 DEF Registry!Kind, Source, Target, Puts, Registry!Imports, Registry!IsCall, Registry!ImportTargets
<1>6. Registry!Requests' = Registry!Requests
  BY <1>1 DEF Registry!Requests
<1>7. \A m : \A x \in Tags : Registry!Is(s, x, m) => Registry!Is(s, x, m)'
  BY <1>1, <1>2 DEF Registry!Is
<1>8. Succeeded(s)' = Succeeded(s)
  BY <1>1 DEF Same, Succeeded
<1>a. InPhase(s)'
  BY <1>1, <1>4, <1>5 DEF RequestInv, InPhase, Same
<1>b. TagUntouched(s)'
  BY <1>1, <1>2, <1>3, <1>4 DEF RequestInv, TagUntouched, Same
<1>c. Removed(s)'
  BY <1>1, <1>2, <1>3, <1>4, <1>5 DEF RequestInv, Removed, Same
<1>d. Changed(s)'
  <2>1. ASSUME requestPc'[s] = "delete", Registry!Kind(s)' # "deleteAll", disturbed'[s] = {}
        PROVE  survivors'[s] = Registry!Survivors(s)'
    <3>1. xs = {} /\ disturbed[s] = {}
      BY <1>1, <2>1
    <3>2. survivors[s] = Registry!Survivors(s)
      BY <1>1, <1>4, <1>5, <2>1, <3>1 DEF RequestInv, Changed, Same
    <3>3. Registry!Survivors(s)' = Registry!Survivors(s)
      BY <1>1, <1>2, <3>1 DEF Registry!Survivors, Same
    <3> QED BY <1>1, <3>2, <3>3 DEF Same
  <2>2. digest'[s] = digest[s] /\ requestPc'[s] = requestPc[s]
    BY <1>1 DEF Same
  <2>3. ~Registry!Imports(s) => Source(s) \in Tags
    BY <1>4, RequestFacts
  <2>4. Registry!Kind(s) \in {"copy", "rename"} => Target(s) \in Tags
    BY <1>4, RequestFacts
  <2>5. requestPc[s] \in {"list", "delete", "put", "restore"} => ~Registry!Imports(s)
    BY <1>4 DEF RequestInv, InPhase
  <2>6. Registry!Kind(s) \in {"rename", "delete", "deleteAll"} => ~Registry!Imports(s)
    BY DEF Registry!Imports
  <2> QED BY <1>4, <1>5, <1>7, <1>8, <2>1, <2>2, <2>3, <2>4, <2>5, <2>6 DEF RequestInv, Changed
<1>e. Known(s)'
  BY <1>1, <1>4, <1>5 DEF RequestInv, Known, Same
<1>f. Ahead(s)'
  <2> SUFFICES ASSUME requestPc'[s] \in {"next", "write"} PROVE Ahead(s)'
    BY DEF Ahead
  <2>1. mutation = s /\ Registry!Imports(s) /\ requestPc[s] \in {"next", "write"}
    BY <1>1, <1>4 DEF RequestInv, InPhase, Holding, Same
  <2>2. xs = {} \/ ~Registry!Imports(r)
    BY <2>1
  <2>3. \A i \in DOMAIN Puts(s) : Puts(s)[i].tag \in Tags
    BY <1>4, <2>1, RequestFacts
  <2>4. /\ \A i \in DOMAIN Puts(s) : i > done[s] =>
              Puts(s)[i].tag \in disturbed[s] \/ tags[Puts(s)[i].tag] \in {None, Puts(s)[i].manifest}
        /\ \A x \in disturbed[s] : last[x] = s \/ (last[x] \in Registry!Requests /\ ~Registry!Imports(last[x]))
        /\ \A x \in Tags : last[x] = s => \E j \in DOMAIN Puts(s) : j <= done[s] /\ Puts(s)[j].tag = x
    BY <1>4, <2>1 DEF RequestInv, Ahead
  <2>5. done'[s] = done[s]
    BY <1>1 DEF Same
  <2>6. \A i \in DOMAIN Puts(s) : i > done[s] =>
              Puts(s)[i].tag \in disturbed'[s] \/ tags'[Puts(s)[i].tag] \in {None, Puts(s)[i].manifest}
    BY <1>1, <1>2, <2>3, <2>4
  <2>7. \A x \in disturbed'[s] : last'[x] = s \/ (last'[x] \in Registry!Requests /\ ~Registry!Imports(last'[x]))
    <3>1. disturbed[s] \subseteq Tags
      BY DEF TagIInv, TagTypes
    <3> QED BY <1>1, <1>2, <1>3, <2>2, <2>4, <3>1
  <2>8. \A x \in Tags : last'[x] = s => \E j \in DOMAIN Puts(s) : j <= done[s] /\ Puts(s)[j].tag = x
    BY <1>2, <1>3, <2>4
  <2>9. \A q \in Registry!Requests : Registry!Imports(q)' = Registry!Imports(q)
    BY <1>5
  <2> QED BY <1>5, <1>6, <2>5, <2>6, <2>7, <2>8, <2>9, <1>1 DEF Ahead, Puts, Registry!Imports, Registry!Kind
<1>g. Behind(s)'
  <2>1. Registry!Imports(s) => \A i \in DOMAIN Puts(s) : Puts(s)[i].tag \in Tags
    BY <1>4, RequestFacts
  <2>2. requestPc[s] \in {"next", "write"} => Registry!Imports(s)
    BY <1>4 DEF RequestInv, InPhase
  <2> QED BY <1>1, <1>4, <1>5, <1>7, <1>8, <2>1, <2>2 DEF RequestInv, Behind, Same
<1>h. Resumable(s)'
  <2>1. Registry!ImportTargets(s) \subseteq Tags \/ ~Registry!Imports(s)
    BY <1>4, RequestFacts DEF Registry!ImportTargets, Puts
  <2> QED BY <1>1, <1>2, <1>4, <1>5, <2>1 DEF RequestInv, Resumable, Registry!Imports, Same
<1>i. Replaced(s)'
  BY <1>1, <1>4, <1>5 DEF RequestInv, Replaced, Same, Registry!Imports, Registry!Kind
<1>j. Refused(s)'
  <2> SUFFICES ASSUME requestPc[s] = "refused", Registry!Kind(s) = "retry" PROVE Refused(s)'
    BY <1>1, <1>5 DEF Refused, Same
  <2> DEFINE of == requests[s].of
  <2>1. of \in Registry!Requests /\ requestPc[of] = "left" /\ (unsure[of] \/ \E x \in Registry!ImportTargets(s) : x \in disturbed[of])
    BY <1>4, RequestFacts DEF Refused
  <2>2. Same(of) /\ disturbed[of] \subseteq disturbed'[of]
    BY <2>1 DEF Others
  <2> QED BY <1>1, <1>5, <2>1, <2>2 DEF Refused, Same
<1> QED BY <1>a, <1>b, <1>c, <1>d, <1>e, <1>f, <1>g, <1>h, <1>i, <1>j DEF RequestInv

LEMMA SameRequests ==
  ASSUME requests' = requests
  PROVE  /\ Registry!Requests' = Registry!Requests
         /\ \A t : /\ Registry!Kind(t)' = Registry!Kind(t) /\ Source(t)' = Source(t) /\ Target(t)' = Target(t)
                  /\ Puts(t)' = Puts(t) /\ Registry!Imports(t)' = Registry!Imports(t) /\ Registry!IsCall(t)' = Registry!IsCall(t)
                  /\ Registry!ImportTargets(t)' = Registry!ImportTargets(t) /\ requests'[t] = requests[t]
  BY DEF Registry!Requests, Registry!Kind, Source, Target, Puts, Registry!Imports, Registry!IsCall,
         Registry!ImportTargets

LEMMA StepInv ==
  ASSUME Registry!RegistryTagsAssumption, TagIInv, NEW r \in Registry!Requests, NEW xs, Others(r, xs),
         requestPc[r] # "left", xs = {} \/ ~Registry!Imports(r) \/ mutation = r,
         TagTypes', RequestInv(r)', Refused(r)'
  PROVE  TagIInv'
<1>1. requests' = requests
  BY DEF Others
<1>2. Registry!Requests' = Registry!Requests
  BY <1>1, SameRequests
<1>3. ASSUME NEW s \in Registry!Requests PROVE RequestInv(s)' /\ Refused(s)'
  BY <1>3, OtherRequest
<1> QED BY <1>2, <1>3 DEF TagIInv

\* A step of r that leaves the registry and what r knows of it alone, before
\* r has begun to change tags.
LEMMA StillInv ==
  ASSUME Registry!RegistryTagsAssumption, TagTypes, NEW r \in Registry!Requests, RequestInv(r), InPhase(r)',
         UNCHANGED <<requests, tags, manifests, last, done, published, digest, survivors, disturbed, replaced, unsure>>,
         requestPc[r] \in {"queued", "acquire", "check", "next"} \/ (requestPc[r] = "asked" /\ ~Registry!Imports(r)),
         requestPc'[r] \in {"queued", "acquire", "check", "resolve", "read", "left"}, requestStatus'[r] # "success",
         requestPc[r] = "next" => requestPc'[r] = "left"
  PROVE  RequestInv(r)'
<1>1. TagUntouched(r)'
  BY DEF RequestInv, TagUntouched
<1>2. Ahead(r)'
  BY DEF Ahead
<1>3. Known(r)' /\ Resumable(r)' /\ Replaced(r)'
  BY SameRequests DEF RequestInv, Known, Resumable, Replaced, Registry!Imports
<1>4. Removed(r)' /\ Changed(r)' /\ Behind(r)'
  BY SameRequests DEF RequestInv, Removed, Changed, Behind, Succeeded
<1> QED BY <1>1, <1>2, <1>3, <1>4 DEF RequestInv

LEMMA BeginInv ==
  ASSUME Registry!RegistryTagsAssumption, TagIInv, NEW r \in Registry!Requests, Registry!Begin(r)
  PROVE  TagIInv'
<1>1. TagTypes /\ RequestInv(r)
  BY DEF TagIInv
<1>2. /\ UNCHANGED <<requests, tags, manifests, last, done, published, digest, survivors, disturbed, replaced, unsure>>
      /\ requestPc[r] = "queued" /\ requestPc'[r] \in {"acquire", "read"} /\ requestStatus'[r] # "success"
  BY <1>1
     DEF Registry!Begin, Registry!GoTo, Registry!registry, Registry!history, TagTypes, RequestInv, InPhase,
         Registry!Imports, Registry!IsCall
<1>3. TagTypes'
  BY <1>1, RequestFacts
     DEF Registry!Begin, Registry!GoTo, Registry!registry, Registry!history, TagTypes, Registry!Requests,
         TagPCs, TagStatuses, Registry!Nobody
<1>4. Others(r, {})
  BY <1>1, <1>2, RequestFacts
     DEF Registry!Begin, Registry!GoTo, Registry!registry, Registry!history, Others, Same, TagTypes, RequestInv,
         InPhase, Holding, Registry!Nobody
<1>5. InPhase(r)'
  BY <1>1, <1>2, <1>3, SameRequests, RequestFacts
     DEF Registry!Begin, Registry!GoTo, Registry!registry, Registry!history, TagTypes, RequestInv, InPhase,
         Holding, Registry!Imports, Registry!IsCall
<1>6. RequestInv(r)'
  BY <1>1, <1>2, <1>5, StillInv
<1> QED BY <1>2, <1>3, <1>4, <1>6, StepInv DEF Refused

LEMMA AskChangeInv ==
  ASSUME Registry!RegistryTagsAssumption, TagIInv, NEW r \in Registry!Requests, Registry!AskChange(r)
  PROVE  TagIInv'
<1>1. TagTypes /\ RequestInv(r)
  BY DEF TagIInv
<1>2. /\ UNCHANGED <<requests, tags, manifests, last, done, published, digest, survivors, disturbed, replaced, unsure>>
      /\ requestPc[r] = "asked" /\ ~Registry!Imports(r) /\ requestPc'[r] \in {"queued", "resolve"} /\ requestStatus'[r] # "success"
  BY <1>1
     DEF Registry!AskChange, Registry!GoTo, Registry!registry, Registry!history, TagTypes, RequestInv, InPhase,
         Registry!Imports, Registry!IsCall
<1>3. TagTypes'
  BY <1>1, RequestFacts
     DEF Registry!AskChange, Registry!GoTo, Registry!registry, Registry!history, TagTypes, Registry!Requests,
         TagPCs, TagStatuses, Registry!Nobody
<1>4. Others(r, {})
  BY <1>1, <1>2, RequestFacts
     DEF Registry!AskChange, Registry!GoTo, Registry!registry, Registry!history, Others, Same, TagTypes,
         RequestInv, InPhase, Holding, Registry!Nobody
<1>5. InPhase(r)'
  BY <1>1, <1>2, <1>3, SameRequests, RequestFacts
     DEF Registry!AskChange, Registry!GoTo, Registry!registry, Registry!history, TagTypes, RequestInv, InPhase,
         Holding, Registry!Imports, Registry!IsCall
<1>6. RequestInv(r)'
  BY <1>1, <1>2, <1>5, StillInv
<1> QED BY <1>2, <1>3, <1>4, <1>6, StepInv DEF Refused

LEMMA CanceledInTimeInv ==
  ASSUME Registry!RegistryTagsAssumption, TagIInv, NEW r \in Registry!Requests, Registry!CanceledInTime(r)
  PROVE  TagIInv'
<1>1. TagTypes /\ RequestInv(r)
  BY DEF TagIInv
<1>2. /\ UNCHANGED <<requests, tags, manifests, last, done, published, digest, survivors, disturbed, replaced, unsure>>
      /\ requestPc[r] \in {"queued", "acquire"} /\ requestPc'[r] = "left" /\ requestStatus'[r] # "success"
  BY <1>1
     DEF Registry!CanceledInTime, Registry!GoTo, Registry!registry, Registry!history, TagTypes, RequestInv,
         InPhase, Registry!Imports, Registry!IsCall, Registry!Ends
<1>3. TagTypes'
  BY <1>1, RequestFacts
     DEF Registry!CanceledInTime, Registry!GoTo, Registry!registry, Registry!history, Registry!Ends, TagTypes,
         Registry!Requests, TagPCs, TagStatuses, Registry!Nobody
<1>4. Others(r, {})
  BY <1>1, <1>2, RequestFacts
     DEF Registry!CanceledInTime, Registry!GoTo, Registry!registry, Registry!history, Registry!Ends, Others,
         Same, TagTypes, RequestInv, InPhase, Holding, Registry!Nobody
<1>5. InPhase(r)'
  BY <1>1, <1>2, <1>3, SameRequests, RequestFacts
     DEF Registry!CanceledInTime, Registry!GoTo, Registry!registry, Registry!history, Registry!Ends, TagTypes,
         RequestInv, InPhase, Holding, Registry!Imports, Registry!IsCall
<1>6. RequestInv(r)'
  BY <1>1, <1>2, <1>5, StillInv
<1> QED BY <1>2, <1>3, <1>4, <1>6, StepInv DEF Refused

LEMMA AcquireInv ==
  ASSUME Registry!RegistryTagsAssumption, TagIInv, NEW r \in Registry!Requests, Registry!Acquire(r)
  PROVE  TagIInv'
<1>1. TagTypes /\ RequestInv(r)
  BY DEF TagIInv
<1>2. /\ UNCHANGED <<requests, tags, manifests, last, done, published, digest, survivors, disturbed, replaced, unsure>>
      /\ requestPc[r] = "acquire" /\ requestPc'[r] = "check" /\ requestStatus'[r] # "success"
  BY <1>1
     DEF Registry!Acquire, Registry!GoTo, Registry!registry, Registry!history, TagTypes, RequestInv, InPhase,
         Registry!Imports, Registry!IsCall
<1>3. TagTypes'
  BY <1>1, RequestFacts
     DEF Registry!Acquire, Registry!GoTo, Registry!registry, Registry!history, TagTypes, Registry!Requests,
         TagPCs, TagStatuses, Registry!Nobody
<1>4. Others(r, {})
  BY <1>1, <1>2, RequestFacts
     DEF Registry!Acquire, Registry!GoTo, Registry!registry, Registry!history, Others, Same, TagTypes,
         RequestInv, InPhase, Holding, Registry!Nobody
<1>5. InPhase(r)'
  BY <1>1, <1>2, <1>3, SameRequests, RequestFacts
     DEF Registry!Acquire, Registry!GoTo, Registry!registry, Registry!history, TagTypes, RequestInv, InPhase,
         Holding, Registry!Imports, Registry!IsCall
<1>6. RequestInv(r)'
  BY <1>1, <1>2, <1>5, StillInv
<1> QED BY <1>2, <1>3, <1>4, <1>6, StepInv DEF Refused

LEMMA TransferFailsInv ==
  ASSUME Registry!RegistryTagsAssumption, TagIInv, NEW r \in Registry!Requests, Registry!TransferFails(r)
  PROVE  TagIInv'
<1>1. TagTypes /\ RequestInv(r)
  BY DEF TagIInv
<1>2. /\ UNCHANGED <<requests, tags, manifests, last, done, published, digest, survivors, disturbed, replaced, unsure>>
      /\ requestPc[r] \in {"acquire", "check", "next"} /\ requestPc'[r] = "left" /\ requestStatus'[r] # "success"
  BY <1>1
     DEF Registry!TransferFails, Registry!GoTo, Registry!registry, Registry!history, TagTypes, RequestInv,
         InPhase, Registry!Imports, Registry!IsCall, Registry!Ends, Registry!Finishes, Registry!Release
<1>3. TagTypes'
  BY <1>1, RequestFacts
     DEF Registry!TransferFails, Registry!GoTo, Registry!registry, Registry!history, Registry!Ends,
         Registry!Finishes, Registry!Release, TagTypes, Registry!Requests, TagPCs, TagStatuses, Registry!Nobody
<1>4. Others(r, {})
  BY <1>1, <1>2, RequestFacts
     DEF Registry!TransferFails, Registry!GoTo, Registry!registry, Registry!history, Registry!Ends,
         Registry!Finishes, Registry!Release, Others, Same, TagTypes, RequestInv, InPhase, Holding,
         Registry!Nobody
<1>5. InPhase(r)'
  BY <1>1, <1>2, <1>3, SameRequests, RequestFacts
     DEF Registry!TransferFails, Registry!GoTo, Registry!registry, Registry!history, Registry!Ends,
         Registry!Finishes, Registry!Release, TagTypes, RequestInv, InPhase, Holding, Registry!Imports,
         Registry!IsCall
<1>6. RequestInv(r)'
  BY <1>1, <1>2, <1>5, StillInv
<1> QED BY <1>2, <1>3, <1>4, <1>6, StepInv DEF Refused

LEMMA CancelInv ==
  ASSUME Registry!RegistryTagsAssumption, TagIInv, NEW r \in Registry!Requests, Registry!Cancel(r)
  PROVE  TagIInv'
<1>1. TagTypes /\ RequestInv(r) /\ Refused(r)
  BY DEF TagIInv
<1>2. /\ UNCHANGED <<requests, requestPc, requestStatus, tags, manifests, last, mutation, done, published, digest, survivors>>
      /\ UNCHANGED <<disturbed, replaced, unsure>> /\ requestPc[r] \notin {"left", "refused"}
      /\ requestCanceled' \in [Registry!Requests -> BOOLEAN]
  BY <1>1 DEF Registry!Cancel, Registry!AtWork, Registry!registry, Registry!history, TagTypes
<1>3. TagTypes' /\ Others(r, {})
  BY <1>1, <1>2 DEF TagTypes, Registry!Requests, Others, Same
<1>4. InPhase(r)' /\ TagUntouched(r)' /\ Known(r)' /\ Ahead(r)' /\ Resumable(r)' /\ Replaced(r)'
  BY <1>1, <1>2, SameRequests
     DEF RequestInv, InPhase, TagUntouched, Known, Ahead, Resumable, Replaced, Registry!Imports,
         Registry!IsCall, Holding
<1>5. Removed(r)' /\ Changed(r)' /\ Behind(r)'
  BY <1>1, <1>2, SameRequests
     DEF RequestInv, Removed, Changed, Behind, Succeeded, Registry!Is, Registry!Survivors
<1> QED BY <1>2, <1>3, <1>4, <1>5, StepInv DEF Refused, RequestInv

LEMMA AskInv ==
  ASSUME Registry!RegistryTagsAssumption, TagIInv, NEW r \in Registry!Requests, Registry!Ask(r)
  PROVE  TagIInv'
<1>1. TagTypes /\ RequestInv(r)
  BY DEF TagIInv
<1> DEFINE of == requests[r].of
           known == IF Registry!Kind(r) = "retry" THEN published[of] ELSE published[r]
<1>2. /\ UNCHANGED <<requests, tags, manifests, last, mutation, done, digest, survivors, disturbed, replaced, unsure>>
      /\ UNCHANGED <<requestStatus, requestCanceled>>
      /\ requestPc[r] = "asked" /\ Registry!Imports(r) /\ (Registry!Kind(r) = "retry" => requestStatus[of] \in {"failed", "canceled"})
  BY <1>1 DEF Registry!Ask, Registry!registry, Registry!history
<1>3. \/ Registry!Conflicts(r, known) /\ requestPc' = [requestPc EXCEPT ![r] = "refused"] /\ published' = published
      \/ ~Registry!Conflicts(r, known) /\ requestPc' = [requestPc EXCEPT ![r] = "queued"] /\ published' = [published EXCEPT ![r] = known]
  BY DEF Registry!Ask, Registry!GoTo
<1>4. known \in [Tags -> Manifests \cup {None}]
  BY <1>1, RequestFacts DEF TagTypes
<1>5. TagTypes' /\ Others(r, {})
  BY <1>1, <1>2, <1>3, <1>4 DEF TagTypes, Registry!Requests, TagPCs, Others, Same
<1>6. Known(r)'
  <2>1. CASE published' = published
    BY <1>1, <1>2, <2>1, SameRequests DEF RequestInv, Known
  <2>2. CASE published' = [published EXCEPT ![r] = known]
    <3>1. Known(IF Registry!Kind(r) = "retry" THEN of ELSE r)
      BY <1>1, RequestFacts DEF TagIInv, RequestInv, TagTypes
    <3>2. \A x \in Tags : known[x] # None =>
            \E i \in DOMAIN Puts(r) : Puts(r)[i].tag = x /\ Puts(r)[i].manifest = known[x]
      <4>1. CASE Registry!Kind(r) = "retry"
        <5>1. Puts(of) = Puts(r) /\ known = published[of] /\ Known(of)
          BY <1>1, <3>1, <4>1, RequestFacts DEF TagTypes
        <5> QED BY <5>1 DEF Known
      <4>2. CASE Registry!Kind(r) # "retry"
        <5>1. known = published[r] /\ Known(r)
          BY <3>1, <4>2
        <5> QED BY <5>1 DEF Known
      <4> QED BY <4>1, <4>2
    <3>3. published'[r] = known
      BY <1>1, <2>2 DEF TagTypes
    <3> QED BY <1>2, <3>2, <3>3, SameRequests DEF Known
  <2> QED BY <1>3, <2>1, <2>2
<1>7. Resumable(r)'
  <2> SUFFICES ASSUME Registry!Kind(r) = "import", requestPc'[r] \notin {"asked", "refused", "quit"}
               PROVE  Resumable(r)'
    BY <1>2, SameRequests DEF Resumable
  <2>1. ~Registry!Conflicts(r, known) /\ published' = [published EXCEPT ![r] = known] /\ known = published[r]
    BY <1>1, <1>3 DEF TagTypes
  <2>2. \A x \in Registry!ImportTargets(r) : tags[x] = None \/ tags[x] = known[x]
    BY <2>1 DEF Registry!Conflicts
  <2>3. published'[r] = known
    BY <1>1, <2>1 DEF TagTypes
  <2> QED BY <1>2, <2>2, <2>3, SameRequests DEF Resumable
<1>8. Refused(r)'
  <2> SUFFICES ASSUME requestPc'[r] = "refused", Registry!Kind(r) = "retry" PROVE Refused(r)'
    BY <1>2, SameRequests DEF Refused
  <2>1. Registry!Conflicts(r, known) /\ known = published[of]
    BY <1>1, <1>3 DEF TagTypes
  <2>2. of \in Registry!Requests \ {r} /\ Registry!Kind(of) = "import" /\ Registry!ImportTargets(r) = Registry!ImportTargets(of)
    BY <1>1, RequestFacts DEF TagTypes, Registry!ImportTargets, Puts
  <2>3. requestPc[of] = "left" /\ Resumable(of)
    BY <1>2, <2>2 DEF TagIInv, RequestInv, InPhase
  <2>4. PICK x \in Registry!ImportTargets(r) : tags[x] # None /\ tags[x] # published[of][x]
    BY <2>1 DEF Registry!Conflicts
  <2>5. x \in disturbed[of] \/ unsure[of]
    BY <2>2, <2>3, <2>4 DEF Resumable
  <2>6. requestPc'[of] = "left"
    BY <1>1, <1>3, <2>2, <2>3 DEF TagTypes
  <2> QED BY <1>2, <2>2, <2>4, <2>5, <2>6, SameRequests DEF Refused
<1>9. RequestInv(r)'
  <2>1. requestPc'[r] \in {"queued", "refused"}
    BY <1>1, <1>3 DEF TagTypes
  <2> QED
    BY <1>1, <1>2, <1>6, <1>7, <2>1, SameRequests
       DEF RequestInv, InPhase, TagUntouched, Removed, Changed, Ahead, Behind, Replaced, Succeeded, Registry!Is,
           Registry!Imports, Registry!IsCall, Holding
<1> QED BY <1>2, <1>5, <1>8, <1>9, StepInv

LEMMA TagCheckInv ==
  ASSUME Registry!RegistryTagsAssumption, TagIInv, NEW r \in Registry!Requests, Registry!Check(r)
  PROVE  TagIInv'
<1>1. TagTypes /\ RequestInv(r)
  BY DEF TagIInv
<1>2. /\ UNCHANGED <<requests, tags, manifests, last, requestCanceled, done, published, digest, survivors, replaced, unsure>>
      /\ requestPc[r] = "check" /\ Registry!Imports(r) /\ mutation = r /\ done[r] = 0 /\ requestStatus[r] = "active"
  BY <1>1 DEF Registry!Check, Registry!registry, RequestInv, InPhase, Holding
<1>3. CASE Registry!Conflicts(r, published[r])
  <2>1. /\ requestPc' = [requestPc EXCEPT ![r] = "left"] /\ disturbed' = disturbed /\ mutation' = Registry!Nobody
        /\ requestStatus' = [requestStatus EXCEPT ![r] = "failed"]
    BY <1>2, <1>3 DEF Registry!Check, Registry!Finishes, Registry!Ends, Registry!GoTo, Registry!Release
  <2>2. TagTypes' /\ Others(r, {})
    BY <1>1, <1>2, <2>1, RequestFacts DEF TagTypes, Registry!Requests, TagPCs, TagStatuses, Others, Same
  <2>3. requestPc'[r] = "left" /\ requestStatus'[r] = "failed" /\ mutation' # r
    BY <1>1, <2>1, RequestFacts DEF TagTypes
  <2>4. RequestInv(r)'
    BY <1>1, <1>2, <2>1, <2>3, SameRequests
       DEF RequestInv, InPhase, TagUntouched, Removed, Changed, Known, Ahead, Behind,
         Resumable, Replaced, Succeeded, Registry!Is, Registry!Imports, Registry!IsCall, Holding
  <2> QED BY <1>2, <2>2, <2>3, <2>4, StepInv DEF Refused
<1>4. CASE ~Registry!Conflicts(r, published[r])
  <2>1. /\ requestPc' = [requestPc EXCEPT ![r] = "next"] /\ disturbed' = [disturbed EXCEPT ![r] = {}]
        /\ UNCHANGED <<mutation, requestStatus>>
    BY <1>2, <1>4 DEF Registry!Check, Registry!GoTo, Registry!Looks
  <2>2. TagTypes' /\ Others(r, {})
    BY <1>1, <1>2, <2>1, RequestFacts DEF TagTypes, Registry!Requests, TagPCs, Others, Same
  <2>3. requestPc'[r] = "next" /\ disturbed'[r] = {}
    BY <1>1, <2>1 DEF TagTypes
  <2>4. \A x \in Registry!ImportTargets(r) : tags[x] = None \/ tags[x] = published[r][x]
    BY <1>4 DEF Registry!Conflicts
  <2>5. \A i \in DOMAIN Puts(r) : tags[Puts(r)[i].tag] \in {None, Puts(r)[i].manifest}
    <3> TAKE i \in DOMAIN Puts(r)
    <3>1. Puts(r)[i].tag \in Tags /\ Puts(r)[i].tag \in Registry!ImportTargets(r)
      BY <1>1, <1>2, RequestFacts DEF TagTypes, Registry!ImportTargets, Puts
    <3>2. published[r][Puts(r)[i].tag] \in {None, Puts(r)[i].manifest}
      BY <1>1, <1>2, <3>1, RequestFacts DEF RequestInv, Known, TagTypes
    <3> QED BY <2>4, <3>1, <3>2
  <2>6. RequestInv(r)'
    BY <1>1, <1>2, <2>1, <2>3, <2>4, <2>5, SameRequests
       DEF RequestInv, InPhase, TagUntouched, Removed, Changed, Known, Ahead, Behind,
         Resumable, Replaced, Succeeded, Registry!Is, Registry!Imports, Registry!IsCall, Holding
  <2> QED BY <1>2, <2>2, <2>3, <2>6, StepInv DEF Refused
<1> QED BY <1>3, <1>4

LEMMA NextPutInv ==
  ASSUME Registry!RegistryTagsAssumption, TagIInv, NEW r \in Registry!Requests, Registry!NextPut(r)
  PROVE  TagIInv'
<1>1. TagTypes /\ RequestInv(r)
  BY DEF TagIInv
<1>2. /\ UNCHANGED <<requests, tags, manifests, last, requestCanceled, published, digest, survivors>>
      /\ UNCHANGED <<disturbed, replaced, unsure>>
      /\ requestPc[r] = "next" /\ Registry!Imports(r) /\ mutation = r /\ requestStatus[r] = "active"
  BY <1>1 DEF Registry!NextPut, Registry!registry, Registry!history, RequestInv, InPhase, Holding
<1>3. ASSUME NEW s \in {"success", "canceled"}, Registry!Finishes(r, s), done' = done, s = "success" => Registry!NothingLeft(r)
      PROVE  TagIInv'
  <2>1. /\ requestPc' = [requestPc EXCEPT ![r] = "left"] /\ mutation' = Registry!Nobody
        /\ \E e \in {"success", "canceled"} : requestStatus' = [requestStatus EXCEPT ![r] = e] /\ (e = "success" => Registry!NothingLeft(r))
    BY <1>2, <1>3 DEF Registry!Finishes, Registry!Ends, Registry!GoTo, Registry!Release
  <2>2. TagTypes' /\ Others(r, {})
    BY <1>1, <1>2, <1>3, <2>1, RequestFacts DEF TagTypes, Registry!Requests, TagPCs, TagStatuses, Others, Same
  <2>3. requestPc'[r] = "left" /\ requestStatus'[r] \in {"success", "canceled"} /\ mutation' # r
    BY <1>1, <2>1, RequestFacts DEF TagTypes
  <2>4. requestStatus'[r] = "success" => \A i \in DOMAIN Puts(r) : i <= done[r]
    BY <1>1, <1>2, <2>1, RequestFacts DEF TagTypes, Registry!NothingLeft, Puts
  <2>5. Behind(r)'
    BY <1>1, <1>2, <2>3, <2>4, SameRequests DEF RequestInv, Behind, Succeeded, Registry!Is
  <2>6. Removed(r)' /\ Changed(r)'
    BY <1>1, <1>2, <2>3, SameRequests DEF RequestInv, Removed, Changed, Registry!Imports
  <2>7. RequestInv(r)'
    BY <1>1, <1>2, <1>3, <2>3, <2>5, <2>6, SameRequests
       DEF RequestInv, InPhase, TagUntouched, Known, Ahead, Resumable, Replaced, Registry!Imports,
           Registry!IsCall, Holding
  <2> QED BY <1>2, <2>2, <2>3, <2>7, StepInv DEF Refused
<1>4. ASSUME ~Registry!NothingLeft(r), UNCHANGED <<requestStatus, mutation>>,
             \/ Registry!IsThere(r) /\ done' = [done EXCEPT ![r] = @ + 1] /\ requestPc' = requestPc
             \/ Registry!GoTo(r, "write") /\ done' = done
      PROVE  TagIInv'
  <2> DEFINE n == done[r] + 1
  <2>1. /\ done[r] \in Nat /\ n \in DOMAIN Puts(r) /\ Registry!NextEntry(r) = Puts(r)[n] /\ done[r] < Len(Puts(r))
        /\ Puts(r)[n].tag \in Tags /\ DOMAIN Puts(r) = 1..Len(Puts(r)) /\ Len(Puts(r)) \in Nat
    BY <1>1, <1>2, <1>4, RequestFacts
       DEF TagTypes, Registry!NothingLeft, Puts, Registry!NextEntry, RequestInv, InPhase
  <2>a. requestPc' \in [Registry!Requests -> TagPCs] /\ done' \in [Registry!Requests -> Nat]
    <3>1. CASE done' = [done EXCEPT ![r] = n] /\ requestPc' = requestPc
      BY <1>1, <2>1, <3>1 DEF TagTypes
    <3>2. CASE done' = done /\ requestPc' = [requestPc EXCEPT ![r] = "write"]
      BY <1>1, <3>2 DEF TagTypes, TagPCs
    <3> QED BY <1>4, <3>1, <3>2 DEF Registry!GoTo
  <2>2. TagTypes' /\ Others(r, {})
    <3>1. TagTypes'
      BY <1>1, <1>2, <1>4, <2>a DEF TagTypes, Registry!Requests
    <3> QED BY <1>1, <1>2, <1>4, <3>1 DEF TagTypes, Registry!GoTo, Others, Same
  <2>3. \/ done'[r] = n /\ requestPc'[r] = "next" /\ Registry!IsThere(r)
        \/ done'[r] = done[r] /\ requestPc'[r] = "write"
    BY <1>1, <1>2, <1>4 DEF TagTypes, Registry!GoTo
  <2>4. Registry!IsThere(r) => tags[Puts(r)[n].tag] = Puts(r)[n].manifest
    <3> SUFFICES ASSUME Registry!IsThere(r) PROVE tags[Puts(r)[n].tag] = Puts(r)[n].manifest
      OBVIOUS
    <3>1. published[r][Puts(r)[n].tag] # None /\ tags[Puts(r)[n].tag] = published[r][Puts(r)[n].tag]
      BY <2>1 DEF Registry!IsThere
    <3>2. PICK i \in DOMAIN Puts(r) : /\ Puts(r)[i].tag = Puts(r)[n].tag
                                    /\ Puts(r)[i].manifest = published[r][Puts(r)[n].tag]
      BY <1>1, <2>1, <3>1 DEF RequestInv, Known
    <3>3. i = n
      BY <1>1, <1>2, <2>1, <3>2, RequestFacts DEF TagTypes
    <3> QED BY <3>1, <3>2, <3>3
  <2>5. Behind(r)'
    <3>1. \A i \in DOMAIN Puts(r) : i <= done[r] => Registry!Is(r, Puts(r)[i].tag, Puts(r)[i].manifest)
      BY <1>1, <1>2 DEF RequestInv, Behind
    <3>2. \A i \in DOMAIN Puts(r) : i <= done'[r] => Registry!Is(r, Puts(r)[i].tag, Puts(r)[i].manifest)
      <4> SUFFICES ASSUME NEW i \in DOMAIN Puts(r), i <= done'[r], ~(i <= done[r])
                   PROVE  Registry!Is(r, Puts(r)[i].tag, Puts(r)[i].manifest)
        BY <3>1
      <4>1. i = n /\ Registry!IsThere(r)
        BY <2>1, <2>3
      <4> QED BY <2>4, <4>1 DEF Registry!Is
    <3>3. \A t, m : Registry!Is(r, t, m)' = Registry!Is(r, t, m)
      BY <1>2 DEF Registry!Is
    <3>4. Puts(r)' = Puts(r) /\ requestStatus'[r] # "success"
      BY <1>2, <1>4, SameRequests
    <3> QED BY <3>2, <3>3, <3>4 DEF Behind, Succeeded, Puts
  <2>6. Removed(r)' /\ Changed(r)'
    BY <1>1, <1>2, <1>4, <2>3, SameRequests DEF RequestInv, Removed, Changed, Registry!Imports, Succeeded
  <2>7. Ahead(r)'
    BY <1>1, <1>2, <2>1, <2>3, SameRequests DEF RequestInv, Ahead
  <2>8. RequestInv(r)'
    BY <1>1, <1>2, <1>4, <2>1, <2>3, <2>5, <2>6, <2>7, SameRequests
       DEF RequestInv, InPhase, TagUntouched, Known, Resumable, Replaced, Registry!Imports, Registry!IsCall,
           Holding
  <2> QED BY <1>2, <2>2, <2>3, <2>8, StepInv DEF Refused
<1> QED
  BY <1>3, <1>4 DEF Registry!NextPut

\* A put that reached the registry: done, or not known to be.
LEMMA PutsTagInv ==
  ASSUME Registry!RegistryTagsAssumption, TagIInv, NEW r \in Registry!Requests, requestPc[r] = "write", Registry!PutsTag(r), requests' = requests,
         UNCHANGED <<requestCanceled, digest, survivors>>,
         \/ /\ done' = [done EXCEPT ![r] = @ + 1] /\ requestPc' = [requestPc EXCEPT ![r] = "next"]
            /\ published' = IF Registry!Kind(r) = "pull" THEN published
                            ELSE [published EXCEPT ![r][Registry!NextEntry(r).tag] = Registry!NextEntry(r).manifest]
            /\ UNCHANGED <<requestStatus, mutation, unsure>>
         \/ /\ unsure' = [unsure EXCEPT ![r] = TRUE] /\ requestPc' = [requestPc EXCEPT ![r] = "left"] /\ mutation' = Registry!Nobody
            /\ \E e \in {"failed", "canceled"} : requestStatus' = [requestStatus EXCEPT ![r] = e]
            /\ UNCHANGED <<done, published>>
  PROVE  TagIInv'
<1> DEFINE n == done[r] + 1
           p == Puts(r)[n]
<1>1. TagTypes /\ RequestInv(r)
  BY DEF TagIInv
<1>2. Registry!Imports(r) /\ mutation = r /\ requestStatus[r] = "active" /\ done[r] < Len(Puts(r)) /\ done[r] \in Nat
  BY <1>1 DEF RequestInv, InPhase, Holding, TagTypes
<1>3. /\ n \in DOMAIN Puts(r) /\ DOMAIN Puts(r) = 1..Len(Puts(r)) /\ Len(Puts(r)) \in Nat
      /\ Registry!NextEntry(r) = p /\ p.tag \in Tags /\ p.manifest \in Manifests /\ p.manifest # None
      /\ \A i \in DOMAIN Puts(r) : Puts(r)[i].tag \in Tags /\ Puts(r)[i].manifest \in Manifests
      /\ \A i \in DOMAIN Puts(r) : Puts(r)[i].tag = p.tag => i = n
  BY <1>1, <1>2, RequestFacts DEF TagTypes, Registry!NextEntry, Puts
<1> HIDE DEF p
<1>4. /\ tags' = [tags EXCEPT ![p.tag] = p.manifest] /\ manifests' = manifests \cup {p.manifest}
      /\ last' = [x \in Tags |-> IF x \in {p.tag} THEN r ELSE last[x]]
      /\ disturbed' = [s \in Registry!Requests |-> IF s = r THEN disturbed[s] ELSE disturbed[s] \cup {p.tag}]
      /\ replaced' = [replaced EXCEPT ![r] = IF tags[p.tag] \in {None, p.manifest} THEN @
                         ELSE @ \cup {[by |-> last[p.tag], since |-> p.tag \in disturbed[r]]}]
  BY <1>3 DEF Registry!PutsTag, Registry!Writes, Registry!Touches
<1>5. /\ tags'[p.tag] = p.manifest /\ last'[p.tag] = r
      /\ \A x \in Tags \ {p.tag} : tags'[x] = tags[x] /\ last'[x] = last[x]
      /\ disturbed'[r] = disturbed[r]
  BY <1>1, <1>3, <1>4 DEF TagTypes
<1>6. \/ /\ done'[r] = n /\ requestPc'[r] = "next" /\ requestStatus'[r] = "active" /\ mutation' = r /\ unsure' = unsure
         /\ Registry!Kind(r) # "pull" => published'[r] = [published[r] EXCEPT ![p.tag] = p.manifest]
         /\ Registry!Kind(r) = "pull" => published'[r] = published[r]
      \/ /\ unsure'[r] = TRUE /\ requestPc'[r] = "left" /\ requestStatus'[r] \in {"failed", "canceled"} /\ mutation' = Registry!Nobody
         /\ done'[r] = done[r] /\ published'[r] = published[r]
  <2>1. CASE done' = done
    BY <1>1, <1>2, <1>3, <2>1 DEF TagTypes
  <2>2. CASE done' = [done EXCEPT ![r] = @ + 1]
    <3>1. done'[r] = n
      BY <1>1, <2>2 DEF TagTypes
    <3>2. /\ requestPc' = [requestPc EXCEPT ![r] = "next"] /\ UNCHANGED <<requestStatus, mutation, unsure>>
          /\ published' = IF Registry!Kind(r) = "pull" THEN published ELSE [published EXCEPT ![r][p.tag] = p.manifest]
      <4>1. done' # done
        BY <1>2, <3>1
      <4> QED BY <1>3, <4>1
    <3> QED BY <1>1, <1>2, <1>3, <3>1, <3>2 DEF TagTypes
  <2> QED BY <2>1, <2>2
<1>7. TagTypes'
  <2>1. /\ tags' \in [Tags -> manifests' \cup {None}] /\ manifests' \subseteq Manifests
        /\ last' \in [Tags -> Registry!Requests \cup {Registry!Nobody}] /\ disturbed' \in [Registry!Requests -> SUBSET Tags]
        /\ DOMAIN replaced' = Registry!Requests
    BY <1>1, <1>3, <1>4 DEF TagTypes
  <2>2. published' \in [Registry!Requests -> [Tags -> Manifests \cup {None}]]
    <3>1. published' = published \/ published' = [published EXCEPT ![r][p.tag] = p.manifest]
      BY <1>3
    <3> DEFINE q == [published[r] EXCEPT ![p.tag] = p.manifest]
    <3>2. published[r] \in [Tags -> Manifests \cup {None}]
      BY <1>1 DEF TagTypes
    <3>3. q \in [Tags -> Manifests \cup {None}]
      BY <1>3, <3>2
    <3>4. published' = published \/ published' = [published EXCEPT ![r] = q]
      BY <3>1
    <3> HIDE DEF q
    <3> QED BY <1>1, <3>3, <3>4 DEF TagTypes
  <2>3. /\ requestPc' \in [Registry!Requests -> TagPCs] /\ requestStatus' \in [Registry!Requests -> TagStatuses] /\ unsure' \in [Registry!Requests -> BOOLEAN]
        /\ mutation' \in Registry!Requests \cup {Registry!Nobody}
    <3>1. requestStatus' = requestStatus \/ \E e \in {"failed", "canceled"} : requestStatus' = [requestStatus EXCEPT ![r] = e]
      OBVIOUS
    <3>2. /\ requestPc' = [requestPc EXCEPT ![r] = "next"] \/ requestPc' = [requestPc EXCEPT ![r] = "left"]
          /\ unsure' = unsure \/ unsure' = [unsure EXCEPT ![r] = TRUE]
          /\ mutation' \in {mutation, Registry!Nobody}
      OBVIOUS
    <3> QED BY <1>1, <3>1, <3>2 DEF TagTypes, TagPCs, TagStatuses
  <2>4. done' \in [Registry!Requests -> Nat]
    <3>1. done' = done \/ done' = [done EXCEPT ![r] = n]
      OBVIOUS
    <3>2. n \in Nat /\ done \in [Registry!Requests -> Nat]
      BY <1>1, <1>2 DEF TagTypes
    <3> HIDE DEF n
    <3> QED BY <3>1, <3>2
  <2> QED BY <1>1, <2>1, <2>2, <2>3, <2>4 DEF TagTypes, Registry!Requests
<1>8. Others(r, {p.tag})
  <2>1. \A s \in Registry!Requests \ {r} : disturbed'[s] = disturbed[s] \cup {p.tag} /\ replaced'[s] = replaced[s]
    BY <1>1, <1>4 DEF TagTypes
  <2>2. ASSUME NEW s \in Registry!Requests \ {r}
        PROVE  /\ requestPc'[s] = requestPc[s] /\ requestStatus'[s] = requestStatus[s] /\ done'[s] = done[s] /\ published'[s] = published[s]
               /\ digest'[s] = digest[s] /\ survivors'[s] = survivors[s] /\ unsure'[s] = unsure[s]
               /\ mutation' = s <=> mutation = s
    BY <1>1, <1>2, RequestFacts DEF TagTypes
  <2> QED BY <1>3, <1>5, <2>1, <2>2 DEF Others, Same
<1>9. RequestInv(r)'
  <2>a. n \in 1..Len(Puts(r))
    BY <1>3
  <2>b. \A x \in Tags : published'[r][x] = published[r][x] \/ (x = p.tag /\ published'[r][x] = p.manifest)
    <3>1. published'[r] = published[r] \/ published'[r] = [published[r] EXCEPT ![p.tag] = p.manifest]
      BY <1>6
    <3>2. published[r] \in [Tags -> Manifests \cup {None}]
      BY <1>1 DEF TagTypes
    <3> QED BY <3>1, <3>2
  <2>1. InPhase(r)' /\ TagUntouched(r)'
    <3>1. /\ requestPc'[r] \in {"next", "left"} /\ (requestPc'[r] = "left" <=> requestStatus'[r] # "active")
          /\ (mutation' = r <=> requestPc'[r] \in Holding) /\ done'[r] \in 0..Len(Puts(r))
      BY <1>1, <1>2, <1>3, <1>6, <2>a, RequestFacts DEF TagTypes, Holding
    <3> QED BY <1>2, <3>1, SameRequests DEF InPhase, TagUntouched
  <2>2. Removed(r)' /\ Changed(r)'
    BY <1>1, <1>2, <1>3, <1>5, <1>6, SameRequests DEF RequestInv, Removed, Changed, Registry!Imports, Succeeded
  <2>3. Known(r)'
    <3>1. Puts(r)[n].tag = p.tag /\ Puts(r)[n].manifest = p.manifest
      BY DEF p
    <3>2. \A x \in Tags : published[r][x] # None =>
            \E i \in DOMAIN Puts(r) : Puts(r)[i].tag = x /\ Puts(r)[i].manifest = published[r][x]
      BY <1>1 DEF RequestInv, Known
    <3>3. \A x \in Tags : published'[r][x] # None =>
            \E i \in DOMAIN Puts(r) : Puts(r)[i].tag = x /\ Puts(r)[i].manifest = published'[r][x]
      BY <1>3, <2>b, <3>1, <3>2
    <3> QED BY <1>2, <3>3, SameRequests DEF Known
  <2>4. Ahead(r)'
    <3> SUFFICES ASSUME requestPc'[r] = "next", done'[r] = n PROVE Ahead(r)'
      BY <1>6 DEF Ahead
    <3>1. Ahead(r) /\ disturbed[r] \subseteq Tags
      BY <1>1 DEF RequestInv, TagTypes
    <3>2. \A i \in DOMAIN Puts(r) : i > n =>
            Puts(r)[i].tag \in disturbed[r] \/ tags'[Puts(r)[i].tag] \in {None, Puts(r)[i].manifest}
      BY <1>2, <1>3, <1>5, <3>1 DEF Ahead
    <3>3. \A x \in disturbed[r] : last'[x] = r \/ (last'[x] \in Registry!Requests /\ ~Registry!Imports(last'[x]))
      BY <1>5, <3>1 DEF Ahead
    <3>4. \A x \in Tags : last'[x] = r => \E j \in DOMAIN Puts(r) : j <= n /\ Puts(r)[j].tag = x
      <4>1. Puts(r)[n].tag = p.tag
        BY DEF p
      <4> QED BY <1>2, <1>3, <1>5, <3>1, <4>1 DEF Ahead
    <3> QED BY <1>5, <3>2, <3>3, <3>4, SameRequests DEF Ahead
  <2>5. Behind(r)'
    <3> SUFFICES ASSUME requestPc'[r] = "next", done'[r] = n, requestStatus'[r] = "active" PROVE Behind(r)'
      BY <1>6 DEF Behind, Succeeded
    <3>1. \A i \in DOMAIN Puts(r) : i <= done[r] => tags[Puts(r)[i].tag] = Puts(r)[i].manifest \/ Puts(r)[i].tag \in disturbed[r]
      BY <1>1 DEF RequestInv, Behind, Registry!Is
    <3>2. Puts(r)[n].tag = p.tag /\ Puts(r)[n].manifest = p.manifest
      BY DEF p
    <3>3. \A i \in DOMAIN Puts(r) : i <= n => tags'[Puts(r)[i].tag] = Puts(r)[i].manifest \/ Puts(r)[i].tag \in disturbed[r]
      BY <1>2, <1>3, <1>5, <3>1, <3>2
    <3> QED BY <1>5, <3>3, SameRequests DEF Behind, Registry!Is, Succeeded
  <2>6. Resumable(r)'
    <3>1. Registry!ImportTargets(r) \subseteq Tags
      BY <1>3 DEF Registry!ImportTargets, Puts
    <3>2. unsure'[r] = unsure[r] \/ unsure'[r] = TRUE
      BY <1>6
    <3> SUFFICES ASSUME Registry!Kind(r) = "import", unsure'[r] # TRUE PROVE Resumable(r)'
      BY SameRequests DEF Resumable
    <3>3. /\ published'[r] = [published[r] EXCEPT ![p.tag] = p.manifest] /\ unsure'[r] = unsure[r]
          /\ DOMAIN published[r] = Tags
      BY <1>1, <1>6 DEF TagTypes
    <3>4. \A x \in Registry!ImportTargets(r) : x \in disturbed[r] \/ unsure[r] \/ tags[x] = None \/ tags[x] = published[r][x]
      BY <1>1 DEF RequestInv, Resumable
    <3>5. \A x \in Registry!ImportTargets(r) : x \in disturbed[r] \/ unsure[r] \/ tags'[x] = None \/ tags'[x] = published'[r][x]
      BY <1>3, <1>5, <3>1, <3>3, <3>4
    <3> QED BY <1>5, <3>3, <3>5, SameRequests DEF Resumable
  <2>7. Replaced(r)'
    <3>1. tags[p.tag] \notin {None, p.manifest} => p.tag \in disturbed[r] /\ ~Registry!Imports(last[p.tag])
      <4> SUFFICES ASSUME tags[p.tag] \notin {None, p.manifest}
                   PROVE  p.tag \in disturbed[r] /\ ~Registry!Imports(last[p.tag])
        OBVIOUS
      <4>1. Ahead(r) /\ n > done[r] /\ Puts(r)[n].tag = p.tag /\ Puts(r)[n].manifest = p.manifest
        BY <1>1, <1>2 DEF RequestInv, p
      <4>2. p.tag \in disturbed[r]
        BY <1>3, <4>1 DEF Ahead
      <4>3. last[p.tag] # r
        BY <1>2, <1>3, <4>1 DEF Ahead
      <4> QED BY <4>1, <4>2, <4>3 DEF Ahead
    <3>2. \A e \in replaced'[r] : e \in replaced[r] \/ (e.since = (p.tag \in disturbed[r]) /\ e.by = last[p.tag]
                                                       /\ tags[p.tag] \notin {None, p.manifest})
      BY <1>1, <1>4 DEF TagTypes
    <3> QED BY <1>1, <3>1, <3>2, SameRequests DEF RequestInv, Replaced
  <2> QED BY <2>1, <2>2, <2>3, <2>4, <2>5, <2>6, <2>7 DEF RequestInv
<1> QED BY <1>2, <1>6, <1>7, <1>8, <1>9, StepInv DEF Refused

LEMMA WriteTagInv ==
  ASSUME Registry!RegistryTagsAssumption, TagIInv, NEW r \in Registry!Requests, Registry!WriteTag(r)
  PROVE  TagIInv'
BY PutsTagInv DEF Registry!WriteTag, Registry!GoTo

LEMMA WriteTagFailsInv ==
  ASSUME Registry!RegistryTagsAssumption, TagIInv, NEW r \in Registry!Requests, Registry!WriteTagFails(r)
  PROVE  TagIInv'
<1>1. TagTypes /\ RequestInv(r)
  BY DEF TagIInv
<1>2. Registry!Imports(r) /\ mutation = r /\ requestStatus[r] = "active" /\ requestPc[r] = "write"
  BY <1>1 DEF Registry!WriteTagFails, RequestInv, InPhase, Holding
<1>3. /\ requestPc' = [requestPc EXCEPT ![r] = "left"] /\ mutation' = Registry!Nobody
      /\ \E e \in {"failed", "canceled"} : requestStatus' = [requestStatus EXCEPT ![r] = e]
      /\ UNCHANGED <<requests, requestCanceled, done, published, digest, survivors>>
  BY <1>2 DEF Registry!WriteTagFails, Registry!Finishes, Registry!Ends, Registry!GoTo, Registry!Release
<1>4. CASE Registry!PutsTag(r) /\ unsure' = [unsure EXCEPT ![r] = TRUE]
  BY <1>2, <1>3, <1>4, PutsTagInv
<1>5. CASE UNCHANGED <<tags, manifests, last, disturbed, replaced, unsure>>
  <2>1. TagTypes' /\ Others(r, {})
    BY <1>1, <1>2, <1>3, <1>5, RequestFacts DEF TagTypes, Registry!Requests, TagPCs, TagStatuses, Others, Same
  <2>2. requestPc'[r] = "left" /\ requestStatus'[r] \in {"failed", "canceled"} /\ mutation' # r
    BY <1>1, <1>3, RequestFacts DEF TagTypes
  <2>3. Removed(r)' /\ Changed(r)' /\ Behind(r)'
    BY <1>1, <1>2, <1>3, <1>5, <2>2, SameRequests
       DEF RequestInv, Removed, Changed, Behind, Registry!Imports, Succeeded
  <2>4. RequestInv(r)'
    BY <1>1, <1>2, <1>3, <1>5, <2>2, <2>3, SameRequests
       DEF RequestInv, InPhase, TagUntouched, Known, Ahead, Resumable, Replaced, Registry!Imports,
           Registry!IsCall, Holding
  <2> QED BY <1>2, <1>3, <2>1, <2>2, <2>4, StepInv DEF Refused
<1> QED BY <1>4, <1>5 DEF Registry!WriteTagFails, Registry!Idles, Registry!registry

\* What a change of tags has nothing to do with.
LEMMA NoImport ==
  ASSUME NEW r \in Registry!Requests, RequestInv(r), ~Registry!Imports(r), requestPc'[r] \notin {"next", "write"}, requests' = requests,
         published'[r] = published[r], replaced'[r] = replaced[r]
  PROVE  Known(r)' /\ Ahead(r)' /\ Behind(r)' /\ Resumable(r)' /\ Replaced(r)'
<1>1. ~Registry!Imports(r)' /\ Registry!Kind(r)' # "import" /\ Known(r) /\ Replaced(r)
  BY SameRequests DEF Registry!Imports, RequestInv
<1> QED BY <1>1, SameRequests DEF Known, Ahead, Behind, Resumable, Replaced

LEMMA ReadInv ==
  ASSUME Registry!RegistryTagsAssumption, TagIInv, NEW r \in Registry!Requests, Registry!Read(r)
  PROVE  TagIInv'
<1> DEFINE m == tags[Source(r)]
           next == CASE Registry!Kind(r) = "copy" -> "put" [] Registry!Kind(r) = "deleteAll" -> "delete"
                     [] requestPc[r] = "resolve" /\ Registry!Kind(r) = "delete" -> "read" [] OTHER -> "list"
<1>1. TagTypes /\ RequestInv(r)
  BY DEF TagIInv
<1>2. /\ UNCHANGED <<requests, tags, manifests, last, requestCanceled, mutation, done, published, survivors, replaced, unsure>>
      /\ requestPc[r] \in {"read", "resolve"} /\ ~Registry!Imports(r) /\ disturbed' = [disturbed EXCEPT ![r] = {}]
      /\ Source(r) \in Tags /\ requestStatus[r] = "active" /\ mutation # r
      /\ Registry!Kind(r) \in {"copy", "rename", "delete", "deleteAll"} /\ (requestPc[r] = "read" => Registry!Kind(r) # "deleteAll")
  BY <1>1, RequestFacts
     DEF Registry!Read, Registry!registry, Registry!Looks, RequestInv, InPhase, Holding, TagTypes,
         Registry!Imports
<1>3. disturbed'[r] = {} /\ disturbed' \in [Registry!Requests -> SUBSET Tags]
      /\ \A s \in Registry!Requests \ {r} : disturbed'[s] = disturbed[s]
  BY <1>1, <1>2 DEF TagTypes
<1>4. \A x \in Tags : last[x] # r
  BY <1>1, <1>2 DEF RequestInv, TagUntouched
<1>5. CASE requestPc' = [requestPc EXCEPT ![r] = "left"] /\ requestStatus' = [requestStatus EXCEPT ![r] = "failed"] /\ digest' = digest
  <2>1. TagTypes' /\ Others(r, {})
    BY <1>1, <1>2, <1>3, <1>5 DEF TagTypes, Registry!Requests, TagPCs, TagStatuses, Others, Same
  <2>2. requestPc'[r] = "left" /\ requestStatus'[r] = "failed"
    BY <1>1, <1>5 DEF TagTypes
  <2>3. InPhase(r)' /\ TagUntouched(r)' /\ Removed(r)' /\ Changed(r)'
    BY <1>1, <1>2, <1>4, <2>2, SameRequests
       DEF RequestInv, InPhase, TagUntouched, Removed, Changed, Succeeded, Registry!Imports, Holding
  <2> QED BY <1>1, <1>2, <2>1, <2>2, <2>3, NoImport, StepInv DEF RequestInv, Refused
<1>6. CASE m # None /\ digest' = [digest EXCEPT ![r] = m] /\ requestPc' = [requestPc EXCEPT ![r] = next] /\ requestStatus' = requestStatus
  <2>1. m \in Manifests /\ next \in {"put", "delete", "read", "list"}
    BY <1>1, <1>2, <1>6 DEF TagTypes
  <2>2. /\ next = "put" <=> Registry!Kind(r) = "copy"
        /\ next = "delete" <=> Registry!Kind(r) = "deleteAll"
        /\ next = "read" => Registry!Kind(r) = "delete"
        /\ next = "list" => Registry!Kind(r) \in {"rename", "delete"}
    BY <1>2
  <2> HIDE DEF m, next
  <2>3. digest' \in [Registry!Requests -> Manifests \cup {None}] /\ requestPc' \in [Registry!Requests -> TagPCs]
    BY <1>1, <1>6, <2>1 DEF TagTypes, TagPCs
  <2>4. TagTypes' /\ Others(r, {})
    BY <1>1, <1>2, <1>3, <1>6, <2>3 DEF TagTypes, Registry!Requests, Others, Same
  <2>5. requestPc'[r] = next /\ digest'[r] = m /\ requestStatus'[r] = "active"
    BY <1>1, <1>2, <1>6 DEF TagTypes
  <2>6. InPhase(r)'
    BY <1>1, <1>2, <2>1, <2>2, <2>5, SameRequests
       DEF RequestInv, InPhase, Registry!Imports, Registry!IsCall, Holding
  <2>7. TagUntouched(r)' /\ Removed(r)'
    BY <1>2, <1>4, SameRequests DEF TagUntouched, Removed
  <2>8. Changed(r)'
    BY <1>2, <2>1, <2>2, <2>5, SameRequests DEF Changed, Succeeded, Registry!Is, m
  <2> QED BY <1>1, <1>2, <2>1, <2>4, <2>5, <2>6, <2>7, <2>8, NoImport, StepInv DEF RequestInv, Refused
<1> QED BY <1>5, <1>6 DEF Registry!Read, Registry!ChangeFails, Registry!Ends, Registry!GoTo, Source

LEMMA ListInv ==
  ASSUME Registry!RegistryTagsAssumption, TagIInv, NEW r \in Registry!Requests, Registry!List(r)
  PROVE  TagIInv'
<1>1. TagTypes /\ RequestInv(r)
  BY DEF TagIInv
<1>2. /\ UNCHANGED <<requests, tags, manifests, last, requestCanceled, requestStatus, mutation, done, published, digest>>
      /\ UNCHANGED <<disturbed, replaced, unsure>>
      /\ requestPc[r] = "list" /\ ~Registry!Imports(r) /\ requestStatus[r] = "active" /\ mutation # r
      /\ Registry!Kind(r) \in {"rename", "delete"} /\ digest[r] \in Manifests
      /\ requestPc' = [requestPc EXCEPT ![r] = "delete"] /\ survivors' = [survivors EXCEPT ![r] = Registry!Survivors(r)]
  BY <1>1 DEF Registry!List, Registry!GoTo, Registry!registry, Registry!history, RequestInv, InPhase, Holding
<1>3. Registry!Survivors(r) \subseteq Tags /\ Source(r) \notin Registry!Survivors(r) /\ Target(r) \notin Registry!Survivors(r)
  BY DEF Registry!Survivors, Source, Target
<1>4. TagTypes' /\ Others(r, {})
  <2>1. requestPc' \in [Registry!Requests -> TagPCs] /\ survivors' \in [Registry!Requests -> SUBSET Tags]
    BY <1>1, <1>2, <1>3 DEF TagTypes, TagPCs
  <2> QED BY <1>1, <1>2, <2>1 DEF TagTypes, Registry!Requests, Others, Same
<1>5. requestPc'[r] = "delete" /\ survivors'[r] = Registry!Survivors(r) /\ Registry!Survivors(r)' = Registry!Survivors(r)
  BY <1>1, <1>2 DEF TagTypes, Registry!Survivors
<1>6. InPhase(r)' /\ TagUntouched(r)' /\ Removed(r)' /\ Changed(r)'
  BY <1>1, <1>2, <1>3, <1>5, SameRequests
     DEF RequestInv, InPhase, TagUntouched, Removed, Changed, Succeeded, Registry!Is, Registry!Imports,
         Registry!IsCall, Holding
<1> QED BY <1>1, <1>2, <1>4, <1>5, <1>6, NoImport, StepInv DEF RequestInv, Refused

LEMMA ShutdownInv == ASSUME Registry!RegistryTagsAssumption, TagIInv, Registry!Shutdown PROVE TagIInv'
<1>1. TagTypes
  BY DEF TagIInv
<1>2. /\ UNCHANGED <<requests, tags, manifests, last, requestStatus, mutation, done, published, digest, survivors>>
      /\ UNCHANGED <<disturbed, replaced, unsure>>
      /\ requestPc' = [r \in Registry!Requests |-> IF requestPc[r] = "asked" THEN "quit" ELSE requestPc[r]]
      /\ requestCanceled' = [r \in Registry!Requests |-> requestCanceled[r] \/ Registry!AtWork(r)]
  BY DEF Registry!Shutdown, Registry!registry, Registry!history
<1>3. TagTypes'
  <2>1. requestPc' \in [Registry!Requests -> TagPCs]
    BY <1>1, <1>2 DEF TagTypes, TagPCs
  <2>2. requestCanceled' \in [Registry!Requests -> BOOLEAN]
    <3>1. \A r \in Registry!Requests : (requestCanceled[r] \/ Registry!AtWork(r)) \in BOOLEAN
      BY <1>1 DEF TagTypes, Registry!AtWork
    <3> QED BY <1>2, <3>1
  <2> QED BY <1>1, <1>2, <2>1, <2>2 DEF TagTypes, Registry!Requests
<1>4. ASSUME NEW r \in Registry!Requests PROVE RequestInv(r)' /\ Refused(r)'
  <2>1. RequestInv(r) /\ Refused(r)
    BY DEF TagIInv
  <2>2. requestPc'[r] = requestPc[r] \/ (requestPc[r] = "asked" /\ requestPc'[r] = "quit")
    BY <1>2
  <2>3. InPhase(r)' /\ TagUntouched(r)' /\ Known(r)' /\ Ahead(r)' /\ Resumable(r)' /\ Replaced(r)'
    BY <1>2, <2>1, <2>2, SameRequests
       DEF RequestInv, InPhase, TagUntouched, Known, Ahead, Resumable, Replaced, Registry!Imports,
           Registry!IsCall, Holding
  <2>4. Removed(r)' /\ Changed(r)' /\ Behind(r)'
    BY <1>2, <2>1, <2>2, SameRequests
       DEF RequestInv, Removed, Changed, Behind, Succeeded, Registry!Is, Registry!Survivors
  <2>5. Refused(r)'
    BY <1>1, <1>2, <2>1, <2>2, SameRequests, RequestFacts DEF Refused, TagTypes
  <2> QED BY <2>3, <2>4, <2>5 DEF RequestInv
<1> QED BY <1>2, <1>3, <1>4, SameRequests DEF TagIInv

LEMMA KilledInv == ASSUME Registry!RegistryTagsAssumption, TagIInv, Registry!Killed PROVE TagIInv'
<1>1. TagTypes
  BY DEF TagIInv
<1>2. /\ UNCHANGED <<requests, tags, manifests, last, requestStatus, requestCanceled, done, published, digest, survivors>>
      /\ UNCHANGED <<disturbed, replaced, unsure>> /\ mutation' = Registry!Nobody
      /\ requestPc' = [r \in Registry!Requests |-> IF requestPc[r] \in {"refused", "left"} THEN requestPc[r] ELSE "quit"]
  BY DEF Registry!Killed, Registry!registry, Registry!history
<1>3. TagTypes'
  <2>1. requestPc' \in [Registry!Requests -> TagPCs]
    BY <1>1, <1>2 DEF TagTypes, TagPCs
  <2> QED BY <1>1, <1>2, <2>1 DEF TagTypes, Registry!Requests
<1>4. ASSUME NEW r \in Registry!Requests PROVE RequestInv(r)' /\ Refused(r)'
  <2>1. RequestInv(r) /\ Refused(r) /\ r # Registry!Nobody
    BY <1>1, RequestFacts DEF TagIInv, TagTypes
  <2>2. (requestPc'[r] = requestPc[r] /\ requestPc[r] \in {"refused", "left"}) \/ (requestPc[r] \notin {"refused", "left"} /\ requestPc'[r] = "quit")
    BY <1>2
  <2>3. InPhase(r)' /\ TagUntouched(r)' /\ Known(r)' /\ Ahead(r)' /\ Resumable(r)' /\ Replaced(r)'
    BY <1>2, <2>1, <2>2, SameRequests
       DEF RequestInv, InPhase, TagUntouched, Known, Ahead, Resumable, Replaced, Registry!Imports,
           Registry!IsCall, Holding
  <2>4. requestPc[r] # "left" => requestStatus[r] = "active"
    BY <2>1 DEF RequestInv, InPhase
  <2>5. Removed(r)' /\ Changed(r)' /\ Behind(r)'
    BY <1>2, <2>1, <2>2, <2>4, SameRequests
       DEF RequestInv, Removed, Changed, Behind, Succeeded, Registry!Is, Registry!Survivors
  <2>6. Refused(r)'
    BY <1>1, <1>2, <2>1, <2>2, SameRequests, RequestFacts DEF Refused, TagTypes
  <2> QED BY <2>3, <2>5, <2>6 DEF RequestInv
<1> QED BY <1>2, <1>3, <1>4, SameRequests DEF TagIInv

\* What r has put or removed, as the others see it.
RegistryTypes ==
  /\ manifests' \subseteq Manifests /\ tags' \in [Tags -> manifests' \cup {None}]
  /\ last' \in [Tags -> Registry!Requests \cup {Registry!Nobody}] /\ disturbed' \in [Registry!Requests -> SUBSET Tags]
Touched(r, xs) ==
  /\ xs \subseteq Tags /\ disturbed'[r] = disturbed[r]
  /\ \A x \in Tags \ xs : tags'[x] = tags[x] /\ last'[x] = last[x]
  /\ \A x \in xs : last'[x] = r
  /\ \A s \in Registry!Requests \ {r} : disturbed'[s] = disturbed[s] \cup xs

LEMMA WritesEffect ==
  ASSUME TagTypes, NEW r \in Registry!Requests, NEW x \in Tags, NEW m \in Manifests, Registry!Writes(r, x, m)
  PROVE  RegistryTypes /\ Touched(r, {x}) /\ tags'[x] = m
BY DEF Registry!Writes, Registry!Touches, TagTypes, RegistryTypes, Touched

LEMMA DeletesEffect ==
  ASSUME TagTypes, NEW r \in Registry!Requests, NEW m \in Manifests, Registry!DeletesManifest(r, m), None \notin Manifests
  PROVE  LET xs == {x \in Tags : tags[x] = m} IN
         RegistryTypes /\ Touched(r, xs) /\ \A x \in xs : tags'[x] = None
<1> DEFINE xs == {x \in Tags : tags[x] = m}
<1>1. /\ manifests' = manifests \ {m} /\ tags' = [x \in Tags |-> IF tags[x] = m THEN None ELSE tags[x]]
      /\ last' = [x \in Tags |-> IF x \in xs THEN r ELSE last[x]]
      /\ disturbed' = [s \in Registry!Requests |-> IF s = r THEN disturbed[s] ELSE disturbed[s] \cup xs]
  BY DEF Registry!DeletesManifest, Registry!Touches
<1>2. xs \subseteq Tags /\ \A x \in Tags : x \in xs <=> tags[x] = m
  OBVIOUS
<1> HIDE DEF xs
<1>3. RegistryTypes
  BY <1>1, <1>2 DEF TagTypes, RegistryTypes
<1>4. Touched(r, xs) /\ \A x \in xs : tags'[x] = None
  BY <1>1, <1>2 DEF TagTypes, Touched
<1> QED BY <1>3, <1>4 DEF xs

LEMMA DeleteInv ==
  ASSUME Registry!RegistryTagsAssumption, TagIInv, NEW r \in Registry!Requests, Registry!Delete(r)
  PROVE  TagIInv'
<1> DEFINE xs == {x \in Tags : tags[x] = digest[r]}
<1>1. TagTypes /\ RequestInv(r) /\ None \notin Manifests
  BY RequestFacts DEF TagIInv, TagTypes
<1>2. /\ UNCHANGED <<requests, requestCanceled, mutation, done, published, digest, survivors, replaced, unsure>>
      /\ requestPc[r] = "delete" /\ ~Registry!Imports(r) /\ requestStatus[r] = "active" /\ mutation # r /\ digest[r] \in Manifests
      /\ Registry!Kind(r) \in {"rename", "delete", "deleteAll"} /\ Registry!DeletesManifest(r, digest[r])
      /\ Source(r) \in Tags
  BY <1>1, RequestFacts DEF Registry!Delete, RequestInv, InPhase, Holding, Registry!Imports, TagTypes
<1>3. RegistryTypes /\ Touched(r, xs) /\ \A x \in xs : tags'[x] = None
  BY <1>1, <1>2, DeletesEffect
<1>4. /\ requestPc' = [requestPc EXCEPT ![r] = CASE Registry!Kind(r) = "deleteAll" -> "left" [] Registry!Kind(r) = "rename" -> "put" [] OTHER -> "restore"]
      /\ requestStatus' = IF Registry!Kind(r) = "deleteAll" THEN [requestStatus EXCEPT ![r] = "success"] ELSE requestStatus
  BY <1>2 DEF Registry!Delete, Registry!Ends, Registry!GoTo
<1>5. /\ requestPc'[r] = CASE Registry!Kind(r) = "deleteAll" -> "left" [] Registry!Kind(r) = "rename" -> "put" [] OTHER -> "restore"
      /\ requestStatus'[r] = IF Registry!Kind(r) = "deleteAll" THEN "success" ELSE "active"
  BY <1>1, <1>2, <1>4 DEF TagTypes
<1>6. TagTypes' /\ Others(r, xs)
  <2>1. requestPc' \in [Registry!Requests -> TagPCs] /\ requestStatus' \in [Registry!Requests -> TagStatuses]
    BY <1>1, <1>4 DEF TagTypes, TagPCs, TagStatuses
  <2>2. TagTypes'
    BY <1>1, <1>2, <1>3, <2>1 DEF TagTypes, RegistryTypes, Registry!Requests
  <2> QED BY <1>1, <1>2, <1>3, <1>4, <2>2 DEF Touched, TagTypes, Others, Same
<1>7. \A x \in Tags : x \in xs <=> tags[x] = digest[r]
  OBVIOUS
<1>8. \A x \in Tags : last[x] # r
  BY <1>1, <1>2 DEF RequestInv, TagUntouched
<1> HIDE DEF xs
<1>9. InPhase(r)' /\ TagUntouched(r)'
  BY <1>1, <1>2, <1>5, SameRequests
     DEF RequestInv, InPhase, TagUntouched, Registry!Imports, Registry!IsCall, Holding
<1>10. Removed(r)'
  <2> SUFFICES ASSUME NEW x \in Tags, last'[x] = r, Registry!Kind(r) # "deleteAll", x # Source(r), disturbed[r] = {}
               PROVE  \/ requestPc'[r] = "put" /\ x = Target(r)
                      \/ requestPc'[r] \in {"put", "restore"} /\ x \in survivors[r]
    BY <1>2, <1>3, SameRequests DEF Removed, Touched
  <2>1. tags[x] = digest[r]
    BY <1>3, <1>7, <1>8 DEF Touched
  <2>2. x \in survivors[r] \/ x = Target(r)
    BY <1>1, <1>2, <2>1 DEF RequestInv, Changed, Registry!Survivors, Source, Target
  <2>3. x = Target(r) => Registry!Kind(r) = "rename"
    BY <1>1, <1>2, RequestFacts DEF Registry!IsCall, TagTypes
  <2> QED BY <1>2, <1>5, <2>2, <2>3
<1>11. Changed(r)'
  <2>1. tags[Source(r)] = digest[r] \/ Source(r) \in disturbed[r]
    BY <1>1, <1>2 DEF RequestInv, Changed, Registry!Is
  <2>2. tags'[Source(r)] = None \/ Source(r) \in disturbed'[r]
    BY <1>2, <1>3, <1>7, <2>1 DEF Touched
  <2> QED BY <1>2, <1>5, <2>2, SameRequests DEF Changed, Succeeded, Registry!Is
<1> QED BY <1>1, <1>2, <1>5, <1>6, <1>9, <1>10, <1>11, NoImport, StepInv DEF RequestInv, Refused

LEMMA PutTargetInv ==
  ASSUME Registry!RegistryTagsAssumption, TagIInv, NEW r \in Registry!Requests, Registry!PutTarget(r)
  PROVE  TagIInv'
<1>1. TagTypes /\ RequestInv(r) /\ None \notin Manifests
  BY RequestFacts DEF TagIInv, TagTypes
<1>2. /\ UNCHANGED <<requests, requestCanceled, mutation, done, published, digest, survivors, replaced, unsure>>
      /\ requestPc[r] = "put" /\ ~Registry!Imports(r) /\ requestStatus[r] = "active" /\ mutation # r /\ digest[r] \in Manifests
      /\ Registry!Kind(r) \in {"rename", "copy"} /\ Registry!Writes(r, Target(r), digest[r])
      /\ Source(r) \in Tags /\ Target(r) \in Tags /\ Source(r) # Target(r)
  BY <1>1, RequestFacts DEF Registry!PutTarget, RequestInv, InPhase, Holding, Registry!Imports, TagTypes, Target
<1>3. RegistryTypes /\ Touched(r, {Target(r)}) /\ tags'[Target(r)] = digest[r]
  BY <1>1, <1>2, WritesEffect
<1>4. \/ Registry!Kind(r) = "rename" /\ requestPc' = [requestPc EXCEPT ![r] = "restore"] /\ requestStatus' = requestStatus
      \/ Registry!Kind(r) = "copy" /\ requestPc' = [requestPc EXCEPT ![r] = "left"] /\ requestStatus' = [requestStatus EXCEPT ![r] = "success"]
  BY <1>2 DEF Registry!PutTarget, Registry!Ends, Registry!GoTo
<1>5. \/ Registry!Kind(r) = "rename" /\ requestPc'[r] = "restore" /\ requestStatus'[r] = "active"
      \/ Registry!Kind(r) = "copy" /\ requestPc'[r] = "left" /\ requestStatus'[r] = "success"
  BY <1>1, <1>2, <1>4 DEF TagTypes
<1>6. TagTypes' /\ Others(r, {Target(r)})
  <2>1. requestPc' \in [Registry!Requests -> TagPCs] /\ requestStatus' \in [Registry!Requests -> TagStatuses]
    BY <1>1, <1>4 DEF TagTypes, TagPCs, TagStatuses
  <2>2. TagTypes'
    BY <1>1, <1>2, <1>3, <2>1 DEF TagTypes, RegistryTypes, Registry!Requests
  <2> QED BY <1>1, <1>2, <1>3, <1>4, <2>2 DEF Touched, TagTypes, Others, Same
<1>7. InPhase(r)' /\ TagUntouched(r)'
  BY <1>1, <1>2, <1>5, SameRequests
     DEF RequestInv, InPhase, TagUntouched, Registry!Imports, Registry!IsCall, Holding
<1>8. Removed(r)'
  <2> SUFFICES ASSUME NEW x \in Tags, tags'[x] = None, last'[x] = r
               PROVE  /\ Registry!Kind(r) \in {"rename", "delete", "deleteAll"}
                      /\ \/ x = Source(r) \/ disturbed[r] # {}
                         \/ requestPc'[r] \in {"put", "restore"} /\ x \in survivors[r]
    BY <1>2, <1>3, SameRequests DEF Removed, Touched
  <2>1. x # Target(r) /\ tags[x] = None /\ last[x] = r
    BY <1>1, <1>2, <1>3 DEF Touched
  <2> QED BY <1>1, <1>2, <1>5, <2>1 DEF RequestInv, Removed
<1>9. Changed(r)'
  <2>1. Registry!Kind(r) = "rename" => tags[Source(r)] = None \/ Source(r) \in disturbed[r]
    BY <1>1, <1>2 DEF RequestInv, Changed, Registry!Is
  <2>2. Registry!Kind(r) = "rename" => tags'[Source(r)] = None \/ Source(r) \in disturbed'[r]
    BY <1>2, <1>3, <2>1 DEF Touched
  <2> QED BY <1>2, <1>3, <1>5, <2>2, SameRequests DEF Changed, Succeeded, Registry!Is
<1> QED BY <1>1, <1>2, <1>5, <1>6, <1>7, <1>8, <1>9, NoImport, StepInv DEF RequestInv, Refused

LEMMA RestoreInv ==
  ASSUME Registry!RegistryTagsAssumption, TagIInv, NEW r \in Registry!Requests, Registry!Restore(r)
  PROVE  TagIInv'
<1>1. TagTypes /\ RequestInv(r) /\ None \notin Manifests
  BY RequestFacts DEF TagIInv, TagTypes
<1>2. /\ UNCHANGED <<requests, requestCanceled, mutation, done, published, digest, replaced, unsure>>
      /\ requestPc[r] = "restore" /\ ~Registry!Imports(r) /\ requestStatus[r] = "active" /\ mutation # r /\ digest[r] \in Manifests
      /\ Registry!Kind(r) \in {"rename", "delete"} /\ survivors[r] \subseteq Tags
      /\ Source(r) \in Tags /\ Source(r) \notin survivors[r] /\ Target(r) \notin survivors[r]
      /\ Registry!Kind(r) = "rename" => Target(r) \in Tags
  BY <1>1, RequestFacts DEF Registry!Restore, RequestInv, InPhase, Holding, Registry!Imports, TagTypes
<1>3. CASE survivors[r] = {} /\ Registry!Ends(r, "success") /\ Registry!Idles /\ survivors' = survivors
  <2>1. /\ requestPc' = [requestPc EXCEPT ![r] = "left"] /\ requestStatus' = [requestStatus EXCEPT ![r] = "success"]
        /\ UNCHANGED <<tags, manifests, last, disturbed>>
    BY <1>3 DEF Registry!Ends, Registry!GoTo, Registry!Idles, Registry!registry
  <2>2. TagTypes' /\ Others(r, {}) /\ requestPc'[r] = "left" /\ requestStatus'[r] = "success"
    BY <1>1, <1>2, <1>3, <2>1 DEF TagTypes, Registry!Requests, TagPCs, TagStatuses, Others, Same
  <2>3. InPhase(r)' /\ TagUntouched(r)' /\ Removed(r)' /\ Changed(r)'
    BY <1>1, <1>2, <1>3, <2>1, <2>2, SameRequests
       DEF RequestInv, InPhase, TagUntouched, Removed, Changed, Succeeded, Registry!Is, Registry!Imports,
           Registry!IsCall, Holding
  <2> QED BY <1>1, <1>2, <2>2, <2>3, NoImport, StepInv DEF RequestInv, Refused
<1>4. ASSUME NEW x \in survivors[r], Registry!Writes(r, x, digest[r]), survivors' = [survivors EXCEPT ![r] = @ \ {x}],
             UNCHANGED <<requestPc, requestStatus>>
      PROVE  TagIInv'
  <2>1. RegistryTypes /\ Touched(r, {x}) /\ tags'[x] = digest[r]
    BY <1>1, <1>2, <1>4, WritesEffect
  <2>2. TagTypes' /\ Others(r, {x}) /\ survivors'[r] = survivors[r] \ {x}
    <3>1. survivors' \in [Registry!Requests -> SUBSET Tags] /\ survivors'[r] = survivors[r] \ {x}
      BY <1>1, <1>4 DEF TagTypes
    <3>2. TagTypes'
      BY <1>1, <1>2, <1>4, <2>1, <3>1 DEF TagTypes, RegistryTypes, Registry!Requests
    <3> QED BY <1>1, <1>2, <1>4, <2>1, <3>1, <3>2 DEF Touched, TagTypes, Others, Same
  <2>3. InPhase(r)' /\ TagUntouched(r)'
    BY <1>1, <1>2, <1>4, <2>2, SameRequests
       DEF RequestInv, InPhase, TagUntouched, Registry!Imports, Registry!IsCall, Holding
  <2>4. Removed(r)'
    <3> SUFFICES ASSUME NEW y \in Tags, tags'[y] = None, last'[y] = r
                 PROVE  y = Source(r) \/ disturbed[r] # {} \/ y \in survivors'[r]
      BY <1>2, <1>4, <2>1, SameRequests DEF Removed, Touched
    <3>1. y # x /\ tags[y] = None /\ last[y] = r
      BY <1>1, <1>2, <2>1 DEF Touched
    <3> QED BY <1>1, <1>2, <2>2, <3>1 DEF RequestInv, Removed
  <2>5. Changed(r)'
    <3>1. /\ tags[Source(r)] = None \/ Source(r) \in disturbed[r]
          /\ Registry!Kind(r) = "rename" => tags[Target(r)] = digest[r] \/ Target(r) \in disturbed[r]
      BY <1>1, <1>2 DEF RequestInv, Changed, Registry!Is
    <3> QED BY <1>2, <1>4, <2>1, <3>1, SameRequests DEF Changed, Succeeded, Registry!Is, Touched
  <2> QED BY <1>1, <1>2, <1>4, <2>2, <2>3, <2>4, <2>5, NoImport, StepInv DEF RequestInv, Refused
<1> QED BY <1>3, <1>4 DEF Registry!Restore

LEMMA OperationFailsInv ==
  ASSUME Registry!RegistryTagsAssumption, TagIInv, NEW r \in Registry!Requests, Registry!OperationFails(r)
  PROVE  TagIInv'
<1>1. TagTypes /\ RequestInv(r) /\ None \notin Manifests
  BY RequestFacts DEF TagIInv, TagTypes
<1>2. /\ UNCHANGED <<requests, requestCanceled, mutation, done, published, digest, survivors, replaced, unsure>>
      /\ requestPc[r] \in {"read", "resolve", "list", "delete", "put", "restore"} /\ ~Registry!Imports(r) /\ mutation # r
      /\ requestPc' = [requestPc EXCEPT ![r] = "left"] /\ requestStatus' = [requestStatus EXCEPT ![r] = "failed"]
  BY <1>1
     DEF Registry!OperationFails, Registry!ChangeFails, Registry!Ends, Registry!GoTo, RequestInv, InPhase,
         Holding
<1>3. requestPc'[r] = "left" /\ requestStatus'[r] = "failed"
  BY <1>1, <1>2 DEF TagTypes
<1>4. ASSUME NEW xs, RegistryTypes, Touched(r, xs), xs = {} \/ Registry!Kind(r) \in {"rename", "delete", "deleteAll"}
                                                    \/ \A x \in xs : tags'[x] # None
      PROVE  TagIInv'
  <2>1. TagTypes' /\ Others(r, xs)
    <3>1. requestPc' \in [Registry!Requests -> TagPCs] /\ requestStatus' \in [Registry!Requests -> TagStatuses]
      BY <1>1, <1>2 DEF TagTypes, TagPCs, TagStatuses
    <3>2. TagTypes'
      BY <1>1, <1>2, <1>4, <3>1 DEF TagTypes, RegistryTypes, Registry!Requests
    <3> QED BY <1>1, <1>2, <1>4, <3>2 DEF Touched, TagTypes, Others, Same
  <2>2. Removed(r)'
    <3> SUFFICES ASSUME NEW x \in Tags, tags'[x] = None, last'[x] = r
                 PROVE  Registry!Kind(r) \in {"rename", "delete", "deleteAll"}
      BY <1>2, <1>3, SameRequests DEF Removed
    <3> QED BY <1>1, <1>4 DEF RequestInv, Removed, Touched
  <2>3. InPhase(r)' /\ TagUntouched(r)' /\ Changed(r)'
    BY <1>1, <1>2, <1>3, SameRequests
       DEF RequestInv, InPhase, TagUntouched, Changed, Succeeded, Registry!Imports, Registry!IsCall, Holding
  <2> QED BY <1>1, <1>2, <1>3, <2>1, <2>2, <2>3, NoImport, StepInv DEF RequestInv, Refused
<1>5. CASE Registry!Idles
  <2>1. RegistryTypes /\ Touched(r, {})
    BY <1>1, <1>5 DEF Registry!Idles, Registry!registry, TagTypes, RegistryTypes, Touched
  <2> QED BY <1>4, <2>1
<1>6. requestPc[r] \in {"delete", "put", "restore"} => digest[r] \in Manifests
  BY <1>1 DEF RequestInv, InPhase
<1>7. CASE requestPc[r] = "delete" /\ Registry!DeletesManifest(r, digest[r])
  <2>1. Registry!Kind(r) \in {"rename", "delete", "deleteAll"}
    BY <1>1, <1>2, <1>7, RequestFacts DEF RequestInv, InPhase, TagTypes, Registry!Imports
  <2> QED BY <1>1, <1>4, <1>6, <1>7, <2>1, DeletesEffect
<1>8. CASE requestPc[r] = "put" /\ Registry!Writes(r, requests[r].target, digest[r])
  <2>1. Target(r) \in Tags
    BY <1>1, <1>8, RequestFacts DEF RequestInv, InPhase, TagTypes
  <2>2. RegistryTypes /\ Touched(r, {Target(r)}) /\ tags'[Target(r)] = digest[r]
    BY <1>1, <1>6, <1>8, <2>1, WritesEffect DEF Target
  <2> QED BY <1>1, <1>4, <1>6, <1>8, <2>2
<1>9. CASE requestPc[r] = "restore" /\ \E x \in survivors[r] : Registry!Writes(r, x, digest[r])
  <2>1. PICK x \in survivors[r] : Registry!Writes(r, x, digest[r])
    BY <1>9
  <2>2. RegistryTypes /\ Touched(r, {x}) /\ tags'[x] = digest[r]
    BY <1>1, <1>6, <1>9, <2>1, WritesEffect DEF TagTypes
  <2> QED BY <1>1, <1>4, <1>6, <1>9, <2>2
<1> QED BY <1>5, <1>7, <1>8, <1>9 DEF Registry!OperationFails

LEMMA TagNextInv == ASSUME Registry!RegistryTagsAssumption, TagIInv, [Registry!Next]_tagVars PROVE TagIInv'
<1>1. CASE UNCHANGED tagVars
  <2>1. UNCHANGED <<requests, tags, manifests, requestPc, requestCanceled, requestStatus, mutation, done, published, digest>>
    BY <1>1 DEF tagVars, Registry!registry, Registry!task, Registry!history
  <2>2. UNCHANGED <<survivors, last, disturbed, replaced, unsure>>
    BY <1>1 DEF tagVars, Registry!registry, Registry!task, Registry!history
  <2>3. TagTypes'
    BY <2>1, <2>2 DEF TagIInv, TagTypes, Registry!Requests
  <2>4. ASSUME NEW r \in Registry!Requests PROVE RequestInv(r)' /\ Refused(r)'
    <3>1. RequestInv(r) /\ Refused(r)
      BY DEF TagIInv
    <3>2. InPhase(r)' /\ TagUntouched(r)' /\ Known(r)' /\ Ahead(r)' /\ Resumable(r)' /\ Replaced(r)'
      BY <2>1, <2>2, <3>1, SameRequests
         DEF RequestInv, InPhase, TagUntouched, Known, Ahead, Resumable, Replaced, Registry!Imports,
             Registry!IsCall, Holding
    <3>3. Removed(r)' /\ Changed(r)' /\ Behind(r)'
      BY <2>1, <2>2, <3>1, SameRequests
         DEF RequestInv, Removed, Changed, Behind, Succeeded, Registry!Is, Registry!Survivors
    <3>4. Refused(r)'
      BY <2>1, <2>2, <3>1, SameRequests DEF Refused
    <3> QED BY <3>2, <3>3, <3>4 DEF RequestInv
  <2> QED BY <2>1, <2>3, <2>4, SameRequests DEF TagIInv
<1>2. ASSUME NEW r \in Registry!Requests,
             \/ Registry!Ask(r) \/ Registry!AskChange(r) \/ Registry!Begin(r) \/ Registry!CanceledInTime(r) \/ Registry!Cancel(r)
             \/ Registry!Acquire(r) \/ Registry!Check(r) \/ Registry!NextPut(r) \/ Registry!WriteTag(r) \/ Registry!WriteTagFails(r) \/ Registry!TransferFails(r)
             \/ Registry!Read(r) \/ Registry!List(r) \/ Registry!Delete(r) \/ Registry!PutTarget(r) \/ Registry!Restore(r) \/ Registry!OperationFails(r)
      PROVE  TagIInv'
  BY <1>2, AskInv, AskChangeInv, BeginInv, CanceledInTimeInv, CancelInv, AcquireInv, TagCheckInv, NextPutInv,
     WriteTagInv,
     WriteTagFailsInv, TransferFailsInv, ReadInv, ListInv, DeleteInv, PutTargetInv, RestoreInv, OperationFailsInv
<1> QED BY <1>1, <1>2, ShutdownInv, KilledInv DEF Registry!Next

LEMMA TagInvariants ==
  ASSUME Registry!RegistryTagsAssumption, TagIInv
  PROVE  Registry!TypeOK /\ Registry!LossIsAnnounced /\ Registry!DeliveredWhenDone
<1>1. TagTypes /\ \A r \in Registry!Requests : RequestInv(r) /\ Refused(r) /\ r # Registry!Nobody
  BY RequestFacts DEF TagIInv, TagTypes
<1>2. Registry!TypeOK
  BY <1>1 DEF Registry!TypeOK, TagTypes, RequestInv, InPhase, Registry!Imports, TagPCs, TagStatuses, Puts
<1>3. Registry!LossIsAnnounced
  <2>1. ASSUME NEW x \in Registry!Gone
        PROVE  Registry!Meant(x) \/ requestStatus[last[x]] # "success" \/ disturbed[last[x]] # {}
    <3>1. x \in Tags /\ tags[x] = None /\ last[x] \in Registry!Requests
      BY <1>1 DEF Registry!Gone, TagTypes
    <3>2. Removed(last[x]) /\ InPhase(last[x])
      BY <1>1, <3>1 DEF RequestInv
    <3> QED BY <3>1, <3>2 DEF Removed, InPhase, Registry!Meant, Registry!Imports, Source
  <2> QED BY <1>1, <2>1 DEF Registry!LossIsAnnounced, RequestInv, Replaced
<1>4. Registry!DeliveredWhenDone
  <2>1. ASSUME NEW r \in Registry!Requests PROVE Registry!Delivered(r)
    <3>1. InPhase(r) /\ Changed(r) /\ Behind(r) /\ r \in Registry!Requests
      BY <1>1 DEF RequestInv
    <3>2. Registry!Kind(r) \in {"import", "pull", "retry", "copy", "rename", "delete", "deleteAll"}
      BY <1>1, RequestFacts DEF TagTypes
    <3> QED
      BY <3>1, <3>2
         DEF Registry!Delivered, Changed, Behind, Succeeded, Registry!Imports, Source, Target, Puts
  <2>2. ASSUME NEW r \in Registry!Requests PROVE Registry!Retryable(r)
    BY <1>1 DEF Registry!Retryable, Refused
  <2>3. mutation # Registry!Nobody => Registry!AtWork(mutation)
    BY <1>1 DEF TagTypes, RequestInv, InPhase, Holding, Registry!AtWork
  <2> QED BY <2>1, <2>2, <2>3 DEF Registry!DeliveredWhenDone
<1> QED BY <1>2, <1>3, <1>4

-----------------------------------------------------------------------------
(***************************************************************************)
(* All of them.  In each behaviour one is used, and its invariant is kept. *)
(***************************************************************************)
AllInv ==
  /\ used \in {"sessions", "host", "files", "exports", "tags"}
  /\ used = "host" => HostIInv /\ QInv
  /\ used = "files" => FilesP!IInv
  /\ used = "exports" => ExportIInv
  /\ used = "tags" => TagIInv

LEMMA AllInitInv ==
  ASSUME TransfersAssumption, AllInit
  PROVE  AllInv
<1>1. used \in {"sessions", "host", "files", "exports", "tags"}
  BY DEF AllInit
<1>2. used = "host" => HostIInv /\ QInv
  BY HostInitInv, InitQuiet DEF AllInit, TransfersAssumption
<1>3. used = "files" => FilesP!IInv
  BY FilesInitInv DEF AllInit, TransfersAssumption
<1>4. used = "exports" => ExportIInv
  BY ExportInitInv DEF AllInit, TransfersAssumption
<1>5. used = "tags" => TagIInv
  BY TagInitInv DEF AllInit, TransfersAssumption
<1> QED BY <1>1, <1>2, <1>3, <1>4, <1>5 DEF AllInv

LEMMA AllNextInv ==
  ASSUME TransfersAssumption, AllInv, [AllNext]_allVars
  PROVE  AllInv'
<1>1. used' = used
  BY DEF AllNext, allVars
<1>2. used = "host" => [Host!Next]_hostVars
  BY DEF AllNext, allVars
<1>3. used = "files" => [Files!Next]_fileVars
  BY DEF AllNext, allVars
<1>4. used = "exports" => [Exports!Next]_exportVars
  BY DEF AllNext, allVars
<1>5. used = "tags" => [Registry!Next]_tagVars
  BY DEF AllNext, allVars
<1>6. used = "host" => HostIInv' /\ QInv'
  BY <1>2, HostNextInv, NextQuiet DEF AllInv, TransfersAssumption
<1>7. used = "files" => FilesP!IInv'
  BY <1>3, FilesNextInv DEF AllInv, TransfersAssumption
<1>8. used = "exports" => ExportIInv'
  BY <1>4, ExportNextInv DEF AllInv, TransfersAssumption
<1>9. used = "tags" => TagIInv'
  BY <1>5, TagNextInv DEF AllInv, TransfersAssumption
<1> QED BY <1>1, <1>6, <1>7, <1>8, <1>9 DEF AllInv

\* The invariant is one of the specification.
THEOREM Invariance ==
  ASSUME TransfersAssumption
  PROVE  AllSpec => []AllInv
<1>1. AllInit => AllInv
  BY AllInitInv
<1>2. AllInv /\ [AllNext]_allVars => AllInv'
  BY AllNextInv
<1> QED BY <1>1, <1>2, PTL DEF AllSpec

\* The variables have the values the code gives them, and what is on a host
\* stays a tree, whatever failed in it.
THEOREM Types ==
  ASSUME TransfersAssumption
  PROVE  AllSpec => []TransfersOK
<1>1. AllInv => TransfersOK
  BY HostInvariants, FilesInvariants, ExportInvariants, TagInvariants
     DEF AllInv, TransfersOK, TransfersAssumption
<1> QED BY <1>1, Invariance, PTL

\* sshfileoperations.go, sshfileupload.go, sshfiledownload.go, imageexport.go,
\* imageimport.go, imageoperations.go: wherever a copy, a move, an upload, a
\* download, an export, an import or a change of tags fails, is stopped or
\* breaks off, nothing is lost or replaced by a part of something else but what
\* the user agreed to overwrite or to remove, as long as the changes of tags do
\* not cross.
THEOREM LossAnnounced ==
  ASSUME TransfersAssumption
  PROVE  AllSpec => []LossIsAnnounced
<1>1. AllInv => LossIsAnnounced
  BY HostInvariants, FilesInvariants, ExportInvariants, TagInvariants
     DEF AllInv, LossIsAnnounced, TransfersAssumption
<1> QED BY <1>1, Invariance, PTL

\* The same files: what reports success has put everything, complete, where it
\* belongs, and what is over, or was canceled, leaves nothing behind.
THEOREM Delivery ==
  ASSUME TransfersAssumption
  PROVE  AllSpec => []DeliveredWhenDone
<1>1. AllInv => DeliveredWhenDone
  BY Delivers, FilesInvariants, ExportInvariants, TagInvariants
     DEF AllInv, DeliveredWhenDone, TransfersAssumption
<1> QED BY <1>1, Invariance, PTL
=============================================================================
