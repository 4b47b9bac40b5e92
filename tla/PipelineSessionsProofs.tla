----------------------- MODULE PipelineSessionsProofs -----------------------
(***************************************************************************)
(* Proofs about PipelineSessions for every set of documents and rules,     *)
(* every normal form and capacity, and any number of sessions and moves.   *)
(*                                                                         *)
(* What the window shows is the result of what it shows next to it because *)
(* three parties agree.  What the hook believes to have sent is what the   *)
(* session holds, if it also knows the session's pair (BaseFits) - so an   *)
(* update that leaves out what has not changed is either refused or        *)
(* completed correctly (AnswerFits).  The results of the last update, on   *)
(* the way or shown, are those of what was sent with it (ResultsFit,       *)
(* ShownFits).  And a hook at rest has sent what is on the screen          *)
(* (Settled).  An answer that is taken for the wrong session does no harm  *)
(* here, as the session it is taken for has not been used yet (Given).     *)
(***************************************************************************)
EXTENDS PipelineSessions, SequenceTheorems, TLAPS

OrNone(S) == S \cup {None}
States == [pair : Pair, source : Sources, rules : Rules, ran : BOOLEAN, cancel : OrNone(Nat)]
Jobs == [session : Sessions, mutation : Nat, pair : Pair, source : Sources, rules : Rules,
         canceled : BOOLEAN]
Results == [session : Sessions, mutation : Nat, pair : Pair, source : Sources, rules : Rules]
Sent == [source : OrNone(Sources), rules : OrNone(Rules)]
Openings == [why : Nat, session : OrNone(Sessions)]

BackendTyped ==
  /\ opened \in 0..MaxSessions /\ state \in [Sessions -> States]
  /\ jobs \subseteq Jobs /\ events \subseteq Results /\ closing \subseteq 1..opened
HookTyped ==
  /\ enabled \in BOOLEAN /\ desired \in Content /\ session \in OrNone(Sessions)
  /\ base \in Pair /\ sent \in Sent /\ call \in OrNone(Calls) /\ mutation \in Nat
  /\ timer \in BOOLEAN /\ opening \subseteq Openings
  /\ status \in {"off", "loading", "shown"} /\ shown \in OrNone(Content)
  /\ moves \in Nat

\* The table lists sessions that have been opened, each once.
Distinct(t) == \A i, j \in 1..Len(t) : t[i] = t[j] => i = j
Listed ==
  /\ table \in Seq(Sessions) /\ Distinct(table) /\ Len(table) <= Capacity
  /\ \A i \in 1..Len(table) : table[i] <= opened

Doing(p) == call # None /\ call.phase = p
Accepted == Doing("acked") /\ call.ack = "accepted"

\* No result is of an update that is yet to be made.
Counted ==
  /\ \A j \in jobs \cup events : j.mutation <= mutation
  /\ call # None => call.mutation = mutation
  /\ status = "shown" => shown # None

\* A session whose pair is the first one holds what it began with; its
\* rules are in their normal form.
Untouched(s) == state[s].pair = NoPair
Canonical ==
  \A s \in Sessions :
    /\ Untouched(s) => state[s].source = NoSource /\ state[s].rules = NoRules
    /\ Normal[state[s].rules] = state[s].rules

\* Sessions are handed out one by one.  Those on their way to the hook, and
\* the one it has got while a call of the one before is under way, have not
\* been used; only a call that was told its session is missing waits for one.
Given ==
  /\ session # None => session <= opened
  /\ call # None => call.session <= opened
  /\ \A j \in jobs \cup events : j.session <= opened
  /\ \A s \in Sessions : s > opened => Untouched(s)
  /\ call # None /\ session # None /\ session # call.session => Untouched(session)
Waiting ==
  /\ \A o \in opening : o.session # None =>
       /\ o.session <= opened /\ Untouched(o.session)
       /\ o.session # session /\ (call # None => o.session # call.session)
       /\ \A p \in opening : p.session = o.session => p = o
  /\ \A o, p \in opening : o.why = 0 => Doing("reopening") /\ (p.why = 0 => p = o)

\* What the hook will have sent once the call under way is answered, and
\* what agrees with that as far as it is known.
WantedSource == IF call = None \/ call.source = None THEN sent.source ELSE call.source
WantedRules == IF call = None \/ call.rules = None THEN sent.rules ELSE call.rules
Fits(c) ==
  /\ WantedSource # None => c.source = WantedSource
  /\ WantedRules # None => c.rules = Normal[WantedRules]

\* The results of the last update are of what its session holds, and of what
\* was sent.
ResultsFit ==
  \A e \in jobs \cup events : e.mutation = mutation =>
    /\ Fits(e) /\ (call # None => Accepted)
    /\ state[e.session].pair = e.pair
    /\ state[e.session].source = e.source /\ state[e.session].rules = e.rules
ShownFits == status = "shown" => Fits(shown) /\ (call # None => Accepted)

\* An update leaves out what its session holds, if it is accepted.
AnswerFits ==
  call # None =>
    LET old == state[call.session] IN
    /\ call.phase \in {"sent", "found"} /\ call.base = old.pair =>
         /\ call.source = None /\ sent.source # None => old.source = sent.source
         /\ call.rules = None /\ sent.rules # None => old.rules = Normal[sent.rules]
    /\ call.phase = "acked" /\ call.ack \in {"accepted", "unchanged"} =>
         call.pair = old.pair /\ Fits(old)
BaseFits == call = None /\ session # None /\ base = state[session].pair => Fits(state[session])

\* With nothing under way, what is on the screen has been sent.
Settled == ~timer /\ call = None /\ enabled /\ session # None => ~Differs(sent)

IInv ==
  /\ BackendTyped /\ HookTyped /\ Listed
  /\ Counted /\ Canonical /\ Given /\ Waiting
  /\ ResultsFit /\ ShownFits /\ AnswerFits /\ BaseFits /\ Settled

-----------------------------------------------------------------------------
(* The table. *)

\* Taking a session out, and putting one at the end.
LEMMA WithoutKeeps ==
  ASSUME table \in Seq(Sessions), Distinct(table), NEW s \in Sessions
  PROVE  /\ Without(s) \in Seq(Sessions) /\ Distinct(Without(s))
         /\ Len(Without(s)) <= Len(table)
         /\ Live(s) => Len(Without(s)) = Len(table) - 1
         /\ \A i \in 1..Len(Without(s)) :
              Without(s)[i] # s /\ \E j \in 1..Len(table) : Without(s)[i] = table[j]
<1>1. Len(table) \in Nat /\ DOMAIN table = 1..Len(table) /\ \A i \in 1..Len(table) : table[i] \in Sessions
  <2>1. Len(table) \in Nat /\ DOMAIN table = 1..Len(table) /\ table \in [1..Len(table) -> Sessions]
    BY LenProperties
  <2> QED
    BY <2>1
<1>2. CASE ~Live(s)
  <2>1. Without(s) = table /\ \A j \in 1..Len(table) : table[j] # s
    BY <1>1, <1>2 DEF Without, Live, Range
  <2>2. \A i \in 1..Len(table) : table[i] # s /\ \E j \in 1..Len(table) : table[i] = table[j]
    BY <2>1
  <2>3. Distinct(Without(s)) /\ Without(s) \in Seq(Sessions)
    BY <2>1
  <2>4. Len(Without(s)) <= Len(table)
    BY <1>1, <2>1
  <2>5. \A i \in 1..Len(Without(s)) :
          Without(s)[i] # s /\ \E j \in 1..Len(table) : Without(s)[i] = table[j]
    BY <2>1, <2>2
  <2> QED
    BY <1>2, <2>3, <2>4, <2>5
<1>3. CASE Live(s)
  <2> DEFINE k == CHOOSE i \in DOMAIN table : table[i] = s
             x == SubSeq(table, 1, k - 1)
             y == SubSeq(table, k + 1, Len(table))
  <2>1. k \in 1..Len(table) /\ table[k] = s
    BY <1>1, <1>3 DEF Live, Range
  <2>2. Without(s) = x \o y
    BY <1>3 DEF Without, RemoveAt
  <2> HIDE DEF k
  <2>3. /\ x \in Seq(Sessions) /\ Len(x) = k - 1
        /\ \A i \in 1..(k - 1) : x[i] = table[i]
    <3>1. \A i \in 1..(k - 1) : table[i] \in Sessions
      BY <1>1, <2>1
    <3>2. /\ x \in Seq(Sessions) /\ Len(x) = IF 1 <= k - 1 THEN k - 1 - 1 + 1 ELSE 0
          /\ \A i \in 1..(k - 1 - 1 + 1) : x[i] = table[1 + i - 1]
      BY <1>1, <2>1, <3>1, SubSeqProperties
    <3> QED
      BY <1>1, <2>1, <3>2
  <2>4. /\ y \in Seq(Sessions) /\ Len(y) = Len(table) - k
        /\ \A i \in 1..(Len(table) - k) : y[i] = table[k + i]
    <3>1. \A i \in (k + 1)..Len(table) : table[i] \in Sessions
      BY <1>1, <2>1
    <3>2. /\ y \in Seq(Sessions) /\ Len(y) = IF k + 1 <= Len(table) THEN Len(table) - (k + 1) + 1 ELSE 0
          /\ \A i \in 1..(Len(table) - (k + 1) + 1) : y[i] = table[k + 1 + i - 1]
      BY <1>1, <2>1, <3>1, SubSeqProperties
    <3> HIDE DEF y
    <3>3. \A i \in 1..(Len(table) - k) : i \in 1..(Len(table) - (k + 1) + 1) /\ k + 1 + i - 1 = k + i
      BY <1>1, <2>1
    <3>4. Len(y) = Len(table) - k
      <4>1. k \in Int /\ Len(table) \in Int /\ k <= Len(table)
        BY <1>1, <2>1
      <4>2. Len(y) = IF k + 1 <= Len(table) THEN Len(table) - (k + 1) + 1 ELSE 0
        BY <3>2
      <4> QED
        BY <4>1, <4>2
    <3>5. ASSUME NEW i \in 1..(Len(table) - k) PROVE y[i] = table[k + i]
      BY <3>2, <3>3
    <3> QED
      BY <3>2, <3>4, <3>5
  <2> HIDE DEF x, y
  <2>5. /\ x \o y \in Seq(Sessions) /\ Len(x \o y) = Len(table) - 1
        /\ \A i \in 1..(Len(table) - 1) : (x \o y)[i] = IF i < k THEN table[i] ELSE table[i + 1]
    <3>1. /\ x \o y \in Seq(Sessions) /\ Len(x \o y) = Len(x) + Len(y)
          /\ \A i \in 1..(Len(x) + Len(y)) : (x \o y)[i] = IF i <= Len(x) THEN x[i] ELSE y[i - Len(x)]
      BY <2>3, <2>4, ConcatProperties
    <3>2. Len(x) + Len(y) = Len(table) - 1
      BY <1>1, <2>1, <2>3, <2>4
    <3>3. ASSUME NEW i \in 1..(Len(table) - 1)
          PROVE  (x \o y)[i] = IF i < k THEN table[i] ELSE table[i + 1]
      <4>1. CASE i < k
        BY <1>1, <2>1, <2>3, <3>1, <3>2, <4>1
      <4>2. CASE ~(i < k)
        <5>1. i - (k - 1) \in 1..(Len(table) - k) /\ k + (i - (k - 1)) = i + 1 /\ ~(i <= k - 1)
          BY <1>1, <2>1, <4>2
        <5>2. (x \o y)[i] = y[i - (k - 1)]
          BY <2>3, <3>1, <3>2, <5>1
        <5> QED
          BY <2>4, <4>2, <5>1, <5>2
      <4> QED
        BY <4>1, <4>2
    <3> QED
      BY <3>1, <3>2, <3>3
  <2>6. Distinct(Without(s))
    <3> DEFINE At(i) == IF i < k THEN i ELSE i + 1
    <3>1. \A i \in 1..(Len(table) - 1) : At(i) \in 1..Len(table) /\ (x \o y)[i] = table[At(i)]
      BY <1>1, <2>1, <2>5
    <3>2. \A i, j \in 1..(Len(table) - 1) : At(i) = At(j) => i = j
      BY <1>1, <2>1
    <3> HIDE DEF At
    <3>3. \A i, j \in 1..Len(table) : table[i] = table[j] => i = j
      BY DEF Distinct
    <3>4. \A i, j \in 1..(Len(table) - 1) : (x \o y)[i] = (x \o y)[j] => i = j
      BY <3>1, <3>2, <3>3
    <3> QED
      BY <2>2, <2>5, <3>4 DEF Distinct
  <2> QED
    BY <1>1, <2>1, <2>2, <2>5, <2>6 DEF Distinct
<1> QED
  BY <1>2, <1>3

LEMMA AppendKeeps ==
  ASSUME NEW t \in Seq(Sessions), Distinct(t), NEW s \in Sessions, \A i \in 1..Len(t) : t[i] # s
  PROVE  /\ Append(t, s) \in Seq(Sessions) /\ Distinct(Append(t, s))
         /\ Len(Append(t, s)) = Len(t) + 1
         /\ \A i \in 1..(Len(t) + 1) : Append(t, s)[i] = IF i <= Len(t) THEN t[i] ELSE s
<1>1. /\ Append(t, s) \in Seq(Sessions) /\ Len(Append(t, s)) = Len(t) + 1
      /\ \A i \in 1..(Len(t) + 1) : Append(t, s)[i] = IF i <= Len(t) THEN t[i] ELSE s
  BY AppendProperties
<1>2. Distinct(Append(t, s))
  BY <1>1 DEF Distinct
<1> QED
  BY <1>1, <1>2

\* What looking a session up does to the table.
LEMMA SeenListed ==
  ASSUME Listed, NEW s \in Sessions, Live(s), table' = Seen(s), opened' = opened, opened \in Nat
  PROVE  Listed'
<1>1. /\ Without(s) \in Seq(Sessions) /\ Distinct(Without(s)) /\ Len(Without(s)) = Len(table) - 1
      /\ \A i \in 1..Len(Without(s)) :
           Without(s)[i] # s /\ \E j \in 1..Len(table) : Without(s)[i] = table[j]
  BY WithoutKeeps DEF Listed
<1>2. s <= opened
  BY LenProperties DEF Live, Range, Listed
<1>3. /\ table' \in Seq(Sessions) /\ Distinct(table') /\ Len(table') = Len(table)
      /\ \A i \in 1..Len(table) : table'[i] = IF i <= Len(Without(s)) THEN Without(s)[i] ELSE s
  BY <1>1, AppendKeeps, LenProperties DEF Seen, Listed
<1> QED
  BY <1>1, <1>2, <1>3 DEF Listed

\* A session enters.
LEMMA EnterListed ==
  ASSUME Listed, Enter, opened \in 0..MaxSessions PROVE Listed'
<1> DEFINE t == Append(table, opened + 1)
<1>1. opened + 1 \in Sessions /\ opened \in Nat /\ opened' = opened + 1 /\ Capacity \in Nat \ {0}
  BY BoundsAssumption DEF Enter, Sessions
<1>2. /\ t \in Seq(Sessions) /\ Distinct(t) /\ Len(t) = Len(table) + 1 /\ Len(table) \in Nat
      /\ \A i \in 1..Len(t) : t[i] <= opened + 1
  <2>1. \A i \in 1..Len(table) : table[i] # opened + 1
    BY <1>1, ElementOfSeq DEF Listed, Sessions
  <2>2. /\ t \in Seq(Sessions) /\ Distinct(t) /\ Len(t) = Len(table) + 1
        /\ \A i \in 1..(Len(table) + 1) : t[i] = IF i <= Len(table) THEN table[i] ELSE opened + 1
    BY <1>1, <2>1, AppendKeeps DEF Listed
  <2>3. Len(table) \in Nat /\ \A i \in 1..Len(table) : table[i] <= opened /\ table[i] \in Nat
    <3>1. Len(table) \in Nat /\ \A i \in 1..Len(table) : table[i] <= opened /\ table[i] \in Sessions
      BY ElementOfSeq DEF Listed
    <3> QED
      BY <3>1 DEF Sessions
  <2> HIDE DEF t
  <2> QED
    BY <1>1, <2>2, <2>3
<1> HIDE DEF t
<1>3. CASE Len(t) > Capacity
  <2>1. /\ Tail(t) \in Seq(Sessions) /\ Len(Tail(t)) = Len(t) - 1
        /\ \A i \in 1..Len(Tail(t)) : Tail(t)[i] = t[i + 1]
    BY <1>2, HeadTailProperties, EmptySeq
  <2>2. table' = Tail(t)
    BY <1>3 DEF Enter, Evicted, t
  <2> QED
    BY <1>1, <1>2, <2>1, <2>2 DEF Listed, Distinct
<1>4. CASE ~(Len(t) > Capacity)
  <2>1. table' = t
    BY <1>4 DEF Enter, Evicted, t
  <2> QED
    BY <1>1, <1>2, <1>4, <2>1 DEF Listed
<1> QED
  BY <1>3, <1>4

LEMMA InitIInv == Init => IInv
<1> SUFFICES ASSUME Init PROVE IInv
  OBVIOUS
<1>1. \A s \in Sessions : /\ state[s] = NewSession /\ state[s].pair = NoPair
                          /\ state[s].source = NoSource /\ state[s].rules = NoRules
  BY DEF Init, NewSession
<1>2. NoPair \in Pair /\ NewSession \in States
  BY NormalAssumption DEF NoPair, Pair, NewSession, States, OrNone
<1>3. BackendTyped
  BY <1>2, BoundsAssumption DEF Init, BackendTyped
<1>4. HookTyped
  <2>1. /\ enabled \in BOOLEAN /\ desired \in Content /\ timer \in BOOLEAN
        /\ status \in {"off", "loading", "shown"}
    BY DEF Init
  <2>2. opening \subseteq Openings
    BY DEF Init, Openings, OrNone
  <2>3. /\ session \in OrNone(Sessions) /\ base \in Pair /\ sent \in Sent /\ call \in OrNone(Calls)
        /\ mutation \in Nat /\ shown \in OrNone(Content) /\ moves \in Nat
    BY <1>2 DEF Init, OrNone, Sent, NothingSent
  <2> QED
    BY <2>1, <2>2, <2>3 DEF HookTyped
<1>5. Listed
  BY BoundsAssumption, EmptySeq DEF Init, Listed, Distinct
<1>6. Counted /\ Given /\ ResultsFit /\ ShownFits /\ AnswerFits /\ BaseFits
  BY <1>1 DEF Init, Counted, Given, Untouched, ResultsFit, ShownFits, AnswerFits, BaseFits
<1>7. Canonical
  BY <1>1, NormalAssumption DEF Canonical
<1>8. Waiting
  BY DEF Init, Waiting
<1>9. Settled
  BY DEF Init, Settled
<1> QED
  BY <1>3, <1>4, <1>5, <1>6, <1>7, <1>8, <1>9 DEF IInv

-----------------------------------------------------------------------------
(* The service. *)

\* A step that leaves the hook alone, what the sessions hold, and of the
\* results at most takes some away or passes them on.
LEMMA ServiceStep ==
  ASSUME IInv, Listed',
         UNCHANGED <<enabled, desired, session, base, sent, call, mutation, timer, opening, status, shown>>,
         moves' \in Nat, opened' \in 0..MaxSessions, opened <= opened', closing' \subseteq 1..opened',
         state' \in [Sessions -> States],
         \A s \in Sessions : /\ state'[s].pair = state[s].pair /\ state'[s].source = state[s].source
                             /\ state'[s].rules = state[s].rules,
         jobs' \subseteq Jobs, events' \subseteq Results,
         \A j \in jobs' \cup events' : \E k \in jobs \cup events :
            /\ j.session = k.session /\ j.mutation = k.mutation /\ j.pair = k.pair
            /\ j.source = k.source /\ j.rules = k.rules
  PROVE  IInv'
<1>1. \A j \in jobs' \cup events' : j.session \in Sessions /\ j.mutation \in Nat
  BY DEF Jobs, Results
<1>2. \A k \in jobs \cup events : k.session \in Sessions /\ k.session <= opened /\ k.mutation <= mutation
  BY DEF IInv, BackendTyped, Given, Counted, Jobs, Results
<1>3. opened \in Nat /\ opened' \in Nat
  BY DEF IInv, BackendTyped
<1>4. BackendTyped' /\ HookTyped'
  <2>1. BackendTyped'
    BY DEF BackendTyped
  <2>2. HookTyped'
    BY DEF IInv, HookTyped
  <2> QED
    BY <2>1, <2>2
<1>5. Counted'
  BY <1>2 DEF IInv, Counted
<1>6. Canonical'
  BY DEF IInv, Canonical, Untouched
<1>7. call # None => call.session \in Sessions
  BY DEF IInv, HookTyped, OrNone, Calls
<1>8. session # None => session \in Sessions
  BY DEF IInv, HookTyped, OrNone
<1>9. \A o \in opening : o.session # None => o.session \in Sessions
  BY DEF IInv, HookTyped, Openings, OrNone
<1>10. Given'
  <2>1. /\ session # None => session <= opened'
        /\ call # None => call.session <= opened'
    BY <1>3, <1>7, <1>8 DEF IInv, Given, Sessions
  <2>2. \A j \in jobs' \cup events' : j.session <= opened'
    <3> TAKE j \in jobs' \cup events'
    <3>1. PICK k \in jobs \cup events : j.session = k.session
      OBVIOUS
    <3> QED
      BY <1>2, <1>3, <3>1 DEF Sessions
  <2>3. \A s \in Sessions : s > opened' => Untouched(s)'
    BY <1>3 DEF IInv, Given, Untouched, Sessions
  <2>4. call # None /\ session # None /\ session # call.session => Untouched(session)'
    BY <1>8 DEF IInv, Given, Untouched
  <2> QED
    BY <2>1, <2>2, <2>3, <2>4 DEF Given
<1>11. Waiting'
  <2>1. \A o \in opening : o.session # None => o.session <= opened' /\ Untouched(o.session)'
    BY <1>3, <1>9 DEF IInv, Waiting, Untouched, Sessions
  <2> QED
    BY <2>1 DEF IInv, Waiting, Doing
<1>12. ResultsFit'
  <2> SUFFICES ASSUME NEW e \in jobs' \cup events', e.mutation = mutation
               PROVE  /\ Fits(e)' /\ (call # None => Accepted')
                      /\ state'[e.session].pair = e.pair
                      /\ state'[e.session].source = e.source /\ state'[e.session].rules = e.rules
    BY DEF ResultsFit
  <2>1. PICK k \in jobs \cup events :
            /\ e.session = k.session /\ e.mutation = k.mutation /\ e.pair = k.pair
            /\ e.source = k.source /\ e.rules = k.rules
    OBVIOUS
  <2>2. /\ Fits(k) /\ (call # None => Accepted)
        /\ state[k.session].pair = k.pair
        /\ state[k.session].source = k.source /\ state[k.session].rules = k.rules
    BY <2>1 DEF IInv, ResultsFit
  <2>3. Fits(e)' /\ (call # None => Accepted')
    BY <2>1, <2>2 DEF Fits, WantedSource, WantedRules, Accepted, Doing
  <2> QED
    BY <1>1, <2>1, <2>2, <2>3
<1>13. ShownFits' /\ Settled'
  BY DEF IInv, ShownFits, Settled, Fits, WantedSource, WantedRules, Accepted, Doing, Differs
<1>14. AnswerFits'
  BY <1>7 DEF IInv, AnswerFits, Fits, WantedSource, WantedRules
<1>15. BaseFits'
  BY <1>8 DEF IInv, BaseFits, Fits, WantedSource, WantedRules
<1> QED
  BY <1>4, <1>5, <1>6, <1>10, <1>11, <1>12, <1>13, <1>14, <1>15 DEF IInv

\* Cancelling marks computations.
LEMMA CanceledKeeps ==
  ASSUME jobs \subseteq Jobs, NEW s
  PROVE  /\ Canceled(s) \subseteq Jobs
         /\ \A j \in Canceled(s) : \E k \in jobs :
              /\ j.session = k.session /\ j.mutation = k.mutation /\ j.pair = k.pair
              /\ j.source = k.source /\ j.rules = k.rules
<1> SUFFICES ASSUME NEW j \in Canceled(s)
             PROVE  j \in Jobs /\ \E k \in jobs :
                      /\ j.session = k.session /\ j.mutation = k.mutation /\ j.pair = k.pair
                      /\ j.source = k.source /\ j.rules = k.rules
  OBVIOUS
<1>1. PICK k \in jobs : j = k \/ j = [k EXCEPT !.canceled = TRUE]
  BY DEF Canceled
<1> QED
  BY <1>1 DEF Jobs

LEMMA CloseSessionStep ==
  ASSUME IInv, NEW s \in closing, CloseSession(s) PROVE IInv'
<1>1. s \in Sessions /\ opened \in 0..MaxSessions /\ jobs \subseteq Jobs /\ state \in [Sessions -> States]
  <2>1. /\ opened \in 0..MaxSessions /\ jobs \subseteq Jobs /\ state \in [Sessions -> States]
        /\ closing \subseteq 1..opened
    BY DEF IInv, BackendTyped
  <2>2. s \in 1..opened
    BY <2>1
  <2> QED
    BY <2>1, <2>2, BoundsAssumption DEF Sessions
<1>2. Listed'
  <2>1. /\ Without(s) \in Seq(Sessions) /\ Distinct(Without(s)) /\ Len(Without(s)) <= Len(table)
        /\ \A i \in 1..Len(Without(s)) : \E j \in 1..Len(table) : Without(s)[i] = table[j]
    BY <1>1, WithoutKeeps DEF IInv, Listed
  <2>2. table' = Without(s) /\ opened' = opened
    BY DEF CloseSession
  <2>3. Len(table) \in Nat /\ Len(Without(s)) \in Nat /\ Capacity \in Nat
    BY <2>1, BoundsAssumption DEF IInv, Listed
  <2>4. \A i \in 1..Len(Without(s)) : Without(s)[i] <= opened
    BY <2>1 DEF IInv, Listed
  <2> QED
    BY <2>1, <2>2, <2>3, <2>4 DEF IInv, Listed
<1>3. /\ state' \in [Sessions -> States]
      /\ \A r \in Sessions : /\ state'[r].pair = state[r].pair /\ state'[r].source = state[r].source
                             /\ state'[r].rules = state[r].rules
  <2>1. CASE Live(s)
    <3>1. state' = [state EXCEPT ![s].cancel = None]
      BY <2>1 DEF CloseSession
    <3> QED
      BY <1>1, <3>1 DEF States, OrNone
  <2>2. CASE ~Live(s)
    BY <1>1, <2>2 DEF CloseSession
  <2> QED
    BY <2>1, <2>2
<1>4. jobs' = jobs \/ jobs' = Canceled(s)
  BY DEF CloseSession
<1>5. /\ jobs' \subseteq Jobs
      /\ \A j \in jobs' : \E k \in jobs :
            /\ j.session = k.session /\ j.mutation = k.mutation /\ j.pair = k.pair
            /\ j.source = k.source /\ j.rules = k.rules
  BY <1>1, <1>4, CanceledKeeps
<1>6. UNCHANGED <<opened, events, moves, enabled, desired, session, base, sent, call, mutation, timer,
                  opening, status, shown>>
  BY DEF CloseSession, hook
<1>7. closing' \subseteq 1..opened' /\ moves' \in Nat /\ opened <= opened' /\ events' \subseteq Results
  BY <1>1, <1>6 DEF CloseSession, IInv, BackendTyped, HookTyped
<1> QED
  BY <1>1, <1>2, <1>3, <1>5, <1>6, <1>7, ServiceStep

LEMMA ForeignOpensStep ==
  ASSUME IInv, ForeignOpens PROVE IInv'
<1>1. /\ opened \in 0..MaxSessions /\ opened < MaxSessions /\ opened' = opened + 1
      /\ UNCHANGED <<state, jobs, closing, events>>
      /\ UNCHANGED <<enabled, desired, session, base, sent, call, mutation, timer, opening, status, shown>>
  BY DEF ForeignOpens, Enter, hook, IInv, BackendTyped
<1>2. Listed'
  BY <1>1, EnterListed DEF ForeignOpens, IInv
<1>3. moves' \in Nat
  BY DEF ForeignOpens, Move, IInv, HookTyped
<1>4. opened' \in 0..MaxSessions /\ opened <= opened' /\ closing' \subseteq 1..opened'
  BY <1>1, BoundsAssumption DEF IInv, BackendTyped
<1> QED
  BY <1>1, <1>2, <1>3, <1>4, ServiceStep DEF IInv, BackendTyped

LEMMA ComputeDroppedStep ==
  ASSUME IInv, NEW j \in jobs, ComputeDropped(j) PROVE IInv'
<1>1. UNCHANGED <<state, opened, closing, events, moves, enabled, desired, session, base, sent, call, mutation,
                  timer, opening, status, shown>>
  BY DEF ComputeDropped, hook
<1>2. j.session \in Sessions /\ opened \in Nat /\ opened \in 0..MaxSessions
  BY DEF IInv, BackendTyped, Jobs
<1>3. Listed'
  <2>1. table' = table \/ (Live(j.session) /\ table' = Seen(j.session))
    BY DEF ComputeDropped
  <2>2. CASE table' = table
    BY <1>1, <2>2 DEF IInv, Listed
  <2>3. CASE Live(j.session) /\ table' = Seen(j.session)
    BY <1>1, <1>2, <2>3, SeenListed DEF IInv
  <2> QED
    BY <2>1, <2>2, <2>3
<1>4. jobs' \subseteq jobs
  BY DEF ComputeDropped
<1> QED
  BY <1>1, <1>2, <1>3, <1>4, ServiceStep DEF IInv, BackendTyped, HookTyped

LEMMA ComputeEndsStep ==
  ASSUME IInv, NEW j \in jobs, ComputeEnds(j) PROVE IInv'
<1>1. UNCHANGED <<opened, closing, moves, enabled, desired, session, base, sent, call, mutation,
                  timer, opening, status, shown>>
  BY DEF ComputeEnds, hook
<1>2. j \in Jobs /\ j.session \in Sessions /\ opened \in Nat /\ opened \in 0..MaxSessions
  BY DEF IInv, BackendTyped, Jobs
<1>3. Listed'
  BY <1>1, <1>2, SeenListed DEF ComputeEnds, IInv
<1>4. /\ state' \in [Sessions -> States]
      /\ \A r \in Sessions : /\ state'[r].pair = state[r].pair /\ state'[r].source = state[r].source
                             /\ state'[r].rules = state[r].rules
  BY <1>2 DEF ComputeEnds, IInv, BackendTyped, States, OrNone
<1>5. jobs' \subseteq Jobs /\ events' \subseteq Results
  BY <1>2 DEF ComputeEnds, IInv, BackendTyped, ResultOf, Jobs, Results
<1>6. ASSUME NEW e \in jobs' \cup events'
      PROVE  \E k \in jobs \cup events :
               /\ e.session = k.session /\ e.mutation = k.mutation /\ e.pair = k.pair
               /\ e.source = k.source /\ e.rules = k.rules
  BY DEF ComputeEnds, ResultOf
<1>7. closing' \subseteq 1..opened' /\ moves' \in Nat /\ opened' \in 0..MaxSessions /\ opened <= opened'
  BY <1>1, <1>2 DEF IInv, BackendTyped, HookTyped
<1> QED
  BY <1>1, <1>3, <1>4, <1>5, <1>6, <1>7, ServiceStep

-----------------------------------------------------------------------------
(* The update under way. *)

\* What the invariant says of the types, where the steps need it.
LEMMA Typed ==
  ASSUME IInv
  PROVE  /\ opened \in Nat /\ opened \in 0..MaxSessions /\ MaxSessions \in Nat
         /\ state \in [Sessions -> States] /\ jobs \subseteq Jobs /\ events \subseteq Results
         /\ desired \in Content /\ sent \in Sent /\ mutation \in Nat /\ moves \in Nat
         /\ call # None => call \in Calls /\ call.session \in Sessions
         /\ session # None => session \in Sessions
         /\ \A o \in opening : o.session # None => o.session \in Sessions
<1>1. opened \in Nat /\ opened \in 0..MaxSessions /\ MaxSessions \in Nat
  BY BoundsAssumption DEF IInv, BackendTyped
<1>2. call # None => call \in Calls /\ call.session \in Sessions
  BY DEF IInv, HookTyped, OrNone, Calls
<1>3. session # None => session \in Sessions
  BY DEF IInv, HookTyped, OrNone
<1>4. \A o \in opening : o.session # None => o.session \in Sessions
  BY DEF IInv, HookTyped, Openings, OrNone
<1> QED
  BY <1>1, <1>2, <1>3, <1>4 DEF IInv, BackendTyped, HookTyped

\* A step that leaves the backend and what is to be closed alone.
LEMMA BackendSame ==
  ASSUME IInv, UNCHANGED <<table, state, jobs, opened>>, closing' \subseteq 1..opened, events' \subseteq events
  PROVE  BackendTyped' /\ Listed' /\ Canonical'
<1>1. BackendTyped'
  BY DEF IInv, BackendTyped
<1>2. Listed'
  BY DEF IInv, Listed
<1>3. Canonical'
  BY DEF IInv, Canonical, Untouched
<1> QED
  BY <1>1, <1>2, <1>3

\* An update that is not accepted has no result yet.
LEMMA NoResultYet ==
  ASSUME IInv, call # None, ~Accepted
  PROVE  status # "shown" /\ \A e \in jobs \cup events : e.mutation # mutation
BY DEF IInv, ResultsFit, ShownFits

LEMMA FindSessionStep ==
  ASSUME IInv, FindSession PROVE IInv'
<1>1. /\ call \in Calls /\ call.session \in Sessions /\ call # None /\ call.phase = "sent" /\ opened \in Nat
  BY Typed DEF FindSession
<1>2. /\ UNCHANGED <<state, jobs, opened, closing, events>>
      /\ UNCHANGED <<enabled, desired, session, base, sent, mutation, timer, opening, status, shown, moves>>
  BY DEF FindSession
<1>3. \/ Live(call.session) /\ table' = Seen(call.session) /\ call' = [call EXCEPT !.phase = "found"]
      \/ table' = table /\ call' = [call EXCEPT !.phase = "acked", !.ack = "missing"]
  BY DEF FindSession
<1>4. /\ call' \in Calls /\ call' # None
      /\ call'.session = call.session /\ call'.mutation = call.mutation /\ call'.base = call.base
      /\ call'.source = call.source /\ call'.rules = call.rules
      /\ call'.phase = "found" \/ (call'.phase = "acked" /\ call'.ack = "missing")
  <2>1. call' \in Calls
    BY <1>1, <1>3 DEF Calls
  <2> QED
    BY <1>1, <1>3, <2>1, NoneAssumption DEF Calls
<1>5. Listed'
  <2>1. CASE Live(call.session) /\ table' = Seen(call.session)
    BY <1>1, <1>2, <2>1, SeenListed DEF IInv
  <2>2. CASE table' = table
    BY <1>2, <2>2 DEF IInv, Listed
  <2> QED
    BY <1>3, <2>1, <2>2
<1>6. BackendTyped' /\ HookTyped'
  <2>1. BackendTyped'
    BY <1>2 DEF IInv, BackendTyped
  <2>2. HookTyped'
    BY <1>2, <1>4 DEF IInv, HookTyped, OrNone
  <2> QED
    BY <2>1, <2>2
<1>7. Canonical'
  BY <1>2 DEF IInv, Canonical, Untouched
<1>8. Counted' /\ Given'
  BY <1>1, <1>2, <1>4 DEF IInv, Counted, Given, Untouched
<1>9. Waiting'
  BY <1>1, <1>2, <1>4 DEF IInv, Waiting, Untouched, Doing
<1>10. status # "shown" /\ \A e \in jobs \cup events : e.mutation # mutation
  BY <1>1, NoResultYet DEF Accepted, Doing
<1>11. ResultsFit' /\ ShownFits'
  BY <1>2, <1>10 DEF ResultsFit, ShownFits
<1>12. AnswerFits'
  BY <1>1, <1>2, <1>4 DEF IInv, AnswerFits
<1>13. BaseFits' /\ Settled'
  BY <1>4 DEF BaseFits, Settled
<1> QED
  BY <1>5, <1>6, <1>7, <1>8, <1>9, <1>11, <1>12, <1>13 DEF IInv

\* UpdatePipelineState: what the session holds afterwards is what was sent
\* now and before, unless the update is refused.
LEMMA UpdateStateStep ==
  ASSUME IInv, UpdateState PROVE IInv'
<1> DEFINE s == call.session
           old == state[s]
           newSource == IF call.source = None THEN old.source ELSE call.source
           newRules == IF call.rules = None THEN old.rules ELSE Normal[call.rules]
           pair == [doc |-> old.pair.doc + (IF newSource # old.source THEN 1 ELSE 0),
                    pipe |-> old.pair.pipe + (IF newRules # old.rules THEN 1 ELSE 0)]
           new == [pair |-> pair, source |-> newSource, rules |-> newRules,
                   ran |-> old.ran, cancel |-> call.mutation]
           job == [session |-> s, mutation |-> call.mutation, pair |-> pair,
                   source |-> newSource, rules |-> newRules, canceled |-> FALSE]
           Ack(a, p) == [call EXCEPT !.phase = "acked", !.ack = a, !.pair = p]
<1>1. /\ call \in Calls /\ s \in Sessions /\ call # None /\ call.phase = "found" /\ opened \in Nat
      /\ old \in States /\ state \in [Sessions -> States] /\ jobs \subseteq Jobs
  BY Typed DEF UpdateState
<1>2. /\ UNCHANGED <<table, opened, closing, events>>
      /\ UNCHANGED <<enabled, desired, session, base, sent, mutation, timer, opening, status, shown, moves>>
  BY DEF UpdateState
<1>3. \/ call.base # old.pair /\ call' = Ack("conflict", old.pair) /\ UNCHANGED <<state, jobs>>
      \/ /\ call.base = old.pair /\ pair = old.pair
         /\ call' = Ack("unchanged", pair) /\ UNCHANGED <<state, jobs>>
      \/ /\ call.base = old.pair /\ call' = Ack("accepted", pair)
         /\ state' = [state EXCEPT ![s] = new] /\ jobs' = Canceled(s) \cup {job}
  BY DEF UpdateState, Acked
<1>4. /\ pair \in Pair /\ newSource \in Sources /\ newRules \in Rules
      /\ old.pair \in Pair /\ old.source \in Sources /\ old.rules \in Rules
  <2>1. old.pair \in Pair /\ old.source \in Sources /\ old.rules \in Rules
    BY <1>1 DEF States
  <2>2. newSource \in Sources
    BY <1>1, <2>1 DEF Calls
  <2>3. newRules \in Rules
    BY <1>1, <2>1, NormalAssumption DEF Calls
  <2> HIDE DEF newSource, newRules
  <2>4. pair \in Pair
    BY <2>1 DEF Pair
  <2> QED
    BY <2>1, <2>2, <2>3, <2>4
<1>5. pair = old.pair => newSource = old.source /\ newRules = old.rules
  <2> HIDE DEF newSource, newRules
  <2> QED
    BY <1>4 DEF Pair
<1>6. pair = NoPair => old.pair = NoPair
  <2> HIDE DEF newSource, newRules
  <2> QED
    BY <1>4 DEF Pair, NoPair
<1>7. old.rules = Normal[old.rules] /\ newRules = Normal[newRules]
  BY <1>1, NormalAssumption DEF IInv, Canonical, Calls
<1>8. call.base = old.pair =>
        /\ sent.source # None /\ call.source = None => newSource = sent.source
        /\ call.source # None => newSource = call.source
        /\ sent.rules # None /\ call.rules = None => newRules = Normal[sent.rules]
        /\ call.rules # None => newRules = Normal[call.rules]
  BY <1>1 DEF IInv, AnswerFits
<1>9. mutation = call.mutation /\ mutation \in Nat
  BY <1>1, Typed DEF IInv, Counted
<1> HIDE DEF newSource, newRules, pair
<1>10. /\ call' \in Calls /\ call' # None /\ call'.phase = "acked"
       /\ call'.session = s /\ call'.mutation = call.mutation
       /\ call'.source = call.source /\ call'.rules = call.rules
  <2>1. \A a \in {"conflict", "unchanged", "accepted"} : \A p \in Pair :
          /\ Ack(a, p) \in Calls /\ Ack(a, p).phase = "acked" /\ Ack(a, p).session = s
          /\ Ack(a, p).mutation = call.mutation
          /\ Ack(a, p).source = call.source /\ Ack(a, p).rules = call.rules
    BY <1>1 DEF Calls
  <2>2. \E a \in {"conflict", "unchanged", "accepted"} : \E p \in Pair : call' = Ack(a, p)
    BY <1>3, <1>4
  <2> HIDE DEF Ack
  <2> QED
    BY <2>1, <2>2, NoneAssumption
<1>11. /\ state' \in [Sessions -> States] /\ jobs' \subseteq Jobs
       /\ \A r \in Sessions : r # s => state'[r] = state[r]
       /\ state'[s] = old \/ state'[s] = new
       /\ state'[s].source \in Sources /\ state'[s].rules \in Rules
  <2>1. new \in States /\ job \in Jobs
    BY <1>1, <1>4 DEF States, Jobs, OrNone, Calls
  <2>2. Canceled(s) \subseteq Jobs
    BY <1>1, CanceledKeeps
  <2> HIDE DEF new, job
  <2>3. state' = state \/ state' = [state EXCEPT ![s] = new]
    BY <1>3
  <2>4. jobs' = jobs \/ jobs' = Canceled(s) \cup {job}
    BY <1>3
  <2>5. state' \in [Sessions -> States] /\ state'[s] \in States
    BY <1>1, <2>1, <2>3
  <2> QED
    BY <1>1, <2>1, <2>2, <2>3, <2>4, <2>5 DEF States
<1>12. BackendTyped' /\ HookTyped' /\ Listed'
  <2>1. BackendTyped'
    BY <1>2, <1>11 DEF IInv, BackendTyped
  <2>2. HookTyped'
    BY <1>2, <1>10 DEF IInv, HookTyped, OrNone
  <2>3. Listed'
    BY <1>2 DEF IInv, Listed
  <2> QED
    BY <2>1, <2>2, <2>3
<1>13. \A j \in jobs' : \/ j = job /\ call' = Ack("accepted", pair) /\ state' = [state EXCEPT ![s] = new]
                           /\ call.base = old.pair
                        \/ \E k \in jobs : j.session = k.session /\ j.mutation = k.mutation
  <2> HIDE DEF new, job, Ack
  <2>1. CASE UNCHANGED jobs
    BY <2>1
  <2>2. CASE /\ call.base = old.pair /\ call' = Ack("accepted", pair)
             /\ state' = [state EXCEPT ![s] = new] /\ jobs' = Canceled(s) \cup {job}
    BY <1>1, <2>2, CanceledKeeps
  <2> QED
    BY <1>3, <2>1, <2>2
<1>14. Counted' /\ Given'
  <2>1. \A j \in jobs' \cup events' : j.mutation <= mutation /\ j.session <= opened
    <3> TAKE j \in jobs' \cup events'
    <3>1. CASE j \in jobs \cup events \/ \E k \in jobs : j.session = k.session /\ j.mutation = k.mutation
      BY <3>1 DEF IInv, Counted, Given
    <3>2. CASE j = job
      BY <1>1, <1>9, <3>2 DEF IInv, Given
    <3> QED
      BY <1>2, <1>13, <3>1, <3>2
  <2>2. Counted'
    BY <1>2, <1>9, <1>10, <2>1 DEF IInv, Counted
  <2>3. \A r \in Sessions : r > opened => Untouched(r)'
    <3>1. s <= opened
      BY <1>1 DEF IInv, Given
    <3>2. \A r \in Sessions : r > opened => r # s
      BY <1>1, <3>1 DEF Sessions
    <3> QED
      BY <1>11, <3>2 DEF IInv, Given, Untouched
  <2>4. session # None /\ session # s => Untouched(session)'
    BY <1>1, <1>2, <1>11, Typed DEF IInv, Given, Untouched
  <2>5. (session # None => session <= opened) /\ s <= opened
    BY <1>1 DEF IInv, Given
  <2> QED
    BY <1>2, <1>10, <2>1, <2>2, <2>3, <2>4, <2>5 DEF Given
<1>15. Canonical'
  <2>1. /\ new.pair = NoPair => new.source = NoSource /\ new.rules = NoRules
        /\ Normal[new.rules] = new.rules
    <3>1. pair = NoPair => newSource = NoSource /\ newRules = NoRules
      BY <1>1, <1>5, <1>6 DEF IInv, Canonical, Untouched
    <3> QED
      BY <1>7, <3>1
  <2> HIDE DEF new
  <2> QED
    BY <1>1, <1>11, <2>1 DEF IInv, Canonical, Untouched
<1>16. Waiting'
  <2>1. \A o \in opening : o.session # None => Untouched(o.session)'
    BY <1>1, <1>11, Typed DEF IInv, Waiting, Untouched
  <2> QED
    BY <1>1, <1>2, <1>10, <2>1 DEF IInv, Waiting, Doing
<1>17. status # "shown" /\ \A e \in jobs \cup events : e.mutation # mutation
  BY <1>1, NoResultYet DEF Accepted, Doing
<1>18. WantedSource' = WantedSource /\ WantedRules' = WantedRules
  BY <1>1, <1>2, <1>10 DEF WantedSource, WantedRules
<1>19. /\ call.base = old.pair => /\ WantedSource # None => newSource = WantedSource
                                  /\ WantedRules # None => newRules = Normal[WantedRules]
  BY <1>1, <1>8 DEF WantedSource, WantedRules
<1>20. ResultsFit'
  <2> SUFFICES ASSUME NEW e \in jobs' \cup events', e.mutation = mutation
               PROVE  /\ Fits(e)' /\ (call' # None => Accepted')
                      /\ state'[e.session].pair = e.pair
                      /\ state'[e.session].source = e.source /\ state'[e.session].rules = e.rules
    BY <1>2 DEF ResultsFit
  <2>1. e = job /\ call' = Ack("accepted", pair) /\ state' = [state EXCEPT ![s] = new] /\ call.base = old.pair
    BY <1>2, <1>13, <1>17
  <2>2. Accepted'
    BY <1>1, <1>10, <2>1 DEF Accepted, Doing, Calls
  <2>3. Fits(e)'
    BY <1>18, <1>19, <2>1 DEF Fits
  <2> QED
    BY <1>1, <2>1, <2>2, <2>3
<1>21. ShownFits'
  BY <1>2, <1>17 DEF ShownFits
<1>22. AnswerFits'
  <2> SUFFICES ASSUME call'.ack \in {"accepted", "unchanged"}
               PROVE  call'.pair = state'[s].pair /\ Fits(state[s])'
    BY <1>10 DEF AnswerFits
  <2>1. CASE call.base # old.pair /\ call' = Ack("conflict", old.pair)
    BY <1>1, <2>1 DEF Calls
  <2>2. CASE call.base = old.pair /\ pair = old.pair /\ call' = Ack("unchanged", pair) /\ state' = state
    <3>1. call'.pair = state'[s].pair
      BY <1>1, <2>2 DEF Calls
    <3>2. old.source = newSource /\ old.rules = newRules
      BY <1>5, <2>2
    <3> QED
      BY <1>10, <1>18, <1>19, <2>2, <3>1, <3>2 DEF Fits
  <2>3. CASE call.base = old.pair /\ call' = Ack("accepted", pair) /\ state' = [state EXCEPT ![s] = new]
    <3>1. call'.pair = pair
      BY <1>1, <2>3 DEF Calls
    <3>2. state'[s].pair = pair /\ state'[s].source = newSource /\ state'[s].rules = newRules
      BY <1>1, <2>3
    <3> QED
      BY <1>10, <1>18, <1>19, <2>3, <3>1, <3>2 DEF Fits
  <2> QED
    BY <1>3, <2>1, <2>2, <2>3
<1>23. BaseFits' /\ Settled'
  BY <1>10 DEF BaseFits, Settled
<1> QED
  BY <1>12, <1>14, <1>15, <1>16, <1>20, <1>21, <1>22, <1>23 DEF IInv

-----------------------------------------------------------------------------
(* The hook: edits and switches. *)

LEMMA EditStep ==
  ASSUME IInv, NEW c \in Content, Edit(c) PROVE IInv'
<1>1. /\ UNCHANGED <<table, state, jobs, opened, closing, events>>
      /\ UNCHANGED <<enabled, session, base, sent, call, mutation, opening, status, shown>>
      /\ desired' = c /\ timer' = TRUE /\ moves' = moves + 1
  BY DEF Edit, Move, backend
<1>2. BackendTyped' /\ Listed' /\ Canonical'
  BY <1>1, BackendSame DEF IInv, BackendTyped
<1>3. HookTyped'
  BY <1>1 DEF IInv, HookTyped
<1>4. Counted' /\ Given' /\ Waiting'
  BY <1>1 DEF IInv, Counted, Given, Waiting, Untouched, Doing
<1>5. ResultsFit' /\ ShownFits' /\ AnswerFits' /\ BaseFits'
  BY <1>1 DEF IInv, ResultsFit, ShownFits, AnswerFits, BaseFits, Fits, WantedSource, WantedRules, Accepted, Doing
<1>6. Settled'
  BY <1>1 DEF Settled
<1> QED
  BY <1>2, <1>3, <1>4, <1>5, <1>6 DEF IInv

\* The session in use is closed.
LEMMA CloseCurrentKeeps ==
  ASSUME IInv, CloseCurrent PROVE closing' \subseteq 1..opened
<1>1. session # None => session \in 1..opened
  BY Typed DEF IInv, Given, Sessions
<1>2. closing \subseteq 1..opened
  BY DEF IInv, BackendTyped
<1> QED
  BY <1>1, <1>2 DEF CloseCurrent

LEMMA SwitchOnStep ==
  ASSUME IInv, SwitchOn PROVE IInv'
<1> DEFINE new == [why |-> moves + 2, session |-> None]
<1>1. /\ UNCHANGED <<table, state, jobs, opened, events>>
      /\ UNCHANGED <<desired, base, sent, call, mutation, status, shown>>
      /\ enabled' = TRUE /\ timer' = TRUE /\ session' = None /\ opening' = opening \cup {new}
      /\ moves' = moves + 1 /\ CloseCurrent
  BY DEF SwitchOn, AskForSession, Move, backend
<1>2. BackendTyped' /\ Listed' /\ Canonical'
  BY <1>1, BackendSame, CloseCurrentKeeps
<1>3. new \in Openings /\ new.why # 0 /\ new.session = None
  BY Typed DEF Openings, OrNone
<1> HIDE DEF new
<1>4. HookTyped'
  BY <1>1, <1>3 DEF IInv, HookTyped, OrNone
<1>5. Counted' /\ Given'
  BY <1>1 DEF IInv, Counted, Given, Untouched
<1>6. Waiting'
  <2>1. \A o \in opening : o.session # None => o.session # session'
    BY <1>1
  <2> QED
    BY <1>1, <1>3, <2>1 DEF IInv, Waiting, Untouched, Doing
<1>7. ResultsFit' /\ ShownFits' /\ AnswerFits'
  BY <1>1 DEF IInv, ResultsFit, ShownFits, AnswerFits, Fits, WantedSource, WantedRules, Accepted, Doing
<1>8. BaseFits' /\ Settled'
  BY <1>1 DEF BaseFits, Settled
<1> QED
  BY <1>2, <1>4, <1>5, <1>6, <1>7, <1>8 DEF IInv

\* When the hook forgets what it has sent, fewer things have to agree.
LEMMA ForgettingKeepsFits ==
  ASSUME sent' = NothingSent, call' = call \/ call' = None, NEW c, Fits(c)
  PROVE  Fits(c)'
BY DEF Fits, WantedSource, WantedRules, NothingSent

LEMMA Forgetting ==
  ASSUME IInv, sent' = NothingSent, call' = call \/ call' = None, UNCHANGED <<state, jobs, events, mutation>>
  PROVE  /\ sent' \in Sent /\ ResultsFit' /\ AnswerFits'
         /\ call' = None => \A c : Fits(c)'
<1>1. sent' \in Sent
  BY DEF Sent, NothingSent, OrNone
<1>2. ResultsFit'
  <2> SUFFICES ASSUME NEW e \in jobs \cup events, e.mutation = mutation
               PROVE  /\ Fits(e)' /\ (call' # None => Accepted')
                      /\ state[e.session].pair = e.pair
                      /\ state[e.session].source = e.source /\ state[e.session].rules = e.rules
    BY DEF ResultsFit
  <2>1. /\ Fits(e) /\ (call # None => Accepted)
        /\ state[e.session].pair = e.pair
        /\ state[e.session].source = e.source /\ state[e.session].rules = e.rules
    BY DEF IInv, ResultsFit
  <2> QED
    BY <2>1, ForgettingKeepsFits DEF Accepted, Doing
<1>3. AnswerFits'
  <2> DEFINE old == state[call.session]
  <2> SUFFICES ASSUME call' # None
               PROVE  /\ call.phase \in {"sent", "found"} /\ call.base = old.pair =>
                           /\ call.source = None /\ sent'.source # None => old.source = sent'.source
                           /\ call.rules = None /\ sent'.rules # None => old.rules = Normal[sent'.rules]
                      /\ call.phase = "acked" /\ call.ack \in {"accepted", "unchanged"} =>
                           call.pair = old.pair /\ Fits(old)'
    BY DEF AnswerFits
  <2>1. call.phase = "acked" /\ call.ack \in {"accepted", "unchanged"} => call.pair = old.pair /\ Fits(old)
    BY DEF IInv, AnswerFits
  <2>2. Fits(old) => Fits(old)'
    BY DEF Fits, WantedSource, WantedRules, NothingSent
  <2> QED
    BY <2>1, <2>2 DEF NothingSent
<1>4. call' = None => \A c : Fits(c)'
  BY DEF Fits, WantedSource, WantedRules, NothingSent
<1> QED
  BY <1>1, <1>2, <1>3, <1>4

LEMMA SwitchOffStep ==
  ASSUME IInv, SwitchOff PROVE IInv'
<1>1. /\ UNCHANGED <<table, state, jobs, opened, events>>
      /\ UNCHANGED <<desired, call, mutation, opening>>
      /\ enabled' = FALSE /\ timer' = TRUE /\ session' = None
      /\ sent' = NothingSent /\ base' = NoPair /\ status' = "off" /\ shown' = None
      /\ moves' = moves + 1 /\ CloseCurrent
  BY DEF SwitchOff, Move, backend
<1>2. BackendTyped' /\ Listed' /\ Canonical'
  BY <1>1, BackendSame, CloseCurrentKeeps
<1>3. HookTyped'
  <2>1. sent' \in Sent /\ base' \in Pair /\ moves' \in Nat
    BY <1>1, Forgetting, Typed DEF Pair, NoPair
  <2> QED
    BY <1>1, <2>1 DEF IInv, HookTyped, OrNone
<1>4. Counted' /\ Given'
  BY <1>1 DEF IInv, Counted, Given, Untouched
<1>5. Waiting'
  <2>1. \A o \in opening : o.session # None => o.session # session'
    BY <1>1
  <2> QED
    BY <1>1, <2>1 DEF IInv, Waiting, Untouched, Doing
<1>6. ResultsFit' /\ AnswerFits'
  BY <1>1, Forgetting
<1>7. ShownFits' /\ BaseFits' /\ Settled'
  BY <1>1 DEF ShownFits, BaseFits, Settled
<1> QED
  BY <1>2, <1>3, <1>4, <1>5, <1>6, <1>7 DEF IInv

-----------------------------------------------------------------------------
(* The hook: sessions. *)

LEMMA OpenHandledStep ==
  ASSUME IInv, NEW o \in opening, OpenHandled(o) PROVE IInv'
<1> DEFINE n == [o EXCEPT !.session = opened + 1]
<1>1. /\ UNCHANGED <<state, jobs, closing, events, moves>>
      /\ UNCHANGED <<enabled, desired, session, base, sent, call, mutation, timer, status, shown>>
      /\ opened < MaxSessions /\ opened' = opened + 1
      /\ opening' = (opening \ {o}) \cup {n} /\ o.session = None
  BY DEF OpenHandled, Enter
<1>2. /\ opened \in Nat /\ opened + 1 \in Sessions /\ opened' \in 0..MaxSessions
      /\ \A s \in Sessions : s <= opened => s <= opened' /\ s # opened + 1
  BY <1>1, Typed DEF Sessions
<1>3. /\ call # None => call.session \in Sessions /\ call.session <= opened
      /\ session # None => session \in Sessions /\ session <= opened
      /\ \A q \in opening : q.session # None => q.session \in Sessions /\ q.session <= opened
  BY Typed DEF IInv, Given, Waiting
<1>4. n \in Openings /\ n.why = o.why /\ n.session = opened + 1 /\ opened + 1 # None
  BY <1>2, NoneAssumption DEF IInv, HookTyped, Openings, OrNone
<1> HIDE DEF n
<1>5. BackendTyped'
  BY <1>1, <1>2 DEF IInv, BackendTyped
<1>6. HookTyped'
  BY <1>1, <1>4 DEF IInv, HookTyped
<1>7. Listed'
  BY EnterListed, Typed DEF OpenHandled, IInv
<1>8. Canonical'
  BY <1>1 DEF IInv, Canonical, Untouched
<1>9. Counted'
  BY <1>1 DEF IInv, Counted
<1>10. Given'
  <2>1. \A j \in jobs \cup events : j.session <= opened'
    BY <1>2 DEF IInv, Given, BackendTyped, Jobs, Results
  <2>2. \A s \in Sessions : s > opened' => s > opened
    BY <1>1, <1>2 DEF Sessions
  <2> QED
    BY <1>1, <1>2, <1>3, <2>1, <2>2 DEF IInv, Given, Untouched
<1>11. Waiting'
  <2>1. opened + 1 <= opened' /\ state'[opened + 1].pair = NoPair
    <3>1. opened + 1 > opened /\ opened + 1 <= opened'
      BY <1>1, <1>2
    <3>2. Untouched(opened + 1)
      BY <1>2, <3>1 DEF IInv, Given
    <3> QED
      BY <1>1, <3>1, <3>2 DEF Untouched
  <2>2. \A q \in opening : q.session # None =>
          /\ q.session <= opened' /\ state'[q.session].pair = NoPair
          /\ q.session # session /\ (call # None => q.session # call.session)
          /\ q.session # n.session
          /\ \A p \in opening : p.session = q.session => p = q
    BY <1>1, <1>2, <1>3, <1>4 DEF IInv, Waiting, Untouched
  <2>3. \A q, p \in opening' : q.why = 0 => Doing("reopening")' /\ (p.why = 0 => p = q)
    BY <1>1, <1>4 DEF IInv, Waiting, Doing
  <2>4. \A q \in opening' : q.session # None =>
          /\ q.session <= opened' /\ state'[q.session].pair = NoPair
          /\ q.session # session /\ (call # None => q.session # call.session)
          /\ \A p \in opening' : p.session = q.session => p = q
    <3> TAKE q \in opening'
    <3>1. CASE q = n
      <4>1. q.session # session /\ (call # None => q.session # call.session)
        BY <1>2, <1>3, <1>4, <3>1
      <4>2. \A p \in opening' : p.session = q.session => p = q
        BY <1>1, <1>4, <2>2, <3>1
      <4> QED
        BY <1>4, <2>1, <3>1, <4>1, <4>2
    <3>2. CASE q \in opening \ {o}
      BY <1>1, <1>4, <2>2, <3>2
    <3> QED
      BY <1>1, <3>1, <3>2
  <2> QED
    BY <1>1, <2>3, <2>4 DEF Waiting, Untouched
<1>12. ResultsFit' /\ ShownFits' /\ AnswerFits' /\ BaseFits' /\ Settled'
  BY <1>1 DEF IInv, ResultsFit, ShownFits, AnswerFits, BaseFits, Settled, Fits, WantedSource, WantedRules,
              Accepted, Doing, Differs
<1> QED
  BY <1>5, <1>6, <1>7, <1>8, <1>9, <1>10, <1>11, <1>12 DEF IInv

LEMMA NothingSentDiffers ==
  ASSUME IInv PROVE Differs(NothingSent)
BY NoneAssumption DEF Differs, NothingSent, IInv, HookTyped, Content

\* A session is taken: it has not been used, so that nothing has been sent to it.
LEMMA OpenAnsweredStep ==
  ASSUME IInv, NEW o \in opening, OpenAnswered(o) PROVE IInv'
<1>1. /\ UNCHANGED <<table, state, jobs, opened, closing, events, moves>>
      /\ UNCHANGED <<enabled, desired, mutation, status, shown>>
      /\ o.session # None /\ opening' = opening \ {o} /\ session' = o.session
      /\ base' = NoPair /\ sent' = NothingSent
  BY DEF OpenAnswered, backend
<1>2. timer' = TRUE /\ ((o.why = 0 /\ call' = None) \/ (o.why # 0 /\ call' = call))
  BY NothingSentDiffers DEF OpenAnswered, Settle
<1>3. BackendTyped' /\ Listed' /\ Canonical'
  BY <1>1, BackendSame DEF IInv, BackendTyped
<1>4. HookTyped'
  <2>1. sent' \in Sent /\ base' \in Pair /\ session' \in OrNone(Sessions)
    BY <1>1, <1>2, Forgetting, Typed DEF Pair, NoPair, OrNone
  <2> QED
    BY <1>1, <1>2, <2>1 DEF IInv, HookTyped, OrNone
<1>5. o.session <= opened /\ Untouched(o.session)
  BY <1>1 DEF IInv, Waiting
<1>6. Counted' /\ Given'
  BY <1>1, <1>2, <1>5 DEF IInv, Counted, Given, Untouched
<1>7. Waiting'
  <2>1. \A q \in opening' : q.session # None =>
          /\ q.session <= opened' /\ Untouched(q.session)'
          /\ q.session # session' /\ (call' # None => q.session # call'.session)
          /\ \A p \in opening' : p.session = q.session => p = q
    BY <1>1, <1>2 DEF IInv, Waiting, Untouched
  <2>2. \A q, p \in opening' : q.why = 0 => Doing("reopening")' /\ (p.why = 0 => p = q)
    BY <1>1, <1>2 DEF IInv, Waiting, Doing
  <2> QED
    BY <2>1, <2>2 DEF Waiting
<1>8. ResultsFit' /\ AnswerFits' /\ BaseFits'
  BY <1>1, <1>2, Forgetting DEF BaseFits
<1>9. ShownFits'
  BY <1>1, <1>2, ForgettingKeepsFits DEF IInv, ShownFits, Accepted, Doing
<1>10. Settled'
  BY <1>2 DEF Settled
<1> QED
  BY <1>3, <1>4, <1>6, <1>7, <1>8, <1>9, <1>10 DEF IInv

LEMMA OpenFailsStep ==
  ASSUME IInv, NEW o \in opening, OpenFails(o) PROVE IInv'
<1>1. /\ UNCHANGED <<table, state, jobs, opened, closing, events>>
      /\ UNCHANGED <<enabled, desired, base, sent, mutation, status, shown>>
      /\ opening' = opening \ {o} /\ session' = None /\ moves' = moves + 1
  BY DEF OpenFails, Move, backend
<1>2. /\ timer' \in BOOLEAN
      /\ (o.why = 0 /\ call' = None) \/ (o.why # 0 /\ call' = call)
  <2>1. CASE o.why = 0
    BY <2>1 DEF OpenFails, Settle
  <2>2. CASE o.why # 0
    BY <2>2 DEF OpenFails
  <2> QED
    BY <2>1, <2>2
<1>3. BackendTyped' /\ Listed' /\ Canonical'
  BY <1>1, BackendSame DEF IInv, BackendTyped
<1>4. HookTyped'
  <2>1. moves' \in Nat
    BY <1>1, Typed
  <2> QED
    BY <1>1, <1>2, <2>1 DEF IInv, HookTyped, OrNone
<1>5. Counted' /\ Given'
  BY <1>1, <1>2 DEF IInv, Counted, Given, Untouched
<1>6. Waiting'
  <2>1. \A q \in opening' : q.session # None =>
          /\ q.session <= opened' /\ Untouched(q.session)'
          /\ q.session # session' /\ (call' # None => q.session # call'.session)
          /\ \A p \in opening' : p.session = q.session => p = q
    BY <1>1, <1>2 DEF IInv, Waiting, Untouched
  <2>2. \A q, p \in opening' : q.why = 0 => Doing("reopening")' /\ (p.why = 0 => p = q)
    BY <1>1, <1>2 DEF IInv, Waiting, Doing
  <2> QED
    BY <2>1, <2>2 DEF Waiting
<1>7. ResultsFit' /\ ShownFits' /\ AnswerFits'
  <2>1. CASE call' = call
    BY <1>1, <2>1 DEF IInv, ResultsFit, ShownFits, AnswerFits, Fits, WantedSource, WantedRules, Accepted, Doing
  <2>2. CASE o.why = 0 /\ call' = None
    <3>1. Doing("reopening")
      BY <2>2 DEF IInv, Waiting
    <3>2. status # "shown" /\ \A e \in jobs \cup events : e.mutation # mutation
      BY <3>1, NoResultYet DEF Doing, Accepted
    <3> QED
      BY <1>1, <2>2, <3>2 DEF ResultsFit, ShownFits, AnswerFits
  <2> QED
    BY <1>2, <2>1, <2>2
<1>8. BaseFits' /\ Settled'
  BY <1>1 DEF BaseFits, Settled
<1> QED
  BY <1>3, <1>4, <1>5, <1>6, <1>7, <1>8 DEF IInv

-----------------------------------------------------------------------------
(* The hook: updates and results. *)

LEMMA TimerFiresStep ==
  ASSUME IInv, TimerFires PROVE IInv'
<1>1. /\ UNCHANGED <<table, state, jobs, opened, closing, events, moves>>
      /\ UNCHANGED <<enabled, desired, session, base, sent, opening, shown>>
      /\ timer' = FALSE
  BY DEF TimerFires, backend
<1>2. BackendTyped' /\ Listed' /\ Canonical'
  BY <1>1, BackendSame DEF IInv, BackendTyped
<1>3. CASE MayDispatch
  <2>1. /\ enabled /\ session # None /\ session \in Sessions /\ call = None
        /\ call' = Update /\ mutation' = mutation + 1 /\ status' = "loading"
    BY <1>3, Typed DEF TimerFires, MayDispatch
  <2>2. /\ Update \in Calls /\ Update.phase = "sent" /\ Update.session = session
        /\ Update.mutation = mutation + 1 /\ Update.base = base
    BY <2>1 DEF Update, Calls, IInv, HookTyped, Content, Pair, NoPair
  <2>3. call' # None /\ mutation \in Nat
    BY <2>1, <2>2, NoneAssumption, Typed
  <2>4. HookTyped'
    <3>1. mutation' \in Nat
      BY <2>1, <2>3
    <3>2. call' \in OrNone(Calls)
      BY <2>1, <2>2 DEF OrNone
    <3>3. status' \in {"off", "loading", "shown"} /\ timer' \in BOOLEAN
      BY <1>1, <2>1
    <3> QED
      BY <1>1, <3>1, <3>2, <3>3 DEF IInv, HookTyped
  <2>5. \A j \in jobs \cup events : j.mutation <= mutation + 1 /\ j.mutation # mutation + 1
    <3>1. \A j \in jobs \cup events : j.mutation \in Nat /\ j.mutation <= mutation
      BY DEF IInv, Counted, BackendTyped, Jobs, Results
    <3> QED
      BY <2>3, <3>1
  <2>6. Counted'
    BY <1>1, <2>1, <2>2, <2>5 DEF Counted
  <2>7. Given'
    BY <1>1, <2>1, <2>2 DEF IInv, Given, Untouched
  <2>8. Waiting'
    BY <1>1, <2>1, <2>2 DEF IInv, Waiting, Untouched, Doing
  <2>9. ResultsFit' /\ ShownFits' /\ BaseFits' /\ Settled'
    BY <1>1, <2>1, <2>3, <2>5 DEF ResultsFit, ShownFits, BaseFits, Settled
  <2>10. AnswerFits'
    <3>1. base = state[session].pair =>
            /\ sent.source # None => state[session].source = sent.source
            /\ sent.rules # None => state[session].rules = Normal[sent.rules]
      BY <2>1 DEF IInv, BaseFits, Fits, WantedSource, WantedRules
    <3> QED
      BY <1>1, <2>1, <2>2, <3>1 DEF AnswerFits
  <2> QED
    BY <1>2, <2>4, <2>6, <2>7, <2>8, <2>9, <2>10 DEF IInv
<1>4. CASE ~MayDispatch
  <2>1. UNCHANGED <<call, mutation, status>>
    BY <1>4 DEF TimerFires
  <2>2. HookTyped' /\ Counted' /\ Given' /\ Waiting'
    BY <1>1, <2>1 DEF IInv, HookTyped, Counted, Given, Waiting, Untouched, Doing
  <2>3. ResultsFit' /\ ShownFits' /\ AnswerFits' /\ BaseFits'
    BY <1>1, <2>1 DEF IInv, ResultsFit, ShownFits, AnswerFits, BaseFits, Fits, WantedSource, WantedRules,
                      Accepted, Doing
  <2>4. Settled'
    BY <1>1, <1>4, <2>1 DEF Settled, MayDispatch, Differs
  <2> QED
    BY <1>2, <2>2, <2>3, <2>4 DEF IInv
<1> QED
  BY <1>3, <1>4

\* The session is missing: another is asked for.
LEMMA AnswerMissingStep ==
  ASSUME IInv, AnswerMissing PROVE IInv'
<1> DEFINE new == [why |-> 0, session |-> None]
           c == [call EXCEPT !.phase = "reopening"]
<1>1. /\ UNCHANGED <<table, state, jobs, opened, events, moves>>
      /\ UNCHANGED <<enabled, desired, base, sent, mutation, timer, status, shown>>
      /\ call # None /\ call.phase = "acked" /\ call.ack = "missing" /\ call' = c
      /\ session' = None /\ opening' = opening \cup {new} /\ CloseCurrent
  BY DEF AnswerMissing, AskForSession, backend
<1>2. BackendTyped' /\ Listed' /\ Canonical'
  BY <1>1, BackendSame, CloseCurrentKeeps
<1>3. /\ c \in Calls /\ c # None /\ c.phase = "reopening" /\ c.session = call.session
      /\ c.mutation = call.mutation
  <2>1. call \in Calls
    BY <1>1, Typed
  <2>2. c \in Calls
    BY <2>1 DEF Calls
  <2> QED
    BY <2>1, <2>2, NoneAssumption DEF Calls
<1>4. new \in Openings /\ new.session = None /\ new.why = 0
  BY DEF Openings, OrNone
<1> HIDE DEF new, c
<1>5. HookTyped'
  BY <1>1, <1>3, <1>4 DEF IInv, HookTyped, OrNone
<1>6. Counted' /\ Given'
  BY <1>1, <1>3 DEF IInv, Counted, Given, Untouched
<1>7. Waiting'
  <2>1. \A o \in opening' : o.session # None =>
          /\ o.session <= opened' /\ Untouched(o.session)'
          /\ o.session # session' /\ (call' # None => o.session # call'.session)
          /\ \A p \in opening' : p.session = o.session => p = o
    BY <1>1, <1>3, <1>4 DEF IInv, Waiting, Untouched
  <2>2. \A o \in opening : o.why # 0
    BY <1>1 DEF IInv, Waiting, Doing
  <2>3. \A o, p \in opening' : o.why = 0 => Doing("reopening")' /\ (p.why = 0 => p = o)
    BY <1>1, <1>3, <1>4, <2>2 DEF Doing
  <2> QED
    BY <2>1, <2>3 DEF Waiting
<1>8. status # "shown" /\ \A e \in jobs \cup events : e.mutation # mutation
  BY <1>1, NoResultYet DEF Accepted
<1>9. ResultsFit' /\ ShownFits' /\ AnswerFits'
  BY <1>1, <1>3, <1>8 DEF ResultsFit, ShownFits, AnswerFits
<1>10. BaseFits' /\ Settled'
  BY <1>1 DEF BaseFits, Settled
<1> QED
  BY <1>2, <1>5, <1>6, <1>7, <1>9, <1>10 DEF IInv

LEMMA AnswerConflictStep ==
  ASSUME IInv, AnswerConflict PROVE IInv'
<1>1. /\ UNCHANGED <<table, state, jobs, opened, closing, events, moves>>
      /\ UNCHANGED <<enabled, desired, session, mutation, opening, status, shown>>
      /\ call # None /\ call.phase = "acked" /\ base' = call.pair /\ sent' = NothingSent /\ call' = None
  BY DEF AnswerConflict, Settle, backend
<1>2. timer' = TRUE
  BY NothingSentDiffers DEF AnswerConflict, Settle
<1>3. BackendTyped' /\ Listed' /\ Canonical'
  BY <1>1, BackendSame DEF IInv, BackendTyped
<1>4. HookTyped'
  <2>1. call.pair \in Pair /\ sent' \in Sent
    BY <1>1, Typed, Forgetting DEF Calls
  <2> QED
    BY <1>1, <1>2, <2>1 DEF IInv, HookTyped, OrNone
<1>5. Counted' /\ Given'
  BY <1>1 DEF IInv, Counted, Given, Untouched
<1>6. Waiting'
  BY <1>1 DEF IInv, Waiting, Untouched, Doing
<1>7. ResultsFit' /\ ShownFits' /\ AnswerFits' /\ BaseFits'
  BY <1>1, Forgetting DEF ShownFits, BaseFits
<1>8. Settled'
  BY <1>2 DEF Settled
<1> QED
  BY <1>3, <1>4, <1>5, <1>6, <1>7, <1>8 DEF IInv

LEMMA CallFailsStep ==
  ASSUME IInv, CallFails PROVE IInv'
<1>1. /\ UNCHANGED <<table, state, jobs, opened, closing, events>>
      /\ UNCHANGED <<enabled, desired, session, base, mutation, opening, shown>>
      /\ call # None /\ call.phase \in {"sent", "acked"} /\ sent' = NothingSent /\ call' = None
      /\ moves' = moves + 1 /\ status' = IF shown = None THEN status ELSE "shown"
  BY DEF CallFails, Settle, Move, backend
<1>2. timer' = TRUE
  BY NothingSentDiffers DEF CallFails, Settle
<1>3. BackendTyped' /\ Listed' /\ Canonical'
  BY <1>1, BackendSame DEF IInv, BackendTyped
<1>4. HookTyped'
  <2>1. moves' \in Nat /\ sent' \in Sent
    BY <1>1, Typed, Forgetting
  <2> QED
    BY <1>1, <1>2, <2>1 DEF IInv, HookTyped, OrNone
<1>5. Counted' /\ Given'
  BY <1>1 DEF IInv, Counted, Given, Untouched
<1>6. Waiting'
  BY <1>1 DEF IInv, Waiting, Untouched, Doing
<1>7. ResultsFit' /\ ShownFits' /\ AnswerFits' /\ BaseFits'
  BY <1>1, Forgetting DEF ShownFits, BaseFits
<1>8. Settled'
  BY <1>2 DEF Settled
<1> QED
  BY <1>3, <1>4, <1>5, <1>6, <1>7, <1>8 DEF IInv

\* What was sent is what the session holds.  If that is not the session in
\* use, neither of the two has been used.
LEMMA AnswerAcceptedStep ==
  ASSUME IInv, AnswerAccepted PROVE IInv'
<1>1. /\ UNCHANGED <<table, state, jobs, opened, closing, events, moves>>
      /\ UNCHANGED <<enabled, desired, session, mutation, opening, status, shown>>
      /\ call # None /\ call.phase = "acked" /\ call.ack \in {"accepted", "unchanged"}
      /\ base' = call.pair /\ sent' = SentBy(call) /\ call' = None
      /\ timer' = (timer \/ Differs(SentBy(call)))
  BY DEF AnswerAccepted, Settle, backend
<1>2. call \in Calls /\ call.session \in Sessions /\ sent \in Sent /\ (session # None => session \in Sessions)
  BY <1>1, Typed
<1>3. BackendTyped' /\ Listed' /\ Canonical'
  BY <1>1, BackendSame DEF IInv, BackendTyped
<1>4. HookTyped'
  <2>1. call.pair \in Pair /\ sent' \in Sent
    BY <1>1, <1>2 DEF SentBy, Calls, Sent, OrNone
  <2>2. timer' \in BOOLEAN
    BY <1>1 DEF Differs
  <2> QED
    BY <1>1, <2>1, <2>2 DEF IInv, HookTyped, OrNone
<1>5. Counted' /\ Given'
  BY <1>1 DEF IInv, Counted, Given, Untouched
<1>6. Waiting'
  BY <1>1 DEF IInv, Waiting, Untouched, Doing
<1>7. WantedSource' = WantedSource /\ WantedRules' = WantedRules
  BY <1>1 DEF WantedSource, WantedRules, SentBy
<1>8. ResultsFit' /\ ShownFits'
  BY <1>1, <1>7 DEF IInv, ResultsFit, ShownFits, Fits
<1>9. AnswerFits'
  BY <1>1 DEF AnswerFits
<1>10. BaseFits'
  <2> SUFFICES ASSUME session # None, call.pair = state[session].pair
               PROVE  /\ WantedSource # None => state[session].source = WantedSource
                      /\ WantedRules # None => state[session].rules = Normal[WantedRules]
    BY <1>1, <1>7 DEF BaseFits, Fits
  <2>1. /\ call.pair = state[call.session].pair
        /\ WantedSource # None => state[call.session].source = WantedSource
        /\ WantedRules # None => state[call.session].rules = Normal[WantedRules]
    BY <1>1 DEF IInv, AnswerFits, Fits
  <2>2. CASE session = call.session
    BY <2>1, <2>2
  <2>3. CASE session # call.session
    <3>1. Untouched(session) /\ Untouched(call.session)
      BY <1>1, <2>1, <2>3 DEF IInv, Given, Untouched
    <3>2. state[session].source = state[call.session].source /\ state[session].rules = state[call.session].rules
      BY <1>2, <3>1 DEF IInv, Canonical
    <3> QED
      BY <2>1, <3>2
  <2> QED
    BY <2>2, <2>3
<1>11. Settled'
  BY <1>1 DEF Settled, Differs
<1> QED
  BY <1>3, <1>4, <1>5, <1>6, <1>8, <1>9, <1>10, <1>11 DEF IInv

LEMMA ResultArrivesStep ==
  ASSUME IInv, NEW e \in events, ResultArrives(e) PROVE IInv'
<1>1. /\ UNCHANGED <<table, state, jobs, opened, closing, moves>>
      /\ UNCHANGED <<enabled, desired, session, sent, call, mutation, timer, opening>>
      /\ events' = events \ {e}
  BY DEF ResultArrives, backend
<1>2. \/ UNCHANGED <<base, status, shown>>
      \/ /\ e.session = session /\ e.mutation = mutation
         /\ base' = e.pair /\ status' = "shown" /\ shown' = [source |-> e.source, rules |-> e.rules]
  BY DEF ResultArrives, Expected
<1>3. BackendTyped' /\ Listed' /\ Canonical'
  BY <1>1, BackendSame DEF IInv, BackendTyped
<1>4. e \in Results /\ e.pair \in Pair /\ [source |-> e.source, rules |-> e.rules] \in Content
  BY Typed DEF Results, Content
<1>5. [source |-> e.source, rules |-> e.rules] # None
  BY <1>4, NoneAssumption
<1>6. HookTyped'
  BY <1>1, <1>2, <1>4 DEF IInv, HookTyped, OrNone
<1>7. Counted' /\ Given' /\ Waiting'
  BY <1>1, <1>2, <1>5 DEF IInv, Counted, Given, Waiting, Untouched, Doing
<1>8. ResultsFit' /\ AnswerFits' /\ Settled'
  BY <1>1 DEF IInv, ResultsFit, AnswerFits, Settled, Fits, WantedSource, WantedRules, Accepted, Doing, Differs
<1>9. e.mutation = mutation =>
        /\ Fits(e) /\ (call # None => Accepted)
        /\ state[e.session].pair = e.pair
        /\ state[e.session].source = e.source /\ state[e.session].rules = e.rules
  BY DEF IInv, ResultsFit
<1>10. ShownFits' /\ BaseFits'
  <2>1. CASE UNCHANGED <<base, status, shown>>
    BY <1>1, <2>1 DEF IInv, ShownFits, BaseFits, Fits, WantedSource, WantedRules, Accepted, Doing
  <2>2. CASE /\ e.session = session /\ e.mutation = mutation
             /\ base' = e.pair /\ status' = "shown" /\ shown' = [source |-> e.source, rules |-> e.rules]
    BY <1>1, <1>9, <2>2 DEF ShownFits, BaseFits, Fits, WantedSource, WantedRules, Accepted, Doing
  <2> QED
    BY <1>2, <2>1, <2>2
<1> QED
  BY <1>3, <1>6, <1>7, <1>8, <1>10 DEF IInv

-----------------------------------------------------------------------------
(* The theorems. *)

LEMMA NextIInv == IInv /\ [Next]_vars => IInv'
<1> SUFFICES ASSUME IInv, [Next]_vars PROVE IInv'
  OBVIOUS
<1>1. CASE Serve
  BY <1>1, FindSessionStep, UpdateStateStep, CloseSessionStep, ComputeDroppedStep, ComputeEndsStep,
     OpenHandledStep DEF Serve
<1>2. CASE Hear
  BY <1>2, AnswerMissingStep, AnswerConflictStep, AnswerAcceptedStep, TimerFiresStep, OpenAnsweredStep,
     ResultArrivesStep DEF Hear, Answer
<1>3. CASE \E c \in Content : Edit(c)
  BY <1>3, EditStep
<1>4. CASE SwitchOn \/ SwitchOff
  BY <1>4, SwitchOnStep, SwitchOffStep
<1>5. CASE ForeignOpens \/ CallFails
  BY <1>5, ForeignOpensStep, CallFailsStep
<1>6. CASE \E o \in opening : OpenFails(o)
  BY <1>6, OpenFailsStep
<1>7. CASE UNCHANGED vars
  <2>1. /\ UNCHANGED <<table, state, jobs, opened, closing, events, moves>>
        /\ UNCHANGED <<enabled, desired, session, base, sent, call, mutation, timer, opening, status, shown>>
    BY <1>7 DEF vars, backend, hook
  <2>2. closing' \subseteq 1..opened /\ moves' \in Nat /\ Listed'
    BY <2>1 DEF IInv, BackendTyped, HookTyped, Listed
  <2> QED
    BY <2>1, <2>2, Typed, ServiceStep DEF IInv
<1> QED
  BY <1>1, <1>2, <1>3, <1>4, <1>5, <1>6, <1>7 DEF Next

\* The hook, the update under way and the sessions agree in every reachable state.
THEOREM Invariance == Spec => []IInv
BY InitIInv, NextIInv, PTL DEF Spec

\* The backend keeps at most its capacity of sessions, each listed once and
\* all of them opened before; the last update carries the last mutation
\* number, and a result is shown only if there is one.
LEMMA IInvTypeOK == IInv => TypeOK
<1> SUFFICES ASSUME IInv PROVE TypeOK
  OBVIOUS
<1>1. Len(table) \in Nat /\ DOMAIN table = 1..Len(table) /\ \A i \in 1..Len(table) : table[i] \in Sessions
  <2>1. Len(table) \in Nat /\ DOMAIN table = 1..Len(table) /\ table \in [1..Len(table) -> Sessions]
    BY LenProperties DEF IInv, Listed
  <2> QED
    BY <2>1
<1>2. IsInjective(table)
  BY <1>1 DEF IInv, Listed, Distinct, IsInjective
<1>3. Range(table) \subseteq 1..opened
  <2> SUFFICES ASSUME NEW i \in 1..Len(table) PROVE table[i] \in 1..opened
    BY <1>1 DEF Range
  <2>1. table[i] \in Sessions /\ table[i] <= opened
    BY <1>1 DEF IInv, Listed
  <2> QED
    BY <2>1, Typed DEF Sessions
<1>4. \A s \in Sessions : state[s].pair \in Pair /\ state[s].source \in Sources /\ Normal[state[s].rules] = state[s].rules
  BY Typed DEF States, IInv, Canonical
<1>5. \A j \in jobs \cup events : j.session \in 1..opened
  <2> TAKE j \in jobs \cup events
  <2>1. j.session \in Sessions /\ j.session <= opened
    BY DEF IInv, BackendTyped, Given, Jobs, Results
  <2> QED
    BY <2>1, Typed DEF Sessions
<1>6. Len(table) <= Capacity /\ closing \subseteq 1..opened
  BY DEF IInv, Listed, BackendTyped
<1>7. /\ enabled \in BOOLEAN /\ desired \in Content /\ session \in Sessions \cup {None} /\ base \in Pair
      /\ call \in Calls \cup {None}
      /\ status \in {"off", "loading", "shown"} /\ (shown # None => shown \in Content)
  BY DEF IInv, HookTyped, OrNone
<1>8. (call # None => call.mutation = mutation) /\ (status = "shown" => shown # None)
  BY DEF IInv, Counted
<1> QED
  BY <1>2, <1>3, <1>4, <1>5, <1>6, <1>7, <1>8 DEF TypeOK

THEOREM TypeCorrect == Spec => []TypeOK
BY Invariance, IInvTypeOK, PTL

\* At rest, the window shows the result of the document and the rules next
\* to it.
LEMMA IInvShownIsCurrent == IInv => ShownIsCurrent
<1> SUFFICES ASSUME IInv, enabled, session # None, status = "shown", ~timer, call = None
             PROVE  shown = [source |-> desired.source, rules |-> Normal[desired.rules]]
  BY DEF ShownIsCurrent
<1>1. sent.source = desired.source /\ sent.rules = desired.rules
  BY DEF IInv, Settled, Differs
<1>2. desired.source # None /\ desired.rules # None
  BY NoneAssumption DEF IInv, HookTyped, Content
<1>3. shown.source = desired.source /\ shown.rules = Normal[desired.rules]
  BY <1>1, <1>2 DEF IInv, ShownFits, Fits, WantedSource, WantedRules
<1>4. shown \in Content
  BY DEF IInv, HookTyped, Counted, OrNone
<1> QED
  BY <1>3, <1>4 DEF Content

THEOREM ShownCurrent == Spec => []ShownIsCurrent
BY Invariance, IInvShownIsCurrent, PTL
=============================================================================
