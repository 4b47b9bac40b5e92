--------------------------- MODULE SshDialProofs ---------------------------
(***************************************************************************)
(* Proofs about SshDial for every set of dialers and hosts, every chain of *)
(* jump hosts and every limit of the gate.                                 *)
(*                                                                         *)
(* The invariant has two halves.  What dialers share: the mutex of the     *)
(* store is held by the one dialer that has a question open, so nobody     *)
(* writes known_hosts while the user is asked.  What each dialer has for   *)
(* itself: the clients of the hops behind it are open, those before it do  *)
(* not exist yet, and no connection owns its upstream until the last hop   *)
(* has been authenticated.                                                 *)
(***************************************************************************)
EXTENDS SshDial, FiniteSetTheorems, TLAPS

\* The values a dialer has of its own are functions of the dialers.
Shape == DOMAIN hop = Dialers /\ DOMAIN clients = Dialers /\ DOMAIN owned = Dialers

\* Who sleeps with the mutex held has a question open, and the other way round.
MutexIsAsking ==
  /\ mutex # NoDialer => pc[mutex] = "asking"
  /\ \A d \in Dialers : pc[d] = "asking" => mutex = d

\* A question in the list is one nobody has answered, about a key that is
\* not trusted.
QuestionIsOpen ==
  \A d \in question : /\ pc[d] = "asking" /\ reply[d] = "none"
                      /\ known[Host(d)][bad[d]] # "good"

\* The client of a hop exists from its authentication on, and connections
\* take over nothing before the last one.
Connecting == {"connect", "confirm", "asking", "reload"}
Dialed(d, i) == clients[d][i] = IF i < hop[d] THEN "open" ELSE "none"
ChainBehind ==
  \A d \in Dialers :
    /\ pc[d] \in {"idle", "gate", "callback"} => hop[d] = 1
    /\ pc[d] \in {"idle", "gate", "callback"} \cup Connecting =>
         owned[d] = {} /\ \A i \in 1..Len(Route[d]) : Dialed(d, i)
    /\ pc[d] \in {"subsystem", "open"} =>
         Last(d) /\ (hop[d] > 1 => hop[d] \in owned[d])

\* A dialer that has ended left its last two hops closed.  The jump hosts
\* before them are another matter, see ShortChainsRelease.
LastHopsClosed ==
  \A d \in Dialers : pc[d] = "ended" =>
    \A i \in 1..Len(Route[d]) : i >= hop[d] - 1 => clients[d][i] # "open"

\* No more dialers than the gate lets in.
GateHolds == IsFiniteSet(Inside) /\ Cardinality(Inside) <= GateLimit

IInv ==
  /\ TypeOK /\ Shape
  /\ MutexIsAsking /\ QuestionIsOpen
  /\ ChainBehind /\ LastHopsClosed /\ GateHolds

-----------------------------------------------------------------------------
\* Hops are hosts, and what a host presents is a type.
LEMMA HopIsHost ==
  ASSUME TypeOK, NEW d \in Dialers PROVE Host(d) \in Hosts
  BY RouteAssumption DEF TypeOK, Host

LEMMA PreferredInSet ==
  ASSUME NEW S \in SUBSET Types, S # {} PROVE Preferred(S) \in S
<1>1. \E y \in S : \A z \in S : y <= z
  BY TypesAssumption
<1> QED
  BY <1>1 DEF Preferred

LEMMA PresentedIsType ==
  ASSUME TypeOK, NEW d \in Dialers, Negotiable(d) # {} PROVE Presented(d) \in Types
<1>1. Negotiable(d) \in SUBSET Types
  BY DEF Negotiable, Allowed, OnRecord
<1> QED
  BY <1>1, PreferredInSet DEF Presented

\* Closing the client of a hop closes it and, if its connection owns its
\* upstream, the one before; it opens none, and concerns one dialer only.
LEMMA ClosingCloses ==
  ASSUME TypeOK, Shape, NEW d \in Dialers, NEW i \in 0..Len(Route[d]), CloseClient(d, i)
  PROVE  /\ DOMAIN clients' = Dialers
         /\ \A e \in Dialers : clients'[e] \in [1..Len(Route[e]) -> {"none", "open", "closed"}]
         /\ \A e \in Dialers : e # d => clients'[e] = clients[e]
         /\ \A j \in 1..Len(Route[d]) : clients'[d][j] = "open" =>
              clients[d][j] = "open" /\ j # i /\ (i \in owned[d] => j # i - 1)
<1>1. Len(Route[d]) \in Nat
  BY RouteAssumption
<1>2. i \in 1..Len(Route[d]) => i \in Cascade(d, i)
  BY <1>1 DEF Cascade
<1>3. i \in owned[d] /\ i - 1 \in 1..Len(Route[d]) => i - 1 \in Cascade(d, i)
  BY <1>1 DEF Cascade
<1> DEFINE row == [j \in DOMAIN clients[d] |-> IF j \in Cascade(d, i) /\ clients[d][j] = "open"
                                              THEN "closed" ELSE clients[d][j]]
<1>4. clients' = [clients EXCEPT ![d] = row]
  BY DEF CloseClient
<1>5. row \in [1..Len(Route[d]) -> {"none", "open", "closed"}]
  BY DEF TypeOK
<1>6. \A j \in 1..Len(Route[d]) : row[j] = "open" =>
        clients[d][j] = "open" /\ j # i /\ (i \in owned[d] => j # i - 1)
  BY <1>1, <1>2, <1>3 DEF TypeOK
<1> HIDE DEF row
<1> QED
  BY <1>4, <1>5, <1>6 DEF TypeOK, Shape

\* Nobody passes the gate but in PassGate.
LEMMA GateKeeps ==
  ASSUME GateHolds, Inside' \subseteq Inside PROVE GateHolds'
<1>1. IsFiniteSet(Inside') /\ Cardinality(Inside') <= Cardinality(Inside)
  BY FS_Subset DEF GateHolds
<1>2. Cardinality(Inside') \in Nat /\ Cardinality(Inside) \in Nat
  BY <1>1, FS_CardinalityType DEF GateHolds
<1> QED
  BY <1>1, <1>2, GateLimitAssumption DEF GateHolds

LEMMA InitIInv == Init => IInv
<1> SUFFICES ASSUME Init PROVE IInv
  OBVIOUS
<1>1. \A d \in Dialers : Len(Route[d]) \in Nat \ {0}
  BY RouteAssumption
<1>2. Preferred(Types) \in Types
  BY TypesAssumption, PreferredInSet
<1>3. TypeOK /\ Shape
  BY <1>1, <1>2, FirstKnownAssumption DEF Init, TypeOK, Snapshots, Shape, Phase
<1>4. MutexIsAsking /\ QuestionIsOpen /\ LastHopsClosed
  BY DEF Init, MutexIsAsking, QuestionIsOpen, LastHopsClosed
<1>5. ChainBehind
  BY <1>1 DEF Init, ChainBehind, Connecting, Dialed
<1>6. Inside = {}
  BY DEF Init, Inside, Dialing
<1>7. GateHolds
  BY <1>6, FS_EmptySet, GateLimitAssumption DEF GateHolds
<1> QED
  BY <1>3, <1>4, <1>5, <1>7 DEF IInv

-----------------------------------------------------------------------------
(* The gate, and the first look at known_hosts. *)

\* A dialer that is called waits at the gate.
LEMMA CallStep ==
  ASSUME IInv, NEW d \in Dialers, Call(d) PROVE IInv'
<1>1. TypeOK' /\ Shape'
  BY DEF IInv, TypeOK, Shape, Call, GoTo, Phase, store
<1>2. MutexIsAsking' /\ QuestionIsOpen'
  BY DEF IInv, TypeOK, Shape, MutexIsAsking, QuestionIsOpen, Host, Call, GoTo, store
<1>3. ChainBehind' /\ LastHopsClosed'
  BY DEF IInv, TypeOK, Shape, ChainBehind, LastHopsClosed, Connecting, Dialed, Last, Call, GoTo, store
<1>4. Inside' \subseteq Inside
  BY DEF IInv, TypeOK, Inside, Dialing, Call, GoTo
<1> QED
  BY <1>1, <1>2, <1>3, <1>4, GateKeeps DEF IInv

\* A dialer that has not been let in has dialled nothing.
LEMMA GateRefusedStep ==
  ASSUME IInv, NEW d \in Dialers, GateRefused(d) PROVE IInv'
<1>1. TypeOK' /\ Shape'
  BY DEF IInv, TypeOK, Shape, GateRefused, GoTo, Phase, store
<1>2. MutexIsAsking' /\ QuestionIsOpen'
  BY DEF IInv, TypeOK, Shape, MutexIsAsking, QuestionIsOpen, Host, GateRefused, GoTo, store
<1>3. ChainBehind' /\ LastHopsClosed'
  BY DEF IInv, TypeOK, Shape, ChainBehind, LastHopsClosed, Connecting, Dialed, Last, GateRefused, GoTo, store
<1>4. Inside' \subseteq Inside
  BY DEF IInv, TypeOK, Inside, Dialing, GateRefused, GoTo
<1> QED
  BY <1>1, <1>2, <1>3, <1>4, GateKeeps DEF IInv

\* Reading the file starts the first hop.
LEMMA ReadKnownHostsStep ==
  ASSUME IInv, NEW d \in Dialers, ReadKnownHosts(d) PROVE IInv'
<1>1. TypeOK' /\ Shape'
  BY DEF IInv, TypeOK, Snapshots, Shape, ReadKnownHosts, GoTo, Phase, store
<1>2. MutexIsAsking' /\ QuestionIsOpen'
  BY DEF IInv, TypeOK, Shape, MutexIsAsking, QuestionIsOpen, Host, ReadKnownHosts, GoTo, store
<1>3. ChainBehind' /\ LastHopsClosed'
  BY DEF IInv, TypeOK, Shape, ChainBehind, LastHopsClosed, Connecting, Dialed, Last, ReadKnownHosts, GoTo, store
<1>4. Inside' \subseteq Inside
  BY DEF IInv, TypeOK, Inside, Dialing, ReadKnownHosts, GoTo
<1> QED
  BY <1>1, <1>2, <1>3, <1>4, GateKeeps DEF IInv

\* Ending a context changes nothing else.
LEMMA CancelStep ==
  ASSUME IInv, NEW d \in Dialers, Cancel(d) PROVE IInv'
<1>1. TypeOK' /\ Shape'
  BY DEF IInv, TypeOK, Shape, Cancel, GoTo, Phase, store
<1>2. MutexIsAsking' /\ QuestionIsOpen'
  BY DEF IInv, TypeOK, Shape, MutexIsAsking, QuestionIsOpen, Host, Cancel, GoTo, store
<1>3. ChainBehind' /\ LastHopsClosed'
  BY DEF IInv, TypeOK, Shape, ChainBehind, LastHopsClosed, Connecting, Dialed, Last, Cancel, GoTo, store
<1>4. Inside' \subseteq Inside
  BY DEF IInv, TypeOK, Inside, Dialing, Cancel, GoTo
<1> QED
  BY <1>1, <1>2, <1>3, <1>4, GateKeeps DEF IInv

\* An answer takes the question off the list; the dialer keeps the mutex.
LEMMA AnswerStep ==
  ASSUME IInv, NEW d \in Dialers, NEW v \in {"yes", "no"}, Answer(d, v) PROVE IInv'
<1>1. TypeOK' /\ Shape'
  BY DEF IInv, TypeOK, Shape, Answer, GoTo, Phase, store, dial
<1>2. MutexIsAsking' /\ QuestionIsOpen'
  BY DEF IInv, TypeOK, Shape, MutexIsAsking, QuestionIsOpen, Host, Answer, GoTo, store, dial
<1>3. ChainBehind' /\ LastHopsClosed'
  BY DEF IInv, TypeOK, Shape, ChainBehind, LastHopsClosed, Connecting, Dialed, Last, Answer, GoTo, store, dial
<1>4. Inside' \subseteq Inside
  BY DEF IInv, TypeOK, Inside, Dialing, Answer, GoTo, dial
<1> QED
  BY <1>1, <1>2, <1>3, <1>4, GateKeeps DEF IInv

\* The attempts that are thrown away close nothing.
LEMMA NoCommonTypeStep ==
  ASSUME IInv, NEW d \in Dialers, NoCommonType(d) PROVE IInv'
<1>1. TypeOK' /\ Shape'
  BY DEF IInv, TypeOK, Shape, NoCommonType, GoTo, Phase, store, DropAttempt
<1>2. MutexIsAsking' /\ QuestionIsOpen'
  BY DEF IInv, TypeOK, Shape, MutexIsAsking, QuestionIsOpen, Host, NoCommonType, GoTo, store, DropAttempt
<1>3. ChainBehind' /\ LastHopsClosed'
  BY DEF IInv, TypeOK, Shape, ChainBehind, LastHopsClosed, Connecting, Dialed, Last, NoCommonType, GoTo, store, DropAttempt
<1>4. Inside' \subseteq Inside
  BY DEF IInv, TypeOK, Inside, Dialing, NoCommonType, GoTo, DropAttempt
<1> QED
  BY <1>1, <1>2, <1>3, <1>4, GateKeeps DEF IInv

\* Nor do they when the key was the wrong one.
LEMMA KeyNotTrustedStep ==
  ASSUME IInv, NEW d \in Dialers, KeyNotTrusted(d) PROVE IInv'
<1>1. /\ pc[d] = "connect" /\ Presented(d) \in Types
      /\ bad' = [bad EXCEPT ![d] = Presented(d)]
      /\ \E p \in {"connect", "confirm"} : pc' = [pc EXCEPT ![d] = p]
      /\ attempt' \in [Dialers -> 1..3]
      /\ UNCHANGED <<known, mutex, question, reply, canceled, snapshot, hop, clients, owned>>
  <2>1. pc[d] = "connect" /\ Presented(d) \in Types /\ bad' = [bad EXCEPT ![d] = Presented(d)]
    BY PresentedIsType DEF IInv, KeyNotTrusted
  <2>2. CASE attempt[d] = 1 /\ OnRecord(d) # {}
    BY <2>1, <2>2 DEF IInv, TypeOK, KeyNotTrusted, DropAttempt, GoTo, store
  <2>3. CASE ~(attempt[d] = 1 /\ OnRecord(d) # {})
    BY <2>1, <2>3 DEF IInv, TypeOK, KeyNotTrusted, DropAttempt, GoTo, store
  <2> QED
    BY <2>2, <2>3
<1>2. TypeOK' /\ Shape'
  BY <1>1 DEF IInv, TypeOK, Shape, Phase
<1>3. MutexIsAsking' /\ QuestionIsOpen'
  BY <1>1 DEF IInv, TypeOK, MutexIsAsking, QuestionIsOpen, Host
<1>4. ChainBehind' /\ LastHopsClosed'
  BY <1>1 DEF IInv, TypeOK, Shape, ChainBehind, LastHopsClosed, Connecting, Dialed, Last
<1>5. Inside' \subseteq Inside
  BY <1>1 DEF IInv, TypeOK, Inside, Dialing
<1> QED
  BY <1>2, <1>3, <1>4, <1>5, GateKeeps DEF IInv

\* After the question there is one attempt more.
LEMMA ReadKnownHostsAgainStep ==
  ASSUME IInv, NEW d \in Dialers, ReadKnownHostsAgain(d) PROVE IInv'
<1>1. TypeOK' /\ Shape'
  <2>1. snapshot' \in [Dialers -> Snapshots]
    BY DEF IInv, TypeOK, Snapshots, ReadKnownHostsAgain
  <2> QED
    BY <2>1 DEF IInv, TypeOK, Shape, ReadKnownHostsAgain, GoTo, Phase, store
<1>2. MutexIsAsking' /\ QuestionIsOpen'
  BY DEF IInv, TypeOK, Shape, MutexIsAsking, QuestionIsOpen, Host, ReadKnownHostsAgain, GoTo, store
<1>3. ChainBehind' /\ LastHopsClosed'
  BY DEF IInv, TypeOK, Shape, ChainBehind, LastHopsClosed, Connecting, Dialed, Last, ReadKnownHostsAgain, GoTo, store
<1>4. Inside' \subseteq Inside
  BY DEF IInv, TypeOK, Inside, Dialing, ReadKnownHostsAgain, GoTo
<1> QED
  BY <1>1, <1>2, <1>3, <1>4, GateKeeps DEF IInv

\* One that passes it is one more inside, and there was room.
LEMMA PassGateStep ==
  ASSUME IInv, NEW d \in Dialers, PassGate(d) PROVE IInv'
<1>1. TypeOK' /\ Shape'
  BY DEF IInv, TypeOK, Shape, PassGate, GoTo, Phase, store
<1>2. MutexIsAsking' /\ QuestionIsOpen'
  BY DEF IInv, TypeOK, Shape, MutexIsAsking, QuestionIsOpen, Host, PassGate, GoTo, store
<1>3. ChainBehind' /\ LastHopsClosed'
  BY DEF IInv, TypeOK, Shape, ChainBehind, LastHopsClosed, Connecting, Dialed, Last, PassGate, GoTo, store
<1>4. Inside' = Inside \cup {d} /\ d \notin Inside
  BY DEF IInv, TypeOK, Inside, Dialing, PassGate, GoTo
<1>5. IsFiniteSet(Inside') /\ Cardinality(Inside') = Cardinality(Inside) + 1
  BY <1>4, FS_AddElement DEF IInv, GateHolds
<1>6. Cardinality(Inside) \in Nat /\ Cardinality(Inside) < GateLimit
  BY FS_CardinalityType DEF IInv, GateHolds, PassGate
<1>7. GateHolds'
  BY <1>5, <1>6, GateLimitAssumption DEF GateHolds
<1> QED
  BY <1>1, <1>2, <1>3, <1>7 DEF IInv

-----------------------------------------------------------------------------
(* Failures. *)

\* What known_hosts was read to hold remains a record of it.
LEMMA DropAgainKeeps ==
  ASSUME TypeOK, NEW d \in Dialers, DropAgain(d) PROVE snapshot' \in [Dialers -> Snapshots]
<1>1. snapshot[d].first \in Records /\ snapshot[d].again \in Records
  BY DEF TypeOK, Snapshots
<1> QED
  BY <1>1 DEF TypeOK, Snapshots, DropAgain

\* A dialer that fails closes the client it was dialling through, and with
\* it all that is left to be closed of its last hops.
LEMMA FailCloses ==
  ASSUME IInv, NEW d \in Dialers, pc[d] \in Connecting, Fail(d)
  PROVE  /\ pc' = [pc EXCEPT ![d] = "ended"]
         /\ Shape' /\ ChainBehind' /\ LastHopsClosed' /\ Inside' \subseteq Inside
         /\ \A e \in Dialers : clients'[e] \in [1..Len(Route[e]) -> {"none", "open", "closed"}]
         /\ snapshot' \in [Dialers -> Snapshots]
<1>1. Len(Route[d]) \in Nat /\ hop[d] \in 1..Len(Route[d])
  BY RouteAssumption DEF IInv, TypeOK
<1>2. hop[d] - 1 \in 0..Len(Route[d]) /\ CloseClient(d, hop[d] - 1)
  BY <1>1 DEF Fail
<1>3. /\ DOMAIN clients' = Dialers
      /\ \A e \in Dialers : clients'[e] \in [1..Len(Route[e]) -> {"none", "open", "closed"}]
      /\ \A e \in Dialers : e # d => clients'[e] = clients[e]
      /\ \A j \in 1..Len(Route[d]) : clients'[d][j] = "open" =>
           clients[d][j] = "open" /\ j # hop[d] - 1
  BY <1>2, ClosingCloses DEF IInv
<1>4. /\ pc' = [pc EXCEPT ![d] = "ended"]
      /\ UNCHANGED <<hop, owned>>
  BY DEF Fail, GoTo
<1>5. \A j \in 1..Len(Route[d]) : clients[d][j] = "open" => j < hop[d]
  BY DEF IInv, ChainBehind, Dialed
<1>6. Shape'
  BY <1>3, <1>4 DEF IInv, Shape
<1>7. ChainBehind'
  <2>1. pc'[d] = "ended" /\ \A e \in Dialers : e # d => pc'[e] = pc[e] /\ clients'[e] = clients[e]
    BY <1>3, <1>4 DEF IInv, TypeOK
  <2> QED
    BY <1>4, <2>1 DEF IInv, ChainBehind, Connecting, Dialed, Last
<1>8. LastHopsClosed'
  BY <1>1, <1>3, <1>4, <1>5 DEF IInv, TypeOK, LastHopsClosed
<1>9. Inside' \subseteq Inside
  BY <1>4 DEF IInv, TypeOK, Inside, Dialing
<1>10. snapshot' \in [Dialers -> Snapshots]
  BY DropAgainKeeps DEF IInv, Fail
<1> QED
  BY <1>3, <1>4, <1>6, <1>7, <1>8, <1>9, <1>10

\* The host cannot be reached.
LEMMA AttemptFailsStep ==
  ASSUME IInv, NEW d \in Dialers, AttemptFails(d) PROVE IInv'
<1>1. pc[d] = "connect" /\ Fail(d)
  BY DEF AttemptFails
<1>2. /\ pc' = [pc EXCEPT ![d] = "ended"]
      /\ Shape' /\ ChainBehind' /\ LastHopsClosed' /\ Inside' \subseteq Inside
      /\ \A e \in Dialers : clients'[e] \in [1..Len(Route[e]) -> {"none", "open", "closed"}]
      /\ snapshot' \in [Dialers -> Snapshots]
  BY <1>1, FailCloses DEF Connecting
<1>3. TypeOK'
  BY <1>1, <1>2 DEF IInv, TypeOK, AttemptFails, Fail, Phase, store
<1>4. MutexIsAsking' /\ QuestionIsOpen'
  BY <1>1, <1>2, NoDialerAssumption DEF IInv, TypeOK, MutexIsAsking, QuestionIsOpen, Host, AttemptFails, Fail, store
<1> QED
  BY <1>2, <1>3, <1>4, GateKeeps DEF IInv

\* The last attempt has met another key again.
LEMMA KeyRefusedAgainStep ==
  ASSUME IInv, NEW d \in Dialers, KeyRefusedAgain(d) PROVE IInv'
<1>1. pc[d] = "connect" /\ Fail(d)
  BY DEF KeyRefusedAgain
<1>2. /\ pc' = [pc EXCEPT ![d] = "ended"]
      /\ Shape' /\ ChainBehind' /\ LastHopsClosed' /\ Inside' \subseteq Inside
      /\ \A e \in Dialers : clients'[e] \in [1..Len(Route[e]) -> {"none", "open", "closed"}]
      /\ snapshot' \in [Dialers -> Snapshots]
  BY <1>1, FailCloses DEF Connecting
<1>3. TypeOK'
  BY <1>1, <1>2 DEF IInv, TypeOK, KeyRefusedAgain, Fail, Phase, store
<1>4. MutexIsAsking' /\ QuestionIsOpen'
  BY <1>1, <1>2, NoDialerAssumption DEF IInv, TypeOK, MutexIsAsking, QuestionIsOpen, Host, KeyRefusedAgain, Fail, store
<1> QED
  BY <1>2, <1>3, <1>4, GateKeeps DEF IInv

\* The context has ended before the question was asked.
LEMMA GiveUpBeforeStoreStep ==
  ASSUME IInv, NEW d \in Dialers, GiveUpBeforeStore(d) PROVE IInv'
<1>1. pc[d] = "confirm" /\ Fail(d)
  BY DEF GiveUpBeforeStore
<1>2. /\ pc' = [pc EXCEPT ![d] = "ended"]
      /\ Shape' /\ ChainBehind' /\ LastHopsClosed' /\ Inside' \subseteq Inside
      /\ \A e \in Dialers : clients'[e] \in [1..Len(Route[e]) -> {"none", "open", "closed"}]
      /\ snapshot' \in [Dialers -> Snapshots]
  BY <1>1, FailCloses DEF Connecting
<1>3. TypeOK'
  BY <1>1, <1>2 DEF IInv, TypeOK, GiveUpBeforeStore, Fail, Phase, store
<1>4. MutexIsAsking' /\ QuestionIsOpen'
  BY <1>1, <1>2, NoDialerAssumption DEF IInv, TypeOK, MutexIsAsking, QuestionIsOpen, Host, GiveUpBeforeStore, Fail, store
<1> QED
  BY <1>2, <1>3, <1>4, GateKeeps DEF IInv

\* A refusal gives the mutex back.
LEMMA RefusedStep ==
  ASSUME IInv, NEW d \in Dialers, Refused(d) PROVE IInv'
<1>1. pc[d] = "asking" /\ Fail(d)
  BY DEF Refused, Turned
<1>2. /\ pc' = [pc EXCEPT ![d] = "ended"]
      /\ Shape' /\ ChainBehind' /\ LastHopsClosed' /\ Inside' \subseteq Inside
      /\ \A e \in Dialers : clients'[e] \in [1..Len(Route[e]) -> {"none", "open", "closed"}]
      /\ snapshot' \in [Dialers -> Snapshots]
  BY <1>1, FailCloses DEF Connecting
<1>3. TypeOK'
  BY <1>1, <1>2 DEF IInv, TypeOK, Refused, Fail, Phase, store, Turned
<1>4. MutexIsAsking' /\ QuestionIsOpen'
  BY <1>1, <1>2, NoDialerAssumption DEF IInv, TypeOK, MutexIsAsking, QuestionIsOpen, Host, Refused, Fail, store, Turned
<1> QED
  BY <1>2, <1>3, <1>4, GateKeeps DEF IInv

\* So does a question that is withdrawn, which leaves the list as well.
LEMMA WithdrawStep ==
  ASSUME IInv, NEW d \in Dialers, Withdraw(d) PROVE IInv'
<1>1. pc[d] = "asking" /\ Fail(d)
  BY DEF Withdraw
<1>2. /\ pc' = [pc EXCEPT ![d] = "ended"]
      /\ Shape' /\ ChainBehind' /\ LastHopsClosed' /\ Inside' \subseteq Inside
      /\ \A e \in Dialers : clients'[e] \in [1..Len(Route[e]) -> {"none", "open", "closed"}]
      /\ snapshot' \in [Dialers -> Snapshots]
  BY <1>1, FailCloses DEF Connecting
<1>3. TypeOK'
  BY <1>1, <1>2 DEF IInv, TypeOK, Withdraw, Fail, Phase, store
<1>4. MutexIsAsking' /\ QuestionIsOpen'
  BY <1>1, <1>2, NoDialerAssumption DEF IInv, TypeOK, MutexIsAsking, QuestionIsOpen, Host, Withdraw, Fail, store
<1> QED
  BY <1>2, <1>3, <1>4, GateKeeps DEF IInv

-----------------------------------------------------------------------------
(* The chain grows, the question, and the end. *)

\* An authenticated hop adds its client to those behind the next one; only
\* the last one takes over its upstream.
LEMMA AuthenticatedStep ==
  ASSUME IInv, NEW d \in Dialers, Authenticated(d) PROVE IInv'
<1>1. Len(Route[d]) \in Nat /\ hop[d] \in 1..Len(Route[d]) /\ pc[d] = "connect"
  BY RouteAssumption DEF IInv, TypeOK, Authenticated
<1>2. TypeOK' /\ Shape'
  <2>1. snapshot' \in [Dialers -> Snapshots]
    BY DropAgainKeeps DEF IInv, Authenticated
  <2>2. Shape'
    BY <1>1 DEF IInv, TypeOK, Shape, Authenticated, Owners, Last, GoTo
  <2>3. \A e \in Dialers : /\ hop'[e] \in 1..Len(Route[e]) /\ owned'[e] \subseteq 1..Len(Route[e])
                           /\ clients'[e] \in [1..Len(Route[e]) -> {"none", "open", "closed"}]
    BY <1>1 DEF IInv, TypeOK, Shape, Authenticated, Owners, Last, GoTo
  <2>4. attempt' \in [Dialers -> 1..3]
    BY DEF IInv, TypeOK, Authenticated
  <2>5. GoTo(d, "subsystem") \/ GoTo(d, "connect")
    BY DEF Authenticated
  <2>6. pc' \in [Dialers -> Phase]
    BY <2>5 DEF IInv, TypeOK, Phase, GoTo
  <2> QED
    BY <2>1, <2>2, <2>3, <2>4, <2>6 DEF IInv, TypeOK, Authenticated, store
<1>3. MutexIsAsking' /\ QuestionIsOpen'
  BY DEF IInv, TypeOK, Shape, MutexIsAsking, QuestionIsOpen, Host, Authenticated, GoTo, store
<1>4. ChainBehind'
  BY <1>1 DEF IInv, TypeOK, Shape, ChainBehind, Connecting, Dialed, Authenticated, Owners, Last, GoTo
<1>5. LastHopsClosed'
  BY DEF IInv, TypeOK, Shape, LastHopsClosed, Authenticated, GoTo
<1>6. Inside' \subseteq Inside
  BY DEF IInv, TypeOK, Inside, Dialing, Authenticated, GoTo
<1> QED
  BY <1>2, <1>3, <1>4, <1>5, <1>6, GateKeeps DEF IInv

\* The question is opened with the mutex, and only about a key that the
\* file does not trust at that moment.
LEMMA EnterStoreStep ==
  ASSUME IInv, NEW d \in Dialers, EnterStore(d) PROVE IInv'
<1>1. pc[d] = "confirm" /\ mutex = NoDialer /\ UNCHANGED <<known, canceled, hop, attempt, bad, owned>>
  BY DEF EnterStore
<1>2. CASE Fail(d) /\ UNCHANGED <<mutex, question, reply>>
  <2>1. /\ pc' = [pc EXCEPT ![d] = "ended"]
        /\ Shape' /\ ChainBehind' /\ LastHopsClosed' /\ Inside' \subseteq Inside
        /\ \A e \in Dialers : clients'[e] \in [1..Len(Route[e]) -> {"none", "open", "closed"}]
        /\ snapshot' \in [Dialers -> Snapshots]
    BY <1>1, <1>2, FailCloses DEF Connecting
  <2>2. TypeOK'
    BY <1>1, <1>2, <2>1 DEF IInv, TypeOK, Phase
  <2>3. MutexIsAsking' /\ QuestionIsOpen'
    BY <1>1, <1>2, <2>1 DEF IInv, TypeOK, MutexIsAsking, QuestionIsOpen, Host
  <2> QED
    BY <2>1, <2>2, <2>3, GateKeeps DEF IInv
<1>3. CASE GoTo(d, "reload") /\ UNCHANGED <<mutex, question, reply, clients, snapshot>>
  <2>1. TypeOK' /\ Shape'
    BY <1>1, <1>3 DEF IInv, TypeOK, Shape, GoTo, Phase
  <2>2. MutexIsAsking' /\ QuestionIsOpen'
    BY <1>1, <1>3 DEF IInv, TypeOK, MutexIsAsking, QuestionIsOpen, Host, GoTo
  <2>3. ChainBehind' /\ LastHopsClosed'
    BY <1>1, <1>3 DEF IInv, TypeOK, Shape, ChainBehind, LastHopsClosed, Connecting, Dialed, Last, GoTo
  <2>4. Inside' \subseteq Inside
    BY <1>1, <1>3 DEF IInv, TypeOK, Inside, Dialing, GoTo
  <2> QED
    BY <2>1, <2>2, <2>3, <2>4, GateKeeps DEF IInv
<1>4. CASE /\ ~AlreadyTrusted(d)
           /\ GoTo(d, "asking") /\ mutex' = d /\ question' = question \cup {d}
           /\ reply' = [reply EXCEPT ![d] = "none"] /\ UNCHANGED <<clients, snapshot>>
  <2>1. TypeOK' /\ Shape'
    BY <1>1, <1>4 DEF IInv, TypeOK, Shape, GoTo, Phase
  <2>2. \A e \in Dialers : pc[e] # "asking"
    BY <1>1, NoDialerAssumption DEF IInv, MutexIsAsking
  <2>3. MutexIsAsking' /\ question = {}
    BY <1>1, <1>4, <2>2 DEF IInv, TypeOK, MutexIsAsking, QuestionIsOpen, GoTo
  <2>4. QuestionIsOpen'
    BY <1>1, <1>4, <2>3 DEF IInv, TypeOK, QuestionIsOpen, Host, AlreadyTrusted, GoTo
  <2>5. ChainBehind' /\ LastHopsClosed'
    BY <1>1, <1>4 DEF IInv, TypeOK, Shape, ChainBehind, LastHopsClosed, Connecting, Dialed, Last, GoTo
  <2>6. Inside' \subseteq Inside
    BY <1>1, <1>4 DEF IInv, TypeOK, Inside, Dialing, GoTo
  <2> QED
    BY <2>1, <2>3, <2>4, <2>5, <2>6, GateKeeps DEF IInv
<1> QED
  BY <1>2, <1>3, <1>4 DEF EnterStore

\* The accepted key is written with the mutex held, when no other question
\* is open.
LEMMA AcceptedStep ==
  ASSUME IInv, NEW d \in Dialers, Accepted(d) PROVE IInv'
<1>1. Host(d) \in Hosts /\ bad[d] \in Types
  BY HopIsHost DEF IInv, TypeOK
<1>2. known' \in Records
  BY <1>1 DEF IInv, TypeOK, Records, Accepted
<1>3. TypeOK' /\ Shape'
  BY <1>2 DEF IInv, TypeOK, Shape, Accepted, GoTo, Phase
<1>4. question = {}
  BY DEF IInv, TypeOK, MutexIsAsking, QuestionIsOpen, Accepted
<1>5. MutexIsAsking' /\ QuestionIsOpen'
  BY <1>4, NoDialerAssumption DEF IInv, TypeOK, MutexIsAsking, QuestionIsOpen, Accepted, GoTo
<1>6. ChainBehind' /\ LastHopsClosed'
  BY DEF IInv, TypeOK, Shape, ChainBehind, LastHopsClosed, Connecting, Dialed, Last, Accepted, GoTo
<1>7. Inside' \subseteq Inside
  BY DEF IInv, TypeOK, Inside, Dialing, Accepted, GoTo
<1> QED
  BY <1>3, <1>5, <1>6, <1>7, GateKeeps DEF IInv

\* Closing the client of the last hop closes the one under it too.
LEMMA CloseStep ==
  ASSUME IInv, NEW d \in Dialers, pc[d] \in {"subsystem", "open"},
         GoTo(d, "ended"), CloseClient(d, hop[d]),
         UNCHANGED <<store, canceled, snapshot, hop, attempt, bad, owned>>
  PROVE  IInv'
<1>1. Len(Route[d]) \in Nat /\ hop[d] = Len(Route[d]) /\ hop[d] \in 1..Len(Route[d])
  BY RouteAssumption DEF IInv, TypeOK, ChainBehind, Last
<1>2. /\ DOMAIN clients' = Dialers
      /\ \A e \in Dialers : clients'[e] \in [1..Len(Route[e]) -> {"none", "open", "closed"}]
      /\ \A e \in Dialers : e # d => clients'[e] = clients[e]
      /\ \A j \in 1..Len(Route[d]) : clients'[d][j] = "open" =>
           clients[d][j] = "open" /\ j # hop[d] /\ (hop[d] \in owned[d] => j # hop[d] - 1)
  BY <1>1, ClosingCloses DEF IInv
<1>3. TypeOK' /\ Shape'
  BY <1>2 DEF IInv, TypeOK, Shape, GoTo, Phase, store
<1>4. MutexIsAsking' /\ QuestionIsOpen'
  BY DEF IInv, TypeOK, MutexIsAsking, QuestionIsOpen, Host, GoTo, store
<1>5. ChainBehind'
  BY <1>2 DEF IInv, TypeOK, ChainBehind, Connecting, Dialed, Last, GoTo
<1>6. LastHopsClosed'
  BY <1>1, <1>2 DEF IInv, TypeOK, ChainBehind, LastHopsClosed, GoTo
<1>7. Inside' \subseteq Inside
  BY DEF IInv, TypeOK, Inside, Dialing, GoTo
<1> QED
  BY <1>3, <1>4, <1>5, <1>6, <1>7, GateKeeps DEF IInv

LEMMA StartSubsystemStep ==
  ASSUME IInv, NEW d \in Dialers, StartSubsystem(d) PROVE IInv'
<1>1. CASE GoTo(d, "ended") /\ CloseClient(d, hop[d])
  BY <1>1, CloseStep DEF StartSubsystem
<1>2. CASE GoTo(d, "open") /\ UNCHANGED clients
  <2>1. TypeOK' /\ Shape'
    BY <1>2 DEF IInv, TypeOK, Shape, StartSubsystem, GoTo, Phase, store
  <2>2. MutexIsAsking' /\ QuestionIsOpen'
    BY <1>2 DEF IInv, TypeOK, MutexIsAsking, QuestionIsOpen, Host, StartSubsystem, GoTo, store
  <2>3. ChainBehind' /\ LastHopsClosed'
    BY <1>2 DEF IInv, TypeOK, ChainBehind, LastHopsClosed, Connecting, Dialed, Last, StartSubsystem, GoTo
  <2>4. Inside' \subseteq Inside
    BY <1>2 DEF IInv, TypeOK, Inside, Dialing, GoTo
  <2> QED
    BY <2>1, <2>2, <2>3, <2>4, GateKeeps DEF IInv
<1> QED
  BY <1>1, <1>2 DEF StartSubsystem

\* The settings write known_hosts with the mutex, so never while a question
\* is open.
LEMMA EditRecordStep ==
  ASSUME IInv, NEW h \in Hosts, NEW y \in Types, NEW v \in Edits, EditRecord(h, y, v)
  PROVE  IInv'
<1>1. known' \in Records
  BY EditsAssumption DEF IInv, TypeOK, Records, EditRecord
<1>2. TypeOK' /\ Shape'
  BY <1>1 DEF IInv, TypeOK, Shape, EditRecord, dial
<1>3. question = {}
  BY NoDialerAssumption DEF IInv, TypeOK, MutexIsAsking, QuestionIsOpen, EditRecord
<1>4. MutexIsAsking' /\ QuestionIsOpen'
  BY <1>3 DEF IInv, MutexIsAsking, QuestionIsOpen, EditRecord, dial
<1>5. ChainBehind' /\ LastHopsClosed' /\ Inside' = Inside
  BY DEF IInv, ChainBehind, LastHopsClosed, Dialed, Last, Inside, Dialing, EditRecord, dial
<1> QED
  BY <1>2, <1>4, <1>5, GateKeeps DEF IInv

-----------------------------------------------------------------------------
LEMMA NextIInv == IInv /\ [Next]_vars => IInv'
<1> SUFFICES ASSUME IInv, [Next]_vars PROVE IInv'
  OBVIOUS
<1>1. ASSUME NEW d \in Dialers, Waiting(d) PROVE IInv'
  BY <1>1, PassGateStep, GateRefusedStep, ReadKnownHostsStep, GiveUpBeforeStoreStep, EnterStoreStep,
     AcceptedStep, RefusedStep, WithdrawStep, ReadKnownHostsAgainStep DEF Waiting
<1>2. ASSUME NEW d \in Dialers, Attempt(d) PROVE IInv'
  BY <1>2, AttemptFailsStep, AuthenticatedStep, KeyNotTrustedStep, NoCommonTypeStep,
     KeyRefusedAgainStep DEF Attempt
<1>3. ASSUME NEW d \in Dialers, Close(d) PROVE IInv'
  BY <1>3, CloseStep DEF Close
<1>4. ASSUME NEW d \in Dialers, Call(d) \/ StartSubsystem(d) \/ Cancel(d) PROVE IInv'
  BY <1>4, CallStep, StartSubsystemStep, CancelStep
<1>5. ASSUME NEW d \in Dialers, NEW v \in {"yes", "no"}, Answer(d, v) PROVE IInv'
  BY <1>5, AnswerStep
<1>6. ASSUME NEW h \in Hosts, NEW y \in Types, NEW v \in Edits, EditRecord(h, y, v) PROVE IInv'
  BY <1>6, EditRecordStep
<1>7. CASE UNCHANGED vars
  BY <1>7 DEF vars, store, dial, IInv, TypeOK, Shape, MutexIsAsking, QuestionIsOpen, ChainBehind,
     LastHopsClosed, GateHolds, Inside, Dialing, Dialed, Last, Host
<1> QED
  BY <1>1, <1>2, <1>3, <1>4, <1>5, <1>6, <1>7 DEF Next

THEOREM Invariance == Spec => []IInv
  BY InitIInv, NextIInv, PTL DEF Spec

\* Every state of the dialers is one the declarations name.
THEOREM TypeCorrect == Spec => []TypeOK
<1>1. IInv => TypeOK
  BY DEF IInv
<1> QED
  BY <1>1, Invariance, PTL

\* There is never more than one question for the windows to show, and it is
\* about a key that known_hosts does not trust at that moment, however many
\* dialers failed on it (sshknownhosts.go, confirm).
THEOREM AskedWhenNeeded == Spec => []AskedOnlyWhenNeeded
<1>1. IInv => AskedOnlyWhenNeeded
  BY DEF IInv, TypeOK, MutexIsAsking, QuestionIsOpen, AskedOnlyWhenNeeded
<1> QED
  BY <1>1, Invariance, PTL

\* The jump hosts behind the hop that is being dialled stay open through
\* all its attempts, for chains of any length (sshchain.go 20-21).
THEOREM JumpsSurvive == Spec => []JumpSurvivesRetries
<1>1. IInv => JumpSurvivesRetries
  <2> SUFFICES ASSUME IInv, NEW d \in Dialers, pc[d] \in Connecting, NEW i \in 1..(hop[d] - 1)
               PROVE  clients[d][i] = "open"
    BY DEF JumpSurvivesRetries, Connecting
  <2>1. i \in 1..Len(Route[d]) /\ i < hop[d]
    BY RouteAssumption DEF IInv, TypeOK
  <2> QED
    BY <2>1 DEF IInv, ChainBehind, Dialed
<1> QED
  BY <1>1, Invariance, PTL

\* With at most one jump host a dialer that has ended has left nothing open
\* (sshchain.go 37-38).  Longer chains do leave clients open: the run
\* ssh_dial_chain shows it for two jump hosts.
THEOREM ShortChainsRelease ==
  ASSUME \A d \in Dialers : Len(Route[d]) <= 2
  PROVE  Spec => []CloseReleasesAll
<1>1. IInv => CloseReleasesAll
  <2> SUFFICES ASSUME IInv, NEW d \in Dialers, pc[d] = "ended", NEW i \in DOMAIN clients[d]
               PROVE  clients[d][i] # "open"
    BY DEF CloseReleasesAll
  <2>1. i \in 1..Len(Route[d]) /\ hop[d] - 1 <= 1 /\ hop[d] \in Nat
    BY RouteAssumption DEF IInv, TypeOK
  <2> QED
    BY <2>1, RouteAssumption DEF IInv, LastHopsClosed
<1> QED
  BY <1>1, Invariance, PTL

\* Of a longer chain, the client of the hop a dialer was at and the one
\* under it are closed when it has ended: only jump hosts further back can
\* be left open.
THEOREM LastHopsReleased == Spec => []LastHopsClosed
<1>1. IInv => LastHopsClosed
  BY DEF IInv
<1> QED
  BY <1>1, Invariance, PTL

\* No more than GateLimit dialers are between the gate and their client at
\* once, for any number of calls (sshauth.go, sshHandshakeGate).
THEOREM GateLimits == Spec => []GateHolds
<1>1. IInv => GateHolds
  BY DEF IInv
<1> QED
  BY <1>1, Invariance, PTL
=============================================================================
