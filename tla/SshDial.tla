------------------------------ MODULE SshDial ------------------------------
(***************************************************************************)
(* How the file manager opens an SSH connection: the handshake gate and    *)
(* the attempts of sshauth.go, the chain of jump hosts of sshchain.go, and *)
(* the host-key question of sshknownhosts.go, as dialSFTPWithOptions of    *)
(* sshfilesession.go puts them together.                                   *)
(*                                                                         *)
(* A dialer passes the gate, reads known_hosts for all its hops, and then  *)
(* connects and authenticates hop after hop, each through the client of    *)
(* the one before.  A hop whose key is not trusted gets a second attempt,  *)
(* limited to the key types on record, and, if the user accepts the key, a *)
(* last one, for which alone known_hosts is read again.  The question is   *)
(* put to the user with the mutex of the known_hosts store held, and every *)
(* dialer needs that mutex.                                                *)
(*                                                                         *)
(* A key is its type; known_hosts is, for each host and type, whether it   *)
(* records no key, the key the host really has, or another one.            *)
(***************************************************************************)
EXTENDS Integers, Sequences, FiniteSets

CONSTANTS Dialers,     \* calls of dialSFTPWithOptions
          Hosts,
          Types,       \* key types, as numbers: the smaller is preferred
          Offers,      \* the types of key each host has
          Route,       \* the chain of each dialer: jump hosts, then the target
          FirstKnown,  \* what known_hosts may hold at the start
          Edits,       \* what the settings may turn a record into
          GateLimit,   \* maxConcurrentSSHHandshakes
          NoDialer

ASSUME TypesAssumption ==
  /\ Types \subseteq Int /\ Types # {}
  /\ \A S \in (SUBSET Types) \ {{}} : \E y \in S : \A z \in S : y <= z
ASSUME OffersAssumption == Offers \in [Hosts -> (SUBSET Types) \ {{}}]
ASSUME RouteAssumption ==
  Route \in [Dialers -> Seq(Hosts)] /\ \A d \in Dialers : Route[d] # <<>>
Records == [Hosts -> [Types -> {"none", "good", "stale"}]]
Snapshots == [first : Records, again : Records]

ASSUME FirstKnownAssumption == FirstKnown \subseteq Records
ASSUME EditsAssumption == Edits \subseteq {"none", "good", "stale"}
ASSUME GateLimitAssumption == GateLimit \in Nat \ {0}
ASSUME NoDialerAssumption == NoDialer \notin Dialers

VARIABLES
  known,     \* the known_hosts file
  mutex,     \* who sleeps with store.mu held: the dialer that has a question open
  question,  \* the dialers whose question is in pendingSSHHostKeyPrompts
  reply,     \* what the result channel of each question holds
  \* Each dialer.
  pc,
  canceled,  \* its context is done
  snapshot,  \* what its host-key callbacks read of known_hosts: that of all
             \* hops, and that of the last attempt at the hop it is at
  hop,       \* the hop it is at
  attempt,   \* 1: all types; 2: the types on record; 3: after the question
  bad,       \* the type of the key it could not trust
  clients,   \* for each hop, its ssh.Client
  owned      \* the hops whose connection closes the client it came through

store == <<known, mutex, question, reply>>
dial  == <<pc, canceled, snapshot, hop, attempt, bad, clients, owned>>
vars  == <<store, dial>>

\* "gate": in sshHandshakeGate.acquire; "callback": about to read
\* known_hosts; "connect": in dialSSHClientOnce; "confirm": about to enter
\* the store; "asking": a question is open; "reload": about to read
\* known_hosts again; "subsystem": in sftp.NewClient; "open": the caller has
\* its client; "ended": closed, or failed and cleaned up.
Phase == {"idle", "gate", "callback", "connect", "confirm",
          "asking", "reload", "subsystem", "open", "ended"}

Host(d) == Route[d][hop[d]]
LastByCount(d) == hop[d] > Len(Route[d])  \* off by one, see Last
Last(d) == hop[d] = Len(Route[d])
Dialing(d) == pc[d] \notin {"idle", "gate", "open", "ended"}

Preferred(S) == CHOOSE y \in S : \A z \in S : y <= z
\* What the host-key callback of the attempt under way goes by.
Read(d) == IF attempt[d] = 3 THEN snapshot[d].again ELSE snapshot[d].first
OnRecord(d) == {y \in Types : Read(d)[Host(d)][y] # "none"}
Allowed(d) == IF attempt[d] = 2 THEN OnRecord(d) ELSE Types
Negotiable(d) == Offers[Host(d)] \cap Allowed(d)

Init ==
  /\ known \in FirstKnown
  /\ mutex = NoDialer
  /\ question = {}
  /\ reply = [d \in Dialers |-> "none"]
  /\ pc = [d \in Dialers |-> "idle"]
  /\ canceled = [d \in Dialers |-> FALSE]
  /\ snapshot = [d \in Dialers |-> [first |-> known, again |-> known]]
  /\ hop = [d \in Dialers |-> 1]
  /\ attempt = [d \in Dialers |-> 1]
  /\ bad = [d \in Dialers |-> Preferred(Types)]
  /\ clients = [d \in Dialers |-> [i \in 1..Len(Route[d]) |-> "none"]]
  /\ owned = [d \in Dialers |-> {}]

GoTo(d, p) == pc' = [pc EXCEPT ![d] = p]

\* Closing the client of hop i closes the connection under it, and with a
\* connection that owns its upstream the client of hop i - 1, and so on.
Cascade(d, i) == {j \in 1..i : (j + 1)..i \subseteq owned[d]}
CloseClient(d, i) ==
  clients' = [clients EXCEPT ![d] =
                [j \in DOMAIN @ |-> IF j \in Cascade(d, i) /\ @[j] = "open"
                                    THEN "closed" ELSE @[j]]]

\* What netConn.Close() of a failed handshake does to the jump host under
\* it: nothing, as a connection owns its upstream only once it is the
\* connection of an authenticated last hop.  Next to it, the form in which
\* it owns it from the start.
DropAttemptOwning(d) ==
  IF Last(d) /\ hop[d] > 1 THEN CloseClient(d, hop[d] - 1) ELSE UNCHANGED clients
DropAttempt(d) == UNCHANGED clients

\* The callback of the last attempt at a hop goes with it.
DropAgain(d) == snapshot' = [snapshot EXCEPT ![d].again = snapshot[d].first]

\* The error paths: the connection of the failed attempt is closed, which
\* shows nowhere as it is not yet owned; dialSSHChain closes `upstream`, the
\* client of the hop before; the deferred releaseHandshake frees the gate.
Fail(d) ==
  /\ GoTo(d, "ended")
  /\ CloseClient(d, hop[d] - 1)
  /\ DropAgain(d)
  /\ UNCHANGED <<canceled, hop, attempt, bad, owned>>

(***************************************************************************)
(* The gate, and the first look at known_hosts.                            *)
(***************************************************************************)
Call(d) ==
  /\ pc[d] = "idle"
  /\ GoTo(d, "gate")
  /\ UNCHANGED <<store, canceled, snapshot, hop, attempt, bad, clients, owned>>

Inside == {d \in Dialers : Dialing(d)}

PassGate(d) ==
  /\ pc[d] = "gate"
  /\ Cardinality(Inside) < GateLimit
  /\ GoTo(d, "callback")
  /\ UNCHANGED <<store, canceled, snapshot, hop, attempt, bad, clients, owned>>

GateRefused(d) ==
  /\ pc[d] = "gate"
  /\ canceled[d]
  /\ GoTo(d, "ended")
  /\ UNCHANGED <<store, canceled, snapshot, hop, attempt, bad, clients, owned>>

\* store.callback(): waits for the mutex, not for the context.
ReadKnownHosts(d) ==
  /\ pc[d] = "callback"
  /\ mutex = NoDialer
  /\ snapshot' = [snapshot EXCEPT ![d] = [first |-> known, again |-> known]]
  /\ GoTo(d, "connect")
  /\ UNCHANGED <<store, canceled, hop, attempt, bad, clients, owned>>

(***************************************************************************)
(* One attempt at one hop: dialSSHClientOnce.                              *)
(***************************************************************************)
\* The host cannot be reached, the credentials are refused, the connection
\* breaks or the context ends: no further attempt.
AttemptFails(d) ==
  /\ pc[d] = "connect"
  /\ Fail(d)
  /\ UNCHANGED store

Presented(d) == Preferred(Negotiable(d))
Trusted(d) == Negotiable(d) # {} /\ Read(d)[Host(d)][Presented(d)] = "good"

\* Only the connection of the last hop takes over its upstream.
OwnersNone(d) == {}
Owners(d) == IF Last(d) /\ hop[d] > 1 THEN {hop[d]} ELSE {}

Authenticated(d) ==
  /\ pc[d] = "connect"
  /\ Trusted(d)
  /\ clients' = [clients EXCEPT ![d][hop[d]] = "open"]
  /\ owned' = [owned EXCEPT ![d] = @ \cup Owners(d)]
  /\ attempt' = [attempt EXCEPT ![d] = 1]
  /\ DropAgain(d)
  /\ IF Last(d)
     THEN GoTo(d, "subsystem") /\ UNCHANGED hop
     ELSE GoTo(d, "connect") /\ hop' = [hop EXCEPT ![d] = @ + 1]
  /\ UNCHANGED <<store, canceled, bad>>

\* A key that is not the one on record.  If there are keys of the host on
\* record the second attempt asks for one of their types.
KeyNotTrusted(d) ==
  /\ pc[d] = "connect"
  /\ attempt[d] < 3
  /\ Negotiable(d) # {} /\ ~Trusted(d)
  /\ bad' = [bad EXCEPT ![d] = Presented(d)]
  /\ IF attempt[d] = 1 /\ OnRecord(d) # {}
     THEN GoTo(d, "connect") /\ attempt' = [attempt EXCEPT ![d] = 2]
     ELSE GoTo(d, "confirm") /\ UNCHANGED attempt
  /\ DropAttempt(d)
  /\ UNCHANGED <<store, canceled, snapshot, hop, owned>>

\* The host has no key of the types on record: the question is about the
\* key it presented first.
NoCommonType(d) ==
  /\ pc[d] = "connect"
  /\ attempt[d] = 2
  /\ Negotiable(d) = {}
  /\ GoTo(d, "confirm")
  /\ DropAttempt(d)
  /\ UNCHANGED <<store, canceled, snapshot, hop, attempt, bad, owned>>

\* After the question there is no other attempt.  The types are not limited
\* to the accepted one: a host with several keys may present another.
KeyRefusedAgain(d) ==
  /\ pc[d] = "connect"
  /\ attempt[d] = 3
  /\ ~Trusted(d)
  /\ Fail(d)
  /\ UNCHANGED store

(***************************************************************************)
(* The question: store.confirm and awaitSSHHostKeyPrompt.                  *)
(***************************************************************************)
GiveUpBeforeStore(d) ==
  /\ pc[d] = "confirm"
  /\ canceled[d]
  /\ Fail(d)
  /\ UNCHANGED store

\* Careless form of the test below: it trusts what the dialer read earlier.
InSnapshot(d) == Read(d)[Host(d)][bad[d]] = "good"
\* The file is read again under the mutex: somebody else may have asked.
AlreadyTrusted(d) == known[Host(d)][bad[d]] = "good"

EnterStore(d) ==
  /\ pc[d] = "confirm"
  /\ mutex = NoDialer
  /\ IF AlreadyTrusted(d)
     THEN GoTo(d, "reload") /\ UNCHANGED <<mutex, question, reply, clients, snapshot>>
     ELSE IF canceled[d]
     THEN Fail(d) /\ UNCHANGED <<mutex, question, reply>>
     ELSE /\ GoTo(d, "asking")
          /\ mutex' = d
          /\ question' = question \cup {d}
          /\ reply' = [reply EXCEPT ![d] = "none"]
          /\ UNCHANGED <<clients, snapshot>>
  /\ UNCHANGED <<known, canceled, hop, attempt, bad, owned>>

\* resolveSSHHostKeyPrompt, called by the window; the channel has room.
Answer(d, v) ==
  /\ d \in question
  /\ question' = question \ {d}
  /\ reply' = [reply EXCEPT ![d] = v]
  /\ UNCHANGED <<known, mutex, dial>>

\* The accepted key replaces the one of its type (replaceLocked), unless the
\* context ended meanwhile.
Accepted(d) ==
  /\ pc[d] = "asking"
  /\ reply[d] = "yes"
  /\ ~canceled[d]
  /\ mutex' = NoDialer
  /\ known' = [known EXCEPT ![Host(d)][bad[d]] = "good"]
  /\ GoTo(d, "reload")
  /\ UNCHANGED <<question, reply, canceled, snapshot, hop, attempt, bad, clients, owned>>

Turned(d) ==
  /\ pc[d] = "asking"
  /\ reply[d] = "no" \/ (reply[d] = "yes" /\ canceled[d])
  /\ Fail(d)
  /\ UNCHANGED <<known, question, reply>>
RefusedLocked(d) == Turned(d) /\ UNCHANGED mutex  \* an early return without Unlock
Refused(d) == Turned(d) /\ mutex' = NoDialer

\* select, case <-ctx.Done(): the question is withdrawn.
Withdraw(d) ==
  /\ pc[d] = "asking"
  /\ canceled[d]
  /\ mutex' = NoDialer
  /\ question' = question \ {d}
  /\ Fail(d)
  /\ UNCHANGED <<known, reply>>

\* The callback of the last attempt at this hop.
ReadKnownHostsAgain(d) ==
  /\ pc[d] = "reload"
  /\ mutex = NoDialer
  /\ snapshot' = [snapshot EXCEPT ![d].again = known]
  /\ attempt' = [attempt EXCEPT ![d] = 3]
  /\ GoTo(d, "connect")
  /\ UNCHANGED <<store, canceled, hop, bad, clients, owned>>

(***************************************************************************)
(* The SFTP session on top, and the end.                                   *)
(***************************************************************************)
StartSubsystem(d) ==
  /\ pc[d] = "subsystem"
  /\ \/ GoTo(d, "open") /\ UNCHANGED clients
     \/ GoTo(d, "ended") /\ CloseClient(d, hop[d])
  /\ UNCHANGED <<store, canceled, snapshot, hop, attempt, bad, owned>>

Close(d) ==
  /\ pc[d] = "open"
  /\ GoTo(d, "ended")
  /\ CloseClient(d, hop[d])
  /\ UNCHANGED <<store, canceled, snapshot, hop, attempt, bad, owned>>

(***************************************************************************)
(* The user cancels, or edits the records in the settings (store.update    *)
(* and store.delete, which need the mutex too).                            *)
(***************************************************************************)
Cancel(d) ==
  /\ pc[d] # "idle" /\ ~canceled[d]
  /\ canceled' = [canceled EXCEPT ![d] = TRUE]
  /\ UNCHANGED <<store, pc, snapshot, hop, attempt, bad, clients, owned>>

EditRecord(h, y, v) ==
  /\ mutex = NoDialer
  /\ known[h][y] # "none"
  /\ known' = [known EXCEPT ![h][y] = v]
  /\ UNCHANGED <<mutex, question, reply, dial>>

Attempt(d) ==
  AttemptFails(d) \/ Authenticated(d) \/ KeyNotTrusted(d) \/ NoCommonType(d)
    \/ KeyRefusedAgain(d)

Waiting(d) ==
  PassGate(d) \/ GateRefused(d) \/ ReadKnownHosts(d) \/ GiveUpBeforeStore(d)
    \/ EnterStore(d) \/ Accepted(d) \/ Refused(d) \/ Withdraw(d)
    \/ ReadKnownHostsAgain(d)

Next ==
  \/ \E d \in Dialers :
       \/ Call(d) \/ Waiting(d) \/ Attempt(d) \/ StartSubsystem(d) \/ Close(d)
       \/ Cancel(d) \/ (\E v \in {"yes", "no"} : Answer(d, v))
  \/ \E h \in Hosts, y \in Types, v \in Edits : EditRecord(h, y, v)

(***************************************************************************)
(* A dialer that can go on does.  Strong fairness: a mutex, a free place   *)
(* of the gate or the ready case of a select is not withheld for ever from *)
(* one who waits for it.  An attempt need not end before its context does  *)
(* (there is no timeout on the handshake), sftp.NewClient need not return  *)
(* at all, and whether the user ever answers is a question of its own.     *)
(***************************************************************************)
Fairness == \A d \in Dialers : SF_vars(Waiting(d) \/ (Attempt(d) /\ canceled[d]))

UserAnswers == \A d \in Dialers : WF_vars(Answer(d, "yes") \/ Answer(d, "no"))

Spec == Init /\ [][Next]_vars /\ Fairness
AttendedSpec == Spec /\ UserAnswers

-----------------------------------------------------------------------------
TypeOK ==
  /\ known \in Records
  /\ mutex \in Dialers \cup {NoDialer}
  /\ question \subseteq Dialers
  /\ reply \in [Dialers -> {"none", "yes", "no"}]
  /\ pc \in [Dialers -> Phase]
  /\ canceled \in [Dialers -> BOOLEAN]
  /\ snapshot \in [Dialers -> Snapshots]
  /\ \A d \in Dialers :
       /\ hop[d] \in 1..Len(Route[d])
       /\ clients[d] \in [1..Len(Route[d]) -> {"none", "open", "closed"}]
       /\ owned[d] \subseteq 1..Len(Route[d])
  /\ attempt \in [Dialers -> 1..3]
  /\ bad \in [Dialers -> Types]

\* The user is never asked about a key that is already trusted, although
\* several dialers of the same host fail on it at the same time and the
\* answer to the first one comes while the others wait: confirm reads the
\* file again under the mutex, and nobody can write it while a question is
\* open.  Nor is there ever more than one question for the windows to show.
AskedOnlyWhenNeeded ==
  /\ \A d \in question : known[Host(d)][bad[d]] # "good"
  /\ \A d, e \in question : d = e

\* While a hop is being dialled the client it is dialled through is open:
\* the attempts that are thrown away on the way to an accepted host key do
\* not close the jump host under the next attempt (sshchain.go 20-21).
JumpSurvivesRetries ==
  \A d \in Dialers :
    pc[d] \in {"connect", "confirm", "asking", "reload"}
      => \A i \in 1..(hop[d] - 1) : clients[d][i] = "open"

\* A dialer that has failed or whose client has been closed has left no
\* client of its chain open (sshchain.go 37-38).
CloseReleasesAll ==
  \A d \in Dialers : pc[d] = "ended" => \A i \in DOMAIN clients[d] : clients[d][i] # "open"

\* Cancelling interrupts the connecting: a dialer whose context is done
\* fails, or has its client already (sshfileservice.go 357-358).
CancelInterrupts ==
  \A d \in Dialers :
    (canceled[d] /\ pc[d] \in Phase \ {"subsystem", "open"})
      ~> (pc[d] \in {"subsystem", "open", "ended"})
=============================================================================
