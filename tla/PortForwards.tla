---------------------------- MODULE PortForwards ----------------------------
(***************************************************************************)
(* portservice.go: the port forwards.  A forward has a definition, kept in *)
(* the configuration (configservice.go), and, while it runs, a tunnel in   *)
(* the map of the PortService: a listener, an SSH client, and a goroutine  *)
(* (runTunnel) that reconnects it and gives up after some attempts.        *)
(*                                                                         *)
(* The calls of the windows come in lanes, as the page issues them         *)
(* (PortTool.tsx): one save or deletion at a time, as these are modal      *)
(* dialogs, one start or stop at a time (busyForward), and the changes of  *)
(* the configuration, of the order of the list among them.  Nothing keeps  *)
(* two lanes off the same forward.                                         *)
(*                                                                         *)
(* Whoever changes the configuration calls its observers after unlocking   *)
(* it: the observer of the PortService stops the tunnels the change has    *)
(* made stale, and may find a later configuration in force by then.        *)
(***************************************************************************)
EXTENDS Integers, FiniteSets

CONSTANTS Ids,        \* identities of forwards
          Addresses,  \* what a forward may listen on
          Imports,    \* the definitions an imported configuration may hold
          Tunnels,    \* identities of tunnels (bounds how many run at once)
          MaxCalls,   \* bound on the calls made in a run of the model
          MaxRetries, \* how often a tunnel tries to reconnect (5 in the code)
          None

ASSUME NoneAssumption ==
  None \notin Ids \cup Addresses \cup Tunnels \cup [id : Ids, address : Addresses]
ASSUME BoundsAssumption == MaxRetries \in Nat /\ MaxCalls \in Nat
Definitions == [Ids -> Addresses \cup {None}]
ASSUME ImportsAssumption == Imports \subseteq Definitions

Lanes == {"dialog", "toggle", "settings"}

VARIABLES
  \* ConfigService: the definitions, and whether the SSH profiles and port
  \* sources have been changed an odd number of times.
  config,
  \* PortService.
  previous,   \* the configuration its observer saw last
  tunnels,    \* the map
  handed,     \* the identities AddForward has handed out
  \* The tunnels.
  spec,       \* the definition a tunnel was opened for, None if unused
  run,        \* where its runTunnel is
  retries,
  canceled,   \* its context is done
  listening,  \* the tunnels whose listener is open
  \* The lanes, and what has been observed of them.
  call,       \* the call under way in each lane
  calls,      \* the number of calls made
  raced,      \* history: the forwards that two calls worked on at once, one
              \* of them opening a tunnel
  overlapped  \* history: a configuration was saved before the one before it
              \* had been announced

tunnel == <<spec, run, retries, canceled, listening>>
vars   == <<config, previous, tunnels, handed, tunnel, call, calls, raced, overlapped>>
history == <<calls, raced, overlapped>>

Config == [defs : Definitions, sources : BOOLEAN]

\* A call: where it is; the operation, the forward and the definition it is
\* about; the tunnel it has opened and not yet published; the configuration
\* it has to tell the observer, and the forwards the observer has yet to
\* stop.
Idle == [pc |-> "idle", op |-> "none", id |-> None, address |-> None,
         own |-> None, saved |-> None, stale |-> {}]
Calling(o, i, a, p) == [Idle EXCEPT !.pc = p, !.op = o, !.id = i, !.address = a]

\* "new": opened by a call, not yet published; "open": waiting for the end
\* of the client or of the context; "retry": in the reconnection loop.
Run == {"unused", "new", "open", "retry", "failed"}

Fresh == {t \in Tunnels : run[t] = "unused"}

Init ==
  /\ config \in {[defs |-> d, sources |-> FALSE] : d \in Imports}
  /\ previous = config
  /\ tunnels = [i \in Ids |-> None]
  /\ handed = {i \in Ids : config.defs[i] # None}
  /\ spec = [t \in Tunnels |-> None]
  /\ run = [t \in Tunnels |-> "unused"]
  /\ retries = [t \in Tunnels |-> 0]
  /\ canceled = [t \in Tunnels |-> FALSE]
  /\ listening = {}
  /\ call = [l \in Lanes |-> Idle]
  /\ calls = 0
  /\ raced = {}
  /\ overlapped = FALSE

At(l, p) == call[l].pc = p
GoTo(l, p) == call' = [call EXCEPT ![l].pc = p]
Return(l) == call' = [call EXCEPT ![l] = Idle]
Defined(i) == config.defs[i] # None

(***************************************************************************)
(* Stopping, as everybody does it: out of the map, cancel, close what is   *)
(* there.  The runner notices the end of its context by itself.  Next to   *)
(* it, a form that leaves it in the map.                                   *)
(***************************************************************************)
Mapped(S) == {t \in Tunnels : \E i \in S : tunnels[i] = t}
StopForwardsKept(S) ==
  /\ canceled' = [t \in Tunnels |-> canceled[t] \/ t \in Mapped(S)]
  /\ listening' = listening \ Mapped(S)
  /\ UNCHANGED <<tunnels, spec, run, retries>>
StopForwards(S) ==
  /\ tunnels' = [i \in Ids |-> IF i \in S THEN None ELSE tunnels[i]]
  /\ canceled' = [t \in Tunnels |-> canceled[t] \/ t \in Mapped(S)]
  /\ listening' = listening \ Mapped(S)
  /\ UNCHANGED <<spec, run, retries>>

\* A tunnel that nobody refers to any more: its identity is free again.
Forget(t) ==
  /\ spec' = [spec EXCEPT ![t] = None]
  /\ run' = [run EXCEPT ![t] = "unused"]
  /\ retries' = [retries EXCEPT ![t] = 0]
  /\ canceled' = [canceled EXCEPT ![t] = FALSE]
  /\ listening' = listening \ {t}

(***************************************************************************)
(* The calls begin: each reads the definition it works on.                 *)
(***************************************************************************)
Opening == {"add", "update", "start"}
Opens(l) == call[l].op \in Opening

Begin(l, o, i, a, next) ==
  /\ At(l, "idle")
  /\ calls < MaxCalls /\ calls' = calls + 1
  /\ call' = [call EXCEPT ![l] = Calling(o, i, a, next)]
  /\ raced' = IF \E m \in Lanes : call[m].id = i /\ (Opens(m) \/ o \in Opening)
              THEN raced \cup {i} ELSE raced
  /\ UNCHANGED <<config, previous, tunnels, tunnel, overlapped>>

\* nextForwardID: neither defined nor running, and never twice.
AddForward(i, a) ==
  /\ i \notin handed
  /\ ~Defined(i) /\ tunnels[i] = None
  /\ handed' = handed \cup {i}
  /\ Begin("dialog", "add", i, a, "open")
UpdateForward(i, a) ==
  Defined(i) /\ Begin("dialog", "update", i, a, "stop") /\ UNCHANGED handed
DeleteForward(i) ==
  Defined(i) /\ Begin("dialog", "delete", i, None, "stop") /\ UNCHANGED handed
StartForward(i) ==
  Defined(i) /\ Begin("toggle", "start", i, config.defs[i], "check") /\ UNCHANGED handed
StopForward(i) ==
  Defined(i) /\ Begin("toggle", "stop", i, None, "stop") /\ UNCHANGED handed

\* A tunnel that runs, or is reconnecting, stays; a failed one is replaced.
Running(i) == tunnels[i] # None /\ run[tunnels[i]] # "failed"
Check(l) ==
  /\ At(l, "check")
  /\ IF Running(call[l].id)
     THEN Return(l) /\ UNCHANGED <<tunnels, tunnel>>
     ELSE GoTo(l, "open") /\ StopForwards({call[l].id})
  /\ UNCHANGED <<config, previous, handed, history>>

Stop(l) ==
  /\ At(l, "stop")
  /\ StopForwards({call[l].id})
  /\ CASE call[l].op = "update" -> GoTo(l, "open")
       [] call[l].op = "delete" -> GoTo(l, "persist")
       [] call[l].op = "stop"   -> Return(l)
  /\ UNCHANGED <<config, previous, handed, history>>

(***************************************************************************)
(* openTunnel: dial, then listen.                                          *)
(***************************************************************************)
Taken(a) == \E t \in listening : spec[t].address = a

Opened(l) ==
  /\ At(l, "open")
  /\ ~Taken(call[l].address)
  /\ \E t \in Fresh :
       /\ spec' = [spec EXCEPT ![t] = [id |-> call[l].id, address |-> call[l].address]]
       /\ run' = [run EXCEPT ![t] = "new"]
       /\ listening' = listening \cup {t}
       /\ call' = [call EXCEPT ![l].own = t,
                               ![l].pc = IF call[l].op = "start" THEN "publish"
                                         ELSE "persist"]
  /\ UNCHANGED <<config, previous, tunnels, handed, retries, canceled, history>>

\* The host cannot be reached: the call fails, nothing is saved.
DialFails(l) ==
  /\ At(l, "open")
  /\ Return(l)
  /\ UNCHANGED <<config, previous, tunnels, handed, tunnel, history>>

\* The port is taken, by a tunnel or by somebody else: a new definition is
\* saved all the same, and its tunnel left stopped.
ListenFails(l) ==
  /\ At(l, "open")
  /\ call[l].op # "start"
  /\ GoTo(l, "persist")
  /\ UNCHANGED <<config, previous, tunnels, handed, tunnel, history>>

(***************************************************************************)
(* Changing the configuration, and telling the observer.                   *)
(***************************************************************************)
\* The forwards another lane opens a tunnel for by a definition not in d.
Overtaken(l, d) ==
  {call[m].id : m \in {k \in Lanes \ {l} : Opens(k) /\ d[call[k].id] # call[k].address}}

Change(l, c) ==
  /\ config' = c
  /\ call' = [call EXCEPT ![l].saved = c, ![l].pc = "notify"]
  /\ raced' = raced \cup Overtaken(l, c.defs)
  /\ overlapped' = (overlapped \/ \E m \in Lanes : At(m, "notify"))

\* persistForwards: the change is applied to the definitions in force.  An
\* update of a definition that is gone changes nothing.
Mutated(l) ==
  LET i == call[l].id
      set(a) == [config EXCEPT !.defs[i] = a]
  IN  CASE call[l].op = "add"    -> set(call[l].address)
        [] call[l].op = "update" -> IF Defined(i) THEN set(call[l].address) ELSE config
        [] call[l].op = "delete" -> set(None)

Persist(l) ==
  /\ At(l, "persist")
  /\ Change(l, Mutated(l))
  /\ UNCHANGED <<previous, tunnels, handed, tunnel, calls>>

\* The file cannot be written: the tunnel is closed again.
PersistFails(l) ==
  /\ At(l, "persist")
  /\ IF call[l].own = None THEN UNCHANGED tunnel ELSE Forget(call[l].own)
  /\ Return(l)
  /\ UNCHANGED <<config, previous, tunnels, handed, history>>

\* The settings lane: an SSH profile or a port source changes, or a whole
\* configuration is imported.
SaveSettings ==
  /\ At("settings", "idle")
  /\ calls < MaxCalls /\ calls' = calls + 1
  /\ \/ Change("settings", [config EXCEPT !.sources = ~@])
     \/ \E d \in Imports : Change("settings", [config EXCEPT !.defs = d])
  /\ UNCHANGED <<previous, tunnels, handed, tunnel>>

\* The first half of the observer: what has changed since it was last told?
SourcesChanged(c) == c.sources # previous.sources
ForwardsChanged(c) == c.defs # previous.defs

Proceed(l) == IF call[l].own = None THEN Return(l) ELSE GoTo(l, "publish")

Notify(l) ==
  /\ At(l, "notify")
  /\ previous' = call[l].saved
  /\ IF SourcesChanged(call[l].saved) THEN GoTo(l, "shutdown")
     ELSE IF ForwardsChanged(call[l].saved) THEN GoTo(l, "sync")
     ELSE Proceed(l)
  /\ UNCHANGED <<config, tunnels, handed, tunnel, history>>

\* The second half, under the mutex of the service: which tunnels to stop?
\* `matches` compares them with the configuration the observer was told.
\* Next to it, a form that looks for the identity alone.
MatchesById(l, i) == call[l].saved.defs[i] # None
Matches(l, i) == call[l].saved.defs[i] = spec[tunnels[i]].address

Collect(l) ==
  /\ call[l].pc \in {"shutdown", "sync"}
  /\ call' = [call EXCEPT
       ![l].pc = "clean",
       ![l].stale = {i \in Ids : tunnels[i] # None /\ (At(l, "sync") => ~Matches(l, i))}]
  /\ UNCHANGED <<config, previous, tunnels, handed, tunnel, history>>

\* And they are stopped by their identity, one after the other.
Clean(l) ==
  /\ At(l, "clean")
  /\ \E i \in call[l].stale :
       /\ StopForwards({i})
       /\ call' = [call EXCEPT ![l].stale = @ \ {i}]
  /\ UNCHANGED <<config, previous, handed, history>>

Cleaned(l) ==
  /\ At(l, "clean")
  /\ call[l].stale = {}
  /\ Proceed(l)
  /\ UNCHANGED <<config, previous, tunnels, handed, tunnel, history>>

\* s.tunnels[id] = tunnel; go s.runTunnel(tunnel)
Publish(l) ==
  /\ At(l, "publish")
  /\ tunnels' = [tunnels EXCEPT ![call[l].id] = call[l].own]
  /\ run' = [run EXCEPT ![call[l].own] = "open"]
  /\ Return(l)
  /\ UNCHANGED <<config, previous, handed, spec, retries, canceled, listening, history>>

(***************************************************************************)
(* runTunnel                                                               *)
(***************************************************************************)
\* The connection breaks: what is left of it is closed, and it reconnects.
\* Next to it, a form that keeps the port while there is no client.
LoseListening(t) ==
  /\ run[t] = "open" /\ ~canceled[t]
  /\ run' = [run EXCEPT ![t] = "retry"]
  /\ retries' = [retries EXCEPT ![t] = 0]
  /\ UNCHANGED <<config, previous, tunnels, handed, spec, canceled, listening, call, history>>
Lose(t) ==
  /\ run[t] = "open" /\ ~canceled[t]
  /\ run' = [run EXCEPT ![t] = "retry"]
  /\ retries' = [retries EXCEPT ![t] = 0]
  /\ listening' = listening \ {t}
  /\ UNCHANGED <<config, previous, tunnels, handed, spec, canceled, call, history>>

\* One attempt.  It does not look at the context again before it installs
\* the new listener: a tunnel that was stopped while it was dialling may
\* listen once more, until End sees to it.
Reopen(t) ==
  /\ run[t] = "retry" /\ retries[t] < MaxRetries
  /\ ~Taken(spec[t].address)
  /\ run' = [run EXCEPT ![t] = "open"]
  /\ listening' = listening \cup {t}
  /\ UNCHANGED <<config, previous, tunnels, handed, spec, retries, canceled, call, history>>

ReopenFails(t) ==
  /\ run[t] = "retry" /\ retries[t] < MaxRetries
  /\ retries' = [retries EXCEPT ![t] = @ + 1]
  /\ UNCHANGED <<config, previous, tunnels, handed, spec, run, canceled, listening, call, history>>

GiveUp(t) ==
  /\ run[t] = "retry" /\ retries[t] = MaxRetries
  /\ run' = [run EXCEPT ![t] = "failed"]
  /\ UNCHANGED <<config, previous, tunnels, handed, spec, retries, canceled, listening, call,
                 history>>

\* The end of the context: the listener is closed, the goroutine returns (a
\* failed tunnel has none any more).  Next to it, a form in which only the
\* reconnection loop looks at the context.
EndInRetryOnly(t) ==
  /\ canceled[t] /\ run[t] \in {"retry", "failed"}
  /\ Forget(t)
  /\ UNCHANGED <<config, previous, tunnels, handed, call, history>>
End(t) ==
  /\ canceled[t]
  /\ Forget(t)
  /\ UNCHANGED <<config, previous, tunnels, handed, call, history>>

CallStep(l) ==
  \/ Check(l) \/ Stop(l) \/ Opened(l) \/ DialFails(l) \/ ListenFails(l)
  \/ Persist(l) \/ PersistFails(l)
  \/ Notify(l) \/ Collect(l) \/ Clean(l) \/ Cleaned(l) \/ Publish(l)

Next ==
  \/ \E i \in Ids :
       \/ DeleteForward(i) \/ StartForward(i) \/ StopForward(i)
       \/ \E a \in Addresses : AddForward(i, a) \/ UpdateForward(i, a)
  \/ SaveSettings
  \/ \E l \in Lanes : CallStep(l)
  \/ \E t \in Tunnels : Lose(t) \/ Reopen(t) \/ ReopenFails(t) \/ GiveUp(t) \/ End(t)

\* The goroutine of a tunnel runs; nothing is asked of the calls, as the
\* dialling in them may take for ever.
Fairness == \A t \in Tunnels : WF_vars(End(t))

Spec == Init /\ [][Next]_vars /\ Fairness

-----------------------------------------------------------------------------
TypeOK ==
  /\ config \in Config /\ previous \in Config
  /\ tunnels \in [Ids -> Tunnels \cup {None}]
  /\ handed \subseteq Ids
  /\ spec \in [Tunnels -> [id : Ids, address : Addresses] \cup {None}]
  /\ \A t \in Tunnels : spec[t] = None <=> run[t] = "unused"
  /\ run \in [Tunnels -> Run]
  /\ retries \in [Tunnels -> 0..MaxRetries]
  /\ canceled \in [Tunnels -> BOOLEAN]
  /\ listening \subseteq {t \in Tunnels : run[t] \in {"new", "open"}}
  /\ \A l \in Lanes :
       /\ call[l].pc \in {"idle", "check", "stop", "open", "persist", "notify",
                          "shutdown", "sync", "clean", "publish"}
       /\ call[l].own \in Tunnels \cup {None}
       /\ call[l].saved \in Config \cup {None}
       /\ call[l].stale \subseteq Ids
  /\ calls \in 0..MaxCalls /\ raced \subseteq Ids /\ overlapped \in BOOLEAN

\* What the list shows as connected, reconnecting or failed is a tunnel of
\* that forward that nobody has stopped: stopping, by whichever of the five
\* ways, takes it off the list first.
MapIsLive ==
  \A i \in Ids : tunnels[i] # None =>
    spec[tunnels[i]].id = i /\ ~canceled[tunnels[i]] /\ run[tunnels[i]] # "new"

AtRest == \A l \in Lanes : At(l, "idle")
Runs(t) == run[t] \in {"open", "retry"} /\ ~canceled[t]
Kept(t) == tunnels[spec[t].id] = t /\ config.defs[spec[t].id] = spec[t].address

\* When no call is under way every tunnel that runs is on the list, where
\* the user can stop it, and does what its definition says (portservice.go
\* 1141, 1172): no failure, reconnection, restart or import leaves one
\* behind.  The exceptions are the forwards that were saved, deleted,
\* started or imported while another call was opening a tunnel for them,
\* and observers told of two configurations out of order.
OrphansOnlyByRace ==
  AtRest => \A t \in Tunnels : Runs(t) => Kept(t) \/ spec[t].id \in raced \/ overlapped

\* A deleted forward gives its port back in the end, also when it was
\* reconnecting at that moment and so comes up once more (portservice.go
\* 1055-1064).  The exceptions are as above.
DeletedForwardCloses ==
  \A i \in Ids :
    (AtRest /\ ~Defined(i)) ~>
      (\/ \A t \in listening : spec[t].id # i
       \/ Defined(i) \/ i \in raced \/ overlapped)
=============================================================================
