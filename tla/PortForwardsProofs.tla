------------------------- MODULE PortForwardsProofs -------------------------
(***************************************************************************)
(* Proofs about PortForwards for every set of forwards, addresses and      *)
(* tunnels, every import and any number of calls and retries.              *)
(*                                                                         *)
(* Why no tunnel is left behind: a call that opens a tunnel for a forward, *)
(* and does so alone, finds nothing in the map when it publishes it, so    *)
(* what runs is in the map.  And as long as the observer is told of the    *)
(* configurations in their order, a tunnel in the map that does something  *)
(* else than its definition says is on the way to being stopped: by the    *)
(* lane that made the change, which is about to look (Pending).            *)
(***************************************************************************)
EXTENDS PortForwards, TLAPS

Ops == {"none", "add", "update", "delete", "start", "stop"}
Pcs == {"idle", "check", "stop", "open", "persist", "notify", "shutdown", "sync", "clean", "publish"}
CallRecord ==
  [pc : Pcs, op : Ops, id : Ids \cup {None}, address : Addresses \cup {None},
   own : Tunnels \cup {None}, saved : Config \cup {None}, stale : SUBSET Ids]
Observing == {"notify", "shutdown", "sync", "clean"}

\* Which lane makes which calls, where each of them can be, and what it has
\* in hand there.
OfLane(l) ==
  CASE l = "dialog"   -> {"none", "add", "update", "delete"}
    [] l = "toggle"   -> {"none", "start", "stop"}
    [] l = "settings" -> {"none"}
Places(o) ==
  CASE o = "none"   -> {"idle"} \cup Observing
    [] o = "add"    -> {"open", "persist", "publish"} \cup Observing
    [] o = "update" -> {"stop", "open", "persist", "publish"} \cup Observing
    [] o = "delete" -> {"stop", "persist"} \cup Observing
    [] o = "start"  -> {"check", "open", "publish"}
    [] o = "stop"   -> {"stop"}
InOrder(c, l) ==
  /\ c.op \in OfLane(l) /\ c.pc \in Places(c.op)
  /\ c.op = "none" <=> c.id = None
  /\ c.op \in Opening => c.address \in Addresses
  /\ c.pc \in Observing => c.saved \in Config
  /\ c.own # None => c.op \in Opening /\ c.pc \in {"persist", "publish"} \cup Observing
  /\ c.pc = "publish" => c.own # None
CallsInOrder == call \in [Lanes -> CallRecord] /\ \A l \in Lanes : InOrder(call[l], l)

\* A tunnel that a call has opened belongs to that call alone, and nobody
\* has stopped it.
OwnIsNew ==
  \A l \in Lanes : call[l].own # None =>
    /\ run[call[l].own] = "new"
    /\ spec[call[l].own] = [id |-> call[l].id, address |-> call[l].address]
    /\ \A m \in Lanes : call[m].own = call[l].own => m = l

NewIsNotStopped == \A t \in Tunnels : run[t] \in {"unused", "new"} => ~canceled[t]

MappedRuns == \A i \in Ids : tunnels[i] # None => run[tunnels[i]] \in {"open", "retry", "failed"}

\* Two calls that work on one forward, one of them opening a tunnel, have
\* raced.
SoloOpens ==
  \A l, m \in Lanes : l # m /\ Opens(l) /\ call[m].id = call[l].id => call[l].id \in raced

\* A call that opens a tunnel has emptied the place in the map first.
OpensUnmapped ==
  \A l \in Lanes :
    Opens(l) /\ call[l].pc \notin {"check", "stop"} /\ call[l].id \notin raced =>
      tunnels[call[l].id] = None

RunningIsMapped ==
  \A t \in Tunnels : Runs(t) /\ spec[t].id \notin raced => tunnels[spec[t].id] = t

\* A call opens a tunnel for the definition in force, or for the one that it
\* is going to put into force.
OpensDefined ==
  \A l \in Lanes :
    Opens(l) /\ call[l].id \notin raced =>
      /\ call[l].op = "start" \/ call[l].pc \in {"publish"} \cup Observing =>
           config.defs[call[l].id] = call[l].address
      /\ call[l].op = "update" => Defined(call[l].id)

\* The observer knows the configuration in force, or is about to be told.
ToldInOrder ==
  ~overlapped =>
    /\ \A l \in Lanes : At(l, "notify") => call[l].saved = config
    /\ (\A l \in Lanes : ~At(l, "notify")) => previous = config

\* Somebody is about to stop what runs for forward i.
WillStop(l, i) ==
  \/ At(l, "notify") /\ previous.defs[i] # config.defs[i]
  \/ At(l, "shutdown")
  \/ At(l, "sync") /\ ~Matches(l, i)
  \/ At(l, "clean") /\ i \in call[l].stale
StaleIsPending ==
  ~overlapped =>
    \A i \in Ids \ raced :
      tunnels[i] # None /\ spec[tunnels[i]].address # config.defs[i] =>
        \E l \in Lanes : WillStop(l, i)

IInv ==
  /\ TypeOK /\ CallsInOrder /\ OwnIsNew /\ NewIsNotStopped
  /\ MappedRuns /\ MapIsLive
  /\ SoloOpens /\ OpensUnmapped /\ RunningIsMapped
  /\ OpensDefined /\ ToldInOrder /\ StaleIsPending

-----------------------------------------------------------------------------
(* How a call moves. *)

LEMMA IdleIsCall == Idle \in CallRecord
  BY DEF Idle, CallRecord, Pcs, Ops

\* What GoTo and Return leave of a call.
LEMMA Going ==
  ASSUME call \in [Lanes -> CallRecord], NEW l \in Lanes, NEW p \in Pcs, GoTo(l, p)
  PROVE  /\ call' \in [Lanes -> CallRecord]
         /\ \A m \in Lanes : m # l => call'[m] = call[m]
         /\ call'[l].pc = p
         /\ call'[l].op = call[l].op /\ call'[l].id = call[l].id
         /\ call'[l].address = call[l].address /\ call'[l].own = call[l].own
         /\ call'[l].saved = call[l].saved /\ call'[l].stale = call[l].stale
  BY DEF GoTo, CallRecord

LEMMA Returning ==
  ASSUME call \in [Lanes -> CallRecord], NEW l \in Lanes, Return(l)
  PROVE  /\ call' \in [Lanes -> CallRecord]
         /\ \A m \in Lanes : m # l => call'[m] = call[m]
         /\ call'[l] = Idle
         /\ call'[l].pc = "idle" /\ call'[l].op = "none" /\ call'[l].id = None
         /\ call'[l].own = None /\ call'[l].stale = {}
  BY IdleIsCall DEF Return, Idle

\* The part of the type invariant that speaks of the calls.
LEMMA CallTypes ==
  \A c \in CallRecord :
    /\ c.pc \in Pcs /\ c.op \in Ops
    /\ c.id \in Ids \cup {None} /\ c.address \in Addresses \cup {None}
    /\ c.own \in Tunnels \cup {None}
    /\ c.saved \in Config \cup {None} /\ c.stale \subseteq Ids
  BY DEF CallRecord

\* A tunnel in use has a definition.
LEMMA UsedHasSpec ==
  ASSUME TypeOK, NEW t \in Tunnels, run[t] # "unused"
  PROVE  spec[t] \in [id : Ids, address : Addresses]
  BY DEF TypeOK

\* Who was about to stop a tunnel, and does not move or moves on, still is.
LEMMA StillPending ==
  ASSUME StaleIsPending, raced \subseteq raced', overlapped' = overlapped, config' = config,
         \A i \in Ids : tunnels'[i] # None =>
           /\ tunnels'[i] = tunnels[i] /\ spec'[tunnels'[i]] = spec[tunnels[i]]
           /\ \A m \in Lanes : WillStop(m, i) => WillStop(m, i)'
  PROVE  StaleIsPending'
  BY DEF StaleIsPending

\* Stopping takes tunnels out of the map and cancels them: what stays there
\* is what was there, and what runs is still in it.
LEMMA Stopping ==
  ASSUME IInv, NEW S \in SUBSET Ids, StopForwards(S), raced' = raced
  PROVE  /\ tunnels' \in [Ids -> Tunnels \cup {None}]
         /\ canceled' \in [Tunnels -> BOOLEAN]
         /\ listening' \subseteq {t \in Tunnels : run'[t] \in {"new", "open"}}
         /\ \A i \in Ids : tunnels'[i] # None => i \notin S /\ tunnels'[i] = tunnels[i]
         /\ \A i \in S : tunnels'[i] = None
         /\ \A i \in Ids : tunnels[i] = None => tunnels'[i] = None
         /\ NewIsNotStopped' /\ MappedRuns' /\ MapIsLive' /\ RunningIsMapped'
<1> USE DEF StopForwards
<1>1. /\ tunnels' \in [Ids -> Tunnels \cup {None}]
      /\ canceled' \in [Tunnels -> BOOLEAN]
      /\ listening' \subseteq {t \in Tunnels : run'[t] \in {"new", "open"}}
  BY DEF IInv, TypeOK
<1>2. /\ \A i \in Ids : tunnels'[i] # None => i \notin S /\ tunnels'[i] = tunnels[i]
      /\ \A i \in S : tunnels'[i] = None
      /\ \A i \in Ids : tunnels[i] = None => tunnels'[i] = None
  OBVIOUS
<1>3. NewIsNotStopped'
  BY NoneAssumption DEF IInv, TypeOK, NewIsNotStopped, MappedRuns, Mapped
<1>4. MappedRuns'
  BY <1>2 DEF IInv, MappedRuns
<1>5. MapIsLive'
  <2> SUFFICES ASSUME NEW i \in Ids, tunnels'[i] # None
               PROVE  /\ spec'[tunnels'[i]].id = i /\ ~canceled'[tunnels'[i]]
                      /\ run'[tunnels'[i]] # "new"
    BY DEF MapIsLive
  <2>1. tunnels[i] \in Tunnels /\ tunnels[i] \notin Mapped(S)
    BY <1>2 DEF IInv, TypeOK, MapIsLive, Mapped
  <2> QED
    BY <1>2, <2>1 DEF IInv, MapIsLive
<1>6. RunningIsMapped'
  <2> SUFFICES ASSUME NEW t \in Tunnels, Runs(t)', spec'[t].id \notin raced'
               PROVE  tunnels'[spec'[t].id] = t
    BY DEF RunningIsMapped
  <2>1. Runs(t) /\ t \notin Mapped(S)
    BY DEF Runs
  <2>2. tunnels[spec[t].id] = t /\ spec[t].id \in Ids
    BY <2>1, UsedHasSpec DEF IInv, RunningIsMapped, Runs
  <2> QED
    BY <2>1, <2>2 DEF Mapped
<1> QED
  BY <1>1, <1>2, <1>3, <1>4, <1>5, <1>6

LEMMA InitIInv == Init => IInv
<1> SUFFICES ASSUME Init PROVE IInv
  OBVIOUS
<1>1. config \in Config
  <2>1. PICK d \in Imports : config = [defs |-> d, sources |-> FALSE]
    BY DEF Init
  <2>2. d \in Definitions
    BY ImportsAssumption
  <2> QED
    BY <2>1, <2>2 DEF Config
<1>2. \A l \in Lanes : /\ call[l] = Idle /\ call[l].pc = "idle" /\ call[l].op = "none"
                       /\ call[l].id = None /\ call[l].own = None
                       /\ call[l].saved = None /\ call[l].stale = {}
  BY DEF Init, Idle
<1>3. TypeOK
  <2>1. /\ previous \in Config /\ tunnels \in [Ids -> Tunnels \cup {None}] /\ handed \subseteq Ids
        /\ \A t \in Tunnels : spec[t] = None <=> run[t] = "unused"
    BY <1>1 DEF Init
  <2>2. /\ spec \in [Tunnels -> [id : Ids, address : Addresses] \cup {None}]
        /\ run \in [Tunnels -> Run] /\ retries \in [Tunnels -> 0..MaxRetries]
        /\ canceled \in [Tunnels -> BOOLEAN] /\ listening = {}
    BY BoundsAssumption DEF Init, Run
  <2>3. calls \in 0..MaxCalls /\ raced \subseteq Ids
    BY BoundsAssumption DEF Init
  <2>4. overlapped \in BOOLEAN
    BY DEF Init
  <2> QED
    BY <1>1, <1>2, <2>1, <2>2, <2>3, <2>4 DEF TypeOK
<1>4. CallsInOrder
  BY <1>2, IdleIsCall DEF Init, CallsInOrder, InOrder, OfLane, Places, Lanes, Opening, Observing
<1>5. OwnIsNew /\ SoloOpens /\ OpensUnmapped /\ OpensDefined
  BY <1>2 DEF OwnIsNew, SoloOpens, OpensUnmapped, OpensDefined, Opens, Opening
<1>6. NewIsNotStopped /\ MappedRuns /\ MapIsLive /\ RunningIsMapped /\ StaleIsPending
  BY DEF Init, NewIsNotStopped, MappedRuns, MapIsLive, RunningIsMapped, StaleIsPending, Runs
<1>7. ToldInOrder
  BY <1>2 DEF Init, ToldInOrder, At
<1> QED
  BY <1>3, <1>4, <1>5, <1>6, <1>7 DEF IInv

-----------------------------------------------------------------------------
(* The calls begin. *)

\* What a beginning call says of itself: it has not opened its tunnel, and
\* the definition it goes by is in force, or is a new one.
Begins(l, o, i, a, next) ==
  /\ o \in OfLane(l) \ {"none"} /\ i \in Ids /\ a \in Addresses \cup {None}
  /\ next \in Places(o) \cap {"check", "stop", "open"}
  /\ o = "add" => next = "open" /\ a \in Addresses /\ tunnels[i] = None
  /\ o = "update" => next = "stop" /\ a \in Addresses /\ Defined(i)
  /\ o = "start" => next = "check" /\ a = config.defs[i] /\ Defined(i)

LEMMA BeginStep ==
  ASSUME IInv, handed' \subseteq Ids,
         NEW l \in Lanes, NEW o \in Ops, NEW i \in Ids, NEW a \in Addresses \cup {None}, NEW next \in Pcs,
         Begins(l, o, i, a, next), Begin(l, o, i, a, next)
  PROVE  IInv'
<1> DEFINE c == Calling(o, i, a, next)
<1>1. /\ c \in CallRecord
      /\ c.pc = next /\ c.op = o /\ c.id = i /\ c.address = a /\ c.own = None
      /\ c.saved = None /\ c.stale = {}
  BY DEF Calling, Idle, CallRecord
<1>2. /\ call' \in [Lanes -> CallRecord]
      /\ call'[l] = c /\ \A m \in Lanes : m # l => call'[m] = call[m]
  BY <1>1 DEF Begin, IInv, CallsInOrder
<1> HIDE DEF c
<1>3. UNCHANGED <<config, previous, tunnels, spec, run, retries, canceled, listening, overlapped>>
  BY DEF Begin, tunnel
<1>4. call[l].pc = "idle" /\ raced \subseteq raced' /\ raced' \subseteq Ids /\ calls' \in 0..MaxCalls
  BY BoundsAssumption DEF Begin, At, IInv, TypeOK
<1>5. next \in {"check", "stop", "open"}
  BY DEF Begins
<1>6. TypeOK'
  BY <1>2, <1>3, <1>4, CallTypes DEF IInv, TypeOK, Pcs
<1>7. CallsInOrder'
  <2>1. InOrder(c, l)
    BY <1>1, <1>5, NoneAssumption DEF InOrder, Begins, Defined, Opening, Observing
  <2> QED
    BY <1>2, <2>1 DEF IInv, CallsInOrder
<1>8. OwnIsNew' /\ NewIsNotStopped' /\ MappedRuns' /\ MapIsLive' /\ RunningIsMapped'
  BY <1>1, <1>2, <1>3, <1>4 DEF IInv, OwnIsNew, NewIsNotStopped, MappedRuns, MapIsLive, RunningIsMapped, Runs
<1>9. SoloOpens'
  BY <1>1, <1>2, <1>4 DEF IInv, SoloOpens, Begin, Opens
<1>10. OpensUnmapped'
  BY <1>1, <1>2, <1>3, <1>4 DEF IInv, OpensUnmapped, Opens, Opening, Begins
<1>11. OpensDefined'
  BY <1>1, <1>2, <1>3, <1>4, <1>5 DEF IInv, OpensDefined, Opens, Opening, Begins, Defined, Observing
<1>12. ToldInOrder'
  BY <1>1, <1>2, <1>3, <1>4, <1>5 DEF IInv, ToldInOrder, At
<1>13. StaleIsPending'
  <2>1. \A j \in Ids : \A m \in Lanes : WillStop(m, j) => WillStop(m, j)'
    BY <1>2, <1>3, <1>4 DEF WillStop, At, Matches
  <2> QED
    BY <1>3, <1>4, <2>1, StillPending DEF IInv
<1> QED
  BY <1>6, <1>7, <1>8, <1>9, <1>10, <1>11, <1>12, <1>13 DEF IInv

LEMMA AddForwardStep ==
  ASSUME IInv, NEW i \in Ids, NEW a \in Addresses, AddForward(i, a) PROVE IInv'
<1>1. Begins("dialog", "add", i, a, "open") /\ handed' \subseteq Ids
  BY DEF AddForward, Begins, OfLane, Places, IInv, TypeOK
<1> QED
  BY <1>1, BeginStep DEF AddForward, Lanes, Ops, Pcs

LEMMA UpdateForwardStep ==
  ASSUME IInv, NEW i \in Ids, NEW a \in Addresses, UpdateForward(i, a) PROVE IInv'
<1>1. Begins("dialog", "update", i, a, "stop") /\ handed' \subseteq Ids
  BY DEF UpdateForward, Begins, OfLane, Places, IInv, TypeOK
<1> QED
  BY <1>1, BeginStep DEF UpdateForward, Lanes, Ops, Pcs

LEMMA DeleteForwardStep ==
  ASSUME IInv, NEW i \in Ids, DeleteForward(i) PROVE IInv'
<1>1. Begins("dialog", "delete", i, None, "stop") /\ handed' \subseteq Ids
  BY DEF DeleteForward, Begins, OfLane, Places, IInv, TypeOK
<1> QED
  BY <1>1, BeginStep DEF DeleteForward, Lanes, Ops, Pcs

LEMMA StartForwardStep ==
  ASSUME IInv, NEW i \in Ids, StartForward(i) PROVE IInv'
<1>1. config.defs[i] \in Addresses
  BY DEF StartForward, Defined, IInv, TypeOK, Config, Definitions
<1>2. Begins("toggle", "start", i, config.defs[i], "check") /\ handed' \subseteq Ids
  BY <1>1 DEF StartForward, Begins, OfLane, Places, IInv, TypeOK
<1> QED
  BY <1>1, <1>2, BeginStep DEF StartForward, Lanes, Ops, Pcs

LEMMA StopForwardStep ==
  ASSUME IInv, NEW i \in Ids, StopForward(i) PROVE IInv'
<1>1. Begins("toggle", "stop", i, None, "stop") /\ handed' \subseteq Ids
  BY DEF StopForward, Begins, OfLane, Places, IInv, TypeOK
<1> QED
  BY <1>1, BeginStep DEF StopForward, Lanes, Ops, Pcs

-----------------------------------------------------------------------------
(* The calls run.  A call may move to a place in its order, or return. *)

LEMMA MovesInOrder ==
  ASSUME CallsInOrder, call' \in [Lanes -> CallRecord], NEW l \in Lanes,
         \A m \in Lanes : m # l => call'[m] = call[m],
         InOrder(call'[l], l)
  PROVE  CallsInOrder'
  BY DEF CallsInOrder

LEMMA IdleInOrder == \A l \in Lanes : InOrder(Idle, l)
  BY DEF InOrder, Idle, OfLane, Places, Lanes, Opening, Observing

\* A call that returns owes nobody anything.
LEMMA CallReturns ==
  ASSUME IInv, NEW l \in Lanes, Return(l), config' = config, raced' = raced
  PROVE  /\ \A m \in Lanes : m # l => call'[m] = call[m]
         /\ call'[l].pc = "idle" /\ call'[l].op = "none" /\ call'[l].id = None
         /\ call'[l].own = None /\ call'[l].stale = {}
         /\ CallsInOrder' /\ SoloOpens' /\ OpensDefined'
         /\ (\A i \in Ids : tunnels[i] = None => tunnels'[i] = None) => OpensUnmapped'
<1>1. /\ call' \in [Lanes -> CallRecord]
      /\ \A m \in Lanes : m # l => call'[m] = call[m]
      /\ call'[l] = Idle
      /\ call'[l].pc = "idle" /\ call'[l].op = "none" /\ call'[l].id = None
      /\ call'[l].own = None /\ call'[l].stale = {}
  BY Returning DEF IInv, CallsInOrder
<1>2. CallsInOrder'
  BY <1>1, MovesInOrder, IdleInOrder DEF IInv
<1>3. \A m \in Lanes : Opens(m) => call[m].id \in Ids
  BY CallTypes DEF IInv, CallsInOrder, InOrder, Opens, Opening
<1>4. \A m \in Lanes : Opens(m)' => m # l /\ Opens(m)
  BY <1>1 DEF Opens, Opening
<1>5. SoloOpens'
  BY <1>1, <1>3, <1>4, NoneAssumption DEF IInv, SoloOpens
<1>6. OpensDefined'
  BY <1>1, <1>4 DEF IInv, OpensDefined, Defined
<1>7. (\A i \in Ids : tunnels[i] = None => tunnels'[i] = None) => OpensUnmapped'
  BY <1>1, <1>3, <1>4 DEF IInv, OpensUnmapped
<1> QED
  BY <1>1, <1>2, <1>5, <1>6, <1>7

\* A call that goes on keeps what it has in hand; it must have emptied the
\* place in the map before it opens, and have come to an agreement with the
\* configuration before it tells anybody.
LEMMA CallGoes ==
  ASSUME IInv, NEW l \in Lanes, NEW p \in Pcs, GoTo(l, p), config' = config, raced' = raced,
         p \in Places(call[l].op),
         p \in Observing => call[l].saved \in Config,
         call[l].own # None => p \in {"persist", "publish"} \cup Observing,
         p = "publish" => call[l].own # None,
         p \in {"publish"} \cup Observing => call[l].op = "start" \/ call[l].pc \in Observing
  PROVE  /\ \A m \in Lanes : m # l => call'[m] = call[m]
         /\ call'[l].pc = p
         /\ call'[l].op = call[l].op /\ call'[l].id = call[l].id
         /\ call'[l].address = call[l].address /\ call'[l].own = call[l].own
         /\ call'[l].saved = call[l].saved /\ call'[l].stale = call[l].stale
         /\ CallsInOrder' /\ SoloOpens' /\ OpensDefined'
         /\ (/\ call[l].pc \in {"check", "stop"} /\ Opens(l) => tunnels'[call[l].id] = None
             /\ \A i \in Ids : tunnels[i] = None => tunnels'[i] = None) => OpensUnmapped'
<1>1. /\ call' \in [Lanes -> CallRecord]
      /\ \A m \in Lanes : m # l => call'[m] = call[m]
      /\ call'[l].pc = p
      /\ call'[l].op = call[l].op /\ call'[l].id = call[l].id
      /\ call'[l].address = call[l].address /\ call'[l].own = call[l].own
      /\ call'[l].saved = call[l].saved /\ call'[l].stale = call[l].stale
  BY Going DEF IInv, CallsInOrder
<1>2. CallsInOrder'
  <2>1. InOrder(call'[l], l)
    BY <1>1 DEF IInv, CallsInOrder, InOrder
  <2> QED
    BY <1>1, <2>1, MovesInOrder DEF IInv
<1>3. \A m \in Lanes : Opens(m) => call[m].id \in Ids
  BY CallTypes DEF IInv, CallsInOrder, InOrder, Opens, Opening
<1>4. \A m \in Lanes : call'[m].id = call[m].id /\ Opens(m)' = Opens(m)
  BY <1>1 DEF Opens
<1>5. SoloOpens'
  BY <1>4 DEF IInv, SoloOpens
<1>6. OpensDefined'
  BY <1>1, <1>4 DEF IInv, OpensDefined, Defined
<1>7. (/\ call[l].pc \in {"check", "stop"} /\ Opens(l) => tunnels'[call[l].id] = None
       /\ \A i \in Ids : tunnels[i] = None => tunnels'[i] = None) => OpensUnmapped'
  BY <1>1, <1>3, <1>4 DEF IInv, OpensUnmapped
<1> QED
  BY <1>1, <1>2, <1>5, <1>6, <1>7

\* A step that leaves the tunnels and what goes with them alone.
LEMMA TunnelsStay ==
  ASSUME IInv, UNCHANGED <<tunnels, spec, run, canceled, raced>>
  PROVE  NewIsNotStopped' /\ MappedRuns' /\ MapIsLive' /\ RunningIsMapped'
  BY DEF IInv, NewIsNotStopped, MappedRuns, MapIsLive, RunningIsMapped, Runs

\* A call that tells the observer nothing, and takes tunnels off the map at
\* most, leaves to the others what they are about to do.
LEMMA Unobserved ==
  ASSUME IInv, NEW l \in Lanes, \A m \in Lanes : m # l => call'[m] = call[m],
         call[l].pc \notin Observing, call'[l].pc \notin Observing,
         UNCHANGED <<config, previous, raced, overlapped>>,
         \A i \in Ids : tunnels'[i] # None =>
           tunnels'[i] = tunnels[i] /\ spec'[tunnels'[i]] = spec[tunnels[i]]
  PROVE  ToldInOrder' /\ StaleIsPending'
<1>1. ToldInOrder'
  BY DEF IInv, ToldInOrder, At, Observing
<1>2. \A j \in Ids : tunnels'[j] # None => \A m \in Lanes : WillStop(m, j) => WillStop(m, j)'
  BY DEF WillStop, At, Matches, Observing
<1> QED
  BY <1>1, <1>2, StillPending DEF IInv

\* A call that returns without having touched anything, or without anything
\* to show for it.
LEMMA ReturnStep ==
  ASSUME IInv, NEW l \in Lanes, Return(l), call[l].pc \notin Observing,
         UNCHANGED <<config, previous, tunnels, handed, tunnel, history>>
  PROVE  IInv'
<1>1. UNCHANGED <<config, previous, tunnels, handed, spec, run, retries, canceled, listening,
                  calls, raced, overlapped>>
  BY DEF history, tunnel
<1>2. /\ \A m \in Lanes : m # l => call'[m] = call[m]
      /\ call'[l].pc = "idle" /\ call'[l].own = None
      /\ CallsInOrder' /\ SoloOpens' /\ OpensDefined' /\ OpensUnmapped'
  BY <1>1, CallReturns
<1>3. TypeOK'
  BY <1>1, <1>2, CallTypes DEF IInv, TypeOK, CallsInOrder, Pcs
<1>4. OwnIsNew' /\ NewIsNotStopped' /\ MappedRuns' /\ MapIsLive' /\ RunningIsMapped'
  BY <1>1, <1>2, TunnelsStay DEF IInv, OwnIsNew
<1>5. ToldInOrder' /\ StaleIsPending'
  BY <1>1, <1>2, Unobserved DEF Observing
<1> QED
  BY <1>2, <1>3, <1>4, <1>5 DEF IInv

\* A call that stops its forward and goes on to open, or to save, or returns.
LEMMA StoppingStep ==
  ASSUME IInv, NEW l \in Lanes, call[l].pc \in {"check", "stop"}, StopForwards({call[l].id}),
         \/ Return(l)
         \/ \E p \in {"open", "persist"} : p \in Places(call[l].op) /\ GoTo(l, p),
         UNCHANGED <<config, previous, handed, history>>
  PROVE  IInv'
<1>1. InOrder(call[l], l) /\ call[l] \in CallRecord
  BY DEF IInv, CallsInOrder
<1>2. call[l].id \in Ids /\ call[l].own = None
  BY <1>1, CallTypes DEF InOrder, Places, Observing
<1>3. UNCHANGED <<config, previous, handed, spec, run, retries, calls, raced, overlapped>>
  BY DEF history, StopForwards
<1>4. /\ tunnels' \in [Ids -> Tunnels \cup {None}]
      /\ canceled' \in [Tunnels -> BOOLEAN]
      /\ listening' \subseteq {t \in Tunnels : run'[t] \in {"new", "open"}}
      /\ \A i \in Ids : tunnels'[i] # None => tunnels'[i] = tunnels[i]
      /\ tunnels'[call[l].id] = None
      /\ \A i \in Ids : tunnels[i] = None => tunnels'[i] = None
      /\ NewIsNotStopped' /\ MappedRuns' /\ MapIsLive' /\ RunningIsMapped'
  BY <1>2, <1>3, Stopping
<1>5. /\ \A m \in Lanes : m # l => call'[m] = call[m]
      /\ call'[l].pc \notin Observing /\ call'[l].own = None
      /\ CallsInOrder' /\ SoloOpens' /\ OpensDefined' /\ OpensUnmapped'
  <2>1. CASE Return(l)
    BY <1>3, <1>4, <2>1, CallReturns DEF Observing
  <2>2. CASE \E p \in {"open", "persist"} : p \in Places(call[l].op) /\ GoTo(l, p)
    BY <1>2, <1>3, <1>4, <2>2, CallGoes DEF Pcs, Observing
  <2> QED
    BY <2>1, <2>2
<1>6. TypeOK'
  BY <1>3, <1>4, <1>5, CallTypes DEF IInv, TypeOK, CallsInOrder, Pcs
<1>7. OwnIsNew'
  BY <1>2, <1>3, <1>5 DEF IInv, OwnIsNew
<1>8. ToldInOrder' /\ StaleIsPending'
  BY <1>3, <1>4, <1>5, Unobserved DEF Observing
<1> QED
  BY <1>4, <1>5, <1>6, <1>7, <1>8 DEF IInv

LEMMA CheckStep ==
  ASSUME IInv, NEW l \in Lanes, Check(l) PROVE IInv'
<1>1. call[l].pc = "check" /\ InOrder(call[l], l)
  BY DEF Check, At, IInv, CallsInOrder
<1>2. "open" \in Places(call[l].op)
  BY <1>1 DEF InOrder, OfLane, Places, Lanes, Observing
<1>3. CASE Running(call[l].id)
  BY <1>1, <1>3, ReturnStep DEF Check, Observing
<1>4. CASE ~Running(call[l].id)
  BY <1>1, <1>2, <1>4, StoppingStep DEF Check
<1> QED
  BY <1>3, <1>4

LEMMA StopStep ==
  ASSUME IInv, NEW l \in Lanes, Stop(l) PROVE IInv'
<1>1. call[l].pc = "stop" /\ InOrder(call[l], l)
  BY DEF Stop, At, IInv, CallsInOrder
<1>2. call[l].op \in {"update", "delete", "stop"}
  BY <1>1 DEF InOrder, OfLane, Places, Lanes, Observing
<1>3. \/ Return(l)
      \/ \E p \in {"open", "persist"} : p \in Places(call[l].op) /\ GoTo(l, p)
  BY <1>2 DEF Stop, Places
<1> QED
  BY <1>1, <1>3, StoppingStep DEF Stop

LEMMA DialFailsStep ==
  ASSUME IInv, NEW l \in Lanes, DialFails(l) PROVE IInv'
  BY ReturnStep DEF DialFails, At, Observing

LEMMA ListenFailsStep ==
  ASSUME IInv, NEW l \in Lanes, ListenFails(l) PROVE IInv'
<1>1. call[l].pc = "open" /\ InOrder(call[l], l)
  BY DEF ListenFails, At, IInv, CallsInOrder
<1>2. call[l].op \in {"add", "update"} /\ call[l].own = None
  BY <1>1 DEF ListenFails, InOrder, OfLane, Places, Lanes, Observing
<1>3. UNCHANGED <<config, previous, tunnels, handed, spec, run, retries, canceled, listening,
                  calls, raced, overlapped>>
  BY DEF ListenFails, history, tunnel
<1>4. /\ \A m \in Lanes : m # l => call'[m] = call[m]
      /\ call'[l].pc = "persist" /\ call'[l].own = None
      /\ CallsInOrder' /\ SoloOpens' /\ OpensDefined' /\ OpensUnmapped'
  <2>1. "persist" \in Places(call[l].op) /\ "persist" \in Pcs /\ GoTo(l, "persist")
    BY <1>2 DEF Places, Pcs, ListenFails
  <2> QED
    BY <1>1, <1>2, <1>3, <2>1, CallGoes DEF Observing
<1>5. TypeOK'
  BY <1>3, <1>4, CallTypes DEF IInv, TypeOK, CallsInOrder, Pcs
<1>6. OwnIsNew' /\ NewIsNotStopped' /\ MappedRuns' /\ MapIsLive' /\ RunningIsMapped'
  BY <1>2, <1>3, <1>4, TunnelsStay DEF IInv, OwnIsNew
<1>7. ToldInOrder' /\ StaleIsPending'
  BY <1>1, <1>3, <1>4, Unobserved DEF Observing
<1> QED
  BY <1>4, <1>5, <1>6, <1>7 DEF IInv

\* A tunnel comes into being, in the hands of its call alone.
LEMMA OpenedStep ==
  ASSUME IInv, NEW l \in Lanes, Opened(l) PROVE IInv'
<1>1. PICK t \in Fresh :
        /\ spec' = [spec EXCEPT ![t] = [id |-> call[l].id, address |-> call[l].address]]
        /\ run' = [run EXCEPT ![t] = "new"]
        /\ listening' = listening \cup {t}
        /\ call' = [call EXCEPT ![l].own = t,
                                ![l].pc = IF call[l].op = "start" THEN "publish" ELSE "persist"]
  BY DEF Opened
<1>2. /\ call[l].pc = "open" /\ InOrder(call[l], l)
      /\ call[l] \in CallRecord /\ call \in [Lanes -> CallRecord]
  BY DEF Opened, At, IInv, CallsInOrder
<1>3. /\ call[l].op \in {"add", "update", "start"} /\ call[l].own = None
      /\ call[l].id \in Ids /\ call[l].address \in Addresses
  BY <1>2, CallTypes DEF InOrder, OfLane, Places, Lanes, Observing, Opening
<1>4. UNCHANGED <<config, previous, tunnels, handed, retries, canceled, calls, raced, overlapped>>
  BY DEF Opened, history
<1>5. /\ t \in Tunnels /\ t # None /\ run[t] = "unused" /\ spec[t] = None /\ ~canceled[t]
      /\ \A u \in Tunnels : u # t => spec'[u] = spec[u] /\ run'[u] = run[u]
      /\ spec'[t] = [id |-> call[l].id, address |-> call[l].address] /\ run'[t] = "new"
  BY <1>1, NoneAssumption DEF Fresh, IInv, TypeOK, NewIsNotStopped
<1>6. /\ call' \in [Lanes -> CallRecord]
      /\ \A m \in Lanes : m # l => call'[m] = call[m]
      /\ call'[l].pc = IF call[l].op = "start" THEN "publish" ELSE "persist"
      /\ call'[l].op = call[l].op /\ call'[l].id = call[l].id
      /\ call'[l].address = call[l].address /\ call'[l].own = t
  BY <1>1, <1>2, <1>5 DEF CallRecord, Pcs
<1>7. TypeOK'
  <2>1. /\ spec' \in [Tunnels -> [id : Ids, address : Addresses] \cup {None}]
        /\ run' \in [Tunnels -> Run]
        /\ listening' \subseteq {u \in Tunnels : run'[u] \in {"new", "open"}}
    BY <1>1, <1>3, <1>5 DEF IInv, TypeOK, Run
  <2>2. \A u \in Tunnels : spec'[u] = None <=> run'[u] = "unused"
    BY <1>3, <1>5, NoneAssumption DEF IInv, TypeOK
  <2> QED
    BY <1>4, <1>6, <2>1, <2>2, CallTypes DEF IInv, TypeOK, Pcs
<1>8. CallsInOrder'
  <2>1. InOrder(call'[l], l)
    BY <1>2, <1>3, <1>5, <1>6 DEF InOrder, Places, Opening, Observing
  <2> QED
    BY <1>6, <2>1, MovesInOrder DEF IInv
<1>9. \A i \in Ids : tunnels[i] # None => tunnels[i] \in Tunnels /\ tunnels[i] # t
  BY <1>5 DEF IInv, TypeOK, MappedRuns
<1>10. OwnIsNew'
  <2>1. \A m \in Lanes : call[m].own # None => call[m].own # t /\ call[m].own \in Tunnels
    BY <1>5, CallTypes DEF IInv, OwnIsNew, CallsInOrder
  <2> QED
    BY <1>5, <1>6, <2>1 DEF IInv, OwnIsNew
<1>11. NewIsNotStopped' /\ MappedRuns' /\ MapIsLive' /\ RunningIsMapped'
  BY <1>4, <1>5, <1>9 DEF IInv, NewIsNotStopped, MappedRuns, MapIsLive, RunningIsMapped, Runs
<1>12. SoloOpens' /\ OpensUnmapped' /\ OpensDefined'
  BY <1>2, <1>3, <1>4, <1>6 DEF IInv, SoloOpens, OpensUnmapped, OpensDefined, Opens, Defined, Observing
<1>13. ToldInOrder' /\ StaleIsPending'
  <2>1. call[l].pc \notin Observing /\ call'[l].pc \notin Observing
    BY <1>2, <1>6 DEF Observing
  <2> QED
    BY <1>4, <1>5, <1>6, <1>9, <2>1, Unobserved
<1> QED
  BY <1>7, <1>8, <1>10, <1>11, <1>12, <1>13 DEF IInv

\* The tunnel of a call whose definition cannot be saved is forgotten again:
\* nobody else knows it.
LEMMA PersistFailsStep ==
  ASSUME IInv, NEW l \in Lanes, PersistFails(l) PROVE IInv'
<1>1. call[l].pc = "persist" /\ call[l] \in CallRecord
  BY DEF PersistFails, At, IInv, CallsInOrder
<1>2. CASE call[l].own = None
  BY <1>1, <1>2, ReturnStep DEF PersistFails, Observing
<1>3. CASE call[l].own # None
  <2> DEFINE t == call[l].own
  <2>1. t \in Tunnels /\ t # None /\ run[t] = "new" /\ ~canceled[t]
    BY <1>1, <1>3, CallTypes DEF IInv, OwnIsNew, NewIsNotStopped
  <2>2. UNCHANGED <<config, previous, tunnels, handed, calls, raced, overlapped>> /\ Forget(t)
    BY <1>3 DEF PersistFails, history
  <2>3. /\ \A u \in Tunnels : u # t => spec'[u] = spec[u] /\ run'[u] = run[u] /\ canceled'[u] = canceled[u]
        /\ spec'[t] = None /\ run'[t] = "unused" /\ ~canceled'[t]
    BY <2>1, <2>2 DEF Forget, IInv, TypeOK
  <2>4. /\ \A m \in Lanes : m # l => call'[m] = call[m]
        /\ call'[l].pc = "idle" /\ call'[l].own = None
        /\ CallsInOrder' /\ SoloOpens' /\ OpensDefined' /\ OpensUnmapped'
    BY <2>2, CallReturns DEF PersistFails
  <2> HIDE DEF t
  <2>5. TypeOK'
    <3>1. /\ spec' \in [Tunnels -> [id : Ids, address : Addresses] \cup {None}]
          /\ run' \in [Tunnels -> Run] /\ retries' \in [Tunnels -> 0..MaxRetries]
          /\ canceled' \in [Tunnels -> BOOLEAN]
      BY <2>1, <2>2, BoundsAssumption DEF Forget, IInv, TypeOK, Run
    <3>2. /\ listening' \subseteq {u \in Tunnels : run'[u] \in {"new", "open"}}
          /\ \A u \in Tunnels : spec'[u] = None <=> run'[u] = "unused"
      BY <2>2, <2>3 DEF Forget, IInv, TypeOK
    <3> QED
      BY <2>2, <2>4, <3>1, <3>2, CallTypes DEF IInv, TypeOK, CallsInOrder, Pcs
  <2>6. \A i \in Ids : tunnels[i] # None => tunnels[i] \in Tunnels /\ tunnels[i] # t
    BY <2>1 DEF IInv, TypeOK, MappedRuns
  <2>7. OwnIsNew'
    <3>1. \A m \in Lanes : m # l /\ call[m].own # None => call[m].own # t /\ call[m].own \in Tunnels
      BY <2>1, CallTypes DEF t, IInv, OwnIsNew, CallsInOrder
    <3> QED
      BY <2>3, <2>4, <3>1 DEF IInv, OwnIsNew
  <2>8. NewIsNotStopped' /\ MappedRuns' /\ MapIsLive' /\ RunningIsMapped'
    BY <2>2, <2>3, <2>6 DEF IInv, NewIsNotStopped, MappedRuns, MapIsLive, RunningIsMapped, Runs
  <2>9. ToldInOrder' /\ StaleIsPending'
    <3>1. call[l].pc \notin Observing /\ call'[l].pc \notin Observing
      BY <1>1, <2>4 DEF Observing
    <3> QED
      BY <2>2, <2>3, <2>4, <2>6, <3>1, Unobserved
  <2> QED
    BY <2>4, <2>5, <2>7, <2>8, <2>9 DEF IInv
<1> QED
  BY <1>2, <1>3

\* A tunnel goes on the map: what it takes the place of is nothing, unless
\* calls have raced, and it does what the definition in force says.
LEMMA PublishStep ==
  ASSUME IInv, NEW l \in Lanes, Publish(l) PROVE IInv'
<1> DEFINE t == call[l].own
           k == call[l].id
<1>1. call[l].pc = "publish" /\ call[l] \in CallRecord /\ InOrder(call[l], l)
  BY DEF Publish, At, IInv, CallsInOrder
<1>2. Opens(l) /\ k \in Ids /\ t \in Tunnels /\ t # None
  BY <1>1, CallTypes, NoneAssumption DEF InOrder, Opens, Opening
<1>3. run[t] = "new" /\ ~canceled[t] /\ spec[t] = [id |-> k, address |-> call[l].address]
  BY <1>2 DEF IInv, OwnIsNew, NewIsNotStopped
<1>4. UNCHANGED <<config, previous, handed, spec, retries, canceled, listening, calls, raced, overlapped>>
  BY DEF Publish, history
<1>5. /\ tunnels' \in [Ids -> Tunnels \cup {None}] /\ run' \in [Tunnels -> Run]
      /\ tunnels'[k] = t /\ \A i \in Ids : i # k => tunnels'[i] = tunnels[i]
      /\ run'[t] = "open" /\ \A u \in Tunnels : u # t => run'[u] = run[u]
  BY <1>2 DEF Publish, IInv, TypeOK, Run
<1>6. /\ \A m \in Lanes : m # l => call'[m] = call[m]
      /\ call'[l].pc = "idle" /\ call'[l].op = "none" /\ call'[l].own = None
      /\ CallsInOrder' /\ SoloOpens' /\ OpensDefined'
  BY <1>4, CallReturns DEF Publish
<1>7. k \notin raced => tunnels[k] = None /\ config.defs[k] = call[l].address
  BY <1>1, <1>2 DEF IInv, OpensUnmapped, OpensDefined
<1>8. \A m \in Lanes : m # l /\ Opens(m) /\ call[m].id = k => k \in raced
  BY <1>2 DEF IInv, SoloOpens
<1>9. \A m \in Lanes : m # l /\ call[m].own # None => call[m].own # t /\ call[m].own \in Tunnels
  BY <1>2, CallTypes DEF IInv, OwnIsNew, CallsInOrder
<1>10. \A i \in Ids : tunnels[i] # None => tunnels[i] \in Tunnels /\ tunnels[i] # t
  BY <1>3 DEF IInv, TypeOK, MappedRuns
<1> HIDE DEF t, k
<1>11. TypeOK'
  BY <1>3, <1>4, <1>5, <1>6, CallTypes DEF IInv, TypeOK, CallsInOrder, Pcs
<1>12. OwnIsNew'
  BY <1>4, <1>5, <1>6, <1>9 DEF IInv, OwnIsNew
<1>13. NewIsNotStopped' /\ MappedRuns'
  BY <1>2, <1>4, <1>5, <1>10 DEF IInv, NewIsNotStopped, MappedRuns
<1>14. MapIsLive'
  BY <1>2, <1>3, <1>4, <1>5, <1>10 DEF IInv, MapIsLive
<1>15. RunningIsMapped'
  <2> SUFFICES ASSUME NEW u \in Tunnels, Runs(u)', spec[u].id \notin raced
               PROVE  tunnels'[spec[u].id] = u
    BY <1>4 DEF RunningIsMapped
  <2>1. CASE u = t
    BY <1>3, <1>5, <2>1
  <2>2. CASE u # t
    <3>1. tunnels[spec[u].id] = u /\ spec[u].id \in Ids
      BY <1>4, <1>5, <2>2, UsedHasSpec DEF IInv, RunningIsMapped, Runs
    <3> QED
      BY <1>5, <1>7, <3>1, NoneAssumption
  <2> QED
    BY <2>1, <2>2
<1>16. OpensUnmapped'
  <2> SUFFICES ASSUME NEW m \in Lanes, m # l, Opens(m), call[m].pc \notin {"check", "stop"},
                      call[m].id \notin raced
               PROVE  tunnels'[call[m].id] = None
    BY <1>4, <1>6 DEF OpensUnmapped, Opens, Opening
  <2>1. call[m].id \in Ids
    BY CallTypes DEF IInv, CallsInOrder, InOrder, Opens, Opening
  <2> QED
    BY <1>5, <1>8, <2>1 DEF IInv, OpensUnmapped
<1>17. ToldInOrder'
  BY <1>1, <1>4, <1>6 DEF IInv, ToldInOrder, At
<1>18. StaleIsPending'
  <2> SUFFICES ASSUME ~overlapped, NEW i \in Ids \ raced, tunnels'[i] # None,
                      spec[tunnels'[i]].address # config.defs[i]
               PROVE  \E m \in Lanes : WillStop(m, i)'
    BY <1>4 DEF StaleIsPending
  <2>1. i # k
    BY <1>3, <1>5, <1>7
  <2>2. PICK m \in Lanes : WillStop(m, i)
    BY <1>5, <2>1 DEF IInv, StaleIsPending
  <2>3. WillStop(m, i)'
    BY <1>1, <1>4, <1>5, <1>6, <2>1, <2>2 DEF WillStop, At, Matches
  <2> QED
    BY <2>3
<1> QED
  BY <1>6, <1>11, <1>12, <1>13, <1>14, <1>15, <1>16, <1>17, <1>18 DEF IInv

-----------------------------------------------------------------------------
(* The configuration changes, and the observer is told. *)

\* Whoever changes the configuration has it in hand to announce, and what it
\* has made stale is pending from then on.  A call that has opened a tunnel
\* by another definition has been overtaken.
LEMMA ChangeStep ==
  ASSUME IInv, NEW l \in Lanes, NEW c \in Config, Change(l, c),
         call[l].pc \in {"idle", "persist"}, "notify" \in Places(call[l].op),
         Opens(l) /\ call[l].id \notin raced => c.defs[call[l].id] = call[l].address,
         UNCHANGED <<previous, tunnels, handed, tunnel>>, calls' \in 0..MaxCalls
  PROVE  IInv'
<1>1. /\ call \in [Lanes -> CallRecord] /\ call[l] \in CallRecord /\ InOrder(call[l], l)
      /\ call[l].pc \notin Observing
  BY DEF IInv, CallsInOrder, Observing
<1>2. /\ call' \in [Lanes -> CallRecord]
      /\ \A m \in Lanes : m # l => call'[m] = call[m]
      /\ call'[l].pc = "notify" /\ call'[l].saved = c
      /\ call'[l].op = call[l].op /\ call'[l].id = call[l].id
      /\ call'[l].address = call[l].address /\ call'[l].own = call[l].own
  BY <1>1 DEF Change, CallRecord, Pcs
<1>3. UNCHANGED <<previous, tunnels, handed, spec, run, retries, canceled, listening>>
  BY DEF tunnel
<1>4. config' = c /\ raced' = raced \cup Overtaken(l, c.defs)
  BY DEF Change
<1>5. \A m \in Lanes : Opens(m) => call[m].id \in Ids /\ call[m].address \in Addresses
  BY CallTypes DEF IInv, CallsInOrder, InOrder, Opens, Opening
<1>6. raced \subseteq raced' /\ raced' \subseteq Ids
  BY <1>4, <1>5 DEF Overtaken, IInv, TypeOK
<1>7. \A m \in Lanes : m # l /\ Opens(m) /\ call[m].id \notin raced' => c.defs[call[m].id] = call[m].address
  BY <1>4 DEF Overtaken
<1>8. overlapped' \in BOOLEAN /\ (~overlapped' => ~overlapped /\ \A m \in Lanes : ~At(m, "notify"))
  BY DEF Change, IInv, TypeOK
<1>9. TypeOK'
  BY <1>2, <1>3, <1>4, <1>6, <1>8, CallTypes DEF IInv, TypeOK, Pcs
<1>10. CallsInOrder'
  <2>1. InOrder(call'[l], l)
    BY <1>1, <1>2 DEF InOrder, Observing
  <2> QED
    BY <1>2, <2>1, MovesInOrder DEF IInv
<1>11. OwnIsNew' /\ NewIsNotStopped' /\ MappedRuns' /\ MapIsLive'
  BY <1>2, <1>3 DEF IInv, OwnIsNew, NewIsNotStopped, MappedRuns, MapIsLive
<1>12. RunningIsMapped'
  BY <1>3, <1>6 DEF IInv, RunningIsMapped, Runs
<1>13. \A m \in Lanes : call'[m].id = call[m].id /\ Opens(m)' = Opens(m)
  BY <1>2 DEF Opens
<1>14. SoloOpens'
  BY <1>6, <1>13 DEF IInv, SoloOpens
<1>15. OpensUnmapped'
  <2>1. call[l].pc # "idle" \/ ~Opens(l)
    BY <1>1 DEF InOrder, Opens, Opening, Places, Observing
  <2> QED
    BY <1>2, <1>3, <1>6, <1>13, <2>1 DEF IInv, OpensUnmapped
<1>16. OpensDefined'
  <2> SUFFICES ASSUME NEW m \in Lanes, Opens(m), call[m].id \notin raced'
               PROVE  config'.defs[call[m].id] = call[m].address /\ call[m].address # None
    BY <1>2, <1>13 DEF OpensDefined, Defined
  <2> QED
    BY <1>4, <1>5, <1>6, <1>7, NoneAssumption
<1>17. ToldInOrder'
  BY <1>2, <1>4, <1>8 DEF ToldInOrder, At
<1>18. StaleIsPending'
  <2> SUFFICES ASSUME ~overlapped', NEW i \in Ids \ raced', tunnels[i] # None,
                      spec[tunnels[i]].address # c.defs[i]
               PROVE  \E m \in Lanes : WillStop(m, i)'
    BY <1>3, <1>4 DEF StaleIsPending
  <2>1. previous = config
    BY <1>8 DEF IInv, ToldInOrder
  <2>2. CASE previous.defs[i] # c.defs[i]
    BY <1>2, <1>3, <1>4, <2>2 DEF WillStop, At
  <2>3. CASE previous.defs[i] = c.defs[i]
    <3>1. PICK m \in Lanes : WillStop(m, i)
      BY <1>6, <1>8, <2>1, <2>3 DEF IInv, StaleIsPending
    <3>2. m # l /\ ~At(m, "notify")
      BY <1>1, <1>8, <3>1 DEF WillStop, At, Observing
    <3>3. WillStop(m, i)'
      BY <1>2, <1>3, <3>1, <3>2 DEF WillStop, At, Matches
    <3> QED
      BY <3>3
  <2> QED
    BY <2>2, <2>3
<1> QED
  BY <1>9, <1>10, <1>11, <1>12, <1>14, <1>15, <1>16, <1>17, <1>18 DEF IInv

LEMMA PersistStep ==
  ASSUME IInv, NEW l \in Lanes, Persist(l) PROVE IInv'
<1>1. call[l].pc = "persist" /\ call[l] \in CallRecord /\ InOrder(call[l], l)
  BY DEF Persist, At, IInv, CallsInOrder
<1>2. call[l].op \in {"add", "update", "delete"}
  BY <1>1 DEF InOrder, OfLane, Places, Lanes, Observing
<1>3. /\ call[l].id \in Ids /\ call[l].address \in Addresses \cup {None}
      /\ Opens(l) => call[l].address \in Addresses
      /\ call[l].op = "delete" <=> ~Opens(l)
  BY <1>1, <1>2, CallTypes DEF InOrder, Opens, Opening
<1>4. \A a \in Addresses \cup {None} :
        /\ [config EXCEPT !.defs[call[l].id] = a] \in Config
        /\ [config EXCEPT !.defs[call[l].id] = a].defs[call[l].id] = a
  BY <1>3 DEF IInv, TypeOK, Config, Definitions
<1>5. Mutated(l) \in Config
  BY <1>2, <1>3, <1>4 DEF Mutated, IInv, TypeOK
<1>6. Opens(l) /\ call[l].id \notin raced => Mutated(l).defs[call[l].id] = call[l].address
  <2>1. Opens(l) /\ call[l].id \notin raced /\ call[l].op = "update" => Defined(call[l].id)
    BY DEF IInv, OpensDefined
  <2> QED
    BY <1>2, <1>3, <1>4, <2>1 DEF Mutated
<1>7. "notify" \in Places(call[l].op)
  BY <1>2 DEF Places, Observing
<1>8. calls' \in 0..MaxCalls
  BY DEF Persist, IInv, TypeOK
<1> QED
  BY <1>1, <1>5, <1>6, <1>7, <1>8, ChangeStep DEF Persist

LEMMA SaveSettingsStep ==
  ASSUME IInv, SaveSettings PROVE IInv'
<1>1. /\ "settings" \in Lanes /\ call["settings"].pc = "idle" /\ ~Opens("settings")
      /\ "notify" \in Places(call["settings"].op)
  BY DEF SaveSettings, At, IInv, CallsInOrder, InOrder, OfLane, Lanes, Opens, Opening, Places, Observing
<1>2. calls' \in 0..MaxCalls
  BY BoundsAssumption DEF SaveSettings, IInv, TypeOK
<1>3. [config EXCEPT !.sources = ~@] \in Config
  BY DEF IInv, TypeOK, Config
<1>4. \A d \in Imports : [config EXCEPT !.defs = d] \in Config
  BY ImportsAssumption DEF IInv, TypeOK, Config
<1>5. PICK c \in Config : Change("settings", c)
  BY <1>3, <1>4 DEF SaveSettings
<1> QED
  BY <1>1, <1>2, <1>5, ChangeStep DEF SaveSettings

\* A call that tells the observer is of a lane that saves.
LEMMA ObservingCall ==
  ASSUME CallsInOrder, NEW l \in Lanes, call[l].pc \in Observing
  PROVE  /\ Observing \subseteq Places(call[l].op)
         /\ call[l].saved \in Config /\ call[l].stale \subseteq Ids
         /\ call[l].own # None => Opens(l) /\ "publish" \in Places(call[l].op)
<1>1. InOrder(call[l], l) /\ call[l] \in CallRecord
  BY DEF CallsInOrder
<1>2. call[l].op \in {"none", "add", "update", "delete"}
  BY <1>1 DEF InOrder, OfLane, Places, Lanes, Observing
<1> QED
  BY <1>1, <1>2, CallTypes DEF InOrder, Places, Opens, Opening, Observing

\* A step that only moves a call that tells the observer: on to the next
\* thing to do there, or back to its own business.
LEMMA ObserverStep ==
  ASSUME IInv, NEW l \in Lanes, call[l].pc \in Observing,
         Proceed(l) \/ \E p \in {"shutdown", "sync"} : GoTo(l, p),
         UNCHANGED <<config, tunnels, handed, tunnel, history>>
  PROVE  /\ \A m \in Lanes : m # l => call'[m] = call[m]
         /\ call'[l].pc # "notify" /\ call'[l].pc \in Pcs
         /\ call'[l].pc \in Observing => call'[l].saved = call[l].saved
         /\ UNCHANGED <<config, tunnels, handed, spec, run, retries, canceled, listening,
                        calls, raced, overlapped>>
         /\ previous' \in Config => TypeOK'
         /\ CallsInOrder' /\ OwnIsNew' /\ NewIsNotStopped' /\ MappedRuns' /\ MapIsLive'
         /\ SoloOpens' /\ OpensUnmapped' /\ RunningIsMapped' /\ OpensDefined'
<1>1. UNCHANGED <<config, tunnels, handed, spec, run, retries, canceled, listening,
                  calls, raced, overlapped>>
  BY DEF history, tunnel
<1>2. /\ Observing \subseteq Places(call[l].op) /\ call[l].saved \in Config
      /\ call[l].own # None => "publish" \in Places(call[l].op)
  BY ObservingCall DEF IInv
<1>3. Return(l) \/ \E p \in {"shutdown", "sync", "publish"} :
                      GoTo(l, p) /\ (p = "publish" => call[l].own # None)
  BY DEF Proceed
<1>4. /\ \A m \in Lanes : m # l => call'[m] = call[m]
      /\ call'[l].pc # "notify" /\ call'[l].pc \in Pcs
      /\ call'[l].pc \in Observing => call'[l].saved = call[l].saved
      /\ call'[l].own = None \/ (call'[l].own = call[l].own /\ call'[l].id = call[l].id
                                 /\ call'[l].address = call[l].address)
      /\ CallsInOrder' /\ SoloOpens' /\ OpensDefined' /\ OpensUnmapped'
  <2>1. CASE Return(l)
    BY <1>1, <2>1, CallReturns DEF Pcs, Observing
  <2>2. CASE \E p \in {"shutdown", "sync", "publish"} :
               GoTo(l, p) /\ (p = "publish" => call[l].own # None)
    <3>1. PICK p \in {"shutdown", "sync", "publish"} :
               GoTo(l, p) /\ (p = "publish" => call[l].own # None)
      BY <2>2
    <3>2. /\ p \in Pcs /\ p \in Places(call[l].op) /\ p \in {"publish"} \cup Observing
          /\ p # "notify" /\ call[l].pc \notin {"check", "stop"}
      BY <1>2, <3>1 DEF Pcs, Observing
    <3>3. /\ \A m \in Lanes : m # l => call'[m] = call[m]
          /\ call'[l].pc = p
          /\ call'[l].id = call[l].id
          /\ call'[l].address = call[l].address /\ call'[l].own = call[l].own
          /\ call'[l].saved = call[l].saved
          /\ CallsInOrder' /\ SoloOpens' /\ OpensDefined' /\ OpensUnmapped'
      BY <1>1, <1>2, <3>1, <3>2, CallGoes
    <3> QED
      BY <3>2, <3>3
  <2> QED
    BY <1>3, <2>1, <2>2
<1>5. OwnIsNew' /\ NewIsNotStopped' /\ MappedRuns' /\ MapIsLive' /\ RunningIsMapped'
  BY <1>1, <1>4, TunnelsStay DEF IInv, OwnIsNew
<1>6. previous' \in Config => TypeOK'
  BY <1>1, <1>4, CallTypes DEF IInv, TypeOK, CallsInOrder, Pcs
<1> QED
  BY <1>1, <1>4, <1>5, <1>6

\* What was pending on a change that had to be announced is pending on what
\* the observer has made of it.
LEMMA NotifyStep ==
  ASSUME IInv, NEW l \in Lanes, Notify(l) PROVE IInv'
<1>1. call[l].pc = "notify" /\ call[l].pc \in Observing /\ call[l].saved \in Config
  BY ObservingCall DEF Notify, At, IInv, Observing
<1>2. \/ SourcesChanged(call[l].saved) /\ GoTo(l, "shutdown")
      \/ ForwardsChanged(call[l].saved) /\ GoTo(l, "sync")
      \/ ~ForwardsChanged(call[l].saved) /\ Proceed(l)
  BY DEF Notify
<1>3. /\ \A m \in Lanes : m # l => call'[m] = call[m]
      /\ call'[l].pc # "notify"
      /\ call'[l].pc \in Observing => call'[l].saved = call[l].saved
      /\ UNCHANGED <<config, tunnels, handed, spec, run, retries, canceled, listening,
                     calls, raced, overlapped>>
      /\ previous' \in Config => TypeOK'
      /\ CallsInOrder' /\ OwnIsNew' /\ NewIsNotStopped' /\ MappedRuns' /\ MapIsLive'
      /\ SoloOpens' /\ OpensUnmapped' /\ RunningIsMapped' /\ OpensDefined'
  BY <1>1, <1>2, ObserverStep DEF Notify
<1>4. previous' = call[l].saved
  BY DEF Notify
<1>5. ToldInOrder'
  BY <1>1, <1>3, <1>4 DEF IInv, ToldInOrder, At
<1>6. StaleIsPending'
  <2> SUFFICES ASSUME ~overlapped, NEW i \in Ids \ raced, tunnels[i] # None,
                      spec[tunnels[i]].address # config.defs[i]
               PROVE  \E m \in Lanes : WillStop(m, i)'
    BY <1>3 DEF StaleIsPending
  <2>1. call[l].saved = config
    BY <1>1 DEF IInv, ToldInOrder, At
  <2>2. CASE previous.defs[i] # config.defs[i]
    <3>1. ForwardsChanged(call[l].saved)
      BY <2>1, <2>2 DEF ForwardsChanged
    <3>2. PICK p \in {"shutdown", "sync"} : GoTo(l, p)
      BY <1>2, <3>1
    <3>3. call'[l].pc = p
      BY <3>2, Going DEF IInv, CallsInOrder, Pcs
    <3>4. p = "sync" => ~Matches(l, i)'
      BY <1>3, <2>1, <3>3 DEF Matches, Observing
    <3>5. WillStop(l, i)'
      BY <3>2, <3>3, <3>4 DEF WillStop, At
    <3> QED
      BY <3>5
  <2>3. CASE previous.defs[i] = config.defs[i]
    <3>1. PICK m \in Lanes : WillStop(m, i)
      BY DEF IInv, StaleIsPending
    <3>2. m # l /\ ~At(m, "notify")
      BY <1>1, <2>3, <3>1 DEF WillStop, At
    <3>3. WillStop(m, i)'
      BY <1>3, <3>1, <3>2 DEF WillStop, At, Matches
    <3> QED
      BY <3>3
  <2> QED
    BY <2>2, <2>3
<1> QED
  BY <1>1, <1>3, <1>4, <1>5, <1>6 DEF IInv

LEMMA CleanedStep ==
  ASSUME IInv, NEW l \in Lanes, Cleaned(l) PROVE IInv'
<1>1. call[l].pc = "clean" /\ call[l].pc \in Observing /\ previous' = previous
  BY DEF Cleaned, At, Observing
<1>2. /\ \A m \in Lanes : m # l => call'[m] = call[m]
      /\ call'[l].pc # "notify"
      /\ UNCHANGED <<config, tunnels, handed, spec, run, retries, canceled, listening,
                     calls, raced, overlapped>>
      /\ TypeOK'
      /\ CallsInOrder' /\ OwnIsNew' /\ NewIsNotStopped' /\ MappedRuns' /\ MapIsLive'
      /\ SoloOpens' /\ OpensUnmapped' /\ RunningIsMapped' /\ OpensDefined'
  <2>1. previous' \in Config
    BY <1>1 DEF IInv, TypeOK
  <2> QED
    BY <1>1, <2>1, ObserverStep DEF Cleaned
<1>3. ToldInOrder'
  BY <1>1, <1>2 DEF IInv, ToldInOrder, At
<1>4. StaleIsPending'
  <2>1. \A j \in Ids : \A m \in Lanes : WillStop(m, j) => WillStop(m, j)'
    BY <1>1, <1>2 DEF WillStop, At, Matches, Cleaned
  <2> QED
    BY <1>2, <2>1, StillPending DEF IInv
<1> QED
  BY <1>2, <1>3, <1>4 DEF IInv

\* What does not match is collected, and what is collected is pending.
LEMMA CollectStep ==
  ASSUME IInv, NEW l \in Lanes, Collect(l) PROVE IInv'
<1> DEFINE S == {i \in Ids : tunnels[i] # None /\ (At(l, "sync") => ~Matches(l, i))}
<1>1. /\ call[l].pc \in {"shutdown", "sync"} /\ call[l].pc \in Observing
      /\ call \in [Lanes -> CallRecord] /\ call[l] \in CallRecord /\ InOrder(call[l], l)
      /\ Observing \subseteq Places(call[l].op)
  BY ObservingCall DEF Collect, IInv, CallsInOrder, Observing
<1>2. UNCHANGED <<config, previous, tunnels, handed, spec, run, retries, canceled, listening,
                  calls, raced, overlapped>>
  BY DEF Collect, history, tunnel
<1>3. call' = [call EXCEPT ![l].pc = "clean", ![l].stale = S]
  BY DEF Collect
<1>4. S \subseteq Ids /\ \A i \in Ids : tunnels[i] # None /\ WillStop(l, i) => i \in S
  BY <1>1 DEF WillStop, At
<1> HIDE DEF S
<1>5. /\ call' \in [Lanes -> CallRecord]
      /\ \A m \in Lanes : m # l => call'[m] = call[m]
      /\ call'[l].pc = "clean" /\ call'[l].stale = S
      /\ call'[l].op = call[l].op /\ call'[l].id = call[l].id
      /\ call'[l].address = call[l].address /\ call'[l].own = call[l].own
      /\ call'[l].saved = call[l].saved
  BY <1>1, <1>3, <1>4 DEF CallRecord, Pcs
<1>6. TypeOK'
  BY <1>2, <1>5, CallTypes DEF IInv, TypeOK, Pcs
<1>7. CallsInOrder'
  <2>1. InOrder(call'[l], l)
    BY <1>1, <1>5 DEF InOrder, Observing
  <2> QED
    BY <1>5, <2>1, MovesInOrder DEF IInv
<1>8. OwnIsNew' /\ NewIsNotStopped' /\ MappedRuns' /\ MapIsLive' /\ RunningIsMapped'
  BY <1>2, <1>5, TunnelsStay DEF IInv, OwnIsNew
<1>9. SoloOpens' /\ OpensUnmapped' /\ OpensDefined'
  BY <1>1, <1>2, <1>5 DEF IInv, SoloOpens, OpensUnmapped, OpensDefined, Opens, Defined, Observing
<1>10. ToldInOrder'
  BY <1>1, <1>2, <1>5 DEF IInv, ToldInOrder, At
<1>11. StaleIsPending'
  <2>1. \A j \in Ids : tunnels'[j] # None => \A m \in Lanes : WillStop(m, j) => WillStop(m, j)'
    BY <1>2, <1>4, <1>5 DEF WillStop, At, Matches
  <2> QED
    BY <1>2, <2>1, StillPending DEF IInv
<1> QED
  BY <1>6, <1>7, <1>8, <1>9, <1>10, <1>11 DEF IInv

LEMMA CleanStep ==
  ASSUME IInv, NEW l \in Lanes, Clean(l) PROVE IInv'
<1>1. /\ call[l].pc = "clean" /\ call[l].pc \in Observing
      /\ call \in [Lanes -> CallRecord] /\ call[l] \in CallRecord /\ InOrder(call[l], l)
      /\ call[l].stale \subseteq Ids
  BY ObservingCall DEF Clean, At, IInv, CallsInOrder, Observing
<1>2. PICK i \in call[l].stale :
        StopForwards({i}) /\ call' = [call EXCEPT ![l].stale = @ \ {i}]
  BY DEF Clean
<1>3. UNCHANGED <<config, previous, handed, spec, run, retries, calls, raced, overlapped>>
  BY <1>2 DEF Clean, history, StopForwards
<1>4. /\ tunnels' \in [Ids -> Tunnels \cup {None}]
      /\ canceled' \in [Tunnels -> BOOLEAN]
      /\ listening' \subseteq {t \in Tunnels : run'[t] \in {"new", "open"}}
      /\ \A j \in Ids : tunnels'[j] # None => j # i /\ tunnels'[j] = tunnels[j]
      /\ \A j \in Ids : tunnels[j] = None => tunnels'[j] = None
      /\ NewIsNotStopped' /\ MappedRuns' /\ MapIsLive' /\ RunningIsMapped'
  BY <1>1, <1>2, <1>3, Stopping
<1>5. /\ call' \in [Lanes -> CallRecord]
      /\ \A m \in Lanes : m # l => call'[m] = call[m]
      /\ call'[l].pc = "clean" /\ call'[l].stale = call[l].stale \ {i}
      /\ call'[l].op = call[l].op /\ call'[l].id = call[l].id
      /\ call'[l].address = call[l].address /\ call'[l].own = call[l].own
      /\ call'[l].saved = call[l].saved
  BY <1>1, <1>2 DEF CallRecord
<1>6. TypeOK'
  BY <1>3, <1>4, <1>5, CallTypes DEF IInv, TypeOK, Pcs
<1>7. CallsInOrder'
  <2>1. InOrder(call'[l], l)
    BY <1>1, <1>5 DEF InOrder
  <2> QED
    BY <1>5, <2>1, MovesInOrder DEF IInv
<1>8. OwnIsNew'
  BY <1>3, <1>5 DEF IInv, OwnIsNew
<1>9. \A m \in Lanes : /\ call'[m].pc = call[m].pc /\ call'[m].op = call[m].op
                       /\ call'[m].id = call[m].id /\ call'[m].address = call[m].address
  BY <1>1, <1>5
<1>10. SoloOpens' /\ OpensDefined'
  BY <1>3, <1>9 DEF IInv, SoloOpens, OpensDefined, Opens, Defined
<1>11. OpensUnmapped'
  <2>1. \A m \in Lanes : Opens(m) => call[m].id \in Ids
    BY CallTypes DEF IInv, CallsInOrder, InOrder, Opens, Opening
  <2> QED
    BY <1>3, <1>4, <1>9, <2>1 DEF IInv, OpensUnmapped, Opens
<1>12. ToldInOrder'
  BY <1>3, <1>5, <1>9, <1>1 DEF IInv, ToldInOrder, At
<1>13. StaleIsPending'
  <2>1. \A j \in Ids : tunnels'[j] # None => \A m \in Lanes : WillStop(m, j) => WillStop(m, j)'
    BY <1>1, <1>3, <1>4, <1>5 DEF WillStop, At, Matches
  <2> QED
    BY <1>3, <1>4, <2>1, StillPending DEF IInv
<1> QED
  BY <1>4, <1>6, <1>7, <1>8, <1>10, <1>11, <1>12, <1>13 DEF IInv

-----------------------------------------------------------------------------
(* The tunnels run. *)

\* A step of the goroutine of a tunnel, which has been published: none of
\* what the calls go by changes.
LEMMA RunnerStep ==
  ASSUME IInv, NEW t \in Tunnels, run[t] \in {"open", "retry"},
         UNCHANGED <<config, previous, tunnels, handed, spec, canceled, call, history>>,
         \E r \in {"open", "retry", "failed"} : run' = [run EXCEPT ![t] = r],
         retries' \in [Tunnels -> 0..MaxRetries],
         listening' \subseteq {u \in Tunnels : run'[u] \in {"new", "open"}}
  PROVE  IInv'
<1>1. UNCHANGED <<calls, raced, overlapped>>
  BY DEF history
<1>2. /\ run' \in [Tunnels -> Run] /\ run'[t] \in {"open", "retry", "failed"}
      /\ \A u \in Tunnels : u # t => run'[u] = run[u]
  BY DEF IInv, TypeOK, Run
<1>3. TypeOK'
  BY <1>1, <1>2, CallTypes DEF IInv, TypeOK, CallsInOrder, Pcs
<1>4. CallsInOrder' /\ SoloOpens' /\ OpensUnmapped' /\ OpensDefined' /\ ToldInOrder'
  BY <1>1 DEF IInv, CallsInOrder, SoloOpens, OpensUnmapped, OpensDefined, ToldInOrder, Opens, Defined, At
<1>5. OwnIsNew'
  <2>1. \A m \in Lanes : call[m].own # None => call[m].own # t /\ call[m].own \in Tunnels
    BY CallTypes DEF IInv, OwnIsNew, CallsInOrder
  <2> QED
    BY <1>2, <2>1 DEF IInv, OwnIsNew
<1>6. NewIsNotStopped' /\ MappedRuns' /\ MapIsLive' /\ RunningIsMapped'
  BY <1>1, <1>2 DEF IInv, TypeOK, NewIsNotStopped, MappedRuns, MapIsLive, RunningIsMapped, Runs
<1>7. StaleIsPending'
  <2>1. \A j \in Ids : \A m \in Lanes : WillStop(m, j) => WillStop(m, j)'
    BY DEF WillStop, At, Matches
  <2> QED
    BY <1>1, <2>1, StillPending DEF IInv
<1> QED
  BY <1>3, <1>4, <1>5, <1>6, <1>7 DEF IInv

LEMMA LoseStep ==
  ASSUME IInv, NEW t \in Tunnels, Lose(t) PROVE IInv'
<1>1. /\ retries' \in [Tunnels -> 0..MaxRetries]
      /\ listening' \subseteq {u \in Tunnels : run'[u] \in {"new", "open"}}
  BY BoundsAssumption DEF Lose, IInv, TypeOK
<1> QED
  BY <1>1, RunnerStep DEF Lose

LEMMA ReopenStep ==
  ASSUME IInv, NEW t \in Tunnels, Reopen(t) PROVE IInv'
<1>1. /\ retries' \in [Tunnels -> 0..MaxRetries]
      /\ listening' \subseteq {u \in Tunnels : run'[u] \in {"new", "open"}}
  BY DEF Reopen, IInv, TypeOK
<1> QED
  BY <1>1, RunnerStep DEF Reopen

LEMMA ReopenFailsStep ==
  ASSUME IInv, NEW t \in Tunnels, ReopenFails(t) PROVE IInv'
<1>1. /\ retries' \in [Tunnels -> 0..MaxRetries]
      /\ run' = [run EXCEPT ![t] = "retry"]
      /\ listening' \subseteq {u \in Tunnels : run'[u] \in {"new", "open"}}
  BY BoundsAssumption DEF ReopenFails, IInv, TypeOK
<1> QED
  BY <1>1, RunnerStep DEF ReopenFails

LEMMA GiveUpStep ==
  ASSUME IInv, NEW t \in Tunnels, GiveUp(t) PROVE IInv'
<1>1. /\ retries' \in [Tunnels -> 0..MaxRetries]
      /\ listening' \subseteq {u \in Tunnels : run'[u] \in {"new", "open"}}
  BY DEF GiveUp, IInv, TypeOK
<1> QED
  BY <1>1, RunnerStep DEF GiveUp

\* A tunnel whose context is done is neither on the map nor in the hands of
\* a call.
LEMMA EndStep ==
  ASSUME IInv, NEW t \in Tunnels, End(t) PROVE IInv'
<1>1. UNCHANGED <<config, previous, tunnels, handed, call, calls, raced, overlapped>> /\ Forget(t)
  BY DEF End, history
<1>2. /\ \A u \in Tunnels : u # t => spec'[u] = spec[u] /\ run'[u] = run[u] /\ canceled'[u] = canceled[u]
      /\ spec'[t] = None /\ run'[t] = "unused" /\ ~canceled'[t]
  BY <1>1 DEF Forget, IInv, TypeOK
<1>3. \A i \in Ids : tunnels[i] # None => tunnels[i] \in Tunnels /\ tunnels[i] # t
  BY DEF End, IInv, TypeOK, MapIsLive
<1>4. \A m \in Lanes : call[m].own # None => call[m].own # t /\ call[m].own \in Tunnels
  BY CallTypes DEF End, IInv, OwnIsNew, NewIsNotStopped, CallsInOrder
<1>5. TypeOK'
  <2>1. /\ spec' \in [Tunnels -> [id : Ids, address : Addresses] \cup {None}]
        /\ run' \in [Tunnels -> Run] /\ retries' \in [Tunnels -> 0..MaxRetries]
        /\ canceled' \in [Tunnels -> BOOLEAN]
    BY <1>1, BoundsAssumption DEF Forget, IInv, TypeOK, Run
  <2>2. /\ listening' \subseteq {u \in Tunnels : run'[u] \in {"new", "open"}}
        /\ \A u \in Tunnels : spec'[u] = None <=> run'[u] = "unused"
    BY <1>1, <1>2 DEF Forget, IInv, TypeOK
  <2> QED
    BY <1>1, <2>1, <2>2, CallTypes DEF IInv, TypeOK, CallsInOrder, Pcs
<1>6. CallsInOrder' /\ SoloOpens' /\ OpensUnmapped' /\ OpensDefined' /\ ToldInOrder'
  BY <1>1 DEF IInv, CallsInOrder, SoloOpens, OpensUnmapped, OpensDefined, ToldInOrder, Opens, Defined, At
<1>7. OwnIsNew'
  BY <1>1, <1>2, <1>4 DEF IInv, OwnIsNew
<1>8. NewIsNotStopped' /\ MappedRuns' /\ MapIsLive' /\ RunningIsMapped'
  BY <1>1, <1>2, <1>3 DEF IInv, NewIsNotStopped, MappedRuns, MapIsLive, RunningIsMapped, Runs
<1>9. StaleIsPending'
  <2>1. \A j \in Ids : tunnels'[j] # None => \A m \in Lanes : WillStop(m, j) => WillStop(m, j)'
    BY <1>1, <1>2, <1>3 DEF WillStop, At, Matches
  <2> QED
    BY <1>1, <1>2, <1>3, <2>1, StillPending DEF IInv
<1> QED
  BY <1>5, <1>6, <1>7, <1>8, <1>9 DEF IInv

-----------------------------------------------------------------------------
LEMMA NextIInv == IInv /\ [Next]_vars => IInv'
<1> SUFFICES ASSUME IInv, [Next]_vars PROVE IInv'
  OBVIOUS
<1>1. ASSUME NEW i \in Ids, DeleteForward(i) \/ StartForward(i) \/ StopForward(i) PROVE IInv'
  BY <1>1, DeleteForwardStep, StartForwardStep, StopForwardStep
<1>2. ASSUME NEW i \in Ids, NEW a \in Addresses, AddForward(i, a) \/ UpdateForward(i, a) PROVE IInv'
  BY <1>2, AddForwardStep, UpdateForwardStep
<1>3. CASE SaveSettings
  BY <1>3, SaveSettingsStep
<1>4. ASSUME NEW l \in Lanes, CallStep(l) PROVE IInv'
  BY <1>4, CheckStep, StopStep, OpenedStep, DialFailsStep, ListenFailsStep, PersistStep, PersistFailsStep,
     NotifyStep, CollectStep, CleanStep, CleanedStep, PublishStep DEF CallStep
<1>5. ASSUME NEW t \in Tunnels, Lose(t) \/ Reopen(t) \/ ReopenFails(t) \/ GiveUp(t) \/ End(t) PROVE IInv'
  BY <1>5, LoseStep, ReopenStep, ReopenFailsStep, GiveUpStep, EndStep
<1>6. CASE UNCHANGED vars
  <2> USE <1>6 DEF vars, tunnel
  <2>1. TypeOK' /\ CallsInOrder' /\ OwnIsNew' /\ NewIsNotStopped' /\ MappedRuns' /\ MapIsLive'
    BY DEF IInv, TypeOK, CallsInOrder, OwnIsNew, NewIsNotStopped, MappedRuns, MapIsLive
  <2>2. SoloOpens' /\ OpensUnmapped' /\ RunningIsMapped' /\ OpensDefined' /\ ToldInOrder'
    BY DEF IInv, SoloOpens, OpensUnmapped, RunningIsMapped, OpensDefined, ToldInOrder,
           Opens, Runs, Defined, At
  <2>3. StaleIsPending'
    BY DEF IInv, StaleIsPending, WillStop, At, Matches
  <2> QED
    BY <2>1, <2>2, <2>3 DEF IInv
<1> QED
  BY <1>1, <1>2, <1>3, <1>4, <1>5, <1>6 DEF Next

\* The inductive invariant holds throughout.
THEOREM Invariance == Spec => []IInv
  BY InitIInv, NextIInv, PTL DEF Spec

\* Type correctness.
THEOREM TypeCorrect == Spec => []TypeOK
<1>1. IInv => TypeOK
  BY DEF IInv
<1> QED
  BY <1>1, Invariance, PTL

\* What the list shows for a forward (portservice.go, GetForwards)
\* is a tunnel of that forward that nobody has stopped.
THEOREM MapLive == Spec => []MapIsLive
<1>1. IInv => MapIsLive
  BY DEF IInv
<1> QED
  BY <1>1, Invariance, PTL

\* A tunnel is left behind, or does something else than its definition says,
\* only where two calls have worked on one forward at once or the observer
\* was told of configurations out of order: no failure to dial, to listen or
\* to save, no reconnection, no import and no change of profiles does it.
THEOREM OrphansByRaceOnly == Spec => []OrphansOnlyByRace
<1>1. IInv => OrphansOnlyByRace
  <2> SUFFICES ASSUME IInv, AtRest, NEW t \in Tunnels, Runs(t), spec[t].id \notin raced, ~overlapped
               PROVE  Kept(t)
    BY DEF OrphansOnlyByRace
  <2>1. spec[t].id \in Ids /\ tunnels[spec[t].id] = t /\ t # None
    BY UsedHasSpec, NoneAssumption DEF IInv, RunningIsMapped, Runs
  <2>2. \A l \in Lanes : ~WillStop(l, spec[t].id)
    BY DEF AtRest, At, WillStop
  <2>3. spec[t].address = config.defs[spec[t].id]
    BY <2>1, <2>2 DEF IInv, StaleIsPending
  <2> QED
    BY <2>1, <2>3 DEF Kept
<1> QED
  BY <1>1, Invariance, PTL
=============================================================================
