-------------------------- MODULE PipelineSessions --------------------------
(***************************************************************************)
(* The JSON pipeline: useBackendPipelineEvaluation.ts, the hook that keeps *)
(* what a window shows in step with its document and its rules, and        *)
(* jsonpipelineservice.go, which evaluates them.                           *)
(*                                                                         *)
(* The hook opens a session while the pipeline is on, sends what changed   *)
(* (one update at a time, after a pause), and shows the result event of    *)
(* the last update it sent.  Calls, their answers and the events travel    *)
(* independently: opening, updating and closing overlap, an event may      *)
(* arrive before the answer to the update that caused it, and the backend  *)
(* may have forgotten the session.                                         *)
(*                                                                         *)
(* A document is a member of Sources; rules are a member of Rules, and     *)
(* Normal gives the form normalizePipelineItems brings them into.          *)
(***************************************************************************)
EXTENDS Integers, Sequences, FiniteSets, SequencesExt

CONSTANTS Sources, NoSource,  \* documents, and the empty one
          Rules, NoRules,     \* lists of rules, and the empty one
          Normal,             \* the normal form of each list
          Capacity,           \* jsonPipelineMaxSessions
          MaxSessions,        \* bounds the sessions ever opened
          MaxMoves,           \* bounds edits, switches, failures and other windows together
          None

ASSUME NormalAssumption ==
  /\ NoSource \in Sources /\ NoRules \in Rules /\ Normal[NoRules] = NoRules
  /\ Normal \in [Rules -> Rules]
  /\ \A r \in Rules : Normal[Normal[r]] = Normal[r]
ASSUME BoundsAssumption ==
  Capacity \in Nat \ {0} /\ MaxSessions \in Nat \ {0} /\ MaxMoves \in Nat

VARIABLES
  \* JSONPipelineService
  table,     \* the sessions it knows, the one seen least recently first
  state,     \* the pipelineSession of each, known or not
  jobs,      \* the goroutines in compute
  opened,    \* how many sessions have been opened
  \* On the way.
  closing,   \* sessions of calls to ClosePipelineSession
  events,    \* json-pipeline:result
  \* The hook.
  enabled, desired,
  session,   \* sessionRef
  base,      \* basePairRef
  sent,      \* sentSourceRef and sentRulesRef
  call,      \* the update in flight (inflightRef), None if there is none
  mutation,  \* mutationRef and expectedMutationRef, which never differ
  timer,     \* timerRef is set
  opening,   \* calls to OpenPipelineSession
  status, shown,
  \* Environment, and what the properties remember.
  moves,     \* what the environment has done so far
  lastAck,   \* what the last update was answered with
  crossed    \* an answer was taken although the session had changed

backend == <<table, state, jobs, opened>>
hook == <<enabled, desired, session, base, sent, call, mutation, timer, opening, status, shown>>
history == <<lastAck, crossed>>
vars == <<backend, closing, events, hook, moves, history>>

Sessions == 1..MaxSessions
Pair == [doc : Nat, pipe : Nat]
NoPair == [doc |-> 0, pipe |-> 0]
Content == [source : Sources, rules : Rules]
NothingSent == [source |-> None, rules |-> None]
Calls ==
  [phase : {"sent", "found", "acked", "reopening"}, session : Sessions, mutation : Nat, base : Pair,
   source : Sources \cup {None}, rules : Rules \cup {None},
   ack : {"none", "missing", "conflict", "unchanged", "accepted"}, pair : Pair]
ASSUME NoneAssumption ==
  /\ None \notin Sources /\ None \notin Rules /\ None \notin Sessions
  /\ None \notin Content /\ None \notin Calls
NewSession == [pair |-> NoPair, source |-> NoSource, rules |-> NoRules, ran |-> FALSE, cancel |-> None]

Init ==
  /\ table = <<>> /\ jobs = {} /\ opened = 0
  /\ state = [s \in Sessions |-> NewSession]
  /\ closing = {} /\ events = {}
  /\ enabled \in BOOLEAN
  /\ desired \in Content
  /\ session = None /\ base = NoPair /\ sent = NothingSent
  /\ call = None /\ mutation = 0 /\ timer = TRUE
  /\ opening = IF enabled THEN {[why |-> 1, session |-> None]} ELSE {}
  /\ status = "off" /\ shown = None
  /\ moves = 0
  /\ lastAck = "none" /\ crossed = FALSE

Move == moves < MaxMoves /\ moves' = moves + 1

Live(s) == s \in Range(table)
Without(s) ==
  IF Live(s) THEN RemoveAt(table, CHOOSE i \in DOMAIN table : table[i] = s) ELSE table
Seen(s) == Append(Without(s), s)

(***************************************************************************)
(* JSONPipelineService.                                                    *)
(***************************************************************************)
EvictedLate(t) == IF Len(t) > Capacity + 1 THEN Tail(t) ELSE t
\* A new session, and the one seen least recently is dropped if there are
\* too many; what it computes is not cancelled.
Evicted(t) == IF Len(t) > Capacity THEN Tail(t) ELSE t
Enter ==
  /\ opened < MaxSessions
  /\ opened' = opened + 1
  /\ table' = Evicted(Append(table, opened + 1))
  /\ UNCHANGED <<state, jobs>>

Canceled(s) ==
  {IF j.session = s /\ j.mutation = state[s].cancel THEN [j EXCEPT !.canceled = TRUE] ELSE j : j \in jobs}

CloseSession(s) ==
  /\ s \in closing
  /\ closing' = closing \ {s}
  /\ table' = Without(s)
  /\ IF Live(s)
     THEN jobs' = Canceled(s) /\ state' = [state EXCEPT ![s].cancel = None]
     ELSE UNCHANGED <<jobs, state>>
  /\ UNCHANGED <<opened, events, hook, moves, history>>

\* Another window opens a session, or uses one.
ForeignOpens ==
  /\ Move
  /\ Enter
  /\ UNCHANGED <<closing, events, hook, history>>

\* UpdatePipelineState looks the session up ...
FindSession ==
  /\ call # None /\ call.phase = "sent"
  /\ IF Live(call.session)
     THEN table' = Seen(call.session) /\ call' = [call EXCEPT !.phase = "found"]
     ELSE call' = [call EXCEPT !.phase = "acked", !.ack = "missing"] /\ UNCHANGED table
  /\ UNCHANGED <<state, jobs, opened, closing, events, enabled, desired, session, base, sent, mutation, timer, opening, status, shown, moves, history>>

\* ... and then commits under its mutex, even if it has been forgotten since.
Acked(ack, pair) == call' = [call EXCEPT !.phase = "acked", !.ack = ack, !.pair = pair]

UpdateState ==
  /\ call # None /\ call.phase = "found"
  /\ LET s == call.session
         old == state[s]
         newSource == IF call.source = None THEN old.source ELSE call.source
         newRules == IF call.rules = None THEN old.rules ELSE Normal[call.rules]
         pair == [doc |-> old.pair.doc + (IF newSource # old.source THEN 1 ELSE 0),
                  pipe |-> old.pair.pipe + (IF newRules # old.rules THEN 1 ELSE 0)]
     IN CASE call.base # old.pair -> Acked("conflict", old.pair) /\ UNCHANGED <<state, jobs>>
          [] call.base = old.pair /\ pair = old.pair /\ old.ran ->
               Acked("unchanged", pair) /\ UNCHANGED <<state, jobs>>
          [] OTHER ->
               /\ Acked("accepted", pair)
               /\ state' = [state EXCEPT ![s] = [pair |-> pair, source |-> newSource, rules |-> newRules,
                                                 ran |-> old.ran, cancel |-> call.mutation]]
               /\ jobs' = Canceled(s) \cup
                    {[session |-> s, mutation |-> call.mutation, pair |-> pair,
                      source |-> newSource, rules |-> newRules, canceled |-> FALSE]}
  /\ UNCHANGED <<table, opened, closing, events, enabled, desired, session, base, sent, mutation, timer, opening, status, shown, moves, history>>

\* A computation ends: cancelled, for a session or a pair that is no more,
\* or with a result.  That it was cancelled may come too late.
ResultOf(j) == [session |-> j.session, mutation |-> j.mutation, pair |-> j.pair, source |-> j.source, rules |-> j.rules]

ComputeDropped(j) ==
  /\ j \in jobs
  /\ jobs' = jobs \ {j}
  /\ \/ j.canceled /\ UNCHANGED table
     \/ ~Live(j.session) /\ UNCHANGED table
     \/ Live(j.session) /\ state[j.session].pair # j.pair /\ table' = Seen(j.session)
  /\ UNCHANGED <<state, opened, closing, events, hook, moves, history>>

ComputeEnds(j) ==
  /\ j \in jobs
  /\ Live(j.session) /\ state[j.session].pair = j.pair
  /\ jobs' = jobs \ {j}
  /\ table' = Seen(j.session)
  /\ state' = [state EXCEPT ![j.session].ran = TRUE, ![j.session].cancel = None]
  /\ events' = events \cup {ResultOf(j)}
  /\ UNCHANGED <<opened, closing, hook, moves, history>>

(***************************************************************************)
(* useBackendPipelineEvaluation.                                           *)
(***************************************************************************)
Differs(s) == s.source # desired.source \/ s.rules # desired.rules

\* The user edits; the effect on [enabled, source, rules] starts the pause anew.
Edit(c) ==
  /\ Move
  /\ c # desired
  /\ desired' = c
  /\ timer' = TRUE
  /\ UNCHANGED <<backend, closing, events, enabled, session, base, sent, call, mutation, opening, status, shown, history>>

\* openSession: the session in use is closed, and another one asked for.
\* why is 0 for an update that was told its session is missing, and otherwise
\* names the switch that caused it.
CloseCurrent == closing' = closing \cup (IF session = None THEN {} ELSE {session})
AskForSession(why) ==
  /\ CloseCurrent
  /\ session' = None
  /\ opening' = opening \cup {[why |-> why, session |-> None]}

\* enabled changes.  The effect that starts the pause runs first.
SwitchOn ==
  /\ ~enabled /\ Move
  /\ enabled' = TRUE
  /\ timer' = TRUE
  /\ AskForSession(moves + 2)
  /\ UNCHANGED <<backend, events, desired, base, sent, call, mutation, status, shown, history>>

SwitchOff ==
  /\ enabled /\ Move
  /\ enabled' = FALSE
  /\ timer' = TRUE
  /\ CloseCurrent
  /\ session' = None
  /\ sent' = NothingSent /\ base' = NoPair
  /\ status' = "off" /\ shown' = None
  /\ UNCHANGED <<backend, events, desired, call, mutation, opening, history>>

OpenHandled(o) ==
  /\ o \in opening /\ o.session = None
  /\ Enter
  /\ opening' = (opening \ {o}) \cup {[o EXCEPT !.session = opened + 1]}
  /\ UNCHANGED <<closing, events, enabled, desired, session, base, sent, call, mutation, timer, status, shown, moves, history>>

\* finally: the next update is scheduled if something changed meanwhile.
Settle(s) == call' = None /\ timer' = (timer \/ Differs(s))

\* It keeps what it believes to have sent.
OpenAnsweredKeeping(o) ==
  /\ o \in opening /\ o.session # None
  /\ opening' = opening \ {o}
  /\ session' = o.session
  /\ base' = NoPair
  /\ UNCHANGED sent
  /\ IF o.why = 0 THEN Settle(sent) ELSE timer' = TRUE /\ UNCHANGED call
  /\ UNCHANGED <<backend, closing, events, enabled, desired, mutation, status, shown, moves, history>>

\* The session is taken, whatever has happened since it was asked for.
OpenAnswered(o) ==
  /\ o \in opening /\ o.session # None
  /\ opening' = opening \ {o}
  /\ session' = o.session
  /\ base' = NoPair
  /\ sent' = NothingSent
  /\ IF o.why = 0 THEN Settle(NothingSent) ELSE timer' = TRUE /\ UNCHANGED call
  /\ UNCHANGED <<backend, closing, events, enabled, desired, mutation, status, shown, moves, history>>

OpenFails(o) ==
  /\ o \in opening
  /\ Move
  /\ opening' = opening \ {o}
  /\ session' = None
  /\ IF o.why = 0 THEN Settle(sent) ELSE timer' = TRUE /\ UNCHANGED call
  /\ UNCHANGED <<backend, closing, events, enabled, desired, base, sent, mutation, status, shown, history>>

\* dispatch: what changed since the last update that was accepted.
Update ==
  [phase |-> "sent", session |-> session, mutation |-> mutation + 1, base |-> base,
   source |-> IF desired.source # sent.source THEN desired.source ELSE None,
   rules |-> IF desired.rules # sent.rules THEN desired.rules ELSE None,
   ack |-> "none", pair |-> NoPair]
MayDispatch == enabled /\ session # None /\ call = None /\ Differs(sent)

TimerFires ==
  /\ timer
  /\ timer' = FALSE
  /\ IF MayDispatch
     THEN call' = Update /\ mutation' = mutation + 1 /\ status' = "loading" /\ lastAck' = "none"
     ELSE UNCHANGED <<call, mutation, status, lastAck>>
  /\ UNCHANGED <<backend, closing, events, enabled, desired, session, base, sent, opening, shown, moves, crossed>>

\* The answer.  It is applied to the session in use now.
SentBy(c) ==
  [source |-> IF c.source = None THEN sent.source ELSE c.source,
   rules |-> IF c.rules = None THEN sent.rules ELSE c.rules]
Crosses == crossed' = (crossed \/ call.session # session)

AnswerMissing ==
  /\ call # None /\ call.phase = "acked" /\ call.ack = "missing"
  /\ call' = [call EXCEPT !.phase = "reopening"]
  /\ AskForSession(0)
  /\ Crosses
  /\ UNCHANGED <<backend, events, enabled, desired, base, sent, mutation, timer, status, shown, moves, lastAck>>

\* What was refused is taken for sent.
AnswerConflictKeeping ==
  /\ call # None /\ call.phase = "acked" /\ call.ack = "conflict"
  /\ base' = call.pair
  /\ sent' = SentBy(call)
  /\ Settle(SentBy(call))
  /\ Crosses /\ lastAck' = "conflict"
  /\ UNCHANGED <<backend, closing, events, enabled, desired, session, mutation, opening, status, shown, moves>>

AnswerConflict ==
  /\ call # None /\ call.phase = "acked" /\ call.ack = "conflict"
  /\ base' = call.pair
  /\ sent' = NothingSent
  /\ Settle(NothingSent)
  /\ Crosses /\ lastAck' = "conflict"
  /\ UNCHANGED <<backend, closing, events, enabled, desired, session, mutation, opening, status, shown, moves>>

AnswerAccepted ==
  /\ call # None /\ call.phase = "acked" /\ call.ack \in {"accepted", "unchanged"}
  /\ base' = call.pair
  /\ sent' = SentBy(call)
  /\ Settle(SentBy(call))
  /\ Crosses /\ lastAck' = call.ack
  /\ UNCHANGED <<backend, closing, events, enabled, desired, session, mutation, opening, status, shown, moves>>

\* The call is lost on its way there or back: what is shown counts again.
CallFails ==
  /\ call # None /\ call.phase \in {"sent", "acked"}
  /\ Move
  /\ sent' = NothingSent
  /\ Settle(NothingSent)
  /\ status' = IF shown = None THEN status ELSE "shown"
  /\ UNCHANGED <<backend, closing, events, enabled, desired, session, base, mutation, opening, shown, history>>

OfSession(e) == e.session = session
\* A result event: only that of the last update to the session in use counts.
Expected(e) == e.session = session /\ e.mutation = mutation

ResultArrives(e) ==
  /\ e \in events
  /\ events' = events \ {e}
  /\ IF Expected(e)
     THEN base' = e.pair /\ status' = "shown" /\ shown' = [source |-> e.source, rules |-> e.rules]
     ELSE UNCHANGED <<base, status, shown>>
  /\ UNCHANGED <<backend, closing, enabled, desired, session, sent, call, mutation, timer, opening, moves, history>>

(***************************************************************************)
(* The specification.                                                      *)
(***************************************************************************)
Answer == AnswerMissing \/ AnswerConflict \/ AnswerAccepted
Serve ==
  \/ FindSession \/ UpdateState
  \/ \E s \in closing : CloseSession(s)
  \/ \E j \in jobs : ComputeDropped(j) \/ ComputeEnds(j)
  \/ \E o \in opening : OpenHandled(o)
Hear ==
  \/ Answer \/ TimerFires
  \/ \E o \in opening : OpenAnswered(o)
  \/ \E e \in events : ResultArrives(e)

Next ==
  \/ Serve \/ Hear
  \/ \E c \in Content : Edit(c)
  \/ SwitchOn \/ SwitchOff
  \/ ForeignOpens \/ CallFails
  \/ \E o \in opening : OpenFails(o)

\* Goroutines run, calls are answered, events arrive and timers fire.  The
\* user and the failures owe nothing.
Fairness ==
  /\ WF_vars(FindSession \/ UpdateState) /\ WF_vars(Answer) /\ WF_vars(TimerFires)
  /\ WF_vars(\E s \in closing : CloseSession(s))
  /\ WF_vars(\E j \in jobs : ComputeDropped(j) \/ ComputeEnds(j))
  /\ WF_vars(\E o \in opening : OpenHandled(o) \/ OpenAnswered(o))
  /\ WF_vars(\E e \in events : ResultArrives(e))

Spec == Init /\ [][Next]_vars /\ Fairness

(***************************************************************************)
(* Properties.                                                             *)
(***************************************************************************)
TypeOK ==
  /\ IsInjective(table) /\ Range(table) \subseteq 1..opened /\ Len(table) <= Capacity
  /\ \A s \in Sessions : state[s].pair \in Pair /\ state[s].source \in Sources /\ Normal[state[s].rules] = state[s].rules
  /\ \A j \in jobs : j.session \in 1..opened
  /\ closing \subseteq 1..opened /\ \A e \in events : e.session \in 1..opened
  /\ enabled \in BOOLEAN /\ desired \in Content /\ session \in Sessions \cup {None} /\ base \in Pair
  /\ call \in Calls \cup {None} /\ (call # None => call.mutation = mutation)
  /\ status \in {"off", "loading", "shown"} /\ (shown # None => shown \in Content)
  /\ status = "shown" => shown # None

\* What the window shows as a result, with nothing under way that would
\* replace it, is the result of the document and the rules it shows next to
\* it: no older result is left standing, whatever arrives late
\* (useBackendPipelineEvaluation.ts 82-85).  A hook that has lost its session,
\* because asking for one failed, keeps what it shows.
ShownIsCurrent ==
  enabled /\ session # None /\ status = "shown" /\ ~timer /\ call = None =>
    shown = [source |-> desired.source, rules |-> Normal[desired.rules]]

\* When the user stops, the result of what is on the screen is shown in the
\* end, however calls, results and forgotten sessions crossed.  Three cases
\* excepted: the hook has no session, or the backend dropped it while it
\* computed; the backend accepted the last update without computing, as it
\* saw no change in it; an answer was taken for the wrong session.
Answered == status = "shown" /\ shown = [source |-> desired.source, rules |-> Normal[desired.rules]]
Excused == ~Live(session) \/ lastAck = "unchanged" \/ crossed
LastChangeIsAnswered == <>[](~enabled \/ Answered \/ Excused)
=============================================================================
