---------------------------- MODULE SshSessions ----------------------------
(***************************************************************************)
(* sshfilesession.go 18-132: the SFTP sessions the file manager keeps, one *)
(* per source, for browsing, metadata, text files and deletion.            *)
(*                                                                         *)
(* A call borrows the session of its source if there is one for the        *)
(* connection the settings gave it when it started, and dials one          *)
(* otherwise.  Dialling happens outside the mutex, so several calls may    *)
(* dial at once, for different settings even, and the last to come back    *)
(* finds out whether it keeps its session, drops it, or retires another.   *)
(* Sessions are closed outside the mutex too, after the section that       *)
(* decided it.                                                             *)
(***************************************************************************)
EXTENDS Integers, FiniteSets

CONSTANTS Calls,        \* calls from the windows
          Sources,
          Connections,  \* the settings a source may have
          Sessions,     \* identities for the sessions (bounds how many are dialled)
          None

ASSUME NoneAssumption == None \notin Sessions \cup Connections

VARIABLES
  settings,   \* the connection each source has in the settings
  \* FileService
  sessions,   \* the map, guarded by sessionMu
  \* The sessions.
  connection, \* session.connection, None for an identity not yet used
  refs,       \* session.refs
  retired,    \* session.retired
  closes,     \* how often closePersistentSFTPSession has been called
  \* The calls.
  pc,
  source,     \* the source a call is for
  wanted,     \* the connection it read from the settings
  held,       \* the session it has borrowed, or has dialled
  closing     \* the session it is about to close, after the mutex

pool == <<sessions, connection, refs, retired, closes>>
call == <<pc, source, wanted, held, closing>>
vars == <<settings, pool, call>>

\* "lookup": before the first critical section of acquire; "dialing";
\* "install": before the second; "using": acquire has returned the session;
\* "drop": about to invalidate it, after a failure; "release": about to run
\* the deferred release; "done".
Phase == {"idle", "lookup", "dialing", "install", "using", "drop", "release", "done"}

Fresh == {s \in Sessions : connection[s] = None}

Init ==
  /\ settings \in [Sources -> Connections]
  /\ sessions = [x \in Sources |-> None]
  /\ connection = [s \in Sessions |-> None]
  /\ refs = [s \in Sessions |-> 0]
  /\ retired = [s \in Sessions |-> FALSE]
  /\ closes = [s \in Sessions |-> 0]
  /\ pc = [c \in Calls |-> "idle"]
  /\ source \in [Calls -> Sources]
  /\ wanted = [c \in Calls |-> settings[source[c]]]
  /\ held = [c \in Calls |-> None]
  /\ closing = [c \in Calls |-> None]

GoTo(c, p) == pc' = [pc EXCEPT ![c] = p]

\* The test without the connection: it hands out sessions of old settings.
UsableAnyConnection(c) ==
  LET s == sessions[source[c]] IN s # None /\ ~retired[s]

\* cached != nil && cached.connection == connection && !cached.retired
Usable(c) ==
  LET s == sessions[source[c]] IN
  s # None /\ connection[s] = wanted[c] /\ ~retired[s]

\* A call closes what its last critical section told it to before it goes on.
Free(c) == closing[c] = None
CloseSession(c) ==
  /\ closing[c] # None
  /\ closes' = [closes EXCEPT ![closing[c]] = @ + 1]
  /\ closing' = [closing EXCEPT ![c] = None]
  /\ UNCHANGED <<settings, sessions, connection, refs, retired, pc, source, wanted, held>>

Start(c, x) ==
  /\ pc[c] = "idle"
  /\ source' = [source EXCEPT ![c] = x]
  /\ wanted' = [wanted EXCEPT ![c] = settings[x]]
  /\ GoTo(c, "lookup")
  /\ UNCHANGED <<settings, pool, held, closing>>

(***************************************************************************)
(* acquirePersistentSFTP                                                   *)
(***************************************************************************)
BorrowUncounted(c) ==
  held' = [held EXCEPT ![c] = sessions[source[c]]] /\ GoTo(c, "using") /\ UNCHANGED refs
Borrow(c) ==
  LET s == sessions[source[c]] IN
  /\ refs' = [refs EXCEPT ![s] = @ + 1]
  /\ held' = [held EXCEPT ![c] = s]
  /\ GoTo(c, "using")

Lookup(c) ==
  /\ pc[c] = "lookup"
  /\ IF Usable(c) THEN Borrow(c) ELSE GoTo(c, "dialing") /\ UNCHANGED <<refs, held>>
  /\ UNCHANGED <<settings, sessions, connection, retired, closes, source, wanted, closing>>

Dialed(c) ==
  /\ pc[c] = "dialing"
  /\ \E s \in Fresh :
       /\ connection' = [connection EXCEPT ![s] = wanted[c]]
       /\ refs' = [refs EXCEPT ![s] = 1]
       /\ held' = [held EXCEPT ![c] = s]
  /\ GoTo(c, "install")
  /\ UNCHANGED <<settings, sessions, retired, closes, source, wanted, closing>>

DialFails(c) ==
  /\ pc[c] = "dialing"
  /\ GoTo(c, "done")
  /\ UNCHANGED <<settings, pool, source, wanted, held, closing>>

\* Somebody else was faster: its session is used, ours is closed.
Join(c) ==
  /\ pc[c] = "install"
  /\ Usable(c)
  /\ Borrow(c)
  /\ closing' = [closing EXCEPT ![c] = held[c]]
  /\ UNCHANGED <<settings, sessions, connection, retired, closes, source, wanted>>

\* Ours replaces whatever is there; that one is closed here if nobody uses
\* it, and by its last borrower otherwise.
Retire(s) == retired' = [retired EXCEPT ![s] = TRUE]
UnusedNeverMind(s) == TRUE  \* closes it under its borrowers
Unused(s) == refs[s] = 0

Install(c) ==
  LET old == sessions[source[c]] IN
  /\ pc[c] = "install"
  /\ ~Usable(c)
  /\ sessions' = [sessions EXCEPT ![source[c]] = held[c]]
  /\ IF old = None
     THEN UNCHANGED <<retired, closing>>
     ELSE /\ Retire(old)
          /\ closing' = [closing EXCEPT ![c] = IF Unused(old) THEN old ELSE None]
  /\ GoTo(c, "using")
  /\ UNCHANGED <<settings, connection, refs, closes, source, wanted, held>>

(***************************************************************************)
(* The call itself, invalidatePersistentSFTP and releasePersistentSFTP.    *)
(***************************************************************************)
\* A listing, the creation times or the reading of a text file invalidate
\* the session when they fail; the other calls do not.
Used(c) ==
  /\ pc[c] = "using" /\ Free(c)
  /\ \E p \in {"drop", "release"} : GoTo(c, p)
  /\ UNCHANGED <<settings, pool, source, wanted, held, closing>>

\* Careless form: it removes whatever the map holds for the source.
ForgetAny(c) == sessions' = [sessions EXCEPT ![source[c]] = None]
\* Only its own session: a newer one stays.
Forget(c) ==
  sessions' = IF sessions[source[c]] = held[c]
              THEN [sessions EXCEPT ![source[c]] = None] ELSE sessions

Invalidate(c) ==
  /\ pc[c] = "drop"
  /\ Forget(c)
  /\ Retire(held[c])
  /\ closing' = [closing EXCEPT ![c] = IF refs[held[c]] = 0 THEN held[c] ELSE None]
  /\ GoTo(c, "release")
  /\ UNCHANGED <<settings, connection, refs, closes, source, wanted, held>>

\* session.refs--; the last borrower of a retired session closes it.
LastCloses(s) == retired[s] /\ refs[s] = 1

Release(c) ==
  /\ pc[c] = "release" /\ Free(c)
  /\ refs' = [refs EXCEPT ![held[c]] = @ - 1]
  /\ closing' = [closing EXCEPT ![c] = IF LastCloses(held[c]) THEN held[c] ELSE None]
  /\ GoTo(c, "done")
  /\ UNCHANGED <<settings, sessions, connection, retired, closes, source, wanted, held>>

\* The window calls again.
Again(c) ==
  /\ pc[c] = "done" /\ Free(c)
  /\ GoTo(c, "idle")
  /\ held' = [held EXCEPT ![c] = None]
  /\ UNCHANGED <<settings, pool, source, wanted, closing>>

(***************************************************************************)
(* The settings change, and the service shuts down: shutdown empties the   *)
(* map and closes what nobody uses (at once here, as nobody else can touch *)
(* a retired session without borrowers).  Calls under way go on.           *)
(***************************************************************************)
ChangeSettings(x, k) ==
  /\ settings' = [settings EXCEPT ![x] = k]
  /\ UNCHANGED <<pool, call>>

Shutdown ==
  LET kept == {s \in Sessions : \E x \in Sources : sessions[x] = s} IN
  /\ sessions' = [x \in Sources |-> None]
  /\ retired' = [s \in Sessions |-> retired[s] \/ s \in kept]
  /\ closes' = [s \in Sessions |-> IF s \in kept /\ refs[s] = 0 THEN closes[s] + 1 ELSE closes[s]]
  /\ UNCHANGED <<settings, connection, refs, call>>

CallStep(c) ==
  \/ Lookup(c) \/ Dialed(c) \/ DialFails(c) \/ Join(c) \/ Install(c) \/ Used(c)
  \/ Invalidate(c) \/ Release(c) \/ Again(c) \/ CloseSession(c)

Next ==
  \/ \E c \in Calls : CallStep(c) \/ \E x \in Sources : Start(c, x)
  \/ \E x \in Sources, k \in Connections : ChangeSettings(x, k)
  \/ Shutdown

Spec == Init /\ [][Next]_vars

-----------------------------------------------------------------------------
TypeOK ==
  /\ settings \in [Sources -> Connections]
  /\ sessions \in [Sources -> Sessions \cup {None}]
  /\ connection \in [Sessions -> Connections \cup {None}]
  /\ refs \in [Sessions -> Nat]
  /\ retired \in [Sessions -> BOOLEAN]
  /\ closes \in [Sessions -> Nat]
  /\ pc \in [Calls -> Phase]
  /\ source \in [Calls -> Sources]
  /\ wanted \in [Calls -> Connections]
  /\ held \in [Calls -> Sessions \cup {None}]
  /\ closing \in [Calls -> Sessions \cup {None}]

\* The calls that have the session from acquire and have not released it.
Borrowers(s) == {c \in Calls : held[c] = s /\ pc[c] \in {"using", "drop", "release"}}
Cached(s) == \E x \in Sources : sessions[x] = s
AboutToClose(s) == \E c \in Calls : closing[c] = s

\* A session is never closed under a call that uses it, however many calls
\* fail on it, replace it or change the settings meanwhile, and it is never
\* closed twice (sshfilesession.go 18-19).
NotClosedUnderUse ==
  \A s \in Sessions :
    /\ Borrowers(s) # {} => closes[s] = 0 /\ ~AboutToClose(s)
    /\ closes[s] + Cardinality({c \in Calls : closing[c] = s}) <= 1

\* A call works on a session for the connection its source had when it
\* started, not for the one somebody has changed it to since.
RightConnection ==
  \A s \in Sessions : \A c \in Borrowers(s) : connection[s] = wanted[c]

\* Every session that has been dialled and is still open can be closed
\* again: it is in the map and not retired, or a call has it, or a call is
\* about to close it.  So no connection is forgotten while it is open, and
\* a retired session is closed by the call that returns it last.
NoSessionLeak ==
  \A s \in Sessions :
    /\ connection[s] # None /\ closes[s] = 0
         => \/ Cached(s) \/ AboutToClose(s) \/ Borrowers(s) # {}
            \/ \E c \in Calls : pc[c] = "install" /\ held[c] = s
    /\ Cached(s) => ~retired[s] /\ closes[s] = 0
=============================================================================
