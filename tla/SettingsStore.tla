---------------------------- MODULE SettingsStore ----------------------------
(***************************************************************************)
(* The settings, kept twice: by ConfigService (configservice.go), in       *)
(* memory and in a file that is replaced before the memory is, and by the  *)
(* window (App.tsx, with SettingsPage.tsx and TaskCenter.tsx), which sends *)
(* all it has whenever anything in it changes.                             *)
(*                                                                         *)
(* The window has one loop, persistLatest, that saves: what image lists    *)
(* ask for first, one by one, then the settings as they are, until they    *)
(* stay what was saved.  Past this loop go the task centre, which also     *)
(* sends its two settings itself and takes the answer for the truth, the   *)
(* import and the reset of everything, and other services, which save      *)
(* their own lists.  A new theme arrives with a view transition: the       *)
(* settings are computed when it begins and put in place when the browser  *)
(* has captured the old page.                                              *)
(*                                                                         *)
(* Fields are represented by one of each kind.  A state update of React is *)
(* rendered, and its effects are run, before the next event.               *)
(***************************************************************************)
EXTENDS Naturals, Sequences, Functions

CONSTANTS Values,   \* what a setting may be
          Default,  \* what the window shows until the configuration is there
          Stored,   \* what the file holds when the program starts
          MaxEdits  \* bound: changes of the user, and lists saved by services

ASSUME BoundsAssumption == Default \in Values /\ Stored \in Values /\ MaxEdits \in Nat \ {0}

Sent == {"theme", "tasks", "mode", "images"}  \* fields the window sends
Fields == Sent \cup {"sources"}               \* "sources": fields Save keeps

VARIABLES
  \* ConfigService.
  config,
  settings, ready,  \* App.tsx: settingsRef, and whether they were loaded
  \* App.tsx: the loop, what it was told to do, and which settings it saves:
  \* the "current" object or a "past" one.
  pump, queued, requests, saved,
  \* The settings that must be saved before the program quits: the "current"
  \* ones, "past" ones that are being saved, or "lost" ones that were replaced.
  target, gone,
  transition,  \* the settings that a view transition will put in place
  calls,       \* calls of ConfigService in flight
  edits,
  \* History.
  chosen,      \* what the user has chosen, or a service has saved
  contested,   \* fields for which two calls, or two updates, overlapped
  failed       \* the last saving of all settings failed

loop == <<pump, queued, requests, saved, target>>
window == <<settings, ready, loop, gone, transition>>
history == <<chosen, contested, failed>>
vars == <<config, window, calls, edits, history>>

All(v) == [f \in Fields |-> v]
NoSettings == <<>>

Call(kind, n, value) == [kind |-> kind, n |-> n, pc |-> "sent", value |-> value]
InFlight(kind) == \E c \in calls : c.kind = kind
Replacing == InFlight("replace") \/ InFlight("reply")

Init ==
  /\ config = All(Stored) /\ settings = Restrict(All(Default), Sent) /\ ready = FALSE
  /\ pump = "idle" /\ queued = FALSE /\ requests = <<>> /\ saved = "none" /\ target = "none" /\ gone = FALSE
  /\ transition = NoSettings /\ calls = {Call("load", 0, NoSettings)} /\ edits = 0
  /\ chosen = config /\ contested = {} /\ failed = FALSE

-----------------------------------------------------------------------------
(* The loop of the window, from its head, with what is queued, what is     *)
(* requested, the calls made so far, and whom it is to tell.  When nothing *)
(* is left, who still waits learns that his settings were superseded, and  *)
(* the program goes on.                                                    *)
Continue(q, r, c, t) ==
  \/ /\ r # <<>>
     /\ pump' = "images" /\ requests' = Tail(r) /\ queued' = q /\ saved' = "none" /\ target' = t
     /\ calls' = c \cup {Call("images", 0, [images |-> Head(r)])}
  \/ /\ r = <<>> /\ q
     /\ pump' = "save" /\ requests' = r /\ queued' = FALSE /\ saved' = "current" /\ target' = t
     /\ calls' = c \cup {Call("save", 0, settings')}
  \/ /\ r = <<>> /\ ~q
     /\ pump' = "idle" /\ requests' = r /\ queued' = FALSE /\ saved' = "none" /\ target' = "none"
     /\ calls' = c

\* startPersistLatest: one loop at a time.
StartPersistLatest(q, r, c, s, t) ==
  IF pump = "idle" THEN Continue(q, r, c, t)
  ELSE queued' = q /\ requests' = r /\ calls' = c /\ saved' = s /\ target' = t /\ pump' = pump

\* What saved and target are once the settings are another object.
SavedThen == IF saved = "current" THEN "past" ELSE saved
TargetThen == IF target # "current" THEN target ELSE IF saved = "current" THEN "past" ELSE "lost"

\* setSettings, and the effect of new settings.
SetSettings(s, c) ==
  settings' = s /\ StartPersistLatest(queued \/ ready, requests, c, SavedThen, TargetThen)

\* What a transition that is given up, or comes late, would have changed.
Dropped == IF transition = NoSettings THEN {} ELSE {f \in Sent : transition[f] # settings[f]}

\* setSettingsWithThemeTransition: an earlier transition is skipped, and with
\* it all it would have put in place.
SetWithTransition(s, c) ==
  \/ /\ transition' = NoSettings /\ SetSettings(s, c)
  \/ /\ s.theme # settings.theme
     /\ transition' = s /\ calls' = c
     /\ UNCHANGED <<settings, loop>>

-----------------------------------------------------------------------------
(* The user.  The dialogs that replace the configuration and that quit are *)
(* modal.  A choice is contested when something on its way carries, or     *)
(* replaces, the same field.                                               *)
Free == ~gone /\ target = "none" /\ ~Replacing /\ edits < MaxEdits

Choose(f, v, fields, alone) ==
  /\ chosen' = [chosen EXCEPT ![f] = v]
  /\ contested' = IF alone THEN contested \ {f} ELSE contested \cup fields

Quiet == ready /\ transition = NoSettings /\ ~InFlight("tasks")

\* SettingsPage.tsx: any setting without a life of its own.
ChangeMode ==
  /\ Free /\ edits' = edits + 1
  /\ \E v \in Values \ {settings.mode} :
       /\ Choose("mode", v, {"mode"}, Quiet)
       /\ SetSettings([settings EXCEPT !.mode = v], calls)
  /\ UNCHANGED <<config, ready, gone, transition, failed>>

ChangeTheme ==
  /\ Free /\ edits' = edits + 1
  /\ \E v \in Values \ {settings.theme} :
       /\ chosen' = [chosen EXCEPT !.theme = v]
       /\ contested' = IF ready THEN (contested \cup Dropped) \ {"theme"} ELSE Sent
       /\ SetWithTransition([settings EXCEPT !.theme = v], calls)
  /\ UNCHANGED <<config, ready, gone, failed>>

\* The browser has captured the old page.
RunTransition ==
  /\ ~gone /\ transition # NoSettings
  /\ transition' = NoSettings /\ SetSettings(transition, calls)
  /\ UNCHANGED <<config, ready, gone, edits, history>>

\* TaskCenter.tsx: the window has the new value at once; the call carries
\* the mode of the settings that were rendered.
SelectConcurrency ==
  /\ Free /\ edits' = edits + 1
  /\ \E v \in Values \ {settings.tasks} :
       /\ Choose("tasks", v, {"tasks", "mode"}, Quiet)
       /\ SetSettings([settings EXCEPT !.tasks = v],
                      calls \cup {Call("tasks", edits', [tasks |-> v, mode |-> settings.mode])})
  /\ UNCHANGED <<config, ready, gone, transition, failed>>

\* ImageManagerTool.tsx: saved before it is shown.
SaveImageManagerSettings ==
  /\ Free /\ edits' = edits + 1
  /\ UNCHANGED settings
  /\ \E v \in Values \ {settings.images} : StartPersistLatest(TRUE, Append(requests, v), calls, saved, target)
  /\ contested' = IF ready THEN contested ELSE Sent
  /\ UNCHANGED <<config, ready, gone, transition, chosen, failed>>

\* ImportConfig or ResetConfig.
ReplaceConfig ==
  /\ Free /\ edits' = edits + 1
  /\ \E v \in Values : calls' = calls \cup {Call("replace", 0, All(v))}
  /\ UNCHANGED <<config, window, history>>

\* A service saves a list of its own.
UpdateConfig ==
  /\ ~gone /\ edits < MaxEdits /\ edits' = edits + 1
  /\ \E v \in Values \ {config.sources} :
       /\ config' = [config EXCEPT !.sources = v]
       /\ chosen' = [chosen EXCEPT !.sources = v]
  /\ UNCHANGED <<window, calls, contested, failed>>

\* SettingsPage.tsx: quitApp waits until the settings of this moment are saved.
QuitApp ==
  /\ Free /\ UNCHANGED settings
  /\ contested' = contested \cup Dropped
  /\ IF ready THEN StartPersistLatest(TRUE, requests, calls, saved, "current") /\ gone' = FALSE
     ELSE gone' = TRUE /\ UNCHANGED <<loop, calls>>
  /\ UNCHANGED <<config, ready, transition, edits, chosen, failed>>

-----------------------------------------------------------------------------
(* ConfigService.  A replacement is answered with a later reading, and a   *)
(* Save that waited for the mutex may come before that: it brings the old  *)
(* settings back, and the answer passes them for the new ones.             *)

\* Settings with some of their fields set.
Merged(all, some) == [f \in Fields |-> IF f \in DOMAIN some THEN some[f] ELSE all[f]]

\* Save without keeping what other services own.
WritesEverything(c) ==
  IF c.kind \in {"load", "read", "reply"} THEN config
  ELSE Merged(IF c.kind = "save" THEN All(Default) ELSE config, c.value)
\* What a call leaves: Save keeps the lists of other services.
Writes(c) == IF c.kind \in {"load", "read", "reply"} THEN config ELSE Merged(config, c.value)

\* The fields that something else on its way will set once more.
InPlay ==
  (IF InFlight("tasks") THEN {"tasks", "mode"} ELSE {})
    \cup (IF pump \in {"images", "read"} \/ requests # <<>> THEN {"images"} ELSE {})
    \cup (IF ready THEN {} ELSE Sent)

\* The critical section of a call: the file is replaced, then the memory.
Land(c) ==
  /\ ~gone /\ c.pc = "sent"
  /\ config' = Writes(c)
  /\ calls' = (calls \ {c}) \cup
       {IF c.kind = "replace" THEN Call("reply", 0, NoSettings)
        ELSE [c EXCEPT !.pc = "back", !.value = Restrict(config', Sent)]}
  /\ CASE c.kind = "images" ->
            /\ chosen' = [chosen EXCEPT !.images = c.value.images]
            /\ contested' = IF Replacing \/ ~ready THEN contested \cup {"images"}
                            ELSE IF requests = <<>> THEN contested \ {"images"} ELSE contested
       [] c.kind = "replace" -> chosen' = c.value /\ contested' = InPlay
       [] c.kind = "save" /\ InFlight("reply") -> chosen' = chosen /\ contested' = Sent
       [] OTHER -> UNCHANGED <<chosen, contested>>
  /\ UNCHANGED <<window, edits, failed>>

\* The file cannot be written, or the settings are refused.
Refuse(c) ==
  /\ ~gone /\ c.pc = "sent" /\ c.kind \in {"save", "tasks", "images", "replace"}
  /\ calls' = (calls \ {c}) \cup {[c EXCEPT !.pc = "failed"]}
  /\ UNCHANGED <<config, window, edits, history>>

-----------------------------------------------------------------------------
(* The answers, in the window.                                             *)
Answered(kind, c) == ~gone /\ c.kind = kind /\ c.pc # "sent"
Others(c) == calls \ {c}

\* App.tsx: GetConfig at the start.
Loaded(c) ==
  /\ Answered("load", c)
  /\ ready' = TRUE /\ settings' = c.value
  /\ StartPersistLatest(TRUE, requests, Others(c), SavedThen, TargetThen)
  /\ UNCHANGED <<config, gone, transition, edits, history>>

\* SaveConfig has ended: who waited for these settings quits.
SaveEnded(c) ==
  /\ Answered("save", c) /\ UNCHANGED settings
  /\ failed' = (c.pc = "failed")
  /\ gone' = (target = saved /\ c.pc = "back")
  /\ Continue(queued \/ saved = "past", requests, Others(c),
              IF target = saved THEN "none" ELSE IF target = "past" THEN "lost" ELSE target)
  /\ UNCHANGED <<config, ready, transition, edits, chosen, contested>>

\* TaskCenter.tsx: the answer of SetTaskSettings is shown.
TasksAnswered(c) ==
  /\ Answered("tasks", c)
  /\ IF c.pc = "failed" THEN calls' = Others(c) /\ UNCHANGED <<settings, loop>>
     ELSE SetSettings([settings EXCEPT !.tasks = c.value.tasks, !.mode = c.value.mode], Others(c))
  /\ UNCHANGED <<config, ready, gone, transition, edits, history>>

\* SaveImageSources has ended: the loop reads back what was made of it.
ImagesAnswered(c) ==
  /\ Answered("images", c) /\ UNCHANGED settings
  /\ \/ /\ c.pc = "back" /\ pump' = "read"
        /\ calls' = Others(c) \cup {Call("read", c.value.images, NoSettings)}
        /\ UNCHANGED <<queued, requests, saved, target>>
     \/ c.pc = "failed" /\ Continue(queued, requests, Others(c), target)
  /\ UNCHANGED <<config, ready, gone, transition, edits, history>>

\* The loop has read what was made of the lists it saved: they are shown if
\* they are those it saved.
ImagesRead(c) ==
  /\ Answered("read", c)
  /\ \/ /\ c.value.images = c.n
        /\ settings' = [settings EXCEPT !.images = c.value.images] /\ transition' = NoSettings
        /\ contested' = contested \cup Dropped
        /\ Continue(queued \/ ready, requests, Others(c), TargetThen)
     \/ /\ c.value.images # c.n
        /\ UNCHANGED <<settings, transition, contested>>
        /\ Continue(queued, requests, Others(c), target)
  /\ UNCHANGED <<config, ready, gone, edits, chosen, failed>>

\* SettingsPage.tsx: the configuration was replaced, or was not.
Replaced(c) ==
  /\ ~gone
  /\ \/ /\ Answered("reply", c) /\ SetWithTransition(c.value, Others(c))
        /\ contested' = contested \cup Dropped
     \/ /\ Answered("replace", c) /\ calls' = Others(c)
        /\ UNCHANGED <<settings, loop, transition, contested>>
  /\ UNCHANGED <<config, ready, gone, edits, chosen, failed>>

Next ==
  \/ ChangeMode \/ ChangeTheme \/ RunTransition \/ SelectConcurrency
  \/ SaveImageManagerSettings \/ ReplaceConfig \/ UpdateConfig \/ QuitApp
  \/ \E c \in calls :
       Land(c) \/ Refuse(c) \/ Loaded(c) \/ SaveEnded(c) \/ TasksAnswered(c)
         \/ ImagesAnswered(c) \/ ImagesRead(c) \/ Replaced(c)

Spec == Init /\ [][Next]_vars

-----------------------------------------------------------------------------
TypeOK ==
  /\ config \in [Fields -> Values] /\ chosen \in [Fields -> Values]
  /\ settings \in [Sent -> Values]
  /\ transition = NoSettings \/ transition \in [Sent -> Values]
  /\ {ready, queued, gone, failed} \subseteq BOOLEAN
  /\ pump \in {"idle", "images", "read", "save"}
  /\ \A n \in 1..Len(requests) : requests[n] \in Values
  /\ saved \in {"none", "current", "past"} /\ target \in {"none", "current", "past", "lost"} /\ edits \in 0..MaxEdits
  /\ contested \subseteq Sent
  /\ \A c \in calls : c.pc \in {"sent", "back", "failed"}
  \* One call of the loop at a time, and the loop waits for it.
  /\ \A k \in {"images", "read", "save"} : InFlight(k) <=> pump = k

AtRest == ready /\ ~gone /\ calls = {} /\ transition = NoSettings

\* Whatever overlapped, once nothing is on its way the window shows what is
\* stored, and then, and when the program is quit, what is stored is what was
\* chosen last, field by field, and the lists other services saved last.
\* Excepted: saving failed, which the user is told; and the contested fields.
ChoicesAreSaved ==
  ~failed =>
    /\ AtRest => settings = Restrict(config, Sent)
    /\ AtRest \/ gone => \A f \in Fields \ contested : config[f] = chosen[f]
=============================================================================
