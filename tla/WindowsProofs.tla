------------------------ MODULE WindowsProofs ------------------------
(***************************************************************************)
(* Theorems about four of the windows that Windows puts side by side.      *)
(*                                                                         *)
(* The settings, first: that what the user has chosen is shown and stored  *)
(* once all is at rest, for any values and any number of changes.          *)
(*                                                                         *)
(* ChoicesAreSaved speaks of rest only, so the invariant says, field by    *)
(* field, where the choice is meanwhile and how it gets from there to the  *)
(* file: it is on its way to the window (IsComing), the window has it and  *)
(* the loop still has to save it (IsStored), the loop is saving it         *)
(* (IsSaved), or someone waits for that in order to quit (Quitting).       *)
(*                                                                         *)
(* Then the remote files: that the entries shown are those of the path     *)
(* shown, and the present ones, and that a spinner has a cause.            *)
(*                                                                         *)
(* Then the logs of services: that every command that runs is known, and   *)
(* that the window misses no monitor and no line.                          *)
(*                                                                         *)
(* Last the task centre: that at rest it shows the table of the service,   *)
(* and that the end of a run is announced once.                            *)
(***************************************************************************)
EXTENDS SettingsStore, RemoteBrowser, LogMonitors, TaskCenter, FiniteSetTheorems, WellFoundedInduction, TLAPS

Has(k, cs) == \E c \in cs : c.kind = k
LoopKinds == {"images", "read", "save"}

\* What a call carries, and what its answer brings.
Typed(c) ==
  /\ c = [kind |-> c.kind, n |-> c.n, pc |-> c.pc, value |-> c.value]
  /\ c.kind \in {"load", "save", "images", "read", "tasks", "replace", "reply"}
  /\ c.pc \in {"sent", "back", "failed"}
  /\ c.pc = "back" => c.kind # "replace" /\ c.value \in [Sent -> Values]
  /\ c.pc # "back" =>
       /\ c.kind = "save" => c.value \in [Sent -> Values]
       /\ c.kind = "images" => c.value \in [{"images"} -> Values]
       /\ c.kind = "tasks" => c.value \in [{"tasks", "mode"} -> Values]
       /\ c.kind = "replace" => c.value \in [Fields -> Values]
       /\ c.kind \in {"load", "read", "reply"} => c.pc = "sent"
  /\ c.kind = "read" => c.n \in Values

\* One call of each kind at a time, but for the task settings.
CallsOK(cs) ==
  /\ \A c \in cs : Typed(c)
  /\ \A c, d \in cs : c.kind = d.kind /\ c.kind # "tasks" => c = d
  /\ ~(Has("replace", cs) /\ Has("reply", cs))

RestTypes ==
  /\ config \in [Fields -> Values] /\ chosen \in [Fields -> Values] /\ settings \in [Sent -> Values]
  /\ transition = NoSettings \/ transition \in [Sent -> Values]
  /\ ready \in BOOLEAN /\ gone \in BOOLEAN /\ failed \in BOOLEAN
  /\ edits \in 0..MaxEdits /\ contested \subseteq Sent

LoopTypes ==
  /\ pump \in {"idle", "images", "read", "save"} /\ queued \in BOOLEAN /\ requests \in Seq(Values)
  /\ saved \in {"none", "current", "past"} /\ target \in {"none", "current", "past", "lost"}

Uncontested == Sent \ contested

\* What does not depend on the loop.
Steady(cs) ==
  /\ RestTypes /\ CallsOK(cs)
  /\ Has("load", cs) <=> ~ready
  /\ config["sources"] = chosen["sources"]
  /\ ~ready => \A f \in Uncontested :
       /\ config[f] = chosen[f]
       /\ \A c \in cs : c.kind = "load" /\ c.pc = "back" => c.value[f] = chosen[f]
  /\ \A c \in cs : c.kind = "tasks" /\ c.pc # "failed" =>
       \A f \in {"tasks", "mode"} \ contested : c.value[f] = chosen[f]

\* The loop has one call on its way.
Loop ==
  /\ LoopTypes
  /\ \A k \in LoopKinds : Has(k, calls) <=> pump = k
  /\ pump = "save" <=> saved # "none"
  /\ pump = "idle" => ~queued /\ requests = <<>> /\ target = "none"
  /\ target = "past" => saved = "past"
  /\ target # "none" => ~Has("replace", calls) /\ ~Has("reply", calls)
  /\ ~ready /\ (transition # NoSettings \/ Has("reply", calls) \/ pump # "idle") => Sent \subseteq contested
  /\ Has("reply", calls) /\ (pump \in {"images", "read"} \/ requests # <<>>) => "images" \in contested

\* The lists of images have been saved and not been read yet.
Landed == pump = "read" \/ \E c \in calls : c.kind = "images" /\ c.pc = "back"
LandedFits ==
  \A c \in calls :
    /\ c.kind = "images" => config["images"] = c.value["images"]
    /\ c.kind = "read" => c.n = IF c.pc = "back" THEN c.value["images"] ELSE config["images"]

\* Other settings are on their way to the window.
Expected(cs) == \/ Has("reply", cs) \/ transition # NoSettings
                \/ \E c \in cs : c.kind = "tasks" /\ c.pc = "back"

\* What the loop leaves when nothing is queued.
IsStored ==
  ready /\ ~failed /\ ~queued /\ pump # "save" =>
    \/ Expected(calls)
    \/ \A f \in Sent : settings[f] = config[f] \/ (f = "images" /\ Landed /\ LandedFits)

\* What it leaves when the settings that it saves are the current ones.
IsSaved ==
  \A c \in calls : c.kind = "save" /\ saved = "current" =>
    /\ c.pc = "sent" => c.value = settings
    /\ c.pc = "back" => \A f \in Sent :
         \/ config[f] = settings[f]
         \/ Expected(calls) /\ (\/ f \in contested \/ config[f] = chosen[f]
                                \/ transition # NoSettings /\ transition[f] # settings[f])

\* Where the window takes the choice from, in the end.
Coming(f, cs) ==
  IF Has("reply", cs)
  THEN \A c \in cs : c.kind = "reply" => chosen[f] = IF c.pc = "back" THEN c.value[f] ELSE config[f]
  ELSE chosen[f] = IF transition # NoSettings THEN transition[f] ELSE settings[f]
ImagesComing ==
  \A c \in calls :
    /\ c.kind = "images" => config["images"] = chosen["images"] /\ c.value["images"] = chosen["images"]
    /\ c.kind = "read" => /\ c.n = chosen["images"]
                          /\ chosen["images"] = IF c.pc = "back" THEN c.value["images"] ELSE config["images"]
IsComing ==
  ready => \A f \in Uncontested : IF f = "images" /\ Landed THEN ImagesComing ELSE Coming(f, calls)

\* Who waits until the settings of a moment are saved.
Quitting ==
  /\ target = "current" => \A f \in Uncontested : settings[f] = chosen[f] \/ (f = "images" /\ Landed)
  /\ \A c \in calls : c.kind = "save" /\ target = saved =>
       /\ c.pc = "sent" => \A f \in Uncontested : c.value[f] = chosen[f]
       /\ c.pc = "back" => \A f \in Uncontested : config[f] = chosen[f]
  /\ gone /\ ~failed => \A f \in Uncontested : config[f] = chosen[f]

IInv == Steady(calls) /\ Loop /\ IsStored /\ IsSaved /\ IsComing /\ Quitting

-----------------------------------------------------------------------------
LEMMA SettingsAre ==
  /\ \A s \in [Sent -> Values] : s # NoSettings
  /\ Sent \subseteq Fields /\ "images" \in Sent /\ "tasks" \in Sent /\ "mode" \in Sent /\ "theme" \in Sent
  /\ "sources" \in Fields /\ "sources" \notin Sent /\ Fields = Sent \cup {"sources"}
BY DEF Sent, Fields, NoSettings

LEMMA MergedAre ==
  ASSUME NEW D \in SUBSET Fields, NEW g \in [D -> Values], NEW h \in [Fields -> Values]
  PROVE  /\ Merged(h, g) \in [Fields -> Values]
         /\ \A f \in Fields : Merged(h, g)[f] = IF f \in D THEN g[f] ELSE h[f]
BY DEF Merged

LEMMA RestrictedAre ==
  ASSUME NEW h \in [Fields -> Values]
  PROVE  /\ Restrict(h, Sent) \in [Sent -> Values]
         /\ \A f \in Sent : Restrict(h, Sent)[f] = h[f]
BY DEF Restrict, Sent, Fields

LEMMA HeadTail ==
  ASSUME NEW r \in Seq(Values)
  PROVE  r # <<>> => Head(r) \in Values /\ Tail(r) \in Seq(Values)
OBVIOUS

LEMMA CallIs ==
  ASSUME NEW k, NEW n, NEW v
  PROVE  /\ Call(k, n, v).kind = k /\ Call(k, n, v).n = n /\ Call(k, n, v).pc = "sent" /\ Call(k, n, v).value = v
         /\ Call(k, n, v) = [kind |-> k, n |-> n, pc |-> "sent", value |-> v]
BY DEF Call

-----------------------------------------------------------------------------
\* The loop goes on from its head.
LEMMA ContinueKeeps ==
  ASSUME NEW q \in BOOLEAN, NEW r \in Seq(Values), NEW c, NEW t \in {"none", "current", "lost"},
         Continue(q, r, c, t), Steady(c)',
         \A d \in c : d.kind \notin LoopKinds,
         t # "none" => ~Has("replace", c) /\ ~Has("reply", c),
         ~ready' /\ (transition' # NoSettings \/ Has("reply", c) \/ q \/ r # <<>>) => Sent \subseteq contested',
         q \/ ~ready' \/ failed' \/ Expected(c)' \/ \A f \in Sent : settings'[f] = config'[f],
         ready' => \A f \in Uncontested' : Coming(f, c)',
         Has("reply", c) /\ r # <<>> => "images" \in contested',
         t = "current" => \A f \in Uncontested' : settings'[f] = chosen'[f],
         gone' /\ ~failed' => \A f \in Uncontested' : config'[f] = chosen'[f]
  PROVE  IInv'
<1> DEFINE img == Call("images", 0, [images |-> Head(r)])
           sav == Call("save", 0, settings')
<1>1. CASE r # <<>>
  <2>1. /\ pump' = "images" /\ requests' = Tail(r) /\ queued' = q /\ saved' = "none" /\ target' = t
        /\ calls' = c \cup {img}
    BY <1>1 DEF Continue
  <2>2. img.kind = "images" /\ img.pc = "sent" /\ img.n = 0 /\ img.value = [images |-> Head(r)]
    BY DEF Call
  <2>3. Typed(img)
    BY <1>1, HeadTail DEF Typed, Call
  <2>4. /\ \A k : k # "images" => (Has(k, calls') <=> Has(k, c))
        /\ Has("images", calls')
    BY <2>1, <2>2 DEF Has
  <2>5. Steady(calls)'
    <3>1. CallsOK(calls)'
      <4>1. \A d \in c : Typed(d) /\ d.kind # img.kind
        BY <2>2 DEF Steady, CallsOK, LoopKinds
      <4>2. \A d, e \in c : d.kind = e.kind /\ d.kind # "tasks" => d = e
        BY DEF Steady, CallsOK
      <4>3. ~(Has("replace", calls') /\ Has("reply", calls'))
        BY <2>4 DEF Steady, CallsOK
      <4> HIDE DEF img
      <4> QED BY <4>1, <4>2, <4>3, <2>1, <2>3 DEF CallsOK
    <3> HIDE DEF img
    <3> QED BY <3>1, <2>1, <2>2, <2>4 DEF Steady
  <2>6. Loop'
    BY <1>1, <2>1, <2>4, HeadTail DEF Loop, LoopTypes, LoopKinds, Has
  <2>7. ~Landed'
    BY <2>1, <2>2 DEF Landed, LoopKinds
  <2>8. IsStored'
    BY <2>1, <2>2, <2>4 DEF IsStored, Expected
  <2>9. IsSaved' /\ Quitting'
    BY <2>1, <2>2 DEF IsSaved, Quitting, LoopKinds
  <2>10. IsComing'
    BY <2>1, <2>2, <2>4, <2>7 DEF IsComing, Coming
  <2> QED BY <2>5, <2>6, <2>8, <2>9, <2>10 DEF IInv
<1>2. CASE r = <<>> /\ q
  <2>1. /\ pump' = "save" /\ requests' = r /\ queued' = FALSE /\ saved' = "current" /\ target' = t
        /\ calls' = c \cup {sav}
    BY <1>2 DEF Continue
  <2>2. sav.kind = "save" /\ sav.pc = "sent" /\ sav.n = 0 /\ sav.value = settings'
    BY DEF Call
  <2>3. Typed(sav)
    BY <1>2 DEF Typed, Call, Steady, RestTypes
  <2>4. /\ \A k : k # "save" => (Has(k, calls') <=> Has(k, c))
        /\ Has("save", calls')
    BY <2>1, <2>2 DEF Has
  <2>5. Steady(calls)'
    <3>1. CallsOK(calls)'
      <4>1. \A d \in c : Typed(d) /\ d.kind # sav.kind
        BY <2>2 DEF Steady, CallsOK, LoopKinds
      <4>2. \A d, e \in c : d.kind = e.kind /\ d.kind # "tasks" => d = e
        BY DEF Steady, CallsOK
      <4>3. ~(Has("replace", calls') /\ Has("reply", calls'))
        BY <2>4 DEF Steady, CallsOK
      <4> HIDE DEF sav
      <4> QED BY <4>1, <4>2, <4>3, <2>1, <2>3 DEF CallsOK
    <3> HIDE DEF sav
    <3> QED BY <3>1, <2>1, <2>2, <2>4 DEF Steady
  <2>6. Loop'
    BY <1>2, <2>1, <2>4 DEF Loop, LoopTypes, LoopKinds, Has
  <2>7. ~Landed'
    BY <2>1, <2>2 DEF Landed, LoopKinds
  <2>8. IsStored' /\ IsSaved'
    BY <2>1, <2>2 DEF IsStored, IsSaved, LoopKinds
  <2>9. Quitting'
    BY <2>1, <2>2 DEF Quitting, LoopKinds
  <2>10. IsComing'
    BY <2>1, <2>2, <2>4, <2>7 DEF IsComing, Coming
  <2> QED BY <2>5, <2>6, <2>8, <2>9, <2>10 DEF IInv
<1>3. CASE r = <<>> /\ ~q
  <2>1. /\ pump' = "idle" /\ requests' = r /\ queued' = FALSE /\ saved' = "none" /\ target' = "none"
        /\ calls' = c
    BY <1>3 DEF Continue
  <2>6. Loop'
    BY <1>3, <2>1 DEF Loop, LoopTypes, LoopKinds, Has
  <2>7. ~Landed'
    BY <2>1 DEF Landed, LoopKinds
  <2>8. IsStored' /\ IsSaved'
    BY <1>3, <2>1 DEF IsStored, IsSaved, LoopKinds
  <2>9. Quitting'
    BY <2>1 DEF Quitting, LoopKinds
  <2>10. IsComing'
    BY <2>1, <2>7 DEF IsComing
  <2> QED BY <2>1, <2>6, <2>8, <2>9, <2>10 DEF IInv
<1> QED BY <1>1, <1>2, <1>3

\* The settings are replaced, and the loop told so.
LEMMA SetKeeps ==
  ASSUME IInv, NEW q \in BOOLEAN, NEW c,
         StartPersistLatest(q, requests, c, SavedThen, TargetThen), config' = config, ~gone', Steady(c)',
         ready' => q, ~ready' => ~ready /\ q = queued /\ contested \subseteq contested', ready => ready',
         \A d : d.kind \in LoopKinds => (d \in c <=> d \in calls),
         Has("reply", c) => Has("reply", calls), Has("replace", c) => Has("replace", calls),
         ~ready' /\ (transition' # NoSettings \/ Has("reply", c)) => Sent \subseteq contested',
         ready' => \A f \in Uncontested' : (f = "images" /\ Landed) \/ Coming(f, c)',
         chosen'["images"] = chosen["images"], "images" \in contested => "images" \in contested',
         target # "none" => chosen' = chosen /\ contested \subseteq contested'
  PROVE  IInv'
<1>1. CASE pump = "idle"
  <2>1. Continue(q, requests, c, "none") /\ requests = <<>> /\ ~queued
    BY <1>1 DEF StartPersistLatest, IInv, Loop, TargetThen
  <2>2. \A d \in c : d.kind \notin LoopKinds
    BY <1>1 DEF IInv, Loop, Has, LoopKinds
  <2>3. ~Landed
    BY <1>1, <2>2 DEF Landed, LoopKinds
  <2>4. requests \in Seq(Values)
    BY DEF IInv, Loop, LoopTypes
  <2> QED BY <2>1, <2>2, <2>3, <2>4, ContinueKeeps
<1>2. CASE pump # "idle"
  <2>1. /\ queued' = q /\ requests' = requests /\ calls' = c /\ saved' = SavedThen /\ target' = TargetThen
        /\ pump' = pump
    BY <1>2 DEF StartPersistLatest
  <2>2. \A k \in LoopKinds : Has(k, calls') <=> Has(k, calls)
    BY <2>1 DEF Has
  <2>3. Landed' <=> Landed
    BY <2>1 DEF Landed, LoopKinds
  <2>4. Loop'
    <3>1. Loop /\ "images" \in Sent
      BY SettingsAre DEF IInv
    <3>2. LoopTypes'
      BY <2>1, <3>1 DEF Loop, LoopTypes, SavedThen, TargetThen
    <3>3. \A k \in LoopKinds : Has(k, calls') <=> pump' = k
      BY <2>1, <2>2, <3>1 DEF Loop
    <3>4. /\ pump' = "save" <=> saved' # "none"
          /\ target' = "past" => saved' = "past"
          /\ target' # "none" => target # "none"
      BY <2>1, <3>1 DEF Loop, LoopTypes, SavedThen, TargetThen
    <3>5. target' # "none" => ~Has("replace", calls') /\ ~Has("reply", calls')
      BY <2>1, <3>1, <3>4 DEF Loop
    <3>6. ~ready' => Sent \subseteq contested'
      BY <1>2, <3>1 DEF Loop
    <3>7. Has("reply", calls') /\ (pump' \in {"images", "read"} \/ requests' # <<>>) => "images" \in contested'
      BY <2>1, <3>1 DEF Loop
    <3> QED BY <1>2, <2>1, <3>2, <3>3, <3>4, <3>5, <3>6, <3>7 DEF Loop
  <2>5. IsStored'
    BY <2>1 DEF IsStored
  <2>6. IsSaved'
    BY <2>1 DEF IsSaved, SavedThen
  <2>7. IsComing'
    <3>1. ASSUME ready', NEW f \in Uncontested', f = "images", Landed  PROVE ImagesComing'
      <4>1. f \in Uncontested /\ ready
        <5>1. Loop
          BY DEF IInv
        <5>2. pump = "images" \/ pump = "read"
          BY <3>1, <5>1 DEF Landed, Loop, Has, LoopKinds
        <5> QED BY <1>2, <3>1, <5>1 DEF Uncontested, Loop, Steady, RestTypes
      <4>2. ImagesComing
        BY <3>1, <4>1 DEF IInv, IsComing
      <4>3. \A d \in c : d.kind \in LoopKinds => d \in calls
        OBVIOUS
      <4> QED BY <2>1, <4>2, <4>3 DEF ImagesComing, LoopKinds
    <3> QED BY <2>1, <2>3, <3>1 DEF IsComing
  <2>8. Quitting'
    <3>1. target' # "current"
      BY <2>1 DEF TargetThen
    <3>2. ASSUME NEW d \in calls', d.kind = "save", target' = saved'
          PROVE  /\ d.pc = "sent" => \A f \in Uncontested' : d.value[f] = chosen'[f]
                 /\ d.pc = "back" => \A f \in Uncontested' : config'[f] = chosen'[f]
      <4>1. d \in calls /\ pump = "save"
        BY <2>1, <3>2 DEF LoopKinds, IInv, Loop, Has
      <4>2. target = saved /\ target # "none" /\ saved # "none"
        BY <2>1, <3>2, <4>1 DEF SavedThen, TargetThen, IInv, Loop, LoopTypes
      <4>3. Uncontested' \subseteq Uncontested /\ chosen' = chosen
        BY <4>2 DEF Uncontested
      <4>4. /\ d.pc = "sent" => \A f \in Uncontested : d.value[f] = chosen[f]
            /\ d.pc = "back" => \A f \in Uncontested : config[f] = chosen[f]
        BY <3>2, <4>1, <4>2 DEF IInv, Quitting
      <4> QED BY <4>3, <4>4
    <3> QED BY <3>1, <3>2 DEF Quitting
  <2> QED BY <2>1, <2>4, <2>5, <2>6, <2>7, <2>8 DEF IInv
<1> QED BY <1>1, <1>2

\* Settings are put aside for a view transition.
LEMMA TransitionKeeps ==
  ASSUME IInv, NEW c, calls' = c, UNCHANGED <<settings, loop, config, ready>>, ~gone', Steady(c)',
         transition' \in [Sent -> Values],
         \A d : d.kind \in LoopKinds => (d \in c <=> d \in calls),
         Has("reply", c) => Has("reply", calls), Has("replace", c) => Has("replace", calls),
         ~ready => Sent \subseteq contested',
         \A f \in Sent : f \in contested \cup Dropped => f \in contested' \/ transition'[f] # settings[f],
         \A f \in Sent : chosen'[f] = chosen[f] \/ transition'[f] # settings[f],
         ready => \A f \in Uncontested' : (f = "images" /\ Landed) \/ Coming(f, c)',
         chosen'["images"] = chosen["images"], "images" \in contested => "images" \in contested',
         target # "none" => chosen' = chosen /\ contested \subseteq contested'
  PROVE  IInv'
<1>1. /\ queued' = queued /\ requests' = requests /\ saved' = saved /\ target' = target /\ pump' = pump
      /\ settings' = settings /\ config' = config /\ ready' = ready
  BY DEF loop
<1>2. \A k \in LoopKinds : Has(k, calls') <=> Has(k, calls)
  BY DEF Has
<1>3. Landed' <=> Landed
  BY <1>1 DEF Landed, LoopKinds
<1>4. Expected(c)' /\ transition' # NoSettings
  BY SettingsAre DEF Expected
<1>5. Loop'
  <2>1. Loop
    BY DEF IInv
  <2> QED BY <1>1, <1>2, <2>1 DEF Loop, LoopTypes
<1>6. IsStored'
  BY <1>4 DEF IsStored
<1>7. IsSaved'
  <2>1. ASSUME NEW d \in calls', d.kind = "save", saved' = "current"
        PROVE  /\ d.pc = "sent" => d.value = settings'
               /\ d.pc = "back" => \A f \in Sent :
                    \/ config'[f] = settings'[f]
                    \/ f \in contested' \/ config'[f] = chosen'[f] \/ transition'[f] # settings'[f]
    <3>1. d \in calls
      BY <2>1 DEF LoopKinds
    <3>2. /\ d.pc = "sent" => d.value = settings
          /\ d.pc = "back" => \A f \in Sent :
                    \/ config[f] = settings[f]
                    \/ f \in contested \/ config[f] = chosen[f]
                    \/ transition # NoSettings /\ transition[f] # settings[f]
      BY <1>1, <2>1, <3>1 DEF IInv, IsSaved
    <3>3. \A f \in Sent : transition # NoSettings /\ transition[f] # settings[f] => f \in Dropped
      BY DEF Dropped
    <3> QED BY <1>1, <3>2, <3>3
  <2> QED BY <1>4, <2>1 DEF IsSaved
<1>8. IsComing'
  <2>1. ASSUME ready, NEW f \in Uncontested', f = "images", Landed  PROVE ImagesComing'
    <3>1. ImagesComing
      BY <2>1 DEF IInv, IsComing, Uncontested
    <3>2. \A d \in c : d.kind \in LoopKinds => d \in calls
      OBVIOUS
    <3> QED BY <1>1, <3>1, <3>2 DEF ImagesComing, LoopKinds
  <2> QED BY <1>1, <1>3, <2>1 DEF IsComing
<1>9. Quitting'
  <2>1. target # "none" => chosen' = chosen /\ Uncontested' \subseteq Uncontested
    BY DEF Uncontested
  <2>2. \A d \in calls' : d.kind = "save" => d \in calls /\ pump = "save" /\ saved # "none"
    BY <1>1 DEF LoopKinds, IInv, Loop, Has
  <2>3. Quitting
    BY DEF IInv
  <2> QED BY <1>1, <1>3, <2>1, <2>2, <2>3 DEF Quitting
<1> QED BY <1>5, <1>6, <1>7, <1>8, <1>9 DEF IInv

-----------------------------------------------------------------------------
\* The user.
LEMMA FreeMeans ==
  ASSUME IInv, Free
  PROVE  ~gone /\ target = "none" /\ ~Has("replace", calls) /\ ~Has("reply", calls) /\ edits < MaxEdits
BY DEF Free, Replacing, InFlight, Has

LEMMA QuietMeans ==
  ASSUME IInv, Quiet
  PROVE  ready /\ transition = NoSettings /\ \A c \in calls : c.kind # "tasks"
BY DEF Quiet, InFlight

LEMMA ChangeModeKeeps ==
  ASSUME IInv, ChangeMode
  PROVE  IInv'
<1>0. PICK cs : cs = calls
  OBVIOUS
<1>1. PICK v \in Values :
        /\ Choose("mode", v, {"mode"}, Quiet)
        /\ SetSettings([settings EXCEPT !.mode = v], calls)
  BY DEF ChangeMode
<1>2. Free /\ edits' = edits + 1 /\ UNCHANGED <<config, ready, gone, transition, failed>>
  BY DEF ChangeMode
<1>3. /\ settings' = [settings EXCEPT !["mode"] = v]
      /\ StartPersistLatest(queued \/ ready, requests, calls, SavedThen, TargetThen)
  BY <1>1 DEF SetSettings
<1>4. /\ chosen' = [chosen EXCEPT !["mode"] = v]
      /\ contested' = IF Quiet THEN contested \ {"mode"} ELSE contested \cup {"mode"}
  BY <1>1 DEF Choose
<1>5. RestTypes /\ CallsOK(calls)
  BY DEF IInv, Steady
<1>6. RestTypes'
  BY <1>2, <1>3, <1>4, <1>5, SettingsAre, FreeMeans, BoundsAssumption DEF RestTypes
<1>7. ~ready \/ transition # NoSettings => ~Quiet
  BY QuietMeans
<1>8. Steady(cs)'
  <2>1. \A f \in Fields \ {"mode"} : chosen'[f] = chosen[f]
    BY <1>4, <1>5 DEF RestTypes
  <2>2. \A c \in calls : c.kind = "tasks" => Uncontested' \subseteq Uncontested \ {"mode"}
    BY <1>4, QuietMeans DEF Uncontested
  <2>3. ~ready => Uncontested' \subseteq Uncontested \ {"mode"}
    BY <1>4, QuietMeans DEF Uncontested
  <2> QED BY <1>0, <1>2, <1>5, <1>6, <2>1, <2>2, <2>3, SettingsAre DEF IInv, Steady, Uncontested, CallsOK
<1>9. ready => \A f \in Uncontested' : (f = "images" /\ Landed) \/ Coming(f, cs)'
  <2>1. ASSUME ready, NEW f \in Uncontested', ~(f = "images" /\ Landed)  PROVE Coming(f, cs)'
    <3>1. f = "mode" => transition = NoSettings
      BY <1>4, <2>1, QuietMeans DEF Uncontested
    <3>2. f # "mode" => Coming(f, calls)
      BY <1>4, <2>1 DEF IInv, IsComing, Uncontested
    <3>3. f # "mode" => chosen'[f] = chosen[f] /\ settings'[f] = settings[f]
      BY <1>3, <1>4, <1>5 DEF RestTypes
    <3>4. chosen'["mode"] = settings'["mode"]
      BY <1>3, <1>4, <1>5, SettingsAre DEF RestTypes
    <3> QED BY <1>0, <1>2, <3>1, <3>2, <3>3, <3>4, FreeMeans DEF Coming
  <2> QED BY <2>1
<1>10. queued \in BOOLEAN /\ ready \in BOOLEAN
  BY <1>5 DEF IInv, Loop, LoopTypes, RestTypes
<1>11. /\ ~ready => contested \subseteq contested'
       /\ ~ready /\ transition # NoSettings => Sent \subseteq contested'
       /\ chosen'["images"] = chosen["images"] /\ ("images" \in contested => "images" \in contested')
  BY <1>4, <1>5, <1>7, SettingsAre DEF IInv, Loop, RestTypes
<1> HIDE DEF IInv, Steady, Coming
<1> QED BY <1>0, <1>2, <1>3, <1>8, <1>9, <1>10, <1>11, FreeMeans, SetKeeps

\* A view transition that is given up.
LEMMA DroppedIs ==
  ASSUME IInv
  PROVE  \A f \in Sent \ Dropped : transition # NoSettings => transition[f] = settings[f]
BY DEF Dropped

LEMMA ChangeThemeKeeps ==
  ASSUME IInv, ChangeTheme
  PROVE  IInv'
<1>0. PICK cs : cs = calls
  OBVIOUS
<1> DEFINE s(v) == [settings EXCEPT !["theme"] = v]
<1>1. PICK v \in Values \ {settings["theme"]} :
        /\ chosen' = [chosen EXCEPT !["theme"] = v]
        /\ contested' = IF ready THEN (contested \cup Dropped) \ {"theme"} ELSE Sent
        /\ SetWithTransition(s(v), calls)
  BY DEF ChangeTheme
<1>2. Free /\ edits' = edits + 1 /\ UNCHANGED <<config, ready, gone, failed>>
  BY DEF ChangeTheme
<1>3. RestTypes /\ CallsOK(calls) /\ Dropped \subseteq Sent
  BY DEF IInv, Steady, Dropped
<1>4. /\ s(v) \in [Sent -> Values] /\ s(v)["theme"] = v /\ \A f \in Sent \ {"theme"} : s(v)[f] = settings[f]
  BY <1>1, <1>3, SettingsAre DEF RestTypes
<1>5. /\ chosen' \in [Fields -> Values] /\ chosen'["theme"] = v
      /\ \A f \in Fields \ {"theme"} : chosen'[f] = chosen[f]
  BY <1>1, <1>3, SettingsAre DEF RestTypes
<1>6. /\ contested' \subseteq Sent /\ (~ready => contested' = Sent)
      /\ Uncontested' \subseteq (Uncontested \ Dropped) \cup {"theme"}
      /\ "images" \in contested => "images" \in contested'
  BY <1>1, <1>3, SettingsAre DEF RestTypes, Uncontested
<1>7. ready => \A f \in Uncontested' \ {"theme"} : (f = "images" /\ Landed) \/ chosen'[f] = settings[f]
  <2>1. ASSUME ready, NEW f \in Uncontested' \ {"theme"}, ~(f = "images" /\ Landed)
        PROVE  chosen'[f] = settings[f]
    <3>1. f \in Uncontested \ Dropped /\ f \in Sent /\ f \in Fields
      BY <1>6, SettingsAre DEF Uncontested
    <3>2. Coming(f, calls)
      BY <2>1, <3>1 DEF IInv, IsComing
    <3> QED BY <1>2, <1>5, <3>1, <3>2, FreeMeans, DroppedIs DEF Coming
  <2> QED BY <2>1
<1>8. ASSUME RestTypes'  PROVE Steady(cs)'
  <2>1. \A c \in calls : c.kind = "tasks" /\ c.pc # "failed" =>
          \A f \in {"tasks", "mode"} \ contested' : c.value[f] = chosen'[f]
    <3>1. \A f \in {"tasks", "mode"} \ contested' : f \notin contested /\ f \in Fields \ {"theme"}
      BY <1>6, SettingsAre DEF Uncontested
    <3> QED BY <1>5, <3>1 DEF IInv, Steady
  <2>2. ~ready => Uncontested' = {}
    BY <1>6 DEF Uncontested
  <2> QED BY <1>0, <1>2, <1>3, <1>5, <1>8, <2>1, <2>2, SettingsAre DEF IInv, Steady, CallsOK
<1>9. edits' \in 0..MaxEdits
  BY <1>2, <1>3, FreeMeans, BoundsAssumption DEF RestTypes
<1>10. queued \in BOOLEAN /\ ready \in BOOLEAN /\ chosen'["images"] = chosen["images"]
  BY <1>3, <1>5, SettingsAre DEF IInv, Loop, LoopTypes, RestTypes
<1>11. CASE transition' = NoSettings /\ SetSettings(s(v), calls)
  <2>1. settings' = s(v) /\ StartPersistLatest(queued \/ ready, requests, calls, SavedThen, TargetThen)
    BY <1>11 DEF SetSettings
  <2>2. RestTypes'
    BY <1>2, <1>3, <1>4, <1>5, <1>6, <1>9, <1>11, <2>1 DEF RestTypes
  <2>3. ready => \A f \in Uncontested' : (f = "images" /\ Landed) \/ Coming(f, cs)'
    <3>1. \A f \in Uncontested' : f = "theme" \/ f \in Sent \ {"theme"}
      BY DEF Uncontested
    <3> QED BY <1>0, <1>2, <1>4, <1>5, <1>7, <1>11, <2>1, <3>1, FreeMeans DEF Coming
  <2>4. ~gone' /\ ready' = ready /\ config' = config /\ transition' = NoSettings
    BY <1>2, <1>11, FreeMeans
  <2>5. ~ready => contested \subseteq contested' /\ Sent \subseteq contested'
    BY <1>3, <1>6 DEF RestTypes
  <2>6. Steady(cs)'
    BY <1>8, <2>2
  <2>7. target = "none"
    BY <1>2, FreeMeans
  <2> HIDE DEF s
  <2> QED BY <1>0, <1>6, <1>10, <2>1, <2>3, <2>4, <2>5, <2>6, <2>7, SetKeeps
<1>12. CASE transition' = s(v) /\ UNCHANGED <<settings, loop>> /\ calls' = calls
  <2>1. RestTypes'
    BY <1>2, <1>3, <1>4, <1>5, <1>6, <1>9, <1>12 DEF RestTypes
  <2>2. ready => \A f \in Uncontested' : (f = "images" /\ Landed) \/ Coming(f, cs)'
    <3>1. \A f \in Uncontested' : f = "theme" \/ f \in Sent \ {"theme"}
      BY DEF Uncontested
    <3> QED BY <1>0, <1>2, <1>4, <1>5, <1>7, <1>12, <3>1, FreeMeans, SettingsAre DEF Coming
  <2>3. transition'["theme"] # settings["theme"]
    BY <1>1, <1>4, <1>12
  <2>4. /\ \A f \in Sent : f \in contested \cup Dropped => f \in contested' \/ transition'[f] # settings[f]
        /\ \A f \in Sent : chosen'[f] = chosen[f] \/ transition'[f] # settings[f]
    BY <1>5, <1>6, <2>3, SettingsAre DEF Uncontested
  <2> HIDE DEF s
  <2> QED BY <1>0, <1>2, <1>4, <1>6, <1>8, <1>10, <1>12, <2>1, <2>2, <2>4, FreeMeans, TransitionKeeps
<1> QED BY <1>1, <1>11, <1>12 DEF SetWithTransition

\* The browser has captured the old page.
LEMMA RunTransitionKeeps ==
  ASSUME IInv, RunTransition
  PROVE  IInv'
<1>0. PICK cs : cs = calls
  OBVIOUS
<1>1. /\ ~gone /\ transition # NoSettings /\ transition' = NoSettings /\ settings' = transition
      /\ StartPersistLatest(queued \/ ready, requests, calls, SavedThen, TargetThen)
      /\ UNCHANGED <<config, ready, gone, edits, chosen, contested, failed>>
  BY DEF RunTransition, SetSettings, history
<1>2. RestTypes /\ CallsOK(calls)
  BY DEF IInv, Steady
<1>3. RestTypes'
  BY <1>1, <1>2 DEF RestTypes
<1>4. Steady(cs)'
  BY <1>0, <1>1, <1>2, <1>3 DEF IInv, Steady, Uncontested, CallsOK
<1>5. ready => \A f \in Uncontested' : (f = "images" /\ Landed) \/ Coming(f, cs)'
  <2>1. Uncontested' = Uncontested
    BY <1>1 DEF Uncontested
  <2> QED BY <1>0, <1>1, <2>1 DEF IInv, IsComing, Coming
<1>6. ~ready /\ Has("reply", calls) => Sent \subseteq contested
  BY DEF IInv, Loop
<1>7. queued \in BOOLEAN /\ ready \in BOOLEAN
  BY <1>2 DEF IInv, Loop, LoopTypes, RestTypes
<1> QED BY <1>0, <1>1, <1>4, <1>5, <1>6, <1>7, SetKeeps

\* TaskCenter.tsx: the call carries the mode that was shown.
LEMMA SelectConcurrencyKeeps ==
  ASSUME IInv, SelectConcurrency
  PROVE  IInv'
<1>1. PICK v \in Values :
        /\ Choose("tasks", v, {"tasks", "mode"}, Quiet)
        /\ SetSettings([settings EXCEPT !.tasks = v],
                       calls \cup {Call("tasks", edits', [tasks |-> v, mode |-> settings.mode])})
  BY DEF SelectConcurrency
<1> DEFINE new == Call("tasks", edits', [tasks |-> v, mode |-> settings.mode])
<1>0. PICK cs : cs = calls \cup {new}
  OBVIOUS
<1>2. Free /\ edits' = edits + 1 /\ UNCHANGED <<config, ready, gone, transition, failed>>
  BY DEF SelectConcurrency
<1>3. /\ settings' = [settings EXCEPT !["tasks"] = v]
      /\ StartPersistLatest(queued \/ ready, requests, cs, SavedThen, TargetThen)
  BY <1>0, <1>1 DEF SetSettings
<1>4. /\ chosen' = [chosen EXCEPT !["tasks"] = v]
      /\ contested' = IF Quiet THEN contested \ {"tasks"} ELSE contested \cup {"tasks", "mode"}
  BY <1>1 DEF Choose
<1>5. RestTypes /\ CallsOK(calls)
  BY DEF IInv, Steady
<1>6. RestTypes'
  BY <1>2, <1>3, <1>4, <1>5, SettingsAre, FreeMeans, BoundsAssumption DEF RestTypes
<1>7. \A f \in Fields \ {"tasks"} : chosen'[f] = chosen[f]
  BY <1>4, <1>5 DEF RestTypes
<1>8. /\ new.kind = "tasks" /\ new.pc = "sent" /\ Typed(new)
      /\ new.value["tasks"] = v /\ new.value["mode"] = settings["mode"]
  BY <1>5, SettingsAre DEF Call, Typed, RestTypes
<1>9. \A k : k # "tasks" => (Has(k, cs) <=> Has(k, calls))
  BY <1>0, <1>8 DEF Has
<1>10. /\ ~Quiet => Uncontested' \subseteq Uncontested \ {"tasks", "mode"}
       /\ Uncontested' \subseteq Uncontested \cup {"tasks"}
  BY <1>4, <1>5 DEF Uncontested
<1>11. ready => \A f \in Uncontested' : (f = "images" /\ Landed) \/ Coming(f, cs)'
  <2>1. ASSUME ready, NEW f \in Uncontested', ~(f = "images" /\ Landed)  PROVE Coming(f, cs)'
    <3>1. f = "tasks" => transition = NoSettings
      BY <1>10, <2>1, QuietMeans
    <3>2. f # "tasks" => Coming(f, calls)
      BY <1>10, <2>1 DEF IInv, IsComing
    <3>3. f # "tasks" => chosen'[f] = chosen[f] /\ settings'[f] = settings[f]
      BY <1>3, <1>7, <1>5, SettingsAre DEF RestTypes, Uncontested
    <3>4. chosen'["tasks"] = settings'["tasks"]
      BY <1>3, <1>4, <1>5, SettingsAre DEF RestTypes
    <3>5. ~Has("reply", cs) /\ ~Has("reply", calls)
      BY <1>2, <1>9, FreeMeans
    <3> QED BY <1>2, <3>1, <3>2, <3>3, <3>4, <3>5 DEF Coming
  <2> QED BY <2>1
<1>12. Steady(cs)'
  <2>1. CallsOK(cs)'
    <3>1. \A d \in cs : Typed(d)
      BY <1>0, <1>5, <1>8 DEF CallsOK
    <3>2. \A c, d \in cs : c.kind = d.kind /\ c.kind # "tasks" => c = d
      BY <1>0, <1>5, <1>8 DEF CallsOK
    <3>3. ~(Has("replace", cs) /\ Has("reply", cs))
      BY <1>5, <1>9 DEF CallsOK
    <3> QED BY <3>1, <3>2, <3>3 DEF CallsOK
  <2>2. Has("load", cs) <=> ~ready
    BY <1>9 DEF IInv, Steady
  <2>3. config'["sources"] = chosen'["sources"]
    BY <1>2, <1>7, SettingsAre DEF IInv, Steady
  <2>4. ASSUME ~ready, NEW f \in Uncontested'
        PROVE  /\ config[f] = chosen'[f]
               /\ \A c \in cs : c.kind = "load" /\ c.pc = "back" => c.value[f] = chosen'[f]
    <3>1. f \in Uncontested \ {"tasks", "mode"} /\ f \in Fields
      BY <1>10, <2>4, QuietMeans, SettingsAre DEF Uncontested
    <3>2. /\ config[f] = chosen[f]
          /\ \A c \in calls : c.kind = "load" /\ c.pc = "back" => c.value[f] = chosen[f]
      BY <2>4, <3>1 DEF IInv, Steady
    <3> HIDE DEF new
    <3> QED BY <1>0, <1>7, <1>8, <3>1, <3>2
  <2>5. ASSUME NEW c \in cs, c.kind = "tasks", c.pc # "failed", NEW f \in {"tasks", "mode"} \ contested'
        PROVE  c.value[f] = chosen'[f]
    <3>1. f \in Uncontested' /\ Quiet
      BY <1>10, <2>5, SettingsAre DEF Uncontested
    <3>2. c = new
      BY <1>0, <2>5, <3>1, QuietMeans
    <3>3. f = "tasks" => c.value[f] = chosen'[f]
      BY <1>4, <1>5, <1>8, <3>2, SettingsAre DEF RestTypes
    <3>4. f = "mode" => Coming(f, calls)
      BY <1>10, <3>1, QuietMeans DEF IInv, IsComing
    <3>5. f = "mode" => c.value[f] = chosen[f]
      <4>1. ~Has("reply", calls) /\ transition = NoSettings
        BY <1>2, <3>1, FreeMeans, QuietMeans
      <4> QED BY <1>8, <3>2, <3>4, <4>1 DEF Coming
    <3> QED BY <1>7, <3>3, <3>5, SettingsAre
  <2> HIDE DEF new
  <2> QED BY <1>2, <1>6, <2>1, <2>2, <2>3, <2>4, <2>5 DEF Steady
<1>13. queued \in BOOLEAN /\ ready \in BOOLEAN
  BY <1>5 DEF IInv, Loop, LoopTypes, RestTypes
<1>14. /\ ~ready => contested \subseteq contested'
       /\ ~ready /\ transition # NoSettings => Sent \subseteq contested'
       /\ chosen'["images"] = chosen["images"] /\ ("images" \in contested => "images" \in contested')
  <2>1. ~ready => ~Quiet
    BY QuietMeans
  <2> QED BY <1>4, <1>5, <1>7, <2>1, SettingsAre DEF IInv, Loop, RestTypes
<1>15. \A d : d.kind \in LoopKinds => (d \in cs <=> d \in calls)
  BY <1>0, <1>8 DEF LoopKinds
<1>16. ~Has("reply", cs) /\ ~Has("replace", cs) /\ ~gone /\ target = "none"
  BY <1>2, <1>9, FreeMeans
<1> HIDE DEF new
<1> QED BY <1>2, <1>3, <1>11, <1>12, <1>13, <1>14, <1>15, <1>16, SetKeeps

\* The loop is told to save the settings as they are.
LEMMA QueueKeeps ==
  ASSUME IInv, Free, NEW r \in Seq(Values), NEW t \in {"none", "current"},
         StartPersistLatest(TRUE, r, calls, saved, t),
         UNCHANGED <<config, settings, ready, gone, transition, chosen, failed>>, edits' \in 0..MaxEdits,
         contested' \subseteq Sent, contested \subseteq contested', ~ready => contested' = Sent,
         t = "current" => Dropped \subseteq contested' /\ ready
  PROVE  IInv'
<1>0. PICK cs : cs = calls
  OBVIOUS
<1>1. RestTypes' /\ CallsOK(calls)
  BY DEF IInv, Steady, RestTypes
<1>2. Uncontested' \subseteq Uncontested /\ (~ready => Uncontested' = {})
  BY DEF Uncontested
<1>3. Steady(cs)'
  <2>1. \A f \in {"tasks", "mode"} \ contested' : f \notin contested
    OBVIOUS
  <2> QED BY <1>0, <1>1, <1>2, <2>1 DEF IInv, Steady, CallsOK
<1>4. ~gone' /\ target = "none" /\ ~Has("replace", cs) /\ ~Has("reply", cs)
  BY <1>0, FreeMeans
<1>5. t = "current" => \A f \in Uncontested' : settings[f] = chosen[f] \/ (f = "images" /\ Landed)
  <2>1. ASSUME t = "current", NEW f \in Uncontested', ~(f = "images" /\ Landed)  PROVE settings[f] = chosen[f]
    <3>1. f \in Uncontested /\ f \in Sent \ Dropped
      BY <1>2, <2>1 DEF Uncontested
    <3>2. Coming(f, calls)
      BY <2>1, <3>1 DEF IInv, IsComing
    <3> QED BY <1>0, <1>4, <3>1, <3>2, DroppedIs DEF Coming
  <2> QED BY <2>1
<1>6. CASE pump = "idle"
  <2>1. Continue(TRUE, r, cs, t)
    BY <1>0, <1>6 DEF StartPersistLatest
  <2>2. \A d \in cs : d.kind \notin LoopKinds
    BY <1>0, <1>6 DEF IInv, Loop, Has, LoopKinds
  <2>3. ~Landed
    BY <1>0, <1>6, <2>2 DEF Landed, LoopKinds
  <2>4. ready' => \A f \in Uncontested' : Coming(f, cs)'
    BY <1>0, <1>2, <2>3 DEF IInv, IsComing, Coming
  <2> QED BY <1>3, <1>4, <1>5, <2>1, <2>2, <2>3, <2>4, ContinueKeeps
<1>7. CASE pump # "idle"
  <2>1. /\ queued' = TRUE /\ requests' = r /\ calls' = calls /\ saved' = saved /\ target' = t /\ pump' = pump
    BY <1>7 DEF StartPersistLatest
  <2>2. Landed' <=> Landed
    BY <2>1 DEF Landed
  <2>3. Steady(calls)'
    BY <1>0, <1>3, <2>1
  <2>4. Loop'
    <3>1. Loop
      BY DEF IInv
    <3>2. LoopTypes'
      BY <2>1, <3>1 DEF Loop, LoopTypes
    <3>3. ~ready' => Sent \subseteq contested'
      OBVIOUS
    <3> QED BY <1>0, <1>4, <1>7, <2>1, <3>1, <3>2, <3>3 DEF Loop
  <2>5. IsStored'
    BY <2>1 DEF IsStored
  <2>6. Expected(calls)' <=> Expected(calls)
    BY <2>1 DEF Expected
  <2>7. IsSaved'
    BY <2>1, <2>6 DEF IInv, IsSaved
  <2>8. IsComing'
    <3>1. \A f : Coming(f, calls)' <=> Coming(f, calls)
      BY <2>1 DEF Coming
    <3>2. ImagesComing' <=> ImagesComing
      BY <2>1 DEF ImagesComing
    <3> QED BY <1>2, <2>1, <2>2, <3>1, <3>2 DEF IInv, IsComing
  <2>9. Quitting'
    <3>1. ASSUME NEW d \in calls, d.kind = "save", t = saved
          PROVE  /\ d.pc = "sent" => \A f \in Uncontested' : d.value[f] = chosen[f]
                 /\ d.pc = "back" => \A f \in Uncontested' : config[f] = chosen[f]
      <4>1. pump = "save" /\ saved = "current" /\ ~Landed
        BY <3>1 DEF IInv, Loop, Has, LoopKinds, Landed
      <4>2. \A f \in Uncontested' : settings[f] = chosen[f] /\ f \in Uncontested /\ f \notin Dropped /\ f \in Sent
        BY <1>2, <1>5, <3>1, <4>1 DEF Uncontested
      <4>3. \A f \in Uncontested' : transition # NoSettings => transition[f] = settings[f]
        BY <4>2, DroppedIs
      <4> QED BY <3>1, <4>1, <4>2, <4>3 DEF IInv, IsSaved, Uncontested
    <3>2. t = "current" => \A f \in Uncontested' : settings'[f] = chosen'[f] \/ (f = "images" /\ Landed')
      BY <1>5, <2>2
    <3> QED BY <1>4, <2>1, <3>1, <3>2 DEF Quitting
  <2> QED BY <2>3, <2>4, <2>5, <2>7, <2>8, <2>9 DEF IInv
<1> QED BY <1>6, <1>7

LEMMA SaveImageManagerSettingsKeeps ==
  ASSUME IInv, SaveImageManagerSettings
  PROVE  IInv'
<1>1. PICK v \in Values : StartPersistLatest(TRUE, Append(requests, v), calls, saved, target)
  BY DEF SaveImageManagerSettings
<1>2. /\ Free /\ edits' = edits + 1 /\ contested' = IF ready THEN contested ELSE Sent
      /\ UNCHANGED <<config, settings, ready, gone, transition, chosen, failed>>
  BY DEF SaveImageManagerSettings
<1>3. target = "none" /\ edits' \in 0..MaxEdits
  BY <1>2, FreeMeans, BoundsAssumption DEF IInv, Steady, RestTypes
<1>4. Append(requests, v) \in Seq(Values)
  BY DEF IInv, Loop, LoopTypes
<1>5. contested \subseteq Sent
  BY DEF IInv, Steady, RestTypes
<1> QED BY <1>1, <1>2, <1>3, <1>4, <1>5, QueueKeeps

\* SettingsPage.tsx: the settings of this moment are to be saved.
LEMMA QuitAppKeeps ==
  ASSUME IInv, QuitApp
  PROVE  IInv'
<1>1. /\ Free /\ contested' = contested \cup Dropped
      /\ UNCHANGED <<config, settings, ready, transition, edits, chosen, failed>>
  BY DEF QuitApp
<1>2. contested \subseteq Sent /\ Dropped \subseteq Sent /\ edits \in 0..MaxEdits /\ ready \in BOOLEAN
  BY DEF IInv, Steady, RestTypes, Dropped
<1>3. CASE ready
  <2>1. StartPersistLatest(TRUE, requests, calls, saved, "current") /\ gone' = FALSE
    BY <1>3 DEF QuitApp
  <2>2. requests \in Seq(Values) /\ gone' = gone
    BY <1>1, <2>1, FreeMeans DEF IInv, Loop, LoopTypes, Steady, RestTypes
  <2> QED BY <1>1, <1>2, <1>3, <2>1, <2>2, QueueKeeps
<1>4. CASE ~ready
  <2>1. /\ gone' = TRUE /\ UNCHANGED <<pump, queued, requests, saved, target, calls>>
    BY <1>4 DEF QuitApp, loop
  <2>2. Uncontested' \subseteq Uncontested /\ \A f \in {"tasks", "mode"} \ contested' : f \notin contested
    BY <1>1 DEF Uncontested
  <2>3. RestTypes' /\ CallsOK(calls)'
    BY <1>1, <1>2, <2>1 DEF IInv, Steady, RestTypes, CallsOK
  <2>4. Steady(calls)'
    BY <1>1, <2>1, <2>2, <2>3 DEF IInv, Steady
  <2>5. Loop'
    BY <1>1, <2>1 DEF IInv, Loop, LoopTypes
  <2>6. IsStored' /\ IsComing'
    BY <1>1, <1>4, <2>1 DEF IsStored, IsComing
  <2>7. IsSaved'
    BY <1>1, <2>1 DEF IInv, IsSaved, Expected
  <2>8. Quitting'
    <3>1. \A f \in Uncontested' : config[f] = chosen[f]
      BY <1>4, <2>2 DEF IInv, Steady
    <3>2. target = "none" /\ \A d \in calls : d.kind = "save" => saved # "none"
      BY <1>1, FreeMeans DEF IInv, Loop, Has, LoopKinds
    <3> QED BY <1>1, <2>1, <3>1, <3>2 DEF Quitting
  <2> QED BY <2>4, <2>5, <2>6, <2>7, <2>8 DEF IInv
<1> QED BY <1>3, <1>4

\* ImportConfig or ResetConfig.
LEMMA ReplaceConfigKeeps ==
  ASSUME IInv, ReplaceConfig
  PROVE  IInv'
<1>1. PICK v \in Values : calls' = calls \cup {Call("replace", 0, All(v))}
  BY DEF ReplaceConfig
<1> DEFINE new == Call("replace", 0, All(v))
<1>2. /\ Free /\ edits' = edits + 1
      /\ UNCHANGED <<config, settings, ready, pump, queued, requests, saved, target, gone, transition>>
      /\ UNCHANGED <<chosen, contested, failed>>
  BY DEF ReplaceConfig, window, loop, history
<1>3. new.kind = "replace" /\ new.pc = "sent" /\ Typed(new)
  BY DEF Call, Typed, All
<1>4. /\ \A k : k # "replace" => (Has(k, calls') <=> Has(k, calls))
      /\ Has("replace", calls') /\ ~Has("replace", calls) /\ ~Has("reply", calls) /\ target = "none" /\ ~gone
  BY <1>1, <1>2, <1>3, FreeMeans DEF Has
<1>5. edits' \in 0..MaxEdits
  BY <1>2, FreeMeans, BoundsAssumption DEF IInv, Steady, RestTypes
<1>6. CallsOK(calls)'
  <2>1. \A d \in calls' : Typed(d)
    BY <1>1, <1>3 DEF IInv, Steady, CallsOK
  <2>2. \A d, e \in calls' : d.kind = e.kind /\ d.kind # "tasks" => d = e
    BY <1>1, <1>3, <1>4 DEF IInv, Steady, CallsOK, Has
  <2> QED BY <1>4, <2>1, <2>2 DEF CallsOK
<1>0. calls' = calls \cup {new}
  BY <1>1
<1> HIDE DEF new
<1>7. Steady(calls)'
  <2>1. RestTypes'
    BY <1>2, <1>5 DEF IInv, Steady, RestTypes
  <2>2. Uncontested' = Uncontested
    BY <1>2 DEF Uncontested
  <2> QED BY <1>0, <1>2, <1>3, <1>4, <1>6, <2>1, <2>2 DEF IInv, Steady
<1>8. Loop'
  BY <1>2, <1>4 DEF IInv, Loop, LoopTypes, LoopKinds
<1>9. Landed' <=> Landed
  BY <1>0, <1>2, <1>3 DEF Landed
<1>10. Expected(calls)' <=> Expected(calls)
  BY <1>0, <1>2, <1>3, <1>4 DEF Expected
<1>11. IsStored'
  <2>1. LandedFits' <=> LandedFits
    BY <1>0, <1>2, <1>3 DEF LandedFits
  <2> QED BY <1>2, <1>9, <1>10, <2>1 DEF IInv, IsStored
<1>12. IsSaved'
  BY <1>0, <1>2, <1>3, <1>10 DEF IInv, IsSaved
<1>13. IsComing'
  <2>1. \A f : Coming(f, calls)' <=> Coming(f, calls)
    BY <1>2, <1>4 DEF Coming
  <2>2. ImagesComing' <=> ImagesComing
    BY <1>0, <1>2, <1>3 DEF ImagesComing
  <2> QED BY <1>2, <1>9, <2>1, <2>2 DEF IInv, IsComing, Uncontested
<1>14. Quitting'
  BY <1>0, <1>2, <1>3, <1>4, <1>9 DEF IInv, Quitting, Uncontested
<1> QED BY <1>7, <1>8, <1>11, <1>12, <1>13, <1>14 DEF IInv

\* A service saves a list of its own.
LEMMA UpdateConfigKeeps ==
  ASSUME IInv, UpdateConfig
  PROVE  IInv'
<1>1. PICK v \in Values :
        config' = [config EXCEPT !["sources"] = v] /\ chosen' = [chosen EXCEPT !["sources"] = v]
  BY DEF UpdateConfig
<1>2. /\ edits < MaxEdits /\ edits' = edits + 1 /\ ~gone
      /\ UNCHANGED <<settings, ready, pump, queued, requests, saved, target, gone, transition>>
      /\ UNCHANGED <<calls, contested, failed>>
  BY DEF UpdateConfig, window, loop
<1>3. RestTypes /\ "images" \in Sent
  BY SettingsAre DEF IInv, Steady
<1>4. /\ config' \in [Fields -> Values] /\ chosen' \in [Fields -> Values]
      /\ config'["sources"] = chosen'["sources"]
      /\ \A f \in Sent : config'[f] = config[f] /\ chosen'[f] = chosen[f]
  BY <1>1, <1>3, SettingsAre DEF RestTypes
<1>5. RestTypes'
  BY <1>2, <1>3, <1>4, BoundsAssumption DEF RestTypes
<1>6. Steady(calls)'
  <2>1. CallsOK(calls)' /\ Uncontested' = Uncontested /\ {"tasks", "mode"} \subseteq Sent
    BY <1>2, SettingsAre DEF IInv, Steady, CallsOK, Uncontested
  <2>2. \A f \in {"tasks", "mode"} \ contested' : f \in Sent /\ f \in {"tasks", "mode"} \ contested
    BY <1>2, SettingsAre
  <2> QED BY <1>2, <1>4, <1>5, <2>1, <2>2 DEF IInv, Steady, Uncontested
<1>7. Loop'
  BY <1>2 DEF IInv, Loop, LoopTypes
<1>8. /\ Landed' <=> Landed
      /\ Expected(calls)' <=> Expected(calls)
      /\ LandedFits' <=> LandedFits
      /\ ImagesComing' <=> ImagesComing
      /\ \A f \in Sent : Coming(f, calls)' <=> Coming(f, calls)
  BY <1>2, <1>3, <1>4 DEF Landed, Expected, LandedFits, ImagesComing, Coming
<1>9. IsStored' /\ IsSaved'
  BY <1>2, <1>4, <1>8 DEF IInv, IsStored, IsSaved
<1>10. IsComing' /\ Quitting'
  BY <1>2, <1>4, <1>8 DEF IInv, IsComing, Quitting, Uncontested
<1> QED BY <1>6, <1>7, <1>9, <1>10 DEF IInv

-----------------------------------------------------------------------------
\* ConfigService.  A call is replaced by its answer.
LEMMA AnswerIs ==
  ASSUME IInv, NEW c \in calls, NEW d, Typed(d), d.kind = c.kind, calls' = (calls \ {c}) \cup {d}
  PROVE  /\ CallsOK(calls)'
         /\ \A k : Has(k, calls') <=> Has(k, calls)
         /\ \A e \in calls' : e = d \/ (e \in calls /\ e # c)
         /\ c.kind # "tasks" => \A e \in calls' : e.kind = c.kind => e = d
<1>1. CallsOK(calls)
  BY DEF IInv, Steady
<1>2. \A k : Has(k, calls') <=> Has(k, calls)
  BY DEF Has
<1>3. c.kind # "tasks" => \A e \in calls' : e.kind = c.kind => e = d
  BY <1>1 DEF CallsOK
<1>4. \A e, f \in calls' : e.kind = f.kind /\ e.kind # "tasks" => e = f
  BY <1>1 DEF CallsOK
<1>5. \A e \in calls' : Typed(e)
  BY <1>1 DEF CallsOK
<1> QED BY <1>1, <1>2, <1>3, <1>4, <1>5 DEF CallsOK

LEMMA LandIs ==
  ASSUME IInv, NEW c \in calls, Land(c), c.kind # "replace"
  PROVE  /\ ~gone /\ c.pc = "sent" /\ config' = Writes(c) /\ config' \in [Fields -> Values]
         /\ UNCHANGED <<settings, ready, pump, queued, requests, saved, target, gone, transition, edits, failed>>
         /\ config'["sources"] = config["sources"]
         /\ c.kind \in {"load", "read", "reply"} => config' = config
         /\ c.kind = "save" => \A f \in Sent : config'[f] = c.value[f]
         /\ c.kind = "images" => /\ \A f \in Fields \ {"images"} : config'[f] = config[f]
                                 /\ config'["images"] = c.value["images"] /\ c.value["images"] \in Values
         /\ c.kind = "tasks" => /\ \A f \in Fields \ {"tasks", "mode"} : config'[f] = config[f]
                                /\ \A f \in {"tasks", "mode"} : config'[f] = c.value[f]
         /\ \E d : /\ calls' = (calls \ {c}) \cup {d} /\ d.kind = c.kind /\ d.pc = "back" /\ d.n = c.n
                   /\ Typed(d) /\ \A f \in Sent : d.value[f] = config'[f]
<1>1. /\ ~gone /\ c.pc = "sent" /\ config' = Writes(c)
      /\ UNCHANGED <<settings, ready, pump, queued, requests, saved, target, gone, transition, edits, failed>>
  BY DEF Land, window, loop
<1>2. Typed(c) /\ config \in [Fields -> Values]
  BY DEF IInv, Steady, CallsOK, RestTypes
<1>3. c.kind \in {"load", "read", "reply"} => config' = config
  BY <1>1 DEF Writes
<1>4. c.kind \notin {"load", "read", "reply"} => config' = Merged(config, c.value)
  BY <1>1 DEF Writes
<1>5. c.kind = "save" => config' \in [Fields -> Values] /\ \A f \in Fields :
        config'[f] = IF f \in Sent THEN c.value[f] ELSE config[f]
  <2>1. c.kind = "save" => c.value \in [Sent -> Values]
    BY <1>1, <1>2 DEF Typed
  <2> QED BY <1>2, <1>4, <2>1, MergedAre, SettingsAre
<1>6. c.kind = "images" => config' \in [Fields -> Values] /\ \A f \in Fields :
        config'[f] = IF f \in {"images"} THEN c.value[f] ELSE config[f]
  <2>1. c.kind = "images" => c.value \in [{"images"} -> Values]
    BY <1>1, <1>2 DEF Typed
  <2>2. {"images"} \in SUBSET Fields
    BY SettingsAre
  <2> QED BY <1>2, <1>4, <2>1, <2>2, MergedAre
<1>7. c.kind = "tasks" => config' \in [Fields -> Values] /\ \A f \in Fields :
        config'[f] = IF f \in {"tasks", "mode"} THEN c.value[f] ELSE config[f]
  <2>1. c.kind = "tasks" => c.value \in [{"tasks", "mode"} -> Values]
    BY <1>1, <1>2 DEF Typed
  <2>2. {"tasks", "mode"} \in SUBSET Fields
    BY SettingsAre
  <2> QED BY <1>2, <1>4, <2>1, <2>2, MergedAre
<1>8. c.kind = "images" => c.value["images"] \in Values
  BY <1>1, <1>2 DEF Typed
<1>9. config' \in [Fields -> Values]
  BY <1>2, <1>3, <1>5, <1>6, <1>7 DEF Typed
<1>10. \E d : /\ calls' = (calls \ {c}) \cup {d} /\ d.kind = c.kind /\ d.pc = "back" /\ d.n = c.n
              /\ Typed(d) /\ \A f \in Sent : d.value[f] = config'[f]
  <2> DEFINE d == [c EXCEPT !.pc = "back", !.value = Restrict(config', Sent)]
  <2>1. calls' = (calls \ {c}) \cup {d}
    <3>1. calls' = (calls \ {c}) \cup {IF c.kind = "replace" THEN Call("reply", 0, NoSettings) ELSE d}
      BY DEF Land
    <3> QED BY <3>1
  <2>2. d = [kind |-> c.kind, n |-> c.n, pc |-> "back", value |-> Restrict(config', Sent)]
    <3>1. PICK k, n, p, v : c = [kind |-> k, n |-> n, pc |-> p, value |-> v]
      BY <1>2 DEF Typed
    <3> HIDE DEF d
    <3>2. PICK w : w = Restrict(config', Sent)
      OBVIOUS
    <3>3. [c EXCEPT !.pc = "back"] = [kind |-> k, n |-> n, pc |-> "back", value |-> v]
      BY <3>1
    <3>4. [[kind |-> k, n |-> n, pc |-> "back", value |-> v] EXCEPT !.value = w]
            = [kind |-> k, n |-> n, pc |-> "back", value |-> w]
      OBVIOUS
    <3>5. d = [[c EXCEPT !.pc = "back"] EXCEPT !.value = w]
      BY <3>1, <3>2 DEF d
    <3>6. d = [kind |-> k, n |-> n, pc |-> "back", value |-> Restrict(config', Sent)]
      BY ONLY <3>2, <3>3, <3>4, <3>5
    <3> QED BY ONLY <3>1, <3>6
  <2>3. Restrict(config', Sent) \in [Sent -> Values] /\ \A f \in Sent : Restrict(config', Sent)[f] = config'[f]
    BY <1>9, RestrictedAre
  <2>4. d.kind = c.kind /\ d.pc = "back" /\ d.n = c.n /\ d.value = Restrict(config', Sent)
    BY <2>2
  <2>5. Typed(d)
    BY <1>2, <2>2, <2>3, <2>4 DEF Typed
  <2> QED BY <2>1, <2>3, <2>4, <2>5
<1>11. config'["sources"] = config["sources"]
  BY <1>2, <1>3, <1>5, <1>6, <1>7, SettingsAre DEF Typed
<1> QED BY <1>1, <1>3, <1>5, <1>6, <1>7, <1>8, <1>9, <1>10, <1>11, SettingsAre

\* A reading of the configuration.
LEMMA LandReading ==
  ASSUME IInv, NEW c \in calls, Land(c), c.kind \in {"load", "read", "reply"}
  PROVE  IInv'
<1>1. PICK d : /\ calls' = (calls \ {c}) \cup {d} /\ d.kind = c.kind /\ d.pc = "back" /\ d.n = c.n
               /\ Typed(d) /\ \A f \in Sent : d.value[f] = config'[f]
  BY LandIs
<1>2. /\ ~gone /\ c.pc = "sent" /\ config' = config
      /\ UNCHANGED <<settings, ready, pump, queued, requests, saved, target, gone, transition, edits, failed>>
      /\ UNCHANGED <<chosen, contested>>
  BY LandIs DEF Land
<1>3. /\ CallsOK(calls)'
      /\ \A k : Has(k, calls') <=> Has(k, calls)
      /\ \A e \in calls' : e = d \/ (e \in calls /\ e # c)
  BY <1>1, AnswerIs
<1>4. Uncontested' = Uncontested /\ Uncontested \subseteq Sent /\ "images" \in Sent
  BY <1>2, SettingsAre DEF Uncontested
<1>5. Steady(calls)'
  <2>1. RestTypes'
    BY <1>2 DEF IInv, Steady, RestTypes
  <2>2. \A e \in calls' : e.kind = "tasks" => e \in calls
    BY <1>1, <1>3
  <2>3. ASSUME ~ready, NEW f \in Uncontested  PROVE \A e \in calls' : e.kind = "load" /\ e.pc = "back" => e.value[f] = chosen[f]
    BY <1>1, <1>2, <1>3, <1>4, <2>3 DEF IInv, Steady
  <2> QED BY <1>2, <1>3, <1>4, <2>1, <2>2, <2>3 DEF IInv, Steady
<1>6. Loop'
  BY <1>2, <1>3 DEF IInv, Loop, LoopTypes
<1>7. Landed' <=> Landed
  BY <1>1, <1>2, <1>3 DEF Landed
<1>8. Expected(calls)' <=> Expected(calls)
  BY <1>1, <1>2, <1>3 DEF Expected
<1>9. LandedFits => LandedFits'
  <2>1. ASSUME LandedFits, NEW e \in calls'
        PROVE  /\ e.kind = "images" => config["images"] = e.value["images"]
               /\ e.kind = "read" => e.n = IF e.pc = "back" THEN e.value["images"] ELSE config["images"]
    <3>1. e = d => (c.kind = "read" => c.n = config["images"])
      BY <1>2, <2>1 DEF LandedFits
    <3>2. e \in calls \/ (e = d /\ c.kind = d.kind /\ d.value["images"] = config["images"] /\ d.pc = "back" /\ d.n = c.n)
      BY <1>1, <1>2, <1>3, <1>4
    <3> QED BY <2>1, <3>1, <3>2 DEF LandedFits
  <2> QED BY <1>2, <2>1 DEF LandedFits
<1>10. IsStored'
  BY <1>2, <1>7, <1>8, <1>9 DEF IInv, IsStored
<1>11. \A e \in calls' : e.kind = "save" => e \in calls
  BY <1>1, <1>3
<1>12. IsSaved'
  BY <1>2, <1>8, <1>11 DEF IInv, IsSaved
<1>13. Quitting'
  BY <1>2, <1>4, <1>7, <1>11 DEF IInv, Quitting
<1>14. IsComing'
  <2>1. ASSUME NEW f \in Sent, Coming(f, calls)  PROVE Coming(f, calls)'
    <3>1. ASSUME Has("reply", calls), NEW e \in calls', e.kind = "reply"
          PROVE  chosen[f] = IF e.pc = "back" THEN e.value[f] ELSE config[f]
      BY <1>1, <1>2, <1>3, <2>1, <3>1 DEF Coming
    <3> QED BY <1>2, <1>3, <2>1, <3>1 DEF Coming
  <2>2. ASSUME ImagesComing  PROVE ImagesComing'
    <3>1. ASSUME NEW e \in calls'
          PROVE  /\ e.kind = "images" => config["images"] = chosen["images"] /\ e.value["images"] = chosen["images"]
                 /\ e.kind = "read" => /\ e.n = chosen["images"]
                                       /\ chosen["images"] = IF e.pc = "back" THEN e.value["images"] ELSE config["images"]
      <4>1. e = d => (c.kind = "read" => c.n = chosen["images"] /\ chosen["images"] = config["images"])
        BY <1>2, <2>2 DEF ImagesComing
      <4>2. e \in calls \/ (e = d /\ c.kind = d.kind /\ d.value["images"] = config["images"] /\ d.pc = "back" /\ d.n = c.n)
        BY <1>1, <1>2, <1>3, <1>4
      <4> QED BY <2>2, <4>1, <4>2 DEF ImagesComing
    <3> QED BY <1>2, <3>1 DEF ImagesComing
  <2> QED BY <1>2, <1>4, <1>7, <2>1, <2>2 DEF IInv, IsComing
<1> QED BY <1>5, <1>6, <1>10, <1>12, <1>13, <1>14 DEF IInv

\* SaveConfig.
LEMMA LandSave ==
  ASSUME IInv, NEW c \in calls, Land(c), c.kind = "save"
  PROVE  IInv'
<1>1. PICK d : /\ calls' = (calls \ {c}) \cup {d} /\ d.kind = c.kind /\ d.pc = "back" /\ d.n = c.n
               /\ Typed(d) /\ \A f \in Sent : d.value[f] = config'[f]
  BY LandIs
<1>2. /\ ~gone /\ c.pc = "sent" /\ config' \in [Fields -> Values] /\ config'["sources"] = config["sources"]
      /\ \A f \in Sent : config'[f] = c.value[f]
      /\ UNCHANGED <<settings, ready, pump, queued, requests, saved, target, gone, transition, edits, failed>>
      /\ chosen' = chosen
      /\ contested' = IF Has("reply", calls) THEN Sent ELSE contested
  BY LandIs DEF Land, InFlight, Has
<1>3. /\ CallsOK(calls)'
      /\ \A k : Has(k, calls') <=> Has(k, calls)
      /\ \A e \in calls' : e = d \/ (e \in calls /\ e # c)
      /\ \A e \in calls' : e.kind = "save" => e = d
  BY <1>1, AnswerIs
<1>4. pump = "save" /\ saved # "none" /\ Loop
  BY DEF IInv, Loop, Has, LoopKinds
<1>5. /\ Uncontested' \subseteq Uncontested /\ Uncontested \subseteq Sent /\ contested' \subseteq Sent
      /\ Has("reply", calls) => Uncontested' = {}
      /\ ~ready => Uncontested' = {}
      /\ \A f \in {"tasks", "mode"} \ contested' : f \notin contested
  BY <1>2, <1>4, SettingsAre DEF Uncontested, IInv, Steady, RestTypes, Loop
<1>5a. contested \subseteq contested' /\ (~ready => Sent \subseteq contested')
  BY <1>2, <1>4 DEF IInv, Steady, RestTypes, Loop
<1>6. Steady(calls)'
  <2>1. RestTypes'
    BY <1>2, <1>5 DEF IInv, Steady, RestTypes
  <2>2. \A e \in calls' : e.kind = "tasks" => e \in calls
    BY <1>1, <1>3
  <2> QED BY <1>2, <1>3, <1>5, <2>1, <2>2 DEF IInv, Steady
<1>7. Loop'
  BY <1>2, <1>3, <1>4, <1>5a DEF Loop, LoopTypes
<1>8. ~Landed' /\ ~Landed
  <2>1. \A e \in calls : e.kind # "images"
    BY <1>4 DEF Loop, LoopKinds, Has
  <2> QED BY <1>1, <1>2, <1>3, <1>4, <2>1 DEF Landed
<1>9. IsStored'
  BY <1>2, <1>4 DEF IsStored, Loop
<1>10. IsSaved'
  <2>1. saved = "current" => c.value = settings
    BY <1>2 DEF IInv, IsSaved
  <2> QED BY <1>1, <1>2, <1>3, <2>1 DEF IsSaved
<1>11. IsComing'
  BY <1>2, <1>3, <1>5, <1>8 DEF IInv, IsComing, Coming
<1>12. Quitting'
  <2>1. target = saved => \A f \in Uncontested : c.value[f] = chosen[f]
    BY <1>2 DEF IInv, Quitting
  <2> QED BY <1>1, <1>2, <1>3, <1>5, <1>8, <2>1 DEF IInv, Quitting
<1> QED BY <1>6, <1>7, <1>9, <1>10, <1>11, <1>12 DEF IInv

\* SetTaskSettings.
LEMMA LandTasks ==
  ASSUME IInv, NEW c \in calls, Land(c), c.kind = "tasks"
  PROVE  IInv'
<1>1. PICK d : /\ calls' = (calls \ {c}) \cup {d} /\ d.kind = c.kind /\ d.pc = "back" /\ d.n = c.n
               /\ Typed(d) /\ \A f \in Sent : d.value[f] = config'[f]
  BY LandIs
<1>2. /\ ~gone /\ c.pc = "sent" /\ config' \in [Fields -> Values] /\ config'["sources"] = config["sources"]
      /\ \A f \in Fields \ {"tasks", "mode"} : config'[f] = config[f]
      /\ \A f \in {"tasks", "mode"} : config'[f] = c.value[f]
      /\ UNCHANGED <<settings, ready, pump, queued, requests, saved, target, gone, transition, edits, failed>>
      /\ chosen' = chosen /\ contested' = contested
  BY LandIs DEF Land
<1>3. /\ CallsOK(calls)'
      /\ \A k : Has(k, calls') <=> Has(k, calls)
      /\ \A e \in calls' : e = d \/ (e \in calls /\ e # c)
  BY <1>1, AnswerIs
<1>4. \A e \in calls' : e.kind # "tasks" => e \in calls
  BY <1>1, <1>3
<1>5. Uncontested' = Uncontested /\ Uncontested \subseteq Sent /\ Sent \subseteq Fields
  BY <1>2, SettingsAre DEF Uncontested
<1>6. \A f \in {"tasks", "mode"} : f \in Sent /\ (f \in contested \/ config'[f] = chosen[f])
  BY <1>2, SettingsAre DEF IInv, Steady
<1>7. Steady(calls)'
  <2>1. RestTypes'
    BY <1>2 DEF IInv, Steady, RestTypes
  <2>2. ASSUME NEW e \in calls', e.kind = "tasks", e.pc # "failed", NEW f \in {"tasks", "mode"} \ contested
        PROVE  e.value[f] = chosen[f]
    <3>1. CASE e = d
      BY <1>1, <1>6, <2>2, <3>1
    <3>2. CASE e \in calls
      BY <2>2, <3>2 DEF IInv, Steady
    <3> QED BY <1>3, <3>1, <3>2
  <2>3. ~ready => \A f \in Uncontested : config'[f] = chosen[f]
    BY <1>2, <1>5, <1>6 DEF IInv, Steady, Uncontested
  <2> QED BY <1>2, <1>3, <1>4, <1>5, <2>1, <2>2, <2>3 DEF IInv, Steady
<1>8. Loop'
  BY <1>2, <1>3 DEF IInv, Loop, LoopTypes
<1>9. Landed' <=> Landed
  BY <1>1, <1>2, <1>3 DEF Landed
<1>10. Expected(calls)'
  BY <1>1 DEF Expected
<1>11. IsStored'
  BY <1>10 DEF IsStored
<1>12. IsSaved'
  <2>1. ASSUME NEW e \in calls', e.kind = "save", saved = "current"
        PROVE  /\ e.pc = "sent" => e.value = settings
               /\ e.pc = "back" => \A f \in Sent :
                   \/ config'[f] = settings[f]
                   \/ (\/ f \in contested \/ config'[f] = chosen[f]
                       \/ transition # NoSettings /\ transition[f] # settings[f])
    <3>1. e \in calls
      BY <1>4, <2>1
    <3> QED BY <1>2, <1>5, <1>6, <2>1, <3>1 DEF IInv, IsSaved
  <2> QED BY <1>2, <1>10, <2>1 DEF IsSaved
<1>13. IsComing'
  <2>1. ASSUME NEW f \in Uncontested, Coming(f, calls)  PROVE Coming(f, calls)'
    <3>1. config'[f] = config[f] \/ config'[f] = chosen[f]
      BY <1>2, <1>5, <1>6 DEF Uncontested
    <3> QED BY <1>2, <1>3, <1>4, <2>1, <3>1 DEF Coming
  <2>2. config'["images"] = config["images"]
    BY <1>2, SettingsAre
  <2>3. ImagesComing => ImagesComing'
    BY <1>2, <1>4, <2>2 DEF ImagesComing
  <2> QED BY <1>2, <1>5, <1>9, <2>1, <2>3 DEF IInv, IsComing
<1>14. Quitting'
  <2>1. \A f \in Uncontested : config'[f] = config[f] \/ config'[f] = chosen[f]
    BY <1>2, <1>5, <1>6 DEF Uncontested
  <2> QED BY <1>2, <1>4, <1>5, <1>9, <2>1 DEF IInv, Quitting
<1> QED BY <1>7, <1>8, <1>11, <1>12, <1>13, <1>14 DEF IInv

\* SaveImageSources.
LEMMA LandImages ==
  ASSUME IInv, NEW c \in calls, Land(c), c.kind = "images"
  PROVE  IInv'
<1>1. PICK d : /\ calls' = (calls \ {c}) \cup {d} /\ d.kind = c.kind /\ d.pc = "back" /\ d.n = c.n
               /\ Typed(d) /\ \A f \in Sent : d.value[f] = config'[f]
  BY LandIs
<1>2. /\ ~gone /\ c.pc = "sent" /\ config' \in [Fields -> Values] /\ config'["sources"] = config["sources"]
      /\ \A f \in Fields \ {"images"} : config'[f] = config[f]
      /\ config'["images"] = c.value["images"] /\ c.value["images"] \in Values
      /\ UNCHANGED <<settings, ready, pump, queued, requests, saved, target, gone, transition, edits, failed>>
      /\ chosen' = [chosen EXCEPT !["images"] = c.value["images"]]
      /\ contested' = IF Replacing \/ ~ready THEN contested \cup {"images"}
                      ELSE IF requests = <<>> THEN contested \ {"images"} ELSE contested
  BY LandIs DEF Land
<1>3. /\ CallsOK(calls)'
      /\ \A k : Has(k, calls') <=> Has(k, calls)
      /\ \A e \in calls' : e = d \/ (e \in calls /\ e # c)
      /\ \A e \in calls' : e.kind = "images" => e = d
  BY <1>1, AnswerIs
<1>4. pump = "images" /\ saved = "none" /\ Loop
  BY DEF IInv, Loop, Has, LoopKinds
<1>5. /\ \A e \in calls : e.kind \notin {"save", "read"}
      /\ \A e \in calls' : e.kind \notin {"save", "read"}
  BY <1>1, <1>3, <1>4 DEF Loop, Has, LoopKinds
<1>6. \A e \in calls' : e.kind # "images" => e \in calls
  BY <1>1, <1>3
<1>7. RestTypes /\ RestTypes'
  BY <1>2, SettingsAre DEF IInv, Steady, RestTypes
<1>8. /\ \A f \in Fields \ {"images"} : chosen'[f] = chosen[f]
      /\ chosen'["images"] = c.value["images"]
  BY <1>2, <1>7, SettingsAre DEF RestTypes
<1>9. /\ ~ready => Sent \subseteq contested /\ contested' = contested
      /\ Has("reply", calls) => "images" \in contested'
      /\ Uncontested' \subseteq Uncontested \cup {"images"}
      /\ contested' \cup {"images"} = contested \cup {"images"}
  BY <1>2, <1>4, <1>7 DEF Loop, RestTypes, Uncontested, Replacing, InFlight, Has
<1>10. Landed' /\ ~Landed
  <2>1. Landed'
    BY <1>1, <1>2 DEF Landed
  <2>2. ~Landed
    BY <1>2, <1>4 DEF Landed, IInv, Steady, CallsOK
  <2> QED BY <2>1, <2>2
<1>11. Steady(calls)'
  <2>1. \A f \in {"tasks", "mode"} \ contested' : f \in {"tasks", "mode"} \ contested /\ f \in Fields \ {"images"}
    BY <1>9, SettingsAre DEF Sent
  <2>2. ~ready => Uncontested' = {}
    BY <1>9 DEF Uncontested
  <2>3. config'["sources"] = chosen'["sources"]
    BY <1>2, <1>8, SettingsAre DEF IInv, Steady
  <2>4. \A e \in calls' : e.kind = "tasks" /\ e.pc # "failed" =>
          \A f \in {"tasks", "mode"} \ contested' : e.value[f] = chosen'[f]
    BY <1>6, <1>8, <2>1 DEF IInv, Steady
  <2>5. Has("load", calls') <=> ~ready
    BY <1>3 DEF IInv, Steady
  <2> QED BY <1>2, <1>3, <1>7, <2>2, <2>3, <2>4, <2>5 DEF Steady
<1>12. Loop'
  BY <1>2, <1>3, <1>4, <1>9 DEF Loop, LoopTypes
<1>13. Expected(calls)' <=> Expected(calls)
  BY <1>1, <1>2, <1>3 DEF Expected
<1>14. IsStored'
  <2>1. LandedFits'
    BY <1>1, <1>3, <1>5, SettingsAre DEF LandedFits
  <2>2. \A f \in Sent \ {"images"} : config'[f] = config[f]
    BY <1>2, SettingsAre
  <2> QED BY <1>2, <1>4, <1>10, <1>13, <2>1, <2>2 DEF IInv, IsStored
<1>15. IsSaved'
  BY <1>5 DEF IsSaved
<1>16. IsComing'
  <2>1. ASSUME ready, NEW f \in Uncontested' \ {"images"}  PROVE Coming(f, calls)'
    <3>1. f \in Uncontested /\ f \in Fields \ {"images"}
      BY <1>9, SettingsAre DEF Uncontested
    <3>2. Coming(f, calls)
      BY <2>1, <3>1 DEF IInv, IsComing
    <3>3. \A e \in calls' : e.kind = "reply" => e \in calls
      BY <1>6
    <3> QED BY <1>2, <1>3, <1>8, <3>1, <3>2, <3>3 DEF Coming
  <2>2. ImagesComing'
    BY <1>1, <1>2, <1>3, <1>5, <1>8, SettingsAre DEF ImagesComing
  <2> QED BY <1>2, <1>10, <2>1, <2>2 DEF IsComing
<1>17. Quitting'
  <2>1. \A f \in Uncontested' : f = "images" \/ (f \in Uncontested /\ f \in Fields \ {"images"})
    BY <1>9, SettingsAre DEF Uncontested
  <2> QED BY <1>2, <1>5, <1>8, <1>10, <2>1 DEF IInv, Quitting
<1> QED BY <1>11, <1>12, <1>14, <1>15, <1>16, <1>17 DEF IInv

\* ImportConfig and ResetConfig.
LEMMA LandReplace ==
  ASSUME IInv, NEW c \in calls, Land(c), c.kind = "replace"
  PROVE  IInv'
<1> DEFINE d == Call("reply", 0, NoSettings)
<1>1. /\ ~gone /\ c.pc = "sent"
      /\ calls' = (calls \ {c}) \cup {d}
      /\ config' = Merged(config, c.value)
      /\ UNCHANGED <<settings, ready, pump, queued, requests, saved, target, gone, transition, edits, failed>>
      /\ chosen' = c.value /\ contested' = InPlay
  BY DEF Land, window, loop, Writes
<1>2. RestTypes /\ Typed(c) /\ CallsOK(calls)
  BY DEF IInv, Steady, CallsOK
<1>3. c.value \in [Fields -> Values]
  BY <1>1, <1>2 DEF Typed
<1>4. config' \in [Fields -> Values] /\ chosen' \in [Fields -> Values] /\ \A f \in Fields : config'[f] = chosen'[f]
  <2>1. config \in [Fields -> Values]
    BY <1>2 DEF RestTypes
  <2>2. /\ Merged(config, c.value) \in [Fields -> Values]
        /\ \A f \in Fields : Merged(config, c.value)[f] = c.value[f]
    BY <1>3, <2>1, MergedAre
  <2> QED BY <1>1, <1>3, <2>2
<1>5. d.kind = "reply" /\ d.pc = "sent" /\ Typed(d)
  BY DEF Call, Typed
<1>6. /\ \A k : k \notin {"replace", "reply"} => (Has(k, calls') <=> Has(k, calls))
      /\ Has("reply", calls') /\ ~Has("reply", calls)
      /\ \A e \in calls' : e = d \/ (e \in calls /\ e # c)
  <2>1. Has("replace", calls)
    BY DEF Has
  <2>2. ~Has("reply", calls)
    BY <1>2, <2>1 DEF CallsOK
  <2> QED BY <1>1, <1>5, <2>2 DEF Has
<1>7. \A e \in calls' : e.kind # "reply" => e \in calls
  BY <1>5, <1>6
<1>8. \A e \in calls' : e.kind = "reply" => e = d
  BY <1>6 DEF Has
<1>9. CallsOK(calls)'
  <2>1. \A e \in calls' : Typed(e)
    BY <1>2, <1>5, <1>6 DEF CallsOK
  <2>2. \A e, f \in calls' : e.kind = f.kind /\ e.kind # "tasks" => e = f
    BY <1>2, <1>7, <1>8 DEF CallsOK
  <2>3. ~Has("replace", calls')
    BY <1>2, <1>5, <1>6 DEF CallsOK, Has
  <2> QED BY <2>1, <2>2, <2>3 DEF CallsOK
<1> HIDE DEF d
<1>10. /\ contested' \subseteq Sent
       /\ ~ready => Sent \subseteq contested'
       /\ pump \in {"images", "read"} \/ requests # <<>> => "images" \in contested'
       /\ (\E e \in calls : e.kind = "tasks") => {"tasks", "mode"} \subseteq contested'
  BY <1>1, SettingsAre DEF InPlay, InFlight
<1>11. Loop /\ target = "none"
  BY DEF IInv, Loop, Has
<1>12. RestTypes'
  BY <1>1, <1>2, <1>4, <1>10 DEF RestTypes
<1>13. Steady(calls)'
  <2>1. ~ready => Uncontested' = {}
    BY <1>10 DEF Uncontested
  <2>2. \A e \in calls' : e.kind = "tasks" => {"tasks", "mode"} \subseteq contested'
    BY <1>7, <1>10
  <2> QED BY <1>1, <1>4, <1>6, <1>9, <1>12, <2>1, <2>2, SettingsAre DEF IInv, Steady
<1>14. Loop'
  BY <1>1, <1>6, <1>10, <1>11 DEF Loop, LoopTypes, LoopKinds
<1>15. Expected(calls)'
  BY <1>6 DEF Expected
<1>16. IsStored'
  BY <1>15 DEF IsStored
<1>17. IsSaved'
  <2>1. ASSUME NEW e \in calls', e.kind = "save", saved = "current"
        PROVE  e.pc = "sent" => e.value = settings
    <3>1. e \in calls
      BY <1>7, <2>1
    <3> QED BY <2>1, <3>1 DEF IInv, IsSaved
  <2>2. \A f \in Sent : config'[f] = chosen'[f]
    BY <1>4, SettingsAre
  <2> QED BY <1>1, <1>15, <2>1, <2>2 DEF IsSaved
<1>18. IsComing'
  <2>1. \A f \in Sent : Coming(f, calls)'
    BY <1>4, <1>5, <1>6, <1>8, SettingsAre DEF Coming
  <2>2. Landed' => "images" \notin Uncontested'
    <3>1. Landed' => pump \in {"images", "read"}
      BY <1>1, <1>7, <1>11 DEF Landed, Loop, LoopKinds, Has
    <3> QED BY <1>10, <3>1 DEF Uncontested
  <2> QED BY <2>1, <2>2 DEF IsComing, Uncontested
<1>19. Quitting'
  BY <1>1, <1>7, <1>11 DEF Quitting, Loop, LoopKinds, Has
<1> QED BY <1>13, <1>14, <1>16, <1>17, <1>18, <1>19 DEF IInv

\* The file cannot be written.
LEMMA RefuseKeeps ==
  ASSUME IInv, NEW c \in calls, Refuse(c)
  PROVE  IInv'
<1>1. /\ ~gone /\ c.pc = "sent" /\ c.kind \in {"save", "tasks", "images", "replace"}
      /\ calls' = (calls \ {c}) \cup {[c EXCEPT !.pc = "failed"]}
      /\ UNCHANGED <<config, settings, ready, pump, queued, requests, saved, target, gone, transition, edits>>
      /\ UNCHANGED <<chosen, contested, failed>>
  BY DEF Refuse, window, loop, history
<1>2. Typed(c) /\ CallsOK(calls)
  BY DEF IInv, Steady, CallsOK
<1>3. PICK d : /\ calls' = (calls \ {c}) \cup {d} /\ d.kind = c.kind /\ d.pc = "failed" /\ Typed(d)
  <2>1. PICK k, n, p, v : c = [kind |-> k, n |-> n, pc |-> p, value |-> v]
    BY <1>2 DEF Typed
  <2>2. [c EXCEPT !.pc = "failed"] = [kind |-> k, n |-> n, pc |-> "failed", value |-> v]
    BY <2>1
  <2>3. Typed([kind |-> k, n |-> n, pc |-> "failed", value |-> v])
    BY <1>1, <1>2, <2>1 DEF Typed
  <2> QED BY <1>1, <2>1, <2>2, <2>3
<1>4. /\ CallsOK(calls)'
      /\ \A k : Has(k, calls') <=> Has(k, calls)
      /\ \A e \in calls' : e = d \/ (e \in calls /\ e # c)
  BY <1>3, AnswerIs
<1>5. \A e \in calls' : e.pc # "failed" => e \in calls
  BY <1>3, <1>4
<1>6. Uncontested' = Uncontested /\ Loop
  BY <1>1 DEF Uncontested, IInv
<1>7. Steady(calls)'
  <2>1. RestTypes'
    BY <1>1 DEF IInv, Steady, RestTypes
  <2> QED BY <1>1, <1>4, <1>5, <1>6, <2>1 DEF IInv, Steady
<1>8. Loop'
  BY <1>1, <1>4 DEF IInv, Loop, LoopTypes
<1>9. Landed' <=> Landed
  BY <1>1, <1>3, <1>4 DEF Landed
<1>10. Expected(calls)' <=> Expected(calls)
  BY <1>1, <1>3, <1>4 DEF Expected
<1>11. Landed => c.kind # "images" /\ \A e \in calls' : e.kind \in {"images", "read"} => e \in calls
  <2>1. Landed => c.kind # "images"
    BY <1>1, <1>2, <1>6 DEF Landed, Loop, LoopKinds, Has, CallsOK
  <2> QED BY <1>1, <1>3, <1>4, <2>1
<1>12. IsStored'
  <2>1. Landed /\ LandedFits => LandedFits'
    BY <1>1, <1>11 DEF LandedFits
  <2> QED BY <1>1, <1>9, <1>10, <2>1 DEF IInv, IsStored
<1>13. IsSaved'
  BY <1>1, <1>5, <1>10 DEF IInv, IsSaved
<1>14. IsComing'
  <2>1. \A f : Coming(f, calls) => Coming(f, calls)'
    <3>1. \A e \in calls' : e.kind = "reply" => e \in calls
      BY <1>1, <1>3, <1>4
    <3> QED BY <1>1, <1>4, <3>1 DEF Coming
  <2>2. Landed /\ ImagesComing => ImagesComing'
    BY <1>1, <1>11 DEF ImagesComing
  <2> QED BY <1>1, <1>6, <1>9, <2>1, <2>2 DEF IInv, IsComing
<1>15. Quitting'
  BY <1>1, <1>5, <1>6, <1>9 DEF IInv, Quitting
<1> QED BY <1>7, <1>8, <1>12, <1>13, <1>14, <1>15 DEF IInv

LEMMA LandKeeps ==
  ASSUME IInv, NEW c \in calls, Land(c)
  PROVE  IInv'
<1>1. Typed(c)
  BY DEF IInv, Steady, CallsOK
<1> QED BY <1>1, LandReading, LandSave, LandTasks, LandImages, LandReplace DEF Typed

-----------------------------------------------------------------------------
\* The window.  An answered call is gone.
LEMMA OthersAre ==
  ASSUME IInv, NEW c \in calls, NEW cs, cs = calls \ {c}
  PROVE  /\ Typed(c) /\ CallsOK(cs) /\ \A d \in cs : d \in calls
         /\ \A k : Has(k, cs) => Has(k, calls)
         /\ \A k : k # c.kind => (Has(k, cs) <=> Has(k, calls))
         /\ c.kind # "tasks" => ~Has(c.kind, cs)
         /\ c.kind \notin LoopKinds => \A d : d.kind \in LoopKinds => (d \in cs <=> d \in calls)
         /\ c.kind \in LoopKinds => pump = c.kind /\ \A d \in cs : d.kind \notin LoopKinds
<1>1. CallsOK(calls) /\ Loop
  BY DEF IInv, Steady
<1>2. Typed(c) /\ \A d \in cs : d \in calls
  BY <1>1 DEF CallsOK
<1>3. /\ \A k : Has(k, cs) => Has(k, calls)
      /\ \A k : k # c.kind => (Has(k, cs) <=> Has(k, calls))
  BY DEF Has
<1>4. c.kind # "tasks" => ~Has(c.kind, cs)
  BY <1>1 DEF CallsOK, Has
<1>5. CallsOK(cs)
  BY <1>1, <1>2, <1>3 DEF CallsOK
<1>6. c.kind \notin LoopKinds => \A d : d.kind \in LoopKinds => (d \in cs <=> d \in calls)
  OBVIOUS
<1>7. c.kind \in LoopKinds => pump = c.kind /\ \A d \in cs : d.kind \notin LoopKinds
  <2>1. c.kind \in LoopKinds => pump = c.kind
    BY <1>1 DEF Loop, Has
  <2>2. ASSUME c.kind \in LoopKinds, NEW d \in cs, d.kind \in LoopKinds  PROVE FALSE
    <3>1. Has(d.kind, calls)
      BY <1>2 DEF Has
    <3>2. d.kind = c.kind
      BY <1>1, <2>1, <2>2, <3>1 DEF Loop
    <3> QED BY <1>4, <2>2, <3>2 DEF Has, LoopKinds
  <2> QED BY <2>1, <2>2
<1> QED BY <1>2, <1>3, <1>4, <1>5, <1>6, <1>7

\* A call that failed is forgotten.
LEMMA RemovedKeeps ==
  ASSUME IInv, NEW c \in calls, c.pc = "failed", c.kind \in {"tasks", "replace"}, calls' = calls \ {c},
         UNCHANGED <<config, settings, ready, pump, queued, requests, saved, target, gone, transition, edits>>,
         UNCHANGED <<chosen, contested, failed>>
  PROVE  IInv'
<1>1. PICK cs : cs = calls \ {c}
  OBVIOUS
<1>2. /\ CallsOK(cs) /\ \A d \in cs : d \in calls
      /\ \A k : Has(k, cs) => Has(k, calls)
      /\ \A k : k \in LoopKinds \cup {"reply", "load"} => (Has(k, cs) <=> Has(k, calls))
  BY <1>1, OthersAre DEF LoopKinds
<1>3. calls' = cs /\ Uncontested' = Uncontested
  BY <1>1 DEF Uncontested
<1>4. \A d \in calls : d.pc # "failed" \/ d.kind \in LoopKinds \cup {"reply", "load"} => d \in cs
  BY <1>1 DEF LoopKinds
<1>5. Steady(calls)'
  <2>1. RestTypes'
    BY DEF IInv, Steady, RestTypes
  <2>2. CallsOK(calls)'
    BY <1>2, <1>3 DEF CallsOK
  <2> QED BY <1>2, <1>3, <2>1, <2>2 DEF IInv, Steady
<1>6. Loop'
  <2>1. Loop
    BY DEF IInv
  <2> QED BY <1>2, <1>3, <2>1 DEF Loop, LoopTypes
<1>7. Landed' <=> Landed
  BY <1>2, <1>3, <1>4 DEF Landed, LoopKinds
<1>8. Expected(calls)' <=> Expected(calls)
  <2>1. \A d \in calls : d.kind = "tasks" /\ d.pc = "back" => d \in cs
    BY <1>4
  <2> QED BY <1>2, <1>3, <2>1 DEF Expected
<1>9. IsStored'
  <2>1. LandedFits => LandedFits'
    BY <1>2, <1>3 DEF LandedFits
  <2> QED BY <1>3, <1>7, <1>8, <2>1 DEF IInv, IsStored
<1>10. IsSaved'
  BY <1>2, <1>3, <1>8 DEF IInv, IsSaved
<1>11. IsComing'
  <2>1. \A f : Coming(f, calls) => Coming(f, calls)'
    BY <1>2, <1>3 DEF Coming
  <2>2. ImagesComing => ImagesComing'
    BY <1>2, <1>3 DEF ImagesComing
  <2> QED BY <1>3, <1>7, <2>1, <2>2 DEF IInv, IsComing
<1>12. Quitting'
  BY <1>2, <1>3, <1>7 DEF IInv, Quitting
<1> QED BY <1>5, <1>6, <1>9, <1>10, <1>11, <1>12 DEF IInv

LEMMA LoadedKeeps ==
  ASSUME IInv, NEW c \in calls, Loaded(c)
  PROVE  IInv'
<1>0. PICK cs : cs = calls \ {c}
  OBVIOUS
<1>1. /\ c.kind = "load" /\ c.pc # "sent" /\ ~gone /\ ready' = TRUE /\ settings' = c.value
      /\ StartPersistLatest(TRUE, requests, cs, SavedThen, TargetThen)
      /\ UNCHANGED <<config, gone, transition, edits, chosen, contested, failed>>
  BY <1>0 DEF Loaded, Answered, Others, history
<1>2. /\ Typed(c) /\ CallsOK(cs) /\ \A d \in cs : d \in calls
      /\ \A k : Has(k, cs) => Has(k, calls)
      /\ \A k : k # "load" => (Has(k, cs) <=> Has(k, calls))
      /\ ~Has("load", cs) /\ Has("load", calls)
      /\ \A d : d.kind \in LoopKinds => (d \in cs <=> d \in calls)
  BY <1>0, <1>1, OthersAre DEF LoopKinds, Has
<1>3. c.pc = "back" /\ c.value \in [Sent -> Values]
  BY <1>1, <1>2 DEF Typed
<1>4. ~ready /\ Loop /\ Uncontested' = Uncontested
  BY <1>1, <1>2 DEF IInv, Steady, Uncontested
<1>5. Steady(cs)'
  <2>1. RestTypes'
    BY <1>1, <1>3 DEF IInv, Steady, RestTypes
  <2>2. CallsOK(cs)'
    BY <1>2 DEF CallsOK
  <2> QED BY <1>1, <1>2, <2>1, <2>2 DEF IInv, Steady
<1>6. \A f \in Uncontested' : Coming(f, cs)'
  <2>1. ASSUME NEW f \in Uncontested  PROVE Coming(f, cs)'
    <3>1. transition = NoSettings /\ ~Has("reply", calls)
      BY <1>4 DEF Loop, Uncontested
    <3>2. c.value[f] = chosen[f]
      BY <1>1, <1>3, <1>4 DEF IInv, Steady
    <3> QED BY <1>1, <1>2, <3>1, <3>2 DEF Coming
  <2> QED BY <1>4, <2>1
<1> HIDE DEF IInv, Steady, Coming
<1> QED BY <1>1, <1>2, <1>4, <1>5, <1>6, SetKeeps

LEMMA SaveEndedKeeps ==
  ASSUME IInv, NEW c \in calls, SaveEnded(c)
  PROVE  IInv'
<1> DEFINE t == IF target = saved THEN "none" ELSE IF target = "past" THEN "lost" ELSE target
           q == queued \/ saved = "past"
<1>0. PICK cs : cs = calls \ {c}
  OBVIOUS
<1>1. /\ c.kind = "save" /\ c.pc # "sent" /\ ~gone /\ settings' = settings
      /\ failed' = (c.pc = "failed") /\ gone' = (target = saved /\ c.pc = "back")
      /\ Continue(q, requests, cs, t)
      /\ UNCHANGED <<config, ready, transition, edits, chosen, contested>>
  BY <1>0 DEF SaveEnded, Answered, Others
<1>2. /\ Typed(c) /\ CallsOK(cs) /\ \A d \in cs : d \in calls
      /\ \A k : Has(k, cs) => Has(k, calls)
      /\ \A k : k # "save" => (Has(k, cs) <=> Has(k, calls))
      /\ pump = "save" /\ \A d \in cs : d.kind \notin LoopKinds
  BY <1>0, <1>1, OthersAre DEF LoopKinds
<1>3. Loop /\ LoopTypes /\ RestTypes /\ Uncontested' = Uncontested /\ saved # "none"
  BY <1>1, <1>2 DEF IInv, Steady, Loop, Uncontested
<1>4. q \in BOOLEAN /\ requests \in Seq(Values) /\ t \in {"none", "current", "lost"}
  BY <1>3 DEF LoopTypes, Loop
<1>5. Steady(cs)'
  <2>1. RestTypes'
    BY <1>1, <1>3 DEF RestTypes
  <2>2. CallsOK(cs)'
    BY <1>2 DEF CallsOK
  <2> QED BY <1>1, <1>2, <1>3, <2>1, <2>2 DEF IInv, Steady
<1>6. t # "none" => ~Has("replace", cs) /\ ~Has("reply", cs)
  BY <1>2, <1>3 DEF Loop
<1>7. /\ ~ready' => Sent \subseteq contested'
      /\ Has("reply", cs) /\ requests # <<>> => "images" \in contested'
  BY <1>1, <1>2, <1>3 DEF Loop
<1>8. ~Landed
  <2>1. ~Has("images", calls)
    BY <1>2, <1>3 DEF Loop, LoopKinds
  <2> QED BY <1>2, <2>1 DEF Landed, Has
<1>9. q \/ ~ready' \/ failed' \/ Expected(cs)' \/ \A f \in Sent : settings'[f] = config'[f]
  <2>1. CASE saved = "current" /\ c.pc = "back"
    <3>1. Expected(calls) => Expected(cs)'
      BY <1>0, <1>1, <1>2 DEF Expected
    <3> QED BY <1>1, <2>1, <3>1 DEF IInv, IsSaved
  <2>2. CASE c.pc = "failed"
    BY <1>1, <2>2
  <2>3. CASE saved = "past"
    BY <2>3
  <2> QED BY <1>1, <1>2, <1>3, <2>1, <2>2, <2>3 DEF Typed, LoopTypes
<1>10. ready' => \A f \in Uncontested' : Coming(f, cs)'
  BY <1>1, <1>2, <1>3, <1>8 DEF IInv, IsComing, Coming
<1>11. t = "current" => \A f \in Uncontested' : settings'[f] = chosen'[f]
  BY <1>1, <1>3, <1>8 DEF IInv, Quitting
<1>12. gone' /\ ~failed' => \A f \in Uncontested' : config'[f] = chosen'[f]
  BY <1>1, <1>3 DEF IInv, Quitting
<1> HIDE DEF IInv, Steady, Coming, t, q
<1> QED BY <1>1, <1>2, <1>4, <1>5, <1>6, <1>7, <1>9, <1>10, <1>11, <1>12, ContinueKeeps

\* SetTaskSettings has been answered.
LEMMA TasksAnsweredKeeps ==
  ASSUME IInv, NEW c \in calls, TasksAnswered(c)
  PROVE  IInv'
<1>0. PICK cs : cs = calls \ {c}
  OBVIOUS
<1>1. /\ c.kind = "tasks" /\ c.pc # "sent" /\ ~gone
      /\ UNCHANGED <<config, ready, gone, transition, edits, chosen, contested, failed>>
  BY DEF TasksAnswered, Answered, history
<1>2. CASE c.pc = "failed"
  <2>1. calls' = calls \ {c} /\ UNCHANGED <<settings, pump, queued, requests, saved, target>>
    BY <1>2 DEF TasksAnswered, Others, loop
  <2> QED BY <1>1, <1>2, <2>1, RemovedKeeps
<1>3. CASE c.pc # "failed"
  <2>1. /\ settings' = [settings EXCEPT !["tasks"] = c.value["tasks"], !["mode"] = c.value["mode"]]
        /\ StartPersistLatest(queued \/ ready, requests, cs, SavedThen, TargetThen)
    BY <1>0, <1>3 DEF TasksAnswered, SetSettings, Others
  <2>2. /\ Typed(c) /\ CallsOK(cs) /\ \A d \in cs : d \in calls
        /\ \A k : Has(k, cs) => Has(k, calls)
        /\ \A k : k # "tasks" => (Has(k, cs) <=> Has(k, calls))
        /\ \A d : d.kind \in LoopKinds => (d \in cs <=> d \in calls)
    BY <1>0, <1>1, OthersAre DEF LoopKinds
  <2>3. c.pc = "back" /\ c.value \in [Sent -> Values]
    BY <1>1, <1>3, <2>2 DEF Typed
  <2>4. Loop /\ Uncontested' = Uncontested /\ RestTypes /\ LoopTypes
    BY <1>1 DEF IInv, Steady, Uncontested, Loop
  <2>5. /\ settings' \in [Sent -> Values]
        /\ settings'["tasks"] = c.value["tasks"] /\ settings'["mode"] = c.value["mode"]
        /\ \A f \in Sent \ {"tasks", "mode"} : settings'[f] = settings[f]
    BY <2>1, <2>3, <2>4, SettingsAre DEF RestTypes
  <2>6. Steady(cs)'
    <3>1. RestTypes'
      BY <1>1, <2>4, <2>5 DEF RestTypes
    <3>2. CallsOK(cs)'
      BY <2>2 DEF CallsOK
    <3> QED BY <1>1, <2>2, <2>4, <3>1, <3>2 DEF IInv, Steady
  <2>7. ready' => \A f \in Uncontested' : (f = "images" /\ Landed) \/ Coming(f, cs)'
    <3>1. ASSUME ready, NEW f \in Uncontested, ~(f = "images" /\ Landed)  PROVE Coming(f, cs)'
      <4>1. Coming(f, calls)
        BY <3>1 DEF IInv, IsComing
      <4>2. f \in {"tasks", "mode"} => c.value[f] = chosen[f]
        BY <1>1, <1>3 DEF IInv, Steady, Uncontested
      <4>3. f \notin {"tasks", "mode"} => settings'[f] = settings[f]
        BY <2>5 DEF Uncontested
      <4> QED BY <1>1, <2>2, <2>5, <4>1, <4>2, <4>3 DEF Coming
    <3> QED BY <1>1, <2>4, <3>1
  <2>8. queued \/ ready \in BOOLEAN
    BY <2>4 DEF LoopTypes, RestTypes
  <2>9. ~ready' => ~ready /\ (queued \/ ready) = queued
    BY <1>1, <2>4 DEF LoopTypes, RestTypes
  <2>10. ~ready' /\ (transition' # NoSettings \/ Has("reply", cs)) => Sent \subseteq contested'
    BY <1>1, <2>2, <2>4 DEF Loop
  <2> HIDE DEF IInv, Steady, Coming
  <2> QED BY <1>1, <2>1, <2>2, <2>6, <2>7, <2>8, <2>9, <2>10, SetKeeps
<1> QED BY <1>2, <1>3

\* SaveImageSources has ended.
LEMMA ImagesAnsweredKeeps ==
  ASSUME IInv, NEW c \in calls, ImagesAnswered(c)
  PROVE  IInv'
<1>0. PICK cs : cs = calls \ {c}
  OBVIOUS
<1>1. /\ c.kind = "images" /\ c.pc # "sent" /\ ~gone /\ settings' = settings
      /\ UNCHANGED <<config, ready, gone, transition, edits, chosen, contested, failed>>
  BY DEF ImagesAnswered, Answered, history
<1>2. /\ Typed(c) /\ CallsOK(cs) /\ \A d \in cs : d \in calls
      /\ \A k : Has(k, cs) => Has(k, calls)
      /\ \A k : k # "images" => (Has(k, cs) <=> Has(k, calls))
      /\ ~Has("images", cs) /\ pump = "images" /\ \A d \in cs : d.kind \notin LoopKinds
  BY <1>0, <1>1, OthersAre DEF LoopKinds
<1>3. Loop /\ LoopTypes /\ RestTypes /\ Uncontested' = Uncontested /\ saved = "none" /\ target # "past"
  BY <1>1, <1>2 DEF IInv, Steady, Loop, LoopTypes, Uncontested
<1>4. CallsOK(calls) /\ \A d \in calls : d.kind = "images" => d = c
  BY <1>1 DEF IInv, Steady, CallsOK
<1>5. Steady(cs)'
  <2>1. RestTypes'
    BY <1>1, <1>3 DEF RestTypes
  <2>2. CallsOK(cs)'
    BY <1>2 DEF CallsOK
  <2> QED BY <1>1, <1>2, <1>3, <2>1, <2>2 DEF IInv, Steady
<1>6. \A f : Coming(f, calls) => Coming(f, cs)'
  BY <1>1, <1>2 DEF Coming
<1>7. Expected(calls) => Expected(cs)'
  BY <1>0, <1>1, <1>2 DEF Expected
<1>8. CASE c.pc = "failed" /\ Continue(queued, requests, cs, target)
  <2>1. ~Landed
    BY <1>2, <1>4, <1>8 DEF Landed
  <2>2. queued \/ ~ready' \/ failed' \/ Expected(cs)' \/ \A f \in Sent : settings'[f] = config'[f]
    BY <1>1, <1>2, <1>7, <2>1 DEF IInv, IsStored
  <2>3. ready' => \A f \in Uncontested' : Coming(f, cs)'
    BY <1>1, <1>3, <1>6, <2>1 DEF IInv, IsComing
  <2>4. target = "current" => \A f \in Uncontested' : settings'[f] = chosen'[f]
    BY <1>1, <1>3, <2>1 DEF IInv, Quitting
  <2>5. /\ queued \in BOOLEAN /\ requests \in Seq(Values) /\ target \in {"none", "current", "lost"}
        /\ target # "none" => ~Has("replace", cs) /\ ~Has("reply", cs)
        /\ ~ready' => Sent \subseteq contested'
        /\ Has("reply", cs) /\ requests # <<>> => "images" \in contested'
    BY <1>1, <1>2, <1>3 DEF Loop, LoopTypes
  <2> HIDE DEF IInv, Steady, Coming
  <2> QED BY <1>1, <1>2, <1>5, <1>8, <2>2, <2>3, <2>4, <2>5, ContinueKeeps
<1>9. CASE /\ c.pc = "back" /\ pump' = "read"
           /\ calls' = cs \cup {Call("read", c.value["images"], NoSettings)}
           /\ UNCHANGED <<queued, requests, saved, target>>
  <2> DEFINE r == Call("read", c.value["images"], NoSettings)
  <2>1. r.kind = "read" /\ r.n = c.value["images"] /\ r.pc = "sent" /\ calls' = cs \cup {r}
    BY <1>9 DEF Call
  <2>2. Typed(r)
    <3>1. c.value["images"] \in Values
      BY <1>2, <1>9, SettingsAre DEF Typed
    <3> QED BY <3>1 DEF Typed, Call
  <2> HIDE DEF r
  <2>3. /\ \A k : k # "read" => (Has(k, calls') <=> Has(k, cs))
        /\ Has("read", calls')
    BY <2>1 DEF Has
  <2>4. Steady(calls)'
    <3>1. CallsOK(calls)'
      <4>1. \A d \in cs : Typed(d) /\ d.kind # "read"
        BY <1>2 DEF CallsOK, LoopKinds
      <4>2. \A d, e \in calls' : d.kind = e.kind /\ d.kind # "tasks" => d = e
        BY <1>2, <2>1, <4>1 DEF CallsOK
      <4>3. ~(Has("replace", calls') /\ Has("reply", calls'))
        BY <1>2, <2>3 DEF CallsOK
      <4> QED BY <2>1, <2>2, <4>1, <4>2, <4>3 DEF CallsOK
    <3> QED BY <1>5, <2>1, <2>3, <3>1 DEF Steady
  <2>5. Loop'
    BY <1>1, <1>2, <1>3, <1>9, <2>3 DEF Loop, LoopTypes, LoopKinds, Has
  <2>6. Landed /\ Landed'
    BY <1>1, <1>9 DEF Landed
  <2>7. \A d \in calls' : /\ d.kind = "read" => d = r
                          /\ d.kind # "images" /\ d.kind # "save"
    BY <1>2, <2>1 DEF LoopKinds
  <2>8. IsStored'
    <3>1. LandedFits => LandedFits'
      BY <1>1, <2>1, <2>7 DEF LandedFits
    <3>2. Expected(calls) => Expected(calls)'
      BY <1>7, <2>1 DEF Expected, Has
    <3> QED BY <1>1, <1>2, <1>9, <2>6, <3>1, <3>2 DEF IInv, IsStored
  <2>9. IsSaved' /\ Quitting'
    BY <1>1, <1>3, <1>9, <2>6, <2>7 DEF IInv, IsSaved, Quitting
  <2>10. IsComing'
    <3>1. ImagesComing => ImagesComing'
      BY <1>1, <2>1, <2>7 DEF ImagesComing
    <3>2. \A f : Coming(f, cs)' => Coming(f, calls)'
      BY <2>1, <2>3 DEF Coming
    <3> QED BY <1>1, <1>3, <1>6, <2>6, <3>1, <3>2 DEF IInv, IsComing
  <2> QED BY <2>4, <2>5, <2>8, <2>9, <2>10 DEF IInv
<1> QED BY <1>0, <1>8, <1>9 DEF ImagesAnswered, Others

\* The loop has read what was made of the lists it saved.
LEMMA ImagesReadKeeps ==
  ASSUME IInv, NEW c \in calls, ImagesRead(c)
  PROVE  IInv'
<1>0. PICK cs : cs = calls \ {c}
  OBVIOUS
<1>1. /\ c.kind = "read" /\ c.pc # "sent" /\ ~gone
      /\ UNCHANGED <<config, ready, gone, edits, chosen, failed>>
  BY DEF ImagesRead, Answered
<1>2. /\ Typed(c) /\ CallsOK(cs) /\ \A d \in cs : d \in calls
      /\ \A k : Has(k, cs) => Has(k, calls)
      /\ \A k : k # "read" => (Has(k, cs) <=> Has(k, calls))
      /\ pump = "read" /\ \A d \in cs : d.kind \notin LoopKinds
  BY <1>0, <1>1, OthersAre DEF LoopKinds
<1>3. /\ Loop /\ LoopTypes /\ RestTypes /\ saved = "none" /\ target # "past" /\ Landed
      /\ c.pc = "back" /\ c.value \in [Sent -> Values] /\ c.value["images"] \in Values
  BY <1>1, <1>2, SettingsAre DEF IInv, Steady, Loop, LoopTypes, Landed, Typed
<1>4. /\ queued \in BOOLEAN /\ requests \in Seq(Values)
      /\ target # "none" => ~Has("replace", cs) /\ ~Has("reply", cs)
      /\ ~ready => Sent \subseteq contested
      /\ Has("reply", cs) => "images" \in contested
  BY <1>1, <1>2, <1>3 DEF Loop, LoopTypes
<1>5. ready /\ "images" \in Uncontested => c.n = chosen["images"] /\ c.value["images"] = chosen["images"]
  <2>1. ready /\ "images" \in Uncontested => ImagesComing
    BY <1>3 DEF IInv, IsComing
  <2> QED BY <1>1, <1>3, <2>1 DEF ImagesComing
<1>6. ready => \A f \in Uncontested \ {"images"} : Coming(f, calls)
  BY DEF IInv, IsComing
<1>7. CASE /\ c.value["images"] = c.n
           /\ settings' = [settings EXCEPT !["images"] = c.value["images"]] /\ transition' = NoSettings
           /\ contested' = contested \cup Dropped
           /\ Continue(queued \/ ready, requests, cs, TargetThen)
  <2>1. RestTypes'
    BY <1>1, <1>3, <1>7 DEF RestTypes, Dropped
  <2>2. /\ contested \subseteq contested' /\ Uncontested' \subseteq Uncontested \ Dropped
        /\ \A f \in {"tasks", "mode"} \ contested' : f \in {"tasks", "mode"} \ contested
    BY <1>7 DEF Uncontested
  <2>3. Steady(cs)'
    <3>1. CallsOK(cs)'
      BY <1>2 DEF CallsOK
    <3> QED BY <1>1, <1>2, <1>3, <2>1, <2>2, <3>1 DEF IInv, Steady
  <2>4. ready' => \A f \in Uncontested' : Coming(f, cs)'
    <3>1. ASSUME ready, NEW f \in Uncontested'  PROVE Coming(f, cs)'
      <4>1. f \in Uncontested /\ f \in Sent \ Dropped
        BY <2>2 DEF Uncontested
      <4>2. CASE f = "images"
        <5>1. ~Has("reply", cs)
          BY <1>4, <4>1, <4>2 DEF Uncontested
        <5>2. settings'["images"] = c.value["images"]
          BY <1>3, <1>7, SettingsAre DEF RestTypes
        <5> QED BY <1>1, <1>5, <1>7, <3>1, <4>1, <4>2, <5>1, <5>2 DEF Coming
      <4>3. CASE f # "images"
        <5>1. Coming(f, calls) /\ settings'[f] = settings[f]
          BY <1>3, <1>6, <1>7, <3>1, <4>1, <4>3 DEF RestTypes
        <5>2. transition # NoSettings => transition[f] = settings[f]
          BY <4>1, DroppedIs
        <5> QED BY <1>1, <1>2, <1>7, <5>1, <5>2 DEF Coming
      <4> QED BY <4>2, <4>3
    <3> QED BY <1>1, <3>1
  <2>5. /\ TargetThen \in {"none", "current", "lost"} /\ TargetThen # "current"
        /\ TargetThen # "none" => target # "none"
    BY <1>3 DEF TargetThen, LoopTypes
  <2>6. (queued \/ ready) \in BOOLEAN
    BY <1>3 DEF LoopTypes, RestTypes
  <2>7. PICK t : t = TargetThen
    OBVIOUS
  <2> HIDE DEF IInv, Steady, Coming
  <2> QED BY <1>1, <1>2, <1>4, <1>7, <2>2, <2>3, <2>4, <2>5, <2>6, <2>7, ContinueKeeps
<1>8. CASE /\ c.value["images"] # c.n
           /\ UNCHANGED <<settings, transition, contested>>
           /\ Continue(queued, requests, cs, target)
  <2>1. RestTypes' /\ Uncontested' = Uncontested
    BY <1>1, <1>3, <1>8 DEF RestTypes, Uncontested
  <2>2. Steady(cs)'
    <3>1. CallsOK(cs)'
      BY <1>2 DEF CallsOK
    <3> QED BY <1>1, <1>2, <1>8, <2>1, <3>1 DEF IInv, Steady
  <2>3. "images" \notin Uncontested
    BY <1>4, <1>5, <1>8 DEF Uncontested
  <2>4. ready' => \A f \in Uncontested' : Coming(f, cs)'
    BY <1>1, <1>2, <1>6, <1>8, <2>1, <2>3 DEF Coming
  <2>5. queued \/ ~ready' \/ failed' \/ Expected(cs)' \/ \A f \in Sent : settings'[f] = config'[f]
    <3>1. ~LandedFits
      BY <1>1, <1>3, <1>8 DEF LandedFits
    <3>2. Expected(calls) => Expected(cs)'
      BY <1>0, <1>1, <1>2, <1>8 DEF Expected
    <3> QED BY <1>1, <1>2, <1>8, <3>1, <3>2 DEF IInv, IsStored
  <2>6. target = "current" => \A f \in Uncontested' : settings'[f] = chosen'[f]
    BY <1>1, <1>8, <2>1, <2>3 DEF IInv, Quitting
  <2>7. target \in {"none", "current", "lost"}
    BY <1>3 DEF LoopTypes
  <2> HIDE DEF IInv, Steady, Coming
  <2> QED BY <1>1, <1>2, <1>4, <1>8, <2>2, <2>4, <2>5, <2>6, <2>7, ContinueKeeps
<1> QED BY <1>0, <1>7, <1>8 DEF ImagesRead, Others

\* The configuration was replaced, or was not.
LEMMA ReplacedKeeps ==
  ASSUME IInv, NEW c \in calls, Replaced(c)
  PROVE  IInv'
<1>0. PICK cs : cs = calls \ {c}
  OBVIOUS
<1>1. ~gone /\ UNCHANGED <<config, ready, gone, edits, chosen, failed>>
  BY DEF Replaced
<1>2. CASE Answered("replace", c) /\ calls' = Others(c) /\ UNCHANGED <<settings, loop, transition, contested>>
  <2>1. c.pc = "failed" /\ c.kind = "replace"
    BY <1>2 DEF Answered, IInv, Steady, CallsOK, Typed
  <2> QED BY <1>1, <1>2, <2>1, RemovedKeeps DEF Others, loop
<1>3. CASE Answered("reply", c) /\ SetWithTransition(c.value, Others(c)) /\ contested' = contested \cup Dropped
  <2>1. c.kind = "reply" /\ c.pc # "sent"
    BY <1>3 DEF Answered
  <2>2. /\ Typed(c) /\ CallsOK(cs) /\ \A d \in cs : d \in calls
        /\ \A k : Has(k, cs) => Has(k, calls)
        /\ \A k : k # "reply" => (Has(k, cs) <=> Has(k, calls))
        /\ ~Has("reply", cs) /\ Has("reply", calls)
        /\ \A d : d.kind \in LoopKinds => (d \in cs <=> d \in calls)
    BY <1>0, <2>1, OthersAre DEF LoopKinds, Has
  <2>3. c.pc = "back" /\ c.value \in [Sent -> Values]
    BY <2>1, <2>2 DEF Typed
  <2>4. /\ Loop /\ LoopTypes /\ RestTypes /\ target = "none"
        /\ ~ready => Sent \subseteq contested
    BY <2>2 DEF IInv, Steady, Loop
  <2>5. /\ contested \subseteq contested' /\ Uncontested' \subseteq Uncontested /\ contested' \subseteq Sent
        /\ Dropped \subseteq contested'
        /\ \A f \in {"tasks", "mode"} \ contested' : f \in {"tasks", "mode"} \ contested
    BY <1>3, <2>4 DEF Uncontested, RestTypes, Dropped
  <2>6. ready => \A f \in Uncontested' : (f = "images" /\ Landed) \/ chosen[f] = c.value[f]
    BY <2>1, <2>2, <2>3, <2>5 DEF IInv, IsComing, Coming
  <2>7. /\ \A d \in cs : d.kind # "load" \/ ~ready
        /\ \A d \in cs : d.kind = "tasks" /\ d.pc # "failed" =>
             \A f \in {"tasks", "mode"} \ contested' : d.value[f] = chosen[f]
        /\ Has("load", cs) <=> ~ready
        /\ ~ready => Uncontested' = {}
        /\ config["sources"] = chosen["sources"]
    BY <2>2, <2>4, <2>5 DEF IInv, Steady, Has, Uncontested
  <2>8. RestTypes' => Steady(cs)'
    <3>1. CallsOK(cs)'
      BY <2>2 DEF CallsOK
    <3> QED BY <1>1, <2>7, <3>1 DEF Steady
  <2>9. CASE transition' = NoSettings /\ SetSettings(c.value, cs)
    <3>1. settings' = c.value /\ StartPersistLatest(queued \/ ready, requests, cs, SavedThen, TargetThen)
      BY <2>9 DEF SetSettings
    <3>2. RestTypes'
      BY <1>1, <2>3, <2>4, <2>5, <2>9, <3>1 DEF RestTypes
    <3>3. ready' => \A f \in Uncontested' : (f = "images" /\ Landed) \/ Coming(f, cs)'
      BY <1>1, <2>2, <2>6, <2>9, <3>1 DEF Coming
    <3>4. queued \/ ready \in BOOLEAN
      BY <2>4 DEF LoopTypes, RestTypes
    <3>5. ~ready' => ~ready /\ (queued \/ ready) = queued
      BY <1>1, <2>4 DEF LoopTypes, RestTypes
    <3> HIDE DEF IInv, Steady, Coming
    <3> QED BY <1>1, <2>2, <2>4, <2>5, <2>8, <2>9, <3>1, <3>2, <3>3, <3>4, <3>5, SetKeeps
  <2>10. CASE transition' = c.value /\ calls' = cs /\ UNCHANGED <<settings, loop>>
    <3>1. RestTypes'
      BY <1>1, <2>3, <2>4, <2>5, <2>10 DEF RestTypes
    <3>2. ready => \A f \in Uncontested' : (f = "images" /\ Landed) \/ Coming(f, cs)'
      BY <1>1, <2>2, <2>3, <2>6, <2>10, SettingsAre DEF Coming
    <3> HIDE DEF IInv, Steady, Coming
    <3> QED BY <1>1, <2>2, <2>3, <2>4, <2>5, <2>8, <2>10, <3>1, <3>2, TransitionKeeps
  <2> QED BY <1>0, <1>3, <2>9, <2>10 DEF SetWithTransition, Others
<1> QED BY <1>2, <1>3 DEF Replaced

-----------------------------------------------------------------------------
LEMMA InitHolds == ASSUME Init PROVE IInv
<1>1. PICK l : l = Call("load", 0, NoSettings)
  OBVIOUS
<1>2. l.kind = "load" /\ l.pc = "sent" /\ Typed(l) /\ calls = {l}
  BY <1>1 DEF Init, Call, Typed
<1>3. Has("load", calls) /\ \A k : k # "load" => ~Has(k, calls)
  BY <1>2 DEF Has
<1>4. RestTypes
  <2>1. All(Default) \in [Fields -> Values] /\ All(Stored) \in [Fields -> Values]
    BY BoundsAssumption DEF All
  <2>2. settings \in [Sent -> Values]
    BY <2>1, RestrictedAre DEF Init
  <2>3. edits \in 0..MaxEdits
    BY BoundsAssumption DEF Init
  <2> QED BY <2>1, <2>2, <2>3 DEF Init, RestTypes
<1>5. CallsOK(calls)
  BY <1>2, <1>3 DEF CallsOK
<1>6. Steady(calls)
  BY <1>2, <1>3, <1>4, <1>5 DEF Init, Steady
<1>7. Loop
  <2>1. LoopTypes
    <3>1. <<>> \in Seq(Values)
      OBVIOUS
    <3>2. pump = "idle" /\ queued = FALSE /\ requests = <<>> /\ saved = "none" /\ target = "none"
      BY DEF Init
    <3> QED BY <3>1, <3>2 DEF LoopTypes
  <2>2. /\ pump = "idle" /\ ~queued /\ requests = <<>> /\ saved = "none" /\ target = "none"
        /\ transition = NoSettings
    BY DEF Init
  <2> QED BY <1>3, <2>1, <2>2 DEF Loop, LoopKinds
<1>8. IsStored /\ IsSaved /\ IsComing /\ Quitting
  BY <1>2 DEF Init, IsStored, IsSaved, IsComing, Quitting
<1> QED BY <1>6, <1>7, <1>8 DEF IInv

LEMMA NextKeeps == ASSUME IInv, [Next]_vars PROVE IInv'
<1>1. CASE \E c \in calls : \/ Land(c) \/ Refuse(c) \/ Loaded(c) \/ SaveEnded(c) \/ TasksAnswered(c)
                            \/ ImagesAnswered(c) \/ ImagesRead(c) \/ Replaced(c)
  BY <1>1, LandKeeps, RefuseKeeps, LoadedKeeps, SaveEndedKeeps, TasksAnsweredKeeps, ImagesAnsweredKeeps,
     ImagesReadKeeps, ReplacedKeeps
<1>2. CASE UNCHANGED vars
  <2>1. /\ UNCHANGED <<config, settings, ready, pump, queued, requests, saved, target, gone, transition>>
        /\ UNCHANGED <<calls, edits, chosen, contested, failed>>
    BY <1>2 DEF vars, window, loop, history
  <2>2. Steady(calls)'
    BY <2>1 DEF IInv, Steady, RestTypes, CallsOK, Uncontested
  <2>3. Loop' /\ (Landed' <=> Landed) /\ (LandedFits' <=> LandedFits) /\ (ImagesComing' <=> ImagesComing)
    BY <2>1 DEF IInv, Loop, LoopTypes, Landed, LandedFits, ImagesComing
  <2>4. (Expected(calls)' <=> Expected(calls)) /\ \A f : Coming(f, calls)' <=> Coming(f, calls)
    BY <2>1 DEF Expected, Coming
  <2>5. IsStored' /\ IsSaved' /\ IsComing' /\ Quitting'
    BY <2>1, <2>3, <2>4 DEF IInv, IsStored, IsSaved, IsComing, Quitting, Uncontested
  <2> QED BY <2>2, <2>3, <2>5 DEF IInv
<1> QED BY <1>1, <1>2, ChangeModeKeeps, ChangeThemeKeeps, RunTransitionKeeps, SelectConcurrencyKeeps,
           SaveImageManagerSettingsKeeps, ReplaceConfigKeeps, UpdateConfigKeeps, QuitAppKeeps DEF Next

LEMMA InvMeans == ASSUME IInv PROVE TypeOK /\ ChoicesAreSaved
<1>1. TypeOK
  BY SettingsAre DEF IInv, Steady, RestTypes, CallsOK, Typed, Loop, LoopTypes, LoopKinds, TypeOK, InFlight, Has
<1>2. ASSUME ~failed, AtRest  PROVE settings = Restrict(config, Sent) /\ \A f \in Fields \ contested : config[f] = chosen[f]
  <2>1. ready /\ calls = {} /\ transition = NoSettings /\ \A k : ~Has(k, calls)
    BY <1>2 DEF AtRest, Has
  <2>2. pump = "idle" /\ ~queued
    BY <2>1 DEF IInv, Loop, LoopTypes, LoopKinds
  <2>3. ~Landed /\ ~Expected(calls)
    BY <2>1, <2>2 DEF Landed, Expected
  <2>4. \A f \in Sent : settings[f] = config[f]
    BY <1>2, <2>1, <2>2, <2>3 DEF IInv, IsStored
  <2>5. settings = Restrict(config, Sent)
    BY <2>4, RestrictedAre DEF IInv, Steady, RestTypes
  <2>6. \A f \in Uncontested : config[f] = chosen[f]
    BY <2>1, <2>3, <2>4 DEF IInv, IsComing, Coming, Uncontested
  <2> QED BY <2>5, <2>6, SettingsAre DEF IInv, Steady, Uncontested
<1>3. ASSUME ~failed, gone  PROVE \A f \in Fields \ contested : config[f] = chosen[f]
  BY <1>3, SettingsAre DEF IInv, Steady, Quitting, Uncontested
<1> QED BY <1>1, <1>2, <1>3 DEF ChoicesAreSaved

\* The variables have the values the code gives them, and the loop that saves
\* (App.tsx, persistLatest) has one call on its way.
THEOREM TypeCorrect == Spec => []TypeOK
<1>1. Init => IInv
  BY InitHolds
<1>2. IInv /\ [Next]_vars => IInv'
  BY NextKeeps
<1>3. IInv => TypeOK
  BY InvMeans
<1> QED BY <1>1, <1>2, <1>3, PTL DEF Spec

\* Whatever overlaps, the window shows what is stored once nothing is on its
\* way, and what is stored then, and when the program quits, is what was
\* chosen last (App.tsx, SettingsPage.tsx, TaskCenter.tsx, configservice.go).
THEOREM ChoicesSaved == Spec => []ChoicesAreSaved
<1>1. Init => IInv
  BY InitHolds
<1>2. IInv /\ [Next]_vars => IInv'
  BY NextKeeps
<1>3. IInv => ChoicesAreSaved
  BY InvMeans
<1> QED BY <1>1, <1>2, <1>3, PTL DEF Spec

-----------------------------------------------------------------------------
(* The remote files.  A request that counts is live; Given says that there *)
(* is one of a kind.                                                       *)
Listings == [what : {"listing"}, source : Sources, path : Directories, version : Nat]
Finds == [what : {"found"}, source : Sources, path : Paths, version : Nat]
TaskSet == [number : Nat, source : Sources, path : Directories, upload : BOOLEAN]
Given(k, cs) == \E c \in cs : c.kind = k /\ c.live

CallSet == [kind : {"sources", "directory", "search"}, live : BOOLEAN, source : Sources \cup {None}, path : Paths,
            served : Listings \cup {None}]
\* What is served to a call is a listing of the directory it asks for.
CallTyped(c) ==
  /\ c \in CallSet
  /\ c.kind # "sources" => c.source \in Sources
  /\ c.served # None => c.kind = "directory" /\ c.served.source = c.source /\ c.served.path = Resolved(c.source, c.path)

Types ==
  /\ configured \subseteq Sources /\ sources \subseteq Sources
  /\ sourceID \in Sources \cup {None} /\ path \in Paths
  /\ disk \in [Sources \X Directories -> Nat] /\ events \in Nat
  /\ tasks \subseteq TaskSet /\ handled \subseteq TaskSet
  /\ active \in BOOLEAN /\ effect \in BOOLEAN /\ loaded \in BOOLEAN /\ searchActive \in BOOLEAN
  /\ loadingSources \in BOOLEAN /\ loading \in BOOLEAN /\ searching \in BOOLEAN /\ error \in BOOLEAN /\ eclipsed \in BOOLEAN
  /\ kind \in {"sources", "directory", "search", None} /\ canceled \in {"sources", "directory", "search", None}
  /\ loadKey \in Keys \cup {None}
  /\ cache \in [Keys -> Listings \cup {None}]
  /\ entries \in Listings \cup Finds \cup {None}
  /\ missed \subseteq Sources \X Directories

\* One call of each kind counts, and of a directory and a search only one.
BrowserCallsOK(cs) ==
  /\ \A c \in cs : CallTyped(c)
  /\ \A c, d \in cs : c.live /\ d.live /\ c.kind = d.kind => c = d
  /\ ~(Given("directory", cs) /\ Given("search", cs))

\* The cache holds what its keys say, the login directory under both of its
\* keys, and nothing under the key that is being asked for.
CacheOK ==
  /\ \A k \in Keys : cache[k] # None => cache[k].source = k[1] /\ cache[k].path = Resolved(k[1], k[2])
  /\ \A s \in Sources : cache[Key(s, NoPath)] # None => cache[Key(s, Login[s])] # None
  /\ \A c \in browserCalls : c.kind = "directory" /\ c.live => cache[Key(c.source, c.path)] = None

\* The next task has a number of its own.
Numbered == \A t \in tasks \cup handled : t.number < events

\* A spinner turns for each call that counts, and nothing is canceled then.
Spinners ==
  /\ loadingSources <=> Given("sources", browserCalls)
  /\ searching <=> Given("search", browserCalls)
  /\ Given("directory", browserCalls) \/ Given("search", browserCalls) => loading
  /\ \A c \in browserCalls : c.live => canceled = None
  /\ kind # None => canceled = None

\* What there cannot be before the sources have been loaded, or without any.
Sourced ==
  /\ sourceID = None => sources = {}
  /\ kind = "search" => sourceID # None /\ ~Given("sources", browserCalls)
  /\ canceled = "search" => sourceID # None
  /\ ~loaded => /\ sourceID = None /\ loadKey = None /\ ~loading /\ entries = None
                /\ ~Given("directory", browserCalls)

\* A search is shown as long as nothing else was asked for; a canceled
\* directory is forgotten.
Searches ==
  /\ kind = "directory" \/ canceled = "directory" \/ Given("directory", browserCalls) => ~searchActive
  /\ Given("search", browserCalls) => searchActive
  /\ canceled = "directory" => loadKey = None

\* The key of the directory names what is shown and what is asked for,
\* whatever is shown above it.
Unsettled == loading \/ canceled \in {"directory", "search"} \/ error \/ eclipsed
KeyFits ==
  /\ loadKey # None /\ entries # None => loadKey = <<entries.source, entries.path>>
  /\ loadKey # None /\ ~Unsettled => entries # None /\ (entries.what = "found" <=> searchActive)
  /\ \A c \in browserCalls : c.live /\ c.kind # "sources" => loadKey \in {None, Key(c.source, c.path)}

\* Unless the effect is due, that is the source and the path of the window.
PlaceFits ==
  active /\ ~effect /\ sourceID # None =>
    /\ loadKey \in {None, Key(sourceID, path)}
    /\ entries # None => entries.source = sourceID /\ entries.path = path
    /\ ~Unsettled => entries # None /\ (entries.what = "found" <=> searchActive)
    /\ \A c \in browserCalls : c.live /\ c.kind # "sources" => c.source = sourceID /\ (c.kind = "search" => c.path = path)

\* A spinner that no call will stop: the root was asked for where there is a
\* default path, or the effect is due and will find another key than its own.
HasDefault(s) == DefaultPath[s] # NoPath
Stuck ==
  loading /\ ~Given("directory", browserCalls) /\ ~Given("search", browserCalls) =>
    \/ /\ asked = Root /\ (loadKey = None \/ HasDefault(loadKey[1]))
       /\ active /\ ~effect => sourceID = None \/ HasDefault(sourceID)
    \/ active /\ effect /\ sourceID # None /\ loadKey # Key(sourceID, Entered)

\* A listing is of the present version, or it is known why not.
Fresh(l) ==
  \/ l.version = disk[<<l.source, l.path>>] \/ <<l.source, l.path>> \in missed
  \/ \E t \in tasks \ handled : t.source = l.source /\ t.path = l.path
ListingsFresh ==
  /\ \A k \in Keys : cache[k] # None => Fresh(cache[k])
  /\ \A c \in browserCalls : c.live /\ c.served # None => Fresh(c.served)
  /\ entries # None /\ entries.what = "listing" => Fresh(entries)

BrowserInv ==
  /\ Types /\ BrowserCallsOK(browserCalls) /\ CacheOK /\ Numbered /\ Spinners /\ Sourced /\ Searches
  /\ KeyFits /\ PlaceFits /\ Stuck /\ ListingsFresh

-----------------------------------------------------------------------------
LEMMA NoneIs ==
  /\ None \notin Sources /\ None \notin Keys /\ None # "sources" /\ None # "directory" /\ None # "search"
  /\ \A s \in Sources, p \in Paths : Key(s, p) # None /\ Key(s, p) \in Keys /\ Resolved(s, p) \in Directories
  /\ \A l \in Listings \cup Finds : l # None /\ <<l.source, l.path>> = Key(l.source, l.path)
  /\ NoPath \in Paths /\ Root \in Directories /\ Directories \subseteq Paths
  /\ \A s \in Sources : Login[s] \in Directories /\ DefaultPath[s] \in Paths
<1>1. NoPath \in Paths /\ Root \in Directories /\ Directories \subseteq Paths
      /\ \A s \in Sources : Login[s] \in Directories /\ DefaultPath[s] \in Paths
  BY PathsAssumption DEF Directories
<1>2. \A s \in Sources, p \in Paths : Key(s, p) \in Keys /\ Resolved(s, p) \in Directories
  BY <1>1 DEF Keys, Key, Resolved, Directories
<1>3. None \notin Sources /\ None \notin Keys /\ None # "sources" /\ None # "directory" /\ None # "search"
  BY NoneAssumption DEF Keys
<1>4. \A l \in Listings \cup Finds : l # None /\ <<l.source, l.path>> = Key(l.source, l.path)
  BY <1>1, NoneAssumption DEF Listings, Finds, Key
<1> QED BY <1>1, <1>2, <1>3, <1>4

\* What a request is.
LEMMA RequestIs ==
  ASSUME NEW k \in {"sources", "directory", "search"}, NEW s, NEW p,
         s \in Sources \cup {None}, p \in Paths, k # "sources" => s \in Sources
  PROVE  LET c == Request(k, s, p)
         IN CallTyped(c) /\ c.live /\ c.kind = k /\ c.source = s /\ c.path = p /\ c.served = None
BY NoneIs DEF Request, CallTyped, CallSet

\* The calls in progress when requests are superseded, when one is added, when
\* one has been answered.
LEMMA EndedAre ==
  ASSUME NEW cs, BrowserCallsOK(cs), NEW kinds
  PROVE  /\ BrowserCallsOK(Ended(cs, kinds))
         /\ \A k : Given(k, Ended(cs, kinds)) <=> Given(k, cs) /\ k \notin kinds
         /\ \A c \in Ended(cs, kinds) : c.live => c \in cs /\ c.kind \notin kinds
         /\ \A c \in cs : c.kind \notin kinds => c \in Ended(cs, kinds)
<1>1. ASSUME NEW c \in cs, c.kind \in kinds
      PROVE  /\ CallTyped([c EXCEPT !.live = FALSE]) /\ ~[c EXCEPT !.live = FALSE].live
  <2>1. CallTyped(c)
    BY DEF BrowserCallsOK
  <2>2. [c EXCEPT !.live = FALSE] \in CallSet
    BY <2>1 DEF CallTyped, CallSet
  <2> QED BY <2>1, <2>2 DEF CallTyped, CallSet
<1>2. \A c \in Ended(cs, kinds) : CallTyped(c) /\ (c.live => c \in cs /\ c.kind \notin kinds)
  BY <1>1 DEF Ended, BrowserCallsOK
<1>3. \A c \in cs : c.kind \notin kinds => c \in Ended(cs, kinds)
  BY DEF Ended
<1>4. \A k : Given(k, Ended(cs, kinds)) <=> Given(k, cs) /\ k \notin kinds
  BY <1>2, <1>3 DEF Given
<1> QED BY <1>2, <1>3, <1>4 DEF BrowserCallsOK

LEMMA AddedIs ==
  ASSUME NEW cs, BrowserCallsOK(cs), NEW c, CallTyped(c), c.live, ~Given(c.kind, cs),
         c.kind = "directory" => ~Given("search", cs), c.kind = "search" => ~Given("directory", cs)
  PROVE  /\ BrowserCallsOK(cs \cup {c})
         /\ \A k : Given(k, cs \cup {c}) <=> Given(k, cs) \/ k = c.kind
<1>1. \A k : Given(k, cs \cup {c}) <=> Given(k, cs) \/ k = c.kind
  BY DEF Given
<1> QED BY <1>1 DEF BrowserCallsOK, Given

LEMMA RemovedIs ==
  ASSUME NEW cs, BrowserCallsOK(cs), NEW c \in cs
  PROVE  /\ BrowserCallsOK(cs \ {c})
         /\ c.live => \A k : Given(k, cs \ {c}) <=> Given(k, cs) /\ k # c.kind
         /\ ~c.live => \A k : Given(k, cs \ {c}) <=> Given(k, cs)
BY DEF BrowserCallsOK, Given

LEMMA EmptyIs == BrowserCallsOK({}) /\ \A k : ~Given(k, {})
BY DEF BrowserCallsOK, Given

-----------------------------------------------------------------------------
\* What the cache has under a key.
LEMMA EntryIs ==
  ASSUME Types, CacheOK, NEW k \in Keys, cache[k] # None
  PROVE  /\ cache[k] \in Listings /\ cache[k].what = "listing"
         /\ cache[k].source = k[1] /\ cache[k].path = Resolved(k[1], k[2]) /\ cache[k].path \in Directories
BY DEF Types, CacheOK, Listings

\* loadDirectory, with no search in progress any more: nothing but the sources
\* may be on its way with the new request.
LEMMA LoadIs ==
  ASSUME BrowserInv, active, sourceID # None, NEW force \in BOOLEAN, NEW key \in {None, Key(sourceID, path)},
         NEW base, base = browserCalls \/ base = Ended(browserCalls, {"search"}), ~Given("search", base),
         LoadDirectory(sourceID, path, force, base, key), ~searchActive', ~searching',
         searchActive' \in BOOLEAN, searching' \in BOOLEAN,
         UNCHANGED <<disk, active, sources, sourceID, loaded>>
  PROVE  /\ path' \in Paths /\ effect' \in BOOLEAN /\ cache' \in [Keys -> Listings \cup {None}]
         /\ entries' \in Listings \cup {None} /\ loadKey' \in Keys \cup {None} /\ kind' \in {"directory", None}
         /\ canceled' = None /\ ~error' /\ ~eclipsed' /\ error' \in BOOLEAN /\ eclipsed' \in BOOLEAN
         /\ loading' \in BOOLEAN /\ loadingSources' \in BOOLEAN /\ searching' \in BOOLEAN /\ searchActive' \in BOOLEAN
         /\ BrowserCallsOK(browserCalls)' /\ CacheOK' /\ Spinners' /\ Sourced' /\ Searches' /\ KeyFits' /\ PlaceFits' /\ Stuck'
         /\ \A k \in Keys : cache'[k] # None => cache'[k] = cache[k]
         /\ \A c \in browserCalls' : c.live => c.served = None
         /\ entries' # None => entries' = cache[Key(sourceID, path)] /\ entries' \in Listings
         /\ force => /\ entries' = None
                     /\ \A k \in Keys : cache'[k] # None =>
                          <<cache[k].source, cache[k].path>> # <<sourceID, Resolved(sourceID, path)>> \/ path = NoPath
<1> DEFINE s == sourceID
           kept == IF force THEN DroppedBy(s, path) ELSE cache
           hit == kept[Key(s, path)]
           others == Ended(base, {"directory"})
           new == Request("directory", s, path)
<1>1. s \in Sources /\ path \in Paths /\ Key(s, path) \in Keys /\ Key(s, path) # None /\ loaded
  BY NoneIs DEF BrowserInv, Types, Sourced
<1>2. BrowserCallsOK(base) /\ \A k : Given(k, base) <=> Given(k, browserCalls) /\ k # "search"
  BY EndedAre DEF BrowserInv
<1>3. /\ BrowserCallsOK(others) /\ \A k : Given(k, others) <=> Given(k, browserCalls) /\ k # "search" /\ k # "directory"
      /\ \A c \in others : c.live => c.kind = "sources" /\ c.served = None
  <2>1. /\ BrowserCallsOK(others) /\ \A k : Given(k, others) <=> Given(k, base) /\ k \notin {"directory"}
        /\ \A c \in others : c.live => c \in base /\ c.kind \notin {"directory"}
    BY <1>2, EndedAre
  <2>2. \A c \in others : c.live => c.kind # "search"
    BY <2>1 DEF Given
  <2>3. \A c \in others : CallTyped(c)
    BY <2>1 DEF BrowserCallsOK
  <2> QED BY <1>2, <2>1, <2>2, <2>3 DEF CallTyped, CallSet
<1>4. /\ CallTyped(new) /\ new.live /\ new.kind = "directory" /\ new.source = s /\ new.path = path /\ new.served = None
  BY <1>1, RequestIs
<1>5. /\ BrowserCallsOK(others \cup {new})
      /\ \A k : Given(k, others \cup {new}) <=> Given(k, others) \/ k = "directory"
  <2>1. ~Given(new.kind, others) /\ ~Given("search", others)
    BY <1>3, <1>4
  <2> QED BY <1>3, <1>4, <2>1, AddedIs
<1>6. /\ kept \in [Keys -> Listings \cup {None}]
      /\ \A k \in Keys : kept[k] # None => kept[k] = cache[k]
      /\ \A x \in Sources : kept[Key(x, NoPath)] # None => kept[Key(x, Login[x])] # None
      /\ force => /\ hit = None
                  /\ \A k \in Keys : kept[k] # None => k[1] # s \/ cache[k].path # path
  <2>1. CASE force
    <3>1. kept = DroppedBy(s, path)
      BY <2>1
    <3>2. \A k \in Keys : kept[k] = IF k[1] = s /\ cache[k] # None /\ (k = Key(s, path) \/ cache[k].path = path) THEN None ELSE cache[k]
      BY <3>1 DEF DroppedBy
    <3>3. kept \in [Keys -> Listings \cup {None}]
      BY <3>1 DEF DroppedBy, BrowserInv, Types
    <3>4. ASSUME NEW x \in Sources, kept[Key(x, NoPath)] # None  PROVE kept[Key(x, Login[x])] # None
      <4>1. Key(x, NoPath) \in Keys /\ Key(x, Login[x]) \in Keys /\ Login[x] # NoPath /\ Key(x, Login[x])[1] = x
            /\ Key(x, NoPath)[1] = x /\ Resolved(x, NoPath) = Login[x] /\ Resolved(x, Login[x]) = Login[x]
            /\ Key(x, Login[x])[2] = Login[x] /\ Key(x, NoPath)[2] = NoPath
        BY NoneIs DEF Key, Resolved, Directories
      <4>2. cache[Key(x, NoPath)] # None /\ cache[Key(x, Login[x])] # None
        BY <3>2, <3>4, <4>1 DEF BrowserInv, CacheOK
      <4>3. cache[Key(x, NoPath)].path = Login[x] /\ cache[Key(x, Login[x])].path = Login[x]
        BY <4>1, <4>2 DEF BrowserInv, CacheOK
      <4>4. Key(x, Login[x]) = Key(s, path) => x = s /\ path = Login[x]
        BY DEF Key
      <4> QED BY <3>2, <3>4, <4>1, <4>2, <4>3, <4>4
    <3> QED BY <1>1, <2>1, <3>2, <3>3, <3>4 DEF Key
  <2>2. CASE ~force
    BY <2>2 DEF BrowserInv, Types, CacheOK
  <2> QED BY <2>1, <2>2
<1>7. /\ cache' = kept /\ canceled' = None /\ error' = FALSE /\ eclipsed' = FALSE /\ loadingSources' = loadingSources
      /\ hit # None => /\ browserCalls' = others /\ kind' = None /\ loading' = FALSE
                       /\ loadKey' = Key(s, hit.path) /\ entries' = hit /\ path' = hit.path /\ effect' = (hit.path # path)
      /\ hit = None => /\ browserCalls' = others \cup {new} /\ kind' = "directory" /\ loading' = TRUE
                       /\ entries' = None /\ loadKey' = key /\ path' = path /\ effect' = FALSE
  BY DEF LoadDirectory
<1> HIDE DEF kept, hit, others, new
<1>8. hit # None => /\ hit = cache[Key(s, path)] /\ hit \in Listings /\ hit.what = "listing" /\ hit.source = s
                    /\ hit.path \in Directories /\ hit.path = Resolved(s, path) /\ hit.path \in Paths
                    /\ Key(s, hit.path) \in Keys /\ Key(s, hit.path) # None /\ Key(s, hit.path) = <<hit.source, hit.path>>
  <2>1. hit = kept[Key(s, path)] /\ Key(s, path)[1] = s /\ Key(s, path)[2] = path
    BY DEF hit, Key
  <2> QED BY <1>1, <1>6, <2>1, EntryIs, NoneIs DEF BrowserInv, Key
<1>9. \A c \in browserCalls' : c.live => (c.kind = "sources" \/ (c = new /\ hit = None)) /\ c.served = None
  BY <1>3, <1>4, <1>7
<1>10. /\ BrowserCallsOK(browserCalls') /\ (Given("sources", browserCalls') <=> Given("sources", browserCalls))
       /\ ~Given("search", browserCalls') /\ (Given("directory", browserCalls') <=> hit = None)
  BY <1>3, <1>5, <1>7
<1>11. CacheOK'
  <2>1. \A k \in Keys : kept[k] # None => kept[k].source = k[1] /\ kept[k].path = Resolved(k[1], k[2])
    BY <1>6 DEF BrowserInv, CacheOK
  <2>2. \A c \in browserCalls' : c.kind = "directory" /\ c.live => kept[Key(c.source, c.path)] = None
    BY <1>4, <1>9 DEF hit
  <2> QED BY <1>6, <1>7, <2>1, <2>2 DEF CacheOK
<1>12. Spinners' /\ Sourced' /\ Searches'
  <2>1. kind' # "search" /\ canceled' # "search" /\ canceled' # "directory"
    BY <1>7, NoneIs
  <2>2. Spinners'
    BY <1>7, <1>10 DEF BrowserInv, Spinners
  <2>3. Sourced'
    BY <1>1, <2>1 DEF BrowserInv, Sourced
  <2>4. Searches'
    BY <1>10, <2>1 DEF BrowserInv, Searches
  <2> QED BY <2>2, <2>3, <2>4
<1>13. KeyFits'
  BY <1>4, <1>7, <1>8, <1>9 DEF KeyFits, Unsettled
<1>14. PlaceFits'
  BY <1>4, <1>7, <1>8, <1>9 DEF PlaceFits, Unsettled
<1>15. Stuck'
  BY <1>7, <1>10 DEF Stuck
<1>16. \A k \in Keys : cache'[k] # None => cache'[k] = cache[k]
  BY <1>6, <1>7
<1>17. force => /\ entries' = None
                /\ \A k \in Keys : cache'[k] # None =>
                     <<cache[k].source, cache[k].path>> # <<s, Resolved(s, path)>> \/ path = NoPath
  BY <1>6, <1>7 DEF BrowserInv, CacheOK, Resolved
<1>18. /\ path' \in Paths /\ effect' \in BOOLEAN /\ cache' \in [Keys -> Listings \cup {None}]
       /\ entries' \in Listings \cup {None} /\ loadKey' \in Keys \cup {None} /\ kind' \in {"directory", None}
       /\ loading' \in BOOLEAN
  BY <1>1, <1>6, <1>7, <1>8
<1>19. /\ entries' # None => entries' = cache[Key(s, path)] /\ entries' \in Listings
       /\ loadingSources' \in BOOLEAN
  BY <1>7, <1>8 DEF BrowserInv, Types
<1> QED BY <1>7, <1>9, <1>10, <1>11, <1>12, <1>13, <1>14, <1>15, <1>16, <1>17, <1>18, <1>19

\* So every load keeps the invariant.
LEMMA LoadKeeps ==
  ASSUME BrowserInv, active, sourceID # None, NEW force \in BOOLEAN, NEW key \in {None, Key(sourceID, path)},
         NEW base, base = browserCalls \/ base = Ended(browserCalls, {"search"}), ~Given("search", base),
         LoadDirectory(sourceID, path, force, base, key), ~searchActive', ~searching',
         searchActive' \in BOOLEAN, searching' \in BOOLEAN,
         UNCHANGED <<disk, active, sources, sourceID, loaded, configured, events, tasks, handled, missed>>
  PROVE  BrowserInv'
<1>1. ListingsFresh'
  <2>1. \A l : Fresh(l)' <=> Fresh(l)
    BY DEF Fresh
  <2>2. \A k \in Keys : cache'[k] # None => Fresh(cache'[k])
    BY LoadIs DEF BrowserInv, ListingsFresh
  <2>3. entries' # None => Fresh(entries')
    <3>1. Key(sourceID, path) \in Keys
      BY NoneIs DEF BrowserInv, Types
    <3> QED BY <3>1, LoadIs DEF BrowserInv, ListingsFresh
  <2> QED BY <2>1, <2>2, <2>3, LoadIs DEF ListingsFresh
<1>2. Types'
  BY LoadIs DEF BrowserInv, Types
<1>3. Numbered'
  BY DEF BrowserInv, Numbered
<1>4. BrowserCallsOK(browserCalls)' /\ CacheOK' /\ Spinners' /\ Sourced' /\ Searches' /\ KeyFits' /\ PlaceFits' /\ Stuck'
  BY LoadIs
<1> QED BY <1>1, <1>2, <1>3, <1>4 DEF BrowserInv

\* The effects before anything else: a load after resetting the search.
LEMMA ResetKeeps ==
  ASSUME BrowserInv, active, sourceID # None, NEW force \in BOOLEAN, NEW key \in {None, Key(sourceID, path)},
         ResetAndLoad(sourceID, path, force, key),
         UNCHANGED <<disk, active, sources, sourceID, loaded, configured, events, tasks, handled, missed>>
  PROVE  BrowserInv'
<1>1. ~Given("search", Ended(browserCalls, {"search"}))
  BY EndedAre DEF BrowserInv
<1>2. LoadDirectory(sourceID, path, force, Ended(browserCalls, {"search"}), key) /\ searchActive' = FALSE /\ searching' = FALSE
  BY DEF ResetAndLoad
<1> DEFINE base == Ended(browserCalls, {"search"})
<1>3. base = Ended(browserCalls, {"search"}) /\ ~Given("search", base) /\ LoadDirectory(sourceID, path, force, base, key)
  BY <1>1, <1>2
<1> HIDE DEF base
<1> QED BY <1>2, <1>3, LoadKeeps

\* The key, when no effect is due.
LEMMA HereKey == ASSUME BrowserInv, active, ~effect, sourceID # None  PROVE loadKey \in {None, Key(sourceID, path)}
BY DEF BrowserInv, PlaceFits

-----------------------------------------------------------------------------
\* Only the calls change, and of those that count nothing but what was served.
LEMMA CallsKeep ==
  ASSUME BrowserInv, BrowserCallsOK(browserCalls'), \A k : Given(k, browserCalls') <=> Given(k, browserCalls),
         \A e \in browserCalls' : e.live =>
           \E d \in browserCalls :
             /\ d.live /\ d.kind = e.kind /\ d.source = e.source /\ d.path = e.path
             /\ e.served = d.served \/ Fresh(e.served),
         UNCHANGED <<outside, active, place, loadKey, loaded, cache, spinners, searchActive, entries, handled, browserHistory>>
  PROVE  BrowserInv'
<1>1. /\ UNCHANGED <<configured, disk, tasks, events, active, sources, sourceID, path, effect, loadKey, loaded, cache>>
      /\ UNCHANGED <<kind, loadingSources, loading, searching, canceled, error, searchActive, entries, handled, asked, missed, eclipsed>>
  BY DEF outside, place, spinners, browserHistory
<1>2. Types' /\ Numbered'
  BY <1>1 DEF BrowserInv, Types, Numbered
<1>3. CacheOK'
  <2>1. \A c \in browserCalls' : c.kind = "directory" /\ c.live => cache[Key(c.source, c.path)] = None
    BY DEF BrowserInv, CacheOK
  <2> QED BY <1>1, <2>1 DEF BrowserInv, CacheOK
<1>4. Spinners' /\ Sourced' /\ Searches'
  <2>1. \A c \in browserCalls' : c.live => canceled = None
    BY DEF BrowserInv, Spinners
  <2> QED BY <1>1, <2>1 DEF BrowserInv, Spinners, Sourced, Searches
<1>5. (Unsettled' <=> Unsettled) /\ (Entered' = Entered)
  BY <1>1 DEF Unsettled, Entered
<1>6. KeyFits' /\ PlaceFits'
  <2>1. \A c \in browserCalls' : c.live /\ c.kind # "sources" => loadKey \in {None, Key(c.source, c.path)}
    BY DEF BrowserInv, KeyFits
  <2>2. active /\ ~effect /\ sourceID # None =>
          \A c \in browserCalls' : c.live /\ c.kind # "sources" => c.source = sourceID /\ (c.kind = "search" => c.path = path)
    BY DEF BrowserInv, PlaceFits
  <2> QED BY <1>1, <1>5, <2>1, <2>2 DEF BrowserInv, KeyFits, PlaceFits
<1>7. Stuck'
  BY <1>1, <1>5 DEF BrowserInv, Stuck
<1>8. ListingsFresh'
  <2>1. \A l : Fresh(l)' <=> Fresh(l)
    BY <1>1 DEF Fresh
  <2> QED BY <1>1, <2>1 DEF BrowserInv, ListingsFresh
<1> QED BY <1>2, <1>3, <1>4, <1>6, <1>7, <1>8 DEF BrowserInv

LEMMA ServeKeeps ==
  ASSUME BrowserInv, NEW c \in browserCalls, Serve(c)
  PROVE  BrowserInv'
<1> DEFINE p == Resolved(c.source, c.path)
           l == Listing(c.source, p, disk[<<c.source, p>>])
           d == [c EXCEPT !.served = l]
           rest == browserCalls \ {c}
<1>1. /\ c.kind = "directory" /\ c.live /\ CallTyped(c) /\ c.source \in Sources /\ c.path \in Paths
      /\ browserCalls' = rest \cup {d}
  BY DEF Serve, BrowserInv, BrowserCallsOK, CallTyped, CallSet
<1>2. p \in Directories /\ p \in Paths /\ l \in Listings /\ l.source = c.source /\ l.path = p /\ l.version = disk[<<l.source, l.path>>]
  BY <1>1, NoneIs DEF Listing, Listings, BrowserInv, Types
<1>3. d \in CallSet /\ d.served = l /\ d.kind = "directory" /\ d.live /\ d.source = c.source /\ d.path = c.path
  BY <1>1, <1>2 DEF CallTyped, CallSet
<1>4. CallTyped(d)
  BY <1>1, <1>2, <1>3 DEF CallTyped
<1>5. BrowserCallsOK(rest) /\ \A k : Given(k, rest) <=> (Given(k, browserCalls) /\ k # "directory")
  BY <1>1, RemovedIs DEF BrowserInv
<1>6. Given("directory", browserCalls) /\ ~Given("search", browserCalls)
  BY <1>1 DEF Given, BrowserInv, BrowserCallsOK
<1> HIDE DEF d, rest
<1>7. BrowserCallsOK(rest \cup {d}) /\ \A k : Given(k, rest \cup {d}) <=> (Given(k, rest) \/ k = "directory")
  BY <1>3, <1>4, <1>5, <1>6, AddedIs
<1>8. Fresh(d.served)
  BY <1>2, <1>3 DEF Fresh
<1>9. \A e \in browserCalls' : e = d \/ e \in browserCalls
  BY <1>1 DEF rest
<1>10. \A k : Given(k, browserCalls') <=> Given(k, browserCalls)
  BY <1>1, <1>5, <1>6, <1>7
<1>11. \A e \in browserCalls' : e.live =>
         \E f \in browserCalls :
           /\ f.live /\ f.kind = e.kind /\ f.source = e.source /\ f.path = e.path
           /\ e.served = f.served \/ Fresh(e.served)
  BY <1>1, <1>3, <1>8, <1>9
<1>12. UNCHANGED <<outside, active, place, loadKey, loaded, cache, spinners, searchActive, entries, handled, browserHistory>>
  BY DEF Serve
<1> QED BY <1>1, <1>7, <1>10, <1>11, <1>12, CallsKeep

LEMMA StaleAnswerKeeps ==
  ASSUME BrowserInv, NEW c \in browserCalls, StaleAnswer(c)
  PROVE  BrowserInv'
<1>1. ~c.live /\ browserCalls' = browserCalls \ {c}
  BY DEF StaleAnswer
<1>2. BrowserCallsOK(browserCalls') /\ \A k : Given(k, browserCalls') <=> Given(k, browserCalls)
  BY <1>1, RemovedIs DEF BrowserInv
<1>3. UNCHANGED <<outside, active, place, loadKey, loaded, cache, spinners, searchActive, entries, handled, browserHistory>>
  BY DEF StaleAnswer
<1> QED BY <1>1, <1>2, <1>3, CallsKeep

\* A call that counts has been answered: what the other calls are.
LEMMA AnsweredIs ==
  ASSUME BrowserInv, NEW c \in browserCalls, c.live, browserCalls' = browserCalls \ {c}
  PROVE  /\ BrowserCallsOK(browserCalls)' /\ \A k : Given(k, browserCalls') <=> (Given(k, browserCalls) /\ k # c.kind)
         /\ Given(c.kind, browserCalls) /\ canceled = None
         /\ c.kind = "directory" => ~Given("search", browserCalls)
         /\ c.kind = "search" => ~Given("directory", browserCalls)
         /\ CallTyped(c) /\ c.source \in Sources \cup {None} /\ c.path \in Paths
         /\ c.kind # "sources" => c.source \in Sources /\ loaded /\ loadKey \in {None, Key(c.source, c.path)}
<1>1. BrowserCallsOK(browserCalls') /\ \A k : Given(k, browserCalls') <=> (Given(k, browserCalls) /\ k # c.kind)
  BY RemovedIs DEF BrowserInv
<1>2. Given(c.kind, browserCalls)
  BY DEF Given
<1>3. CallTyped(c) /\ c.kind \in {"sources", "directory", "search"}
  BY DEF BrowserInv, BrowserCallsOK, CallTyped, CallSet
<1>4. ~(Given("directory", browserCalls) /\ Given("search", browserCalls))
  BY DEF BrowserInv, BrowserCallsOK
<1>5. c.kind # "sources" => loaded
  BY <1>2, <1>3 DEF BrowserInv, Sourced, Spinners
<1>6. canceled = None /\ (c.kind # "sources" => loadKey \in {None, Key(c.source, c.path)})
  BY DEF BrowserInv, Spinners, KeyFits
<1> QED BY <1>1, <1>2, <1>3, <1>4, <1>5, <1>6 DEF CallTyped, CallSet

LessThan == {ss \in Nat \X Nat : ss[1] < ss[2]}
LEMMA LessThanIs == LessThan = OpToRel(<, Nat)
  BY Zenon DEF OpToRel, LessThan

\* A set of natural numbers has a least element.
LEMMA Least == ASSUME NEW S \in SUBSET Nat, S # {} PROVE \E x \in S : \A y \in S : x <= y
<1>1. IsWellFoundedOn(LessThan, Nat)
  BY NatLessThanWellFounded, LessThanIs
<1>2. \E x \in S : \A y \in S : ~ (<<y, x>> \in LessThan)
  BY <1>1, WFMin
<1>3. \A x, y \in Nat : <<y, x>> \in LessThan <=> y < x
  BY DEF LessThan
<1>4. PICK x \in S : \A y \in S : ~ (<<y, x>> \in LessThan)
  BY <1>2
<1>5. ASSUME NEW y \in S PROVE x <= y
  <2>1. x \in Nat /\ y \in Nat
    BY <1>5
  <2>2. ~(y < x)
    BY <1>3, <1>4, <2>1
  <2> QED BY <2>1, <2>2
<1> QED BY <1>5

-----------------------------------------------------------------------------
(* The answers. *)

LEMMA MinIs == ASSUME NEW S \in SUBSET Sources, S # {}  PROVE Min(S) \in S
BY SourcesAssumption, Least DEF Min

LEMMA SourcesArriveKeeps ==
  ASSUME BrowserInv, NEW c \in browserCalls, SourcesArrive(c)
  PROVE  BrowserInv'
<1>1. /\ ~effect /\ c.kind = "sources" /\ c.live /\ browserCalls' = browserCalls \ {c} /\ sources' = configured /\ loaded' = TRUE
      /\ loadingSources' = FALSE /\ kind' = IF kind = "sources" THEN None ELSE kind
      /\ UNCHANGED <<configured, disk, tasks, events, active, path, loadKey, cache>>
      /\ UNCHANGED <<loading, searching, searchActive, canceled, error, entries, handled, asked, missed, eclipsed>>
  BY DEF SourcesArrive, AnswerOf, Over, Visit, outside, browserHistory
<1>2. /\ sourceID' \in Sources \cup {None} /\ (sourceID' = None => configured = {})
      /\ effect' = (effect \/ sourceID' # sourceID)
  <2>1. /\ sourceID' = CASE sourceID \in configured -> sourceID [] sourceID \notin configured /\ configured = {} -> None
                         [] OTHER -> Min(configured)
        /\ effect' = (effect \/ sourceID' # sourceID)
    BY DEF SourcesArrive, Visit
  <2>2. configured \subseteq Sources /\ None \notin Sources
    BY NoneIs DEF BrowserInv, Types
  <2>3. configured # {} => Min(configured) \in configured
    BY <2>2, MinIs
  <2> QED BY <2>1, <2>2, <2>3
<1>3. /\ BrowserCallsOK(browserCalls)' /\ \A k : Given(k, browserCalls') <=> (Given(k, browserCalls) /\ k # "sources")
      /\ Given("sources", browserCalls) /\ canceled = None
  BY <1>1, AnsweredIs
<1>4. Types' /\ Numbered'
  BY <1>1, <1>2 DEF BrowserInv, Types, Numbered
<1>5. CacheOK'
  BY <1>1 DEF BrowserInv, CacheOK
<1>6. Spinners'
  BY <1>1, <1>3 DEF BrowserInv, Spinners
<1>7. Sourced'
  BY <1>1, <1>2, <1>3, NoneIs DEF BrowserInv, Sourced
<1>8. Searches'
  BY <1>1, <1>3, NoneIs DEF BrowserInv, Searches
<1>9. KeyFits'
  BY <1>1 DEF BrowserInv, KeyFits, Unsettled
<1>10. PlaceFits'
  BY <1>1, <1>2 DEF BrowserInv, PlaceFits, Unsettled
<1>11. Stuck'
  BY <1>1, <1>2, <1>3 DEF BrowserInv, Stuck
<1>12. ListingsFresh'
  BY <1>1 DEF BrowserInv, ListingsFresh, Fresh
<1> QED BY <1>3, <1>4, <1>5, <1>6, <1>7, <1>8, <1>9, <1>10, <1>11, <1>12 DEF BrowserInv

LEMMA DirectoryArrivesKeeps ==
  ASSUME BrowserInv, NEW c \in browserCalls, DirectoryArrives(c)
  PROVE  BrowserInv'
<1> DEFINE l == c.served
           k1 == Key(c.source, c.path)
           k2 == Key(c.source, l.path)
<1>1. /\ ~effect /\ c.kind = "directory" /\ c.live /\ browserCalls' = browserCalls \ {c} /\ l # None
      /\ cache' = [cache EXCEPT ![k1] = l, ![k2] = l] /\ entries' = l /\ loadKey' = k2
      /\ path' = l.path /\ effect' = (l.path # path)
      /\ loading' = FALSE /\ kind' = IF kind = "directory" THEN None ELSE kind
      /\ missed' = {k \in missed : k # <<c.source, l.path>> \/ l.version # disk[k]}
      /\ UNCHANGED <<configured, disk, tasks, events, active, sources, sourceID, loaded>>
      /\ UNCHANGED <<loadingSources, searching, searchActive, canceled, error, handled, asked, eclipsed>>
  BY DEF DirectoryArrives, DirectoryArrivesAnyway, AnswerOf, Over, Visit, outside
<1>2. /\ BrowserCallsOK(browserCalls)' /\ \A k : Given(k, browserCalls') <=> (Given(k, browserCalls) /\ k # "directory")
      /\ Given("directory", browserCalls) /\ ~Given("search", browserCalls) /\ canceled = None /\ loaded
      /\ c.source \in Sources /\ c.path \in Paths
  BY <1>1, AnsweredIs
<1>3. /\ l \in Listings /\ l.what = "listing" /\ l.source = c.source /\ l.path = Resolved(c.source, c.path)
      /\ l.path \in Directories /\ l.path \in Paths /\ l.path # NoPath
  BY <1>1, NoneIs DEF BrowserInv, BrowserCallsOK, CallTyped, CallSet, Listings, Directories
<1>4. /\ k1 \in Keys /\ k2 \in Keys /\ k1 # None /\ k2 # None /\ k2 = <<l.source, l.path>>
      /\ k1[1] = c.source /\ k1[2] = c.path /\ k2[1] = c.source /\ k2[2] = l.path
      /\ Resolved(c.source, l.path) = l.path
  BY <1>2, <1>3, NoneIs DEF Key, Resolved
<1>5. cache[k1] = None
  BY <1>1 DEF BrowserInv, CacheOK
<1>6. /\ cache' \in [Keys -> Listings \cup {None}]
      /\ \A k \in Keys : cache'[k] = IF k = k1 \/ k = k2 THEN l ELSE cache[k]
  BY <1>1, <1>3, <1>4 DEF BrowserInv, Types
<1> HIDE DEF l, k1, k2
<1>7. Types' /\ Numbered'
  BY <1>1, <1>3, <1>4, <1>6 DEF BrowserInv, Types, Numbered
<1>8. CacheOK'
  <2>1. ASSUME NEW k \in Keys, cache'[k] # None
        PROVE  cache'[k].source = k[1] /\ cache'[k].path = Resolved(k[1], k[2])
    BY <1>3, <1>4, <1>6, <2>1 DEF BrowserInv, CacheOK
  <2>2. ASSUME NEW s \in Sources, cache'[Key(s, NoPath)] # None  PROVE cache'[Key(s, Login[s])] # None
    <3>1. Key(s, NoPath) \in Keys /\ Key(s, Login[s]) \in Keys /\ l # None /\ Resolved(s, NoPath) = Login[s]
      BY <1>1, NoneIs DEF Resolved, Directories
    <3>2. Key(s, NoPath) = k1 => Key(s, Login[s]) = k2
      BY <1>3, <1>4, <3>1 DEF Key
    <3>3. Key(s, NoPath) # k2
      BY <1>3, <1>4 DEF Key
    <3> QED BY <1>6, <2>2, <3>1, <3>2, <3>3 DEF BrowserInv, CacheOK
  <2>3. \A e \in browserCalls' : ~(e.kind = "directory" /\ e.live)
    BY <1>2 DEF Given
  <2> QED BY <2>1, <2>2, <2>3 DEF CacheOK
<1>9. Spinners'
  BY <1>1, <1>2 DEF BrowserInv, Spinners
<1>10. Sourced'
  BY <1>1, <1>2, NoneIs DEF BrowserInv, Sourced
<1>11. Searches'
  BY <1>1, <1>2, NoneIs DEF BrowserInv, Searches
<1>12. ~searchActive /\ \A e \in browserCalls' : e.live => e.kind = "sources"
  <2>1. ~searchActive
    BY <1>2 DEF BrowserInv, Searches
  <2>2. \A e \in browserCalls' : e.live => e.kind \in {"sources", "directory", "search"} /\ Given(e.kind, browserCalls')
    BY <1>2 DEF Given, BrowserCallsOK, CallTyped, CallSet
  <2> QED BY <1>2, <2>1, <2>2
<1>13. KeyFits'
  BY <1>1, <1>3, <1>4, <1>12 DEF KeyFits
<1>14. PlaceFits'
  <2>1. active /\ sourceID # None => c.source = sourceID
    BY <1>1 DEF BrowserInv, PlaceFits
  <2> QED BY <1>1, <1>3, <1>4, <1>12, <2>1 DEF PlaceFits, Key
<1>15. Stuck'
  BY <1>1 DEF Stuck
<1>16. ListingsFresh'
  <2>1. Fresh(l)
    BY <1>1 DEF BrowserInv, ListingsFresh, l
  <2>2. Fresh(l)'
    BY <1>1, <2>1, <1>3 DEF Fresh
  <2>3. ASSUME NEW k \in Keys, cache'[k] # None  PROVE Fresh(cache[k])'
    <3>1. CASE k = k1 \/ k = k2
      BY <1>6, <2>2, <3>1 DEF Fresh
    <3>2. CASE k # k1 /\ k # k2
      <4>1. cache'[k] = cache[k] /\ Fresh(cache[k]) /\ cache[k].source = k[1] /\ cache[k].path = Resolved(k[1], k[2])
        BY <1>6, <2>3, <3>2 DEF BrowserInv, CacheOK, ListingsFresh
      <4>2. <<cache[k].source, cache[k].path>> # <<c.source, l.path>>
        <5>1. SUFFICES ASSUME k[1] = c.source, Resolved(k[1], k[2]) = l.path  PROVE FALSE
          BY <4>1
        <5>2. k = Key(k[1], k[2]) /\ k[1] \in Sources /\ k[2] \in Paths
          BY DEF Keys, Key
        <5>3. k[2] # l.path
          BY <1>4, <3>2, <5>1, <5>2 DEF k2
        <5>4. k[2] = NoPath /\ Login[k[1]] = l.path
          BY <5>1, <5>3 DEF Resolved
        <5>5. cache[Key(c.source, NoPath)] # None
          BY <1>6, <2>3, <3>2, <5>1, <5>2, <5>4
        <5>9. Key(c.source, Login[c.source]) = k2
          BY <5>1, <5>4 DEF k2
        <5>10. cache[Key(c.source, Login[c.source])] # None
          BY <1>2, <5>5 DEF BrowserInv, CacheOK
        <5>6. cache[k2] # None
          BY <5>9, <5>10
        <5>7. c.path # NoPath
          BY <3>2, <5>1, <5>2, <5>4 DEF k1
        <5>8. k1 = k2
          BY <1>3, <5>7 DEF Resolved, k1, k2
        <5> QED BY <1>5, <5>6, <5>8
      <4>3. PICK m : m = cache[k]
        OBVIOUS
      <4>4. <<m.source, m.path>> \in missed => <<m.source, m.path>> \in missed'
        BY <1>1, <4>2, <4>3
      <4>5. UNCHANGED <<disk, tasks, handled>> /\ Fresh(m) /\ cache'[k] = m
        BY <1>1, <4>1, <4>3
      <4> QED BY <4>4, <4>5 DEF Fresh
    <3> QED BY <3>1, <3>2
  <2>4. \A e \in browserCalls' : e.live => e.served = None
    BY <1>2, <1>12 DEF BrowserCallsOK, CallTyped
  <2> QED BY <1>1, <2>2, <2>3, <2>4 DEF ListingsFresh
<1> QED BY <1>2, <1>7, <1>8, <1>9, <1>10, <1>11, <1>13, <1>14, <1>15, <1>16 DEF BrowserInv

LEMMA SearchArrivesKeeps ==
  ASSUME BrowserInv, NEW c \in browserCalls, SearchArrives(c)
  PROVE  BrowserInv'
<1> DEFINE f == Found(c.source, c.path)
<1>1. /\ ~effect /\ c.kind = "search" /\ c.live /\ browserCalls' = browserCalls \ {c} /\ entries' = f
      /\ loading' = FALSE /\ searching' = FALSE /\ kind' = IF kind = "search" THEN None ELSE kind
      /\ UNCHANGED <<configured, disk, tasks, events, active, sources, sourceID, path, effect, loadKey, loaded, cache>>
      /\ UNCHANGED <<loadingSources, searchActive, canceled, error, handled, asked, missed, eclipsed>>
  BY DEF SearchArrives, AnswerOf, Over, outside, place, browserHistory
<1>2. /\ BrowserCallsOK(browserCalls)' /\ \A k : Given(k, browserCalls') <=> (Given(k, browserCalls) /\ k # "search")
      /\ Given("search", browserCalls) /\ ~Given("directory", browserCalls) /\ canceled = None /\ loaded
      /\ c.source \in Sources /\ c.path \in Paths /\ loadKey \in {None, Key(c.source, c.path)}
  BY <1>1, AnsweredIs
<1>3. f \in Finds /\ f # None /\ f.what = "found" /\ f.source = c.source /\ f.path = c.path /\ <<f.source, f.path>> = Key(f.source, f.path)
  BY <1>2, NoneIs DEF Found, Finds
<1> HIDE DEF f
<1>4. Types' /\ Numbered'
  BY <1>1, <1>3 DEF BrowserInv, Types, Numbered
<1>5. CacheOK'
  BY <1>1 DEF BrowserInv, CacheOK
<1>6. Spinners'
  BY <1>1, <1>2 DEF BrowserInv, Spinners
<1>7. Sourced'
  BY <1>1, <1>2, NoneIs DEF BrowserInv, Sourced
<1>8. Searches' /\ searchActive
  BY <1>1, <1>2, NoneIs DEF BrowserInv, Searches
<1>9. KeyFits'
  BY <1>1, <1>2, <1>3, <1>8 DEF BrowserInv, KeyFits
<1>10. PlaceFits'
  BY <1>1, <1>3, <1>8 DEF BrowserInv, PlaceFits
<1>11. Stuck'
  BY <1>1 DEF Stuck
<1>12. ListingsFresh'
  BY <1>1, <1>3 DEF BrowserInv, ListingsFresh, Fresh
<1> QED BY <1>2, <1>4, <1>5, <1>6, <1>7, <1>8, <1>9, <1>10, <1>11, <1>12 DEF BrowserInv

LEMMA FailsKeeps ==
  ASSUME BrowserInv, NEW c \in browserCalls, Fails(c)
  PROVE  BrowserInv'
<1>1. /\ ~effect /\ c.live /\ browserCalls' = browserCalls \ {c} /\ error' = TRUE /\ kind' = IF kind = c.kind THEN None ELSE kind
      /\ c.kind = "sources" => loadingSources' = FALSE /\ UNCHANGED <<loading, searching, entries>>
      /\ c.kind # "sources" => /\ loading' = FALSE /\ searching' = (searching /\ c.kind # "search")
                               /\ entries' = None /\ UNCHANGED loadingSources
      /\ events' = events \/ events' = events + 1
      /\ UNCHANGED <<configured, disk, tasks, active, sources, sourceID, path, effect, loadKey, loaded, cache>>
      /\ UNCHANGED <<searchActive, canceled, handled, asked, missed, eclipsed>>
  BY DEF Fails, Over, Event, place, browserHistory
<1>2. /\ BrowserCallsOK(browserCalls)' /\ \A k : Given(k, browserCalls') <=> (Given(k, browserCalls) /\ k # c.kind)
      /\ Given(c.kind, browserCalls) /\ canceled = None /\ (c.kind = "directory" => ~Given("search", browserCalls))
      /\ (c.kind = "search" => ~Given("directory", browserCalls)) /\ (c.kind # "sources" => loaded)
      /\ c.kind \in {"sources", "directory", "search"}
  BY <1>1, AnsweredIs DEF CallTyped, CallSet
<1>3. Types' /\ Numbered'
  <2>1. Numbered'
    BY <1>1 DEF BrowserInv, Types, Numbered, TaskSet
  <2>2. error' \in BOOLEAN /\ loadingSources' \in BOOLEAN /\ loading' \in BOOLEAN /\ searching' \in BOOLEAN
    BY <1>1 DEF BrowserInv, Types
  <2>3. kind' \in {"sources", "directory", "search", None} /\ entries' \in Listings \cup Finds \cup {None} /\ events' \in Nat
    BY <1>1 DEF BrowserInv, Types
  <2> QED BY <1>1, <2>1, <2>2, <2>3 DEF BrowserInv, Types
<1>4. CacheOK'
  BY <1>1 DEF BrowserInv, CacheOK
<1>5. Spinners'
  <2>1. loadingSources' <=> Given("sources", browserCalls')
    BY <1>1, <1>2 DEF BrowserInv, Spinners
  <2>2. searching' <=> Given("search", browserCalls')
    <3>1. (searching <=> Given("search", browserCalls)) /\ searching \in BOOLEAN
      BY DEF BrowserInv, Types, Spinners
    <3>2. CASE c.kind = "search"
      BY <1>1, <1>2, <3>2
    <3>3. CASE c.kind = "sources"
      BY <1>1, <1>2, <3>1, <3>3
    <3>4. CASE c.kind = "directory"
      <4>1. searching' = searching
        BY <1>1, <3>1, <3>4
      <4> QED BY <1>2, <3>1, <3>4, <4>1
    <3> QED BY <1>2, <3>2, <3>3, <3>4
  <2>3. Given("directory", browserCalls') \/ Given("search", browserCalls') => loading'
    BY <1>1, <1>2 DEF BrowserInv, Spinners
  <2> QED BY <1>1, <1>2, <2>1, <2>2, <2>3 DEF BrowserInv, Spinners
<1>6. Sourced'
  <2>1. kind' = "search" => kind = "search"
    BY <1>1, NoneIs
  <2>2. loading' => loading
    BY <1>1
  <2>3. entries' = entries \/ entries' = None
    BY <1>1
  <2> QED BY <1>1, <1>2, <2>1, <2>2, <2>3 DEF BrowserInv, Sourced
<1>7. Searches'
  BY <1>1, <1>2, NoneIs DEF BrowserInv, Searches
<1>8. KeyFits'
  BY <1>1 DEF BrowserInv, KeyFits, Unsettled
<1>9. PlaceFits'
  BY <1>1 DEF BrowserInv, PlaceFits, Unsettled
<1>10. Stuck'
  BY <1>1, <1>2 DEF BrowserInv, Stuck
<1>11. ListingsFresh'
  BY <1>1 DEF BrowserInv, ListingsFresh, Fresh
<1> QED BY <1>2, <1>3, <1>4, <1>5, <1>6, <1>7, <1>8, <1>9, <1>10, <1>11 DEF BrowserInv

-----------------------------------------------------------------------------
LEMMA PathEffectKeeps ==
  ASSUME BrowserInv, PathEffect
  PROVE  BrowserInv'
<1>1. /\ effect
      /\ UNCHANGED <<configured, disk, tasks, events, active, sources, sourceID, loaded, handled, asked, missed>>
  BY DEF PathEffect, outside
<1>2. CASE /\ ~active \/ sourceID = None \/ (Entered = path /\ loadKey = Key(sourceID, path))
           /\ effect' = FALSE /\ UNCHANGED <<path, loadKey, cache, browserCalls, spinners, searchActive, entries, eclipsed>>
  <2>1. UNCHANGED <<kind, loadingSources, loading, searching, canceled, error>>
    BY <1>2 DEF spinners
  <2>9. effect' = FALSE /\ UNCHANGED <<path, loadKey, cache, searchActive, entries, eclipsed>>
    BY <1>2
  <2>10. Numbered'
    BY <1>1 DEF BrowserInv, Numbered
  <2>11. effect' \in BOOLEAN
    BY <2>9
  <2>12. UNCHANGED <<configured, disk, tasks, events, active, sources, sourceID, loaded, handled, missed>>
    BY <1>1
  <2>2. Types' /\ Numbered'
    BY <2>1, <2>9, <2>10, <2>11, <2>12 DEF BrowserInv, Types
  <2>8. BrowserCallsOK(browserCalls)' /\ CacheOK'
    <3>1. browserCalls' = browserCalls /\ cache' = cache
      BY <1>2
    <3> QED BY <3>1 DEF BrowserInv, CacheOK
  <2>3. Spinners' /\ Sourced' /\ Searches'
    BY <1>1, <1>2, <2>1 DEF BrowserInv, Spinners, Sourced, Searches
  <2>4. KeyFits'
    BY <1>1, <1>2, <2>1 DEF BrowserInv, KeyFits, Unsettled
  <2>5. PlaceFits'
    <3>1. SUFFICES ASSUME active, sourceID # None  PROVE PlaceFits'
      BY <1>1, <1>2 DEF PlaceFits
    <3>2. loadKey = Key(sourceID, path) /\ loadKey # None
      BY <1>2, <3>1, NoneIs DEF BrowserInv, Types
    <3>3. \A c \in browserCalls : c.live /\ c.kind # "sources" => c.source = sourceID /\ c.path = path
      BY <3>2 DEF BrowserInv, KeyFits, Key
    <3>4. entries # None => entries.source = sourceID /\ entries.path = path
      BY <3>2 DEF BrowserInv, KeyFits, Key
    <3>5. ~Unsettled => entries # None /\ (entries.what = "found" <=> searchActive)
      BY <3>2 DEF BrowserInv, KeyFits
    <3> QED BY <1>1, <1>2, <2>1, <3>2, <3>3, <3>4, <3>5 DEF PlaceFits, Unsettled
  <2>6. Stuck'
    <3>1. SUFFICES ASSUME loading, ~Given("directory", browserCalls), ~Given("search", browserCalls)  PROVE Stuck'
      BY <1>2, <2>1 DEF Stuck
    <3>2. CASE active /\ sourceID # None
      <4>1. Entered = path /\ loadKey = Key(sourceID, path) /\ loadKey # None /\ loadKey[1] = sourceID
        BY <1>2, <3>2, NoneIs DEF BrowserInv, Types, Key
      <4> QED BY <1>1, <1>2, <2>1, <3>1, <4>1 DEF BrowserInv, Stuck
    <3>3. CASE ~(active /\ sourceID # None)
      BY <1>1, <1>2, <2>1, <3>1, <3>3 DEF BrowserInv, Stuck
    <3> QED BY <3>2, <3>3
  <2>7. ListingsFresh'
    BY <1>1, <1>2 DEF BrowserInv, ListingsFresh, Fresh
  <2> QED BY <2>2, <2>3, <2>4, <2>5, <2>6, <2>7, <2>8 DEF BrowserInv
<1>3. CASE /\ active /\ sourceID # None /\ Entered # path
           /\ path' = Entered /\ UNCHANGED <<effect, loadKey, cache, browserCalls, spinners, searchActive, entries, eclipsed>>
  <2>1. UNCHANGED <<kind, loadingSources, loading, searching, canceled, error>>
    BY <1>3 DEF spinners
  <2>2. Entered \in Paths /\ Entered' = Entered
    BY <1>1, <1>3, NoneIs DEF Entered, BrowserInv, Types
  <2>3. Types' /\ Numbered' /\ BrowserCallsOK(browserCalls)' /\ CacheOK'
    BY <1>1, <1>3, <2>1, <2>2 DEF BrowserInv, Types, Numbered, BrowserCallsOK, CacheOK
  <2>4. Spinners' /\ Sourced' /\ Searches'
    BY <1>1, <1>3, <2>1 DEF BrowserInv, Spinners, Sourced, Searches
  <2>5. KeyFits'
    BY <1>1, <1>3, <2>1 DEF BrowserInv, KeyFits, Unsettled
  <2>6. PlaceFits'
    BY <1>1, <1>3 DEF PlaceFits
  <2>7. Stuck'
    BY <1>1, <1>3, <2>1, <2>2 DEF BrowserInv, Stuck
  <2>8. ListingsFresh'
    BY <1>1, <1>3 DEF BrowserInv, ListingsFresh, Fresh
  <2> QED BY <2>3, <2>4, <2>5, <2>6, <2>7, <2>8 DEF BrowserInv
<1>4. CASE active /\ sourceID # None /\ ResetAndLoad(sourceID, path, FALSE, Key(sourceID, path))
  BY <1>1, <1>4, ResetKeeps
<1> QED BY <1>2, <1>3, <1>4 DEF PathEffect

LEMMA TaskEffectKeeps ==
  ASSUME BrowserInv, NEW t \in tasks, TaskEffect(t)
  PROVE  BrowserInv'
<1> DEFINE base == Ended(browserCalls, {"search"})
           place1 == <<sourceID, path>>
           place2 == <<t.source, t.path>>
<1>1. /\ active /\ sourceID # None /\ ~effect /\ handled' = handled \cup {t}
      /\ LoadDirectory(sourceID, path, TRUE, base, loadKey) /\ searchActive' = FALSE /\ searching' = FALSE
      /\ missed' = missed \cup (IF place2 = place1 THEN {} ELSE {place2})
      /\ UNCHANGED <<configured, disk, tasks, events, active, sources, sourceID, loaded, asked>>
  BY DEF TaskEffect, TaskEffectWith, ResetAndLoad, outside
<1>2. /\ ~Given("search", base) /\ base = Ended(browserCalls, {"search"})
  BY EndedAre DEF BrowserInv
<1>3. t \in TaskSet /\ t.source \in Sources /\ t.path \in Directories /\ t.path # NoPath
  BY DEF BrowserInv, Types, TaskSet, Directories
<1> HIDE DEF base
<1>4. loadKey \in {None, Key(sourceID, path)}
  BY <1>1, HereKey
<1>5. /\ path' \in Paths /\ effect' \in BOOLEAN /\ cache' \in [Keys -> Listings \cup {None}]
      /\ entries' \in Listings \cup {None} /\ loadKey' \in Keys \cup {None} /\ kind' \in {"directory", None}
      /\ canceled' = None /\ error' \in BOOLEAN /\ eclipsed' \in BOOLEAN
      /\ loading' \in BOOLEAN /\ loadingSources' \in BOOLEAN /\ searching' \in BOOLEAN /\ searchActive' \in BOOLEAN
      /\ BrowserCallsOK(browserCalls)' /\ CacheOK' /\ Spinners' /\ Sourced' /\ Searches' /\ KeyFits' /\ PlaceFits' /\ Stuck'
      /\ \A k \in Keys : cache'[k] # None => cache'[k] = cache[k]
      /\ \A c \in browserCalls' : c.live => c.served = None
      /\ entries' = None
      /\ \A k \in Keys : cache'[k] # None =>
           <<cache[k].source, cache[k].path>> # <<sourceID, Resolved(sourceID, path)>> \/ path = NoPath
  BY <1>1, <1>2, <1>4, LoadIs
<1>6. Types' /\ Numbered'
  BY <1>1, <1>3, <1>5 DEF BrowserInv, Types, Numbered, Directories
<1>7. ListingsFresh'
  <2>1. ASSUME NEW k \in Keys, cache'[k] # None  PROVE Fresh(cache[k])'
    <3>1. PICK m : m = cache[k]
      OBVIOUS
    <3>2. cache'[k] = m /\ Fresh(m)
      BY <1>5, <2>1, <3>1 DEF BrowserInv, ListingsFresh
    <3>3. <<m.source, m.path>> = place2 => place2 # place1
      BY <1>3, <1>5, <2>1, <3>1 DEF Resolved
    <3> HIDE DEF place1
    <3>4. CASE t.source = m.source /\ t.path = m.path
      BY <1>1, <3>2, <3>3, <3>4 DEF Fresh
    <3>5. CASE ~(t.source = m.source /\ t.path = m.path)
      BY <1>1, <3>2, <3>5 DEF Fresh
    <3> QED BY <3>4, <3>5
  <2> QED BY <1>5, <2>1, NoneIs DEF ListingsFresh
<1> QED BY <1>5, <1>6, <1>7 DEF BrowserInv

-----------------------------------------------------------------------------
LEMMA SearchKeeps ==
  ASSUME BrowserInv, active, ~effect, sourceID # None, ~loadingSources, Search,
         UNCHANGED <<configured, disk, events, tasks, active, sources, sourceID, path, effect, loadKey, loaded, cache, handled, missed>>
  PROVE  BrowserInv'
<1> DEFINE others == Ended(browserCalls, {"search", "directory"})
           new == Request("search", sourceID, path)
<1>1. /\ browserCalls' = others \cup {new} /\ kind' = "search" /\ canceled' = None /\ searchActive' = TRUE
      /\ searching' = TRUE /\ loading' = TRUE /\ error' = FALSE /\ entries' = None /\ eclipsed' = FALSE
      /\ UNCHANGED loadingSources
  BY DEF Search
<1>2. /\ CallTyped(new) /\ new.live /\ new.kind = "search" /\ new.source = sourceID /\ new.path = path /\ new.served = None
  BY RequestIs DEF BrowserInv, Types
<1>3. /\ BrowserCallsOK(others) /\ \A k : Given(k, others) <=> (Given(k, browserCalls) /\ k \notin {"search", "directory"})
      /\ \A c \in others : c.live => c \in browserCalls /\ c.kind \notin {"search", "directory"}
  BY EndedAre DEF BrowserInv
<1>4. ~Given("sources", browserCalls)
  BY DEF BrowserInv, Spinners
<1>5. /\ BrowserCallsOK(browserCalls') /\ \A k : Given(k, others \cup {new}) <=> (Given(k, others) \/ k = "search")
  BY <1>1, <1>2, <1>3, AddedIs
<1>6. Given("search", browserCalls') /\ ~Given("sources", browserCalls') /\ ~Given("directory", browserCalls')
  BY <1>1, <1>3, <1>4, <1>5
<1>7. \A c \in browserCalls' : c.live => c = new
  <2>1. \A c \in others : c.live => Given(c.kind, others) /\ c.kind \in {"sources", "directory", "search"}
    BY <1>3 DEF Given, BrowserCallsOK, CallTyped, CallSet
  <2> QED BY <1>1, <1>3, <1>4, <2>1
<1> HIDE DEF others, new
<1>8. Types' /\ Numbered'
  BY <1>1 DEF BrowserInv, Types, Numbered
<1>9. CacheOK'
  BY <1>1, <1>2, <1>7 DEF BrowserInv, CacheOK
<1>10. Spinners'
  BY <1>1, <1>6 DEF BrowserInv, Spinners
<1>11. Sourced'
  BY <1>1, <1>6, NoneIs DEF BrowserInv, Sourced
<1>12. Searches'
  BY <1>1, <1>6, NoneIs DEF BrowserInv, Searches
<1>13. KeyFits' /\ PlaceFits'
  BY <1>1, <1>2, <1>7, HereKey DEF KeyFits, PlaceFits, Unsettled
<1>14. Stuck'
  BY <1>6 DEF Stuck
<1>15. ListingsFresh'
  BY <1>1, <1>2, <1>7 DEF BrowserInv, ListingsFresh, Fresh
<1> QED BY <1>1, <1>5, <1>8, <1>9, <1>10, <1>11, <1>12, <1>13, <1>14, <1>15 DEF BrowserInv

\* The window turns to another directory, which the effect will load.
LEMMA TurnKeeps ==
  ASSUME BrowserInv, active, ~effect, ~isLoading, loaded, NEW s \in Sources, NEW p \in Paths,
         browserCalls' = Ended(browserCalls, {"search"}), ~searchActive', searchActive' \in BOOLEAN, searching' = FALSE,
         entries' = None, error' = FALSE, loading' = TRUE, sourceID' = s, path' = p, effect' = TRUE,
         UNCHANGED <<loadKey, cache, kind, loadingSources, canceled, eclipsed>>,
         UNCHANGED <<configured, disk, events, tasks, active, sources, loaded, handled, missed>>,
         \/ loadKey # Key(s, Entered')
         \/ asked' = Root /\ (loadKey = None \/ HasDefault(loadKey[1]))
  PROVE  BrowserInv'
<1>1. /\ BrowserCallsOK(browserCalls)' /\ \A k : Given(k, browserCalls') <=> (Given(k, browserCalls) /\ k \notin {"search"})
      /\ \A c \in browserCalls' : c.live => c \in browserCalls
  BY EndedAre DEF BrowserInv
<1>2. s # None
  BY NoneIs
<1>3. Types' /\ Numbered'
  BY DEF BrowserInv, Types, Numbered
<1>4. CacheOK'
  BY <1>1 DEF BrowserInv, CacheOK
<1>5. Spinners'
  BY <1>1 DEF BrowserInv, Spinners
<1>6. Sourced' /\ Searches'
  BY <1>1, <1>2 DEF BrowserInv, Sourced, Searches
<1>7. KeyFits' /\ PlaceFits'
  BY <1>1 DEF BrowserInv, KeyFits, PlaceFits, Unsettled
<1>8. Stuck'
  BY <1>2 DEF Stuck, HasDefault
<1>9. ListingsFresh'
  BY <1>1 DEF BrowserInv, ListingsFresh, Fresh
<1> QED BY <1>1, <1>3, <1>4, <1>5, <1>6, <1>7, <1>8, <1>9 DEF BrowserInv
-----------------------------------------------------------------------------
(* What the user does. *)

LEMMA ChoosesMeans ==
  ASSUME BrowserInv, Chooses
  PROVE  /\ active /\ ~effect /\ ~isLoading /\ sourceID # None /\ sourceID \in Sources /\ loaded
         /\ loadKey \in {None, Key(sourceID, path)} /\ path \in Paths /\ UNCHANGED events
         /\ ~loadingSources /\ ~Given("search", browserCalls) /\ ~searching
BY HereKey DEF Chooses, Acts, Move, BrowserInv, Types, Sourced, isLoading, Spinners

LEMMA NavigateKeeps ==
  ASSUME BrowserInv, NEW p \in Directories, Navigate(p)
  PROVE  BrowserInv'
<1>1. /\ active /\ ~effect /\ ~isLoading /\ sourceID # None /\ sourceID \in Sources /\ loaded
      /\ loadKey \in {None, Key(sourceID, path)} /\ path \in Paths /\ UNCHANGED events
  BY ChoosesMeans DEF Navigate
<1>2. asked' = p /\ UNCHANGED <<configured, disk, tasks, active, sources, loaded, handled, missed>>
  BY DEF Navigate
<1>3. CASE p = path
  <2>1. ResetAndLoad(sourceID, path, FALSE, loadKey) /\ UNCHANGED sourceID
    BY <1>3 DEF Navigate
  <2> QED BY <1>1, <1>2, <2>1, ResetKeeps
<1>4. CASE p # path
  <2>1. /\ browserCalls' = Ended(browserCalls, {"search"}) /\ searchActive' = FALSE /\ searching' = FALSE
        /\ entries' = None /\ error' = FALSE /\ loading' = TRUE /\ sourceID' = sourceID /\ path' = p /\ effect' = TRUE
        /\ UNCHANGED <<loadKey, cache, kind, loadingSources, canceled, eclipsed>>
    BY <1>4 DEF Navigate, GoTo, Visit
  <2>2. p \in Paths /\ p # NoPath
    BY DEF Directories
  <2>3. \/ Entered' = p
        \/ Entered' = DefaultPath[sourceID] /\ p = Root /\ HasDefault(sourceID)
    BY <2>1, <2>2 DEF Entered, HasDefault
  <2>4. Entered' \in Paths
    BY <1>1, <2>2, <2>3, NoneIs
  <2>5. \/ loadKey # Key(sourceID, Entered')
        \/ asked' = Root /\ (loadKey = None \/ HasDefault(loadKey[1]))
    <3>1. CASE loadKey = None
      BY <1>1, <2>4, <3>1, NoneIs
    <3>2. CASE loadKey = Key(sourceID, path)
      BY <1>2, <1>4, <2>3, <3>2 DEF Key
    <3> QED BY <1>1, <3>1, <3>2
  <2> QED BY <1>1, <1>2, <2>1, <2>2, <2>5, TurnKeeps
<1> QED BY <1>3, <1>4

LEMMA SelectSourceKeeps ==
  ASSUME BrowserInv, NEW s \in Sources, SelectSource(s)
  PROVE  BrowserInv'
<1>1. /\ active /\ ~effect /\ ~isLoading /\ s \in sources /\ s # sourceID /\ UNCHANGED events
      /\ browserCalls' = Ended(browserCalls, {"search"}) /\ searchActive' = FALSE /\ searching' = FALSE
      /\ entries' = None /\ error' = FALSE /\ loading' = TRUE /\ sourceID' = s /\ path' = NoPath /\ effect' = TRUE
      /\ UNCHANGED <<loadKey, cache, kind, loadingSources, canceled, eclipsed>>
      /\ UNCHANGED <<configured, disk, tasks, active, sources, loaded, handled, missed>>
  BY DEF SelectSource, Acts, Move, Visit
<1>2. sourceID # None /\ loaded
  BY <1>1 DEF BrowserInv, Sourced
<1>3. loadKey \in {None, Key(sourceID, path)}
  BY <1>1, <1>2, HereKey
<1>4. NoPath \in Paths /\ s # None
  BY NoneIs
<1>5. Entered' \in Paths
  BY <1>1, <1>4, NoneIs DEF Entered
<1>6. loadKey # Key(s, Entered')
  <2>1. Key(s, Entered') # None
    BY <1>5, NoneIs
  <2> QED BY <1>1, <1>3, <2>1 DEF Key
<1> QED BY <1>1, <1>2, <1>4, <1>6, TurnKeeps

LEMMA ExecuteSearchKeeps == ASSUME BrowserInv, ExecuteSearch  PROVE BrowserInv'
<1>1. /\ Search
      /\ UNCHANGED <<configured, disk, tasks, active, sources, sourceID, path, effect, loadKey, loaded, cache, handled, missed>>
  BY DEF ExecuteSearch, place
<1> QED BY <1>1, ChoosesMeans, SearchKeeps DEF ExecuteSearch

LEMMA ClearSearchKeeps == ASSUME BrowserInv, ClearSearch  PROVE BrowserInv'
<1>1. /\ ResetAndLoad(sourceID, path, FALSE, loadKey)
      /\ UNCHANGED <<configured, disk, tasks, active, sources, sourceID, loaded, handled, missed>>
  BY DEF ClearSearch
<1> QED BY <1>1, ChoosesMeans, ResetKeeps DEF ClearSearch

LEMMA ReloadKeeps == ASSUME BrowserInv, ReloadCurrentView  PROVE BrowserInv'
<1>1. UNCHANGED <<configured, disk, tasks, active, sources, sourceID, loaded, handled, missed>>
  BY DEF ReloadCurrentView
<1>2. /\ active /\ ~effect /\ sourceID # None /\ ~loadingSources /\ ~Given("search", browserCalls) /\ ~searching
      /\ loadKey \in {None, Key(sourceID, path)} /\ UNCHANGED events
  BY ChoosesMeans DEF ReloadCurrentView
<1>3. CASE searchActive
  <2>1. Search /\ UNCHANGED <<path, effect, loadKey, cache>>
    BY <1>3 DEF ReloadCurrentView
  <2> QED BY <1>1, <1>2, <2>1, SearchKeeps
<1>4. CASE ~searchActive
  <2>1. LoadDirectory(sourceID, path, TRUE, browserCalls, loadKey) /\ searching' = searching /\ searchActive' = searchActive
    BY <1>4 DEF ReloadCurrentView
  <2>2. searching' \in BOOLEAN /\ searchActive' \in BOOLEAN
    BY <2>1 DEF BrowserInv, Types
  <2> QED BY <1>1, <1>2, <1>4, <2>1, <2>2, LoadKeeps
<1> QED BY <1>3, <1>4

\* Every request is given up.
LEMMA CancelKeeps ==
  ASSUME BrowserInv, Cancel, kind # None, active' \in BOOLEAN, effect' \in BOOLEAN,
         ~active' \/ (active' = active /\ effect' = effect),
         UNCHANGED <<configured, disk, tasks, events, sources, sourceID, path, loaded, cache, searchActive, entries, handled, asked, missed>>
  PROVE  BrowserInv'
<1>1. /\ browserCalls' = {} /\ kind' = None /\ loadKey' = (IF kind = "directory" THEN None ELSE loadKey)
      /\ loadingSources' = FALSE /\ loading' = FALSE /\ searching' = FALSE /\ error' = FALSE /\ canceled' = kind
      /\ eclipsed' = (eclipsed \/ (kind = "sources" /\ (loading \/ error)))
  BY DEF Cancel
<1>2. BrowserCallsOK(browserCalls)' /\ \A k : ~Given(k, browserCalls')
  BY <1>1, EmptyIs
<1>3. canceled = None /\ kind \in {"sources", "directory", "search"}
  BY DEF BrowserInv, Spinners, Types
<1>4. Types' /\ Numbered'
  <2>1. eclipsed' \in BOOLEAN /\ loadKey' \in Keys \cup {None} /\ kind' \in {"sources", "directory", "search", None}
    BY <1>1 DEF BrowserInv, Types
  <2> QED BY <1>1, <1>3, <2>1 DEF BrowserInv, Types, Numbered
<1>5. CacheOK' /\ Spinners'
  BY <1>1, <1>2 DEF BrowserInv, CacheOK, Spinners
<1>6. Sourced'
  BY <1>1, <1>2, <1>3, NoneIs DEF BrowserInv, Sourced
<1>7. Searches'
  BY <1>1, <1>2, <1>3, NoneIs DEF BrowserInv, Searches
<1>8. ~Unsettled' => ~Unsettled
  BY <1>1, <1>3, NoneIs DEF Unsettled
<1>9. loadKey' = loadKey \/ loadKey' = None
  BY <1>1
<1>10. KeyFits'
  BY <1>1, <1>8, <1>9 DEF BrowserInv, KeyFits
<1>11. PlaceFits'
  BY <1>1, <1>8, <1>9 DEF BrowserInv, PlaceFits
<1>12. Stuck'
  BY <1>1 DEF Stuck
<1>13. ListingsFresh'
  <2>1. \A l : Fresh(l)' <=> Fresh(l)
    BY DEF Fresh
  <2> QED BY <1>1, <2>1 DEF BrowserInv, ListingsFresh
<1> QED BY <1>2, <1>4, <1>5, <1>6, <1>7, <1>10, <1>11, <1>12, <1>13 DEF BrowserInv

LEMMA CancelLoadingKeeps == ASSUME BrowserInv, CancelLoading  PROVE BrowserInv'
<1>1. /\ Cancel /\ kind # None /\ active' = active /\ effect' = effect
      /\ UNCHANGED <<configured, disk, tasks, events, sources, sourceID, path, loaded, cache, searchActive, entries, handled, asked, missed>>
  BY DEF CancelLoading, Acts, Move, place
<1>2. active' \in BOOLEAN /\ effect' \in BOOLEAN
  BY <1>1 DEF BrowserInv, Types
<1> QED BY <1>1, <1>2, CancelKeeps

\* The sources are loaded again.
LEMMA LoadSourcesKeeps ==
  ASSUME BrowserInv, LoadSources, configured' \subseteq Sources, events' \in Nat, events' >= events,
         UNCHANGED <<disk, tasks, active, sources, sourceID, path, effect, loadKey, loaded, cache, searchActive, entries, handled, asked, missed>>
  PROVE  BrowserInv'
<1> DEFINE others == Ended(browserCalls, {"sources"})
           new == Request("sources", None, NoPath)
<1>1. /\ browserCalls' = others \cup {new} /\ kind' = "sources" /\ canceled' = None /\ loadingSources' = TRUE /\ error' = FALSE
      /\ eclipsed' = (eclipsed \/ error \/ canceled \in {"directory", "search"})
      /\ UNCHANGED <<loading, searching>>
  BY DEF LoadSources
<1>2. CallTyped(new) /\ new.live /\ new.kind = "sources" /\ new.served = None
  BY RequestIs, NoneIs
<1>3. /\ BrowserCallsOK(others) /\ \A k : Given(k, others) <=> (Given(k, browserCalls) /\ k \notin {"sources"})
      /\ \A c \in others : c.live => c \in browserCalls
  BY EndedAre DEF BrowserInv
<1>4. BrowserCallsOK(others \cup {new}) /\ \A k : Given(k, others \cup {new}) <=> (Given(k, others) \/ k = "sources")
  BY <1>2, <1>3, AddedIs
<1> HIDE DEF others, new
<1>5. BrowserCallsOK(browserCalls') /\ \A k : Given(k, browserCalls') <=> (Given(k, browserCalls) \/ k = "sources")
  BY <1>1, <1>3, <1>4
<1>6. \A c \in browserCalls' : c.live => c = new \/ c \in browserCalls
  BY <1>1, <1>3
<1>7. Types'
  BY <1>1 DEF BrowserInv, Types
<1>8. Numbered'
  BY DEF BrowserInv, Numbered, Types, TaskSet
<1>9. CacheOK'
  BY <1>2, <1>6 DEF BrowserInv, CacheOK
<1>10. Spinners'
  BY <1>1, <1>5 DEF BrowserInv, Spinners
<1>11. Sourced'
  BY <1>1, <1>5, NoneIs DEF BrowserInv, Sourced
<1>12. Searches'
  BY <1>1, <1>5, NoneIs DEF BrowserInv, Searches
<1>13. ~Unsettled' => ~Unsettled
  BY <1>1 DEF Unsettled
<1>14. KeyFits'
  BY <1>2, <1>6, <1>13 DEF BrowserInv, KeyFits
<1>15. PlaceFits'
  BY <1>2, <1>6, <1>13 DEF BrowserInv, PlaceFits
<1>16. Stuck'
  <2>1. Entered' = Entered
    BY DEF Entered
  <2>2. (Given("directory", browserCalls') <=> Given("directory", browserCalls)) /\ (Given("search", browserCalls') <=> Given("search", browserCalls))
    BY <1>5
  <2> QED BY <1>1, <2>1, <2>2 DEF BrowserInv, Stuck
<1>17. ListingsFresh'
  <2>1. \A l : Fresh(l)' <=> Fresh(l)
    BY DEF Fresh
  <2> QED BY <1>2, <1>6, <2>1 DEF BrowserInv, ListingsFresh
<1> QED BY <1>5, <1>7, <1>8, <1>9, <1>10, <1>11, <1>12, <1>14, <1>15, <1>16, <1>17 DEF BrowserInv
LEMMA RetryKeeps == ASSUME BrowserInv, RetryCanceledLoading  PROVE BrowserInv'
<1>1. /\ active /\ ~effect /\ ~loadingSources /\ ~loading /\ canceled # None /\ events' = events
      /\ UNCHANGED <<configured, disk, tasks, active, sources, sourceID, loaded, handled, asked, missed>>
  BY DEF RetryCanceledLoading, Acts, Move
<1>2. \A k : ~Given(k, browserCalls)
  BY <1>1 DEF BrowserInv, Spinners, Given
<1>3. ~searching /\ kind = None
  BY <1>1, <1>2 DEF BrowserInv, Spinners
<1>4. CASE canceled = "sources"
  <2>1. LoadSources /\ UNCHANGED <<path, effect, loadKey, cache, searchActive, entries>>
    BY <1>4 DEF RetryCanceledLoading
  <2>2. events' \in Nat /\ events' >= events /\ configured' \subseteq Sources
    BY <1>1 DEF BrowserInv, Types
  <2> QED BY <1>1, <2>1, <2>2, LoadSourcesKeeps
<1>5. CASE canceled = "search" /\ searchActive
  <2>1. Search /\ UNCHANGED <<path, effect, loadKey, cache>>
    BY <1>5 DEF RetryCanceledLoading
  <2>2. sourceID # None
    BY <1>5 DEF BrowserInv, Sourced
  <2> QED BY <1>1, <2>1, <2>2, SearchKeeps
<1>6. CASE canceled # "sources" /\ ~(canceled = "search" /\ searchActive)
  <2>1. IF sourceID = None
        THEN canceled' = None /\ error' = FALSE
             /\ UNCHANGED <<path, effect, loadKey, cache, browserCalls, kind, loadingSources, loading, searching, searchActive, entries, eclipsed>>
        ELSE LoadDirectory(sourceID, path, FALSE, browserCalls, loadKey) /\ UNCHANGED <<searching, searchActive>>
    BY <1>6 DEF RetryCanceledLoading
  <2>2. canceled \in {"directory", "search"} /\ ~searchActive
    BY <1>1, <1>6 DEF BrowserInv, Types, Searches
  <2>3. CASE sourceID # None
    <3>1. searching' \in BOOLEAN /\ searchActive' \in BOOLEAN /\ ~searching' /\ ~searchActive'
      BY <1>3, <2>1, <2>2, <2>3 DEF BrowserInv, Types
    <3>2. loadKey \in {None, Key(sourceID, path)}
      BY <1>1, <2>3, HereKey
    <3> QED BY <1>1, <1>2, <2>1, <2>3, <3>1, <3>2, LoadKeeps
  <2>4. CASE sourceID = None
    <3>1. canceled' = None /\ error' = FALSE
          /\ UNCHANGED <<path, effect, loadKey, cache, browserCalls, kind, loadingSources, loading, searching, searchActive, entries, eclipsed>>
      BY <2>1, <2>4
    <3>2. loadKey = None
      BY <2>2, <2>4 DEF BrowserInv, Sourced, Searches
    <3>3. Types' /\ Numbered' /\ BrowserCallsOK(browserCalls)'
      BY <1>1, <3>1 DEF BrowserInv, Types, Numbered
    <3>4. CacheOK' /\ Spinners' /\ Sourced' /\ Searches'
      BY <1>1, <1>2, <2>4, <3>1, NoneIs DEF BrowserInv, CacheOK, Spinners, Sourced, Searches
    <3>5. KeyFits' /\ PlaceFits' /\ Stuck'
      BY <1>1, <1>2, <2>4, <3>1, <3>2 DEF KeyFits, PlaceFits, Stuck
    <3>6. ListingsFresh'
      BY <1>1, <3>1 DEF BrowserInv, ListingsFresh, Fresh
    <3> QED BY <3>3, <3>4, <3>5, <3>6 DEF BrowserInv
  <2> QED BY <2>3, <2>4
<1> QED BY <1>4, <1>5, <1>6

\* The window comes to the front or goes to the back, and goes on as it was.
LEMMA TurnedKeeps ==
  ASSUME BrowserInv, ~effect, effect' = TRUE, active' \in BOOLEAN, active' # active,
         UNCHANGED <<configured, disk, tasks, events, browserCalls, sources, sourceID, path, loadKey, loaded, cache, spinners, searchActive, entries, handled, browserHistory>>
  PROVE  BrowserInv'
<1>1. /\ UNCHANGED <<configured, disk, tasks, events, sources, sourceID, path, loadKey, loaded, cache>>
      /\ UNCHANGED <<kind, loadingSources, loading, searching, canceled, error, searchActive, entries, handled, asked, missed, eclipsed>>
  BY DEF spinners, browserHistory
<1>2. browserCalls' = browserCalls
  OBVIOUS
<1>3. Types' /\ Numbered'
  BY <1>1 DEF BrowserInv, Types, Numbered
<1>4. BrowserCallsOK(browserCalls)' /\ CacheOK' /\ Spinners' /\ Sourced' /\ Searches'
  BY <1>1, <1>2 DEF BrowserInv, CacheOK, Spinners, Sourced, Searches
<1>5. KeyFits' /\ PlaceFits'
  BY <1>1, <1>2 DEF BrowserInv, KeyFits, PlaceFits, Unsettled
<1>6. Stuck'
  BY <1>1, <1>2 DEF BrowserInv, Stuck
<1>7. ListingsFresh'
  BY <1>1, <1>2 DEF BrowserInv, ListingsFresh, Fresh
<1> QED BY <1>3, <1>4, <1>5, <1>6, <1>7 DEF BrowserInv

LEMMA ActivateKeeps == ASSUME BrowserInv, Activate  PROVE BrowserInv'
<1>1. /\ ~active /\ ~effect /\ active' = TRUE /\ effect' = TRUE /\ events' = events
      /\ UNCHANGED <<configured, disk, tasks, sources, sourceID, path, loadKey, loaded, cache, entries, handled, asked, missed>>
  BY DEF Activate, Move
<1>2. CASE ~loaded
  <2> DEFINE others == Ended(browserCalls, {"sources", "search"})
             new == Request("sources", None, NoPath)
  <2>1. /\ browserCalls' = others \cup {new} /\ kind' = "sources" /\ canceled' = None /\ loadingSources' = TRUE /\ error' = FALSE
        /\ searchActive' = FALSE /\ searching' = FALSE /\ UNCHANGED <<loading, eclipsed>>
    BY <1>2 DEF Activate
  <2>2. sourceID = None /\ loadKey = None /\ ~loading /\ entries = None /\ ~Given("directory", browserCalls)
    BY <1>2 DEF BrowserInv, Sourced
  <2>3. CallTyped(new) /\ new.live /\ new.kind = "sources" /\ new.served = None
    BY RequestIs, NoneIs
  <2>4. /\ BrowserCallsOK(others) /\ \A k : Given(k, others) <=> (Given(k, browserCalls) /\ k \notin {"sources", "search"})
        /\ \A c \in others : c.live => c \in browserCalls /\ c.kind \notin {"sources", "search"}
    BY EndedAre DEF BrowserInv
  <2>5. BrowserCallsOK(others \cup {new}) /\ \A k : Given(k, others \cup {new}) <=> (Given(k, others) \/ k = "sources")
    BY <2>3, <2>4, AddedIs
  <2>6. \A c \in others : ~c.live
    BY <2>2, <2>4 DEF Given, BrowserCallsOK, CallTyped, CallSet
  <2> HIDE DEF others, new
  <2>7. /\ BrowserCallsOK(browserCalls') /\ Given("sources", browserCalls') /\ ~Given("directory", browserCalls') /\ ~Given("search", browserCalls')
        /\ \A c \in browserCalls' : c.live => c = new
    BY <2>1, <2>2, <2>4, <2>5, <2>6
  <2>8. Types' /\ Numbered'
    BY <1>1, <2>1 DEF BrowserInv, Types, Numbered
  <2>9. CacheOK'
    BY <1>1, <2>3, <2>7 DEF BrowserInv, CacheOK
  <2>10. Spinners'
    BY <2>1, <2>7 DEF BrowserInv, Spinners
  <2>11. Sourced' /\ Searches'
    BY <1>1, <2>1, <2>2, <2>7, NoneIs DEF BrowserInv, Sourced, Searches
  <2>12. KeyFits' /\ PlaceFits' /\ Stuck'
    BY <1>1, <2>1, <2>2, <2>3, <2>7 DEF KeyFits, PlaceFits, Stuck
  <2>13. ListingsFresh'
    BY <1>1, <2>2, <2>3, <2>7 DEF BrowserInv, ListingsFresh, Fresh
  <2> QED BY <2>7, <2>8, <2>9, <2>10, <2>11, <2>12, <2>13 DEF BrowserInv
<1>3. CASE loaded
  <2>1. UNCHANGED <<configured, disk, tasks, events, browserCalls, sources, sourceID, path, loadKey, loaded, cache, spinners, searchActive, entries, handled, browserHistory>>
    BY <1>3 DEF Activate, Move, browserHistory
  <2> QED BY <1>1, <2>1, TurnedKeeps
<1> QED BY <1>2, <1>3

LEMMA DeactivateKeeps == ASSUME BrowserInv, Deactivate  PROVE BrowserInv'
<1>1. /\ active /\ ~effect /\ active' = FALSE /\ effect' = TRUE /\ events' = events
      /\ UNCHANGED <<configured, disk, tasks, sources, sourceID, path, loaded, cache, searchActive, entries, handled, asked, missed>>
  BY DEF Deactivate, Move
<1>2. CASE kind # None
  <2>1. Cancel
    BY <1>2 DEF Deactivate
  <2> QED BY <1>1, <1>2, <2>1, CancelKeeps
<1>3. CASE kind = None
  <2>1. UNCHANGED <<browserCalls, spinners, loadKey, eclipsed>>
    BY <1>3 DEF Deactivate
  <2> QED BY <1>1, <2>1, TurnedKeeps DEF browserHistory
<1> QED BY <1>2, <1>3
-----------------------------------------------------------------------------
(* What happens outside the window. *)

\* Only the world changes, and what was fresh stays so.
LEMMA WorldKeeps ==
  ASSUME BrowserInv, Types', Numbered', \A l \in Listings : Fresh(l) => Fresh(l)',
         UNCHANGED <<browserCalls, active, sources, sourceID, path, effect, loadKey, loaded, cache, searchActive, entries, asked, eclipsed>>,
         UNCHANGED <<kind, loadingSources, loading, searching, canceled, error>>
  PROVE  BrowserInv'
<1>1. browserCalls' = browserCalls
  OBVIOUS
<1>2. BrowserCallsOK(browserCalls)' /\ CacheOK' /\ Spinners' /\ Sourced' /\ Searches'
  BY <1>1 DEF BrowserInv, CacheOK, Spinners, Sourced, Searches
<1>3. KeyFits' /\ PlaceFits'
  BY <1>1 DEF BrowserInv, KeyFits, PlaceFits, Unsettled
<1>4. Stuck'
  <2>1. Entered' = Entered
    BY DEF Entered
  <2> QED BY <1>1, <2>1 DEF BrowserInv, Stuck
<1>5. ListingsFresh'
  <2>1. ASSUME NEW k \in Keys, cache'[k] # None  PROVE Fresh(cache[k])'
    <3>1. PICK m : m = cache[k]
      OBVIOUS
    <3>2. m \in Listings /\ Fresh(m) /\ cache'[k] = m
      BY <2>1, <3>1 DEF BrowserInv, Types, ListingsFresh
    <3>3. Fresh(m)'
      BY <3>2
    <3> QED BY <3>2, <3>3 DEF Fresh
  <2>2. ASSUME NEW c \in browserCalls, c.live, c.served # None  PROVE Fresh(c.served)'
    <3>1. c.served \in Listings /\ Fresh(c.served)
      BY <2>2 DEF BrowserInv, BrowserCallsOK, CallTyped, CallSet, ListingsFresh
    <3> QED BY <3>1
  <2>3. ASSUME entries # None, entries.what = "listing"  PROVE Fresh(entries)'
    <3>1. PICK m : m = entries
      OBVIOUS
    <3>2. m \in Listings /\ Fresh(m) /\ entries' = m
      BY <2>3, <3>1 DEF BrowserInv, Types, ListingsFresh, Finds
    <3>3. Fresh(m)'
      BY <3>2
    <3> QED BY <3>2, <3>3 DEF Fresh
  <2> QED BY <1>1, <2>1, <2>2, <2>3 DEF ListingsFresh
<1> QED BY <1>2, <1>3, <1>4, <1>5 DEF BrowserInv

LEMMA ConfigReplacedKeeps == ASSUME BrowserInv, NEW new \in SUBSET Sources, ConfigReplaced(new)  PROVE BrowserInv'
<1>1. /\ events' = events + 1 /\ configured' = new
      /\ UNCHANGED <<disk, tasks, active, sources, sourceID, path, effect, loadKey, loaded, cache, searchActive, entries, handled, asked, missed>>
  BY DEF ConfigReplaced, Event, place
<1>2. events \in Nat /\ events' \in Nat /\ events' >= events /\ configured' \subseteq Sources
  BY <1>1 DEF BrowserInv, Types
<1>3. CASE active
  BY <1>1, <1>2, <1>3, LoadSourcesKeeps DEF ConfigReplaced
<1>4. CASE ~active
  <2>1. UNCHANGED <<browserCalls, eclipsed, kind, loadingSources, loading, searching, canceled, error>>
    BY <1>4 DEF ConfigReplaced, spinners
  <2>2. Types'
    BY <1>1, <1>2, <2>1 DEF BrowserInv, Types
  <2>3. Numbered'
    BY <1>1, <1>2 DEF BrowserInv, Numbered, Types, TaskSet
  <2>4. \A l : Fresh(l) => Fresh(l)'
    BY <1>1 DEF Fresh
  <2> QED BY <1>1, <2>1, <2>2, <2>3, <2>4, WorldKeeps
<1> QED BY <1>3, <1>4

LEMMA TaskSucceedsKeeps ==
  ASSUME BrowserInv, NEW s \in Sources, NEW p \in Directories, NEW upload \in BOOLEAN, TaskSucceeds(s, p, upload)
  PROVE  BrowserInv'
<1> DEFINE t == [number |-> events, source |-> s, path |-> p, upload |-> upload]
<1>1. /\ events' = events + 1 /\ disk' = [disk EXCEPT ![<<s, p>>] = @ + 1] /\ tasks' = tasks \cup {t}
      /\ UNCHANGED <<configured, browserCalls, active, sources, sourceID, path, effect, loadKey, loaded, cache>>
      /\ UNCHANGED <<kind, loadingSources, loading, searching, canceled, error, searchActive, entries, handled, asked, missed, eclipsed>>
  BY DEF TaskSucceeds, Event, place, spinners, browserHistory
<1>2. /\ t \in TaskSet /\ t.number = events /\ t.source = s /\ t.path = p /\ events \in Nat /\ events' \in Nat
  BY <1>1 DEF BrowserInv, Types, TaskSet
<1> HIDE DEF t
<1>3. t \notin handled
  BY <1>2 DEF BrowserInv, Numbered, Types
<1>4. Types'
  <2>1. disk' \in [Sources \X Directories -> Nat]
    BY <1>1 DEF BrowserInv, Types
  <2> QED BY <1>1, <1>2, <2>1 DEF BrowserInv, Types
<1>5. Numbered'
  BY <1>1, <1>2 DEF BrowserInv, Numbered, Types, TaskSet
<1>6. ASSUME NEW l \in Listings, Fresh(l)  PROVE Fresh(l)'
  <2>1. l.source \in Sources /\ l.path \in Directories /\ <<l.source, l.path>> \in Sources \X Directories
    BY DEF Listings
  <2>2. CASE l.source = s /\ l.path = p
    BY <1>1, <1>2, <1>3, <2>2 DEF Fresh
  <2>3. CASE ~(l.source = s /\ l.path = p)
    <3>1. disk'[<<l.source, l.path>>] = disk[<<l.source, l.path>>]
      BY <1>1, <2>1, <2>3 DEF BrowserInv, Types
    <3> QED BY <1>1, <1>6, <3>1 DEF Fresh
  <2> QED BY <2>2, <2>3
<1> QED BY <1>1, <1>4, <1>5, <1>6, WorldKeeps

LEMMA ClearTasksKeeps == ASSUME BrowserInv, ClearTasks  PROVE BrowserInv'
<1>1. /\ events' = events + 1 /\ tasks' = {}
      /\ missed' = missed \cup {<<t.source, t.path>> : t \in tasks \ handled}
      /\ UNCHANGED <<configured, disk, browserCalls, active, sources, sourceID, path, effect, loadKey, loaded, cache>>
      /\ UNCHANGED <<kind, loadingSources, loading, searching, canceled, error, searchActive, entries, handled, asked, eclipsed>>
  BY DEF ClearTasks, Event, place, spinners
<1>2. Types'
  BY <1>1 DEF BrowserInv, Types, TaskSet
<1>3. Numbered'
  BY <1>1 DEF BrowserInv, Numbered, Types, TaskSet
<1>4. ASSUME NEW l \in Listings, Fresh(l)  PROVE Fresh(l)'
  BY <1>1, <1>4 DEF Fresh
<1> QED BY <1>1, <1>2, <1>3, <1>4, WorldKeeps

-----------------------------------------------------------------------------
(* The specification. *)

LEMMA BrowserInitHolds == ASSUME BrowserInit  PROVE BrowserInv
<1> DEFINE new == Request("sources", None, NoPath)
<1>1. /\ configured = Sources /\ disk = [k \in Sources \X Directories |-> 0] /\ tasks = {} /\ browserCalls = {new} /\ events = 0
      /\ active = TRUE /\ sources = {} /\ sourceID = None /\ path = NoPath /\ effect = FALSE /\ loadKey = None /\ loaded = FALSE
      /\ cache = [k \in Keys |-> None] /\ kind = "sources" /\ loadingSources = TRUE /\ loading = FALSE /\ searching = FALSE
      /\ searchActive = FALSE /\ canceled = None /\ error = FALSE /\ entries = None /\ handled = {}
      /\ missed = {} /\ eclipsed = FALSE
  BY DEF BrowserInit
<1>2. CallTyped(new) /\ new.live /\ new.kind = "sources" /\ new.served = None
  BY RequestIs, NoneIs
<1> HIDE DEF new
<1>3. BrowserCallsOK(browserCalls) /\ \A k : Given(k, browserCalls) <=> k = "sources"
  BY <1>1, <1>2 DEF BrowserCallsOK, Given
<1>4. Types /\ Numbered
  BY <1>1, NoneIs DEF Types, Numbered
<1>5. \A k \in Keys : cache[k] = None
  BY <1>1
<1>6. CacheOK
  BY <1>1, <1>2, <1>5, NoneIs DEF CacheOK
<1>10. Given("sources", browserCalls) /\ ~Given("directory", browserCalls) /\ ~Given("search", browserCalls)
  BY <1>3
<1>7. Spinners /\ Sourced /\ Searches
  BY <1>1, <1>10, NoneIs DEF Spinners, Sourced, Searches
<1>8. KeyFits /\ PlaceFits /\ Stuck
  BY <1>1, <1>2 DEF KeyFits, PlaceFits, Stuck
<1>9. ListingsFresh
  BY <1>1, <1>2, <1>5 DEF ListingsFresh
<1> QED BY <1>3, <1>4, <1>6, <1>7, <1>8, <1>9 DEF BrowserInv

LEMMA StutterKeeps == ASSUME BrowserInv, UNCHANGED browserVars  PROVE BrowserInv'
<1>1. /\ UNCHANGED <<configured, disk, tasks, events, browserCalls, active, sources, sourceID, path, effect, loadKey, loaded, cache>>
      /\ UNCHANGED <<kind, loadingSources, loading, searching, canceled, error, searchActive, entries, handled, asked, missed, eclipsed>>
  BY DEF browserVars, outside, place, spinners, browserHistory
<1>2. Types' /\ Numbered'
  BY <1>1 DEF BrowserInv, Types, Numbered
<1>3. \A l : Fresh(l) => Fresh(l)'
  BY <1>1 DEF Fresh
<1> QED BY <1>1, <1>2, <1>3, WorldKeeps

LEMMA BrowserNextKeeps == ASSUME BrowserInv, [BrowserNext]_browserVars  PROVE BrowserInv'
<1>1. CASE \E c \in browserCalls : Serve(c) \/ Answer(c)
  BY <1>1, ServeKeeps, StaleAnswerKeeps, SourcesArriveKeeps, DirectoryArrivesKeeps, SearchArrivesKeeps, FailsKeeps DEF Answer
<1>2. CASE PathEffect \/ \E t \in tasks : TaskEffect(t)
  BY <1>2, PathEffectKeeps, TaskEffectKeeps
<1>3. CASE User
  BY <1>3, NavigateKeeps, SelectSourceKeeps, ExecuteSearchKeeps, ClearSearchKeeps, ReloadKeeps, CancelLoadingKeeps,
     RetryKeeps, ActivateKeeps, DeactivateKeeps DEF User
<1>4. CASE \E new \in SUBSET Sources : ConfigReplaced(new)
  BY <1>4, ConfigReplacedKeeps
<1>5. CASE \E s \in configured, p \in Directories, upload \in BOOLEAN : TaskSucceeds(s, p, upload)
  BY <1>5, TaskSucceedsKeeps DEF BrowserInv, Types
<1>6. CASE ClearTasks
  BY <1>6, ClearTasksKeeps
<1>7. CASE UNCHANGED browserVars
  BY <1>7, StutterKeeps
<1> QED BY <1>1, <1>2, <1>3, <1>4, <1>5, <1>6, <1>7 DEF BrowserNext

LEMMA BrowserInvMeans == ASSUME BrowserInv PROVE BrowserOK /\ ViewIsOfPath /\ ChangesAreShown /\ LoadingHasCause
<1>1. BrowserOK
  <2>1. ASSUME NEW k  PROVE Cardinality({c \in browserCalls : c.kind = k /\ c.live}) <= 1
    <3> DEFINE C == {c \in browserCalls : c.kind = k /\ c.live}
    <3>1. CASE C = {}
      BY <3>1, FS_EmptySet
    <3>2. CASE C # {}
      <4>1. PICK c : c \in C
        BY <3>2
      <4>2. C = {c}
        BY <4>1 DEF BrowserInv, BrowserCallsOK
      <4> QED BY <4>2, FS_Singleton
    <3> QED BY <3>1, <3>2
  <2>2. searching => loading
    BY DEF BrowserInv, Spinners
  <2>3. handled \in SUBSET [number : Nat, source : Sources, path : Directories, upload : BOOLEAN]
    BY DEF BrowserInv, Types, TaskSet
  <2>4. \A k \in Keys : cache[k] # None => cache[k].source = k[1] /\ cache[k].path = Resolved(k[1], k[2])
    BY DEF BrowserInv, CacheOK
  <2> QED BY <2>1, <2>2, <2>3, <2>4 DEF BrowserInv, Types, BrowserOK
<1>2. ViewIsOfPath
  BY NoneIs DEF ViewIsOfPath, BrowserAtRest, isLoading, BrowserInv, PlaceFits, Unsettled
<1>3. ChangesAreShown
  <2>1. SUFFICES ASSUME BrowserAtRest, entries # None, entries.what = "listing", <<sourceID, path>> \notin missed
                 PROVE  entries.version = disk[<<sourceID, path>>]
    BY DEF ChangesAreShown
  <2>2. entries.source = sourceID /\ entries.path = path /\ Fresh(entries)
    BY <2>1 DEF BrowserAtRest, BrowserInv, PlaceFits, ListingsFresh
  <2>3. ~\E t \in tasks \ handled : t.source = sourceID /\ t.path = path
    BY <2>1 DEF BrowserAtRest, Concerns
  <2> QED BY <2>1, <2>2, <2>3 DEF Fresh
<1>4. LoadingHasCause
  BY DEF LoadingHasCause, Live, Given, RootIsDefault, HasDefault, BrowserInv, Spinners, Stuck
<1> QED BY <1>1, <1>2, <1>3, <1>4

\* The inductive invariant.
LEMMA BrowserInvariance == BrowserSpec => []BrowserInv
BY BrowserInitHolds, BrowserNextKeeps, PTL DEF BrowserSpec

\* The variables have the values the code gives them; of each kind at most one
\* request counts (the request numbers of useRemoteFileBrowser.ts).
THEOREM BrowserTypes == BrowserSpec => []BrowserOK
BY BrowserInvariance, BrowserInvMeans, PTL

\* At rest the entries shown are a listing of the source and path shown above
\* them, or a search in it, whatever answer came late (loadDirectory,
\* executeSearch and cancelLoading in useRemoteFileBrowser.ts).
THEOREM EntriesOfPath == BrowserSpec => []ViewIsOfPath
BY BrowserInvariance, BrowserInvMeans, PTL

\* A listing shown at rest is the present one, though listings are cached: the
\* effects that follow the tasks reload what a task has changed
\* (SshFilesTool.tsx), or the directory is in missed.
THEOREM ChangesShown == BrowserSpec => []ChangesAreShown
BY BrowserInvariance, BrowserInvMeans, PTL

\* A spinner turns only while a request or an effect will stop it, but for the
\* root of a source with a default path (navigate in useRemoteFileBrowser.ts).
THEOREM LoadingEnds == BrowserSpec => []LoadingHasCause
BY BrowserInvariance, BrowserInvMeans, PTL

-----------------------------------------------------------------------------
(***************************************************************************)
(* The logs of services.  Two of the properties speak of rest only, so the *)
(* invariant says on which way what the window lacks comes to it: a change *)
(* of a monitor by an event or in an answer (ListFits, LoadFits), a line   *)
(* by an event or in the answer to a question that is put again (LinesFit, *)
(* QueryFits).  Commands says which commands run for which monitors.       *)
(***************************************************************************)
\* What a run of ensureSelectionMonitors, or of the effect on the picks, has.
FlowOK(f) ==
  /\ f \in [place : {f.place}, wanted : Seq(Resources), kept : {f.kept}, listed : {f.listed}, number : {f.number},
            todo : Seq(Resources), held : Nat, out : [Resources -> States \cup {Nil, "failed"}], again : BOOLEAN,
            victim : {f.victim}]
  /\ IsInjective(f.wanted) /\ IsInjective(f.todo) /\ Range(f.todo) \subseteq Range(f.wanted)
  /\ \A i \in Range(f.todo) : f.out[i] \notin States
  /\ f.victim # Nil => f.todo = <<>>

ServiceTypes ==
  /\ starts \in Nat /\ sequence \in Nat
  /\ monitors \in [Resources -> {Nil} \cup Monitors]
  /\ streams \subseteq [id : Resources, run : Nat, canceled : BOOLEAN]

WindowTypes ==
  /\ logWire \in Seq({Nil} \cup SUBSET Resources)
  /\ list \in [Resources -> States \cup {Nil}]
  /\ load \in {Nil} \cup Answers
  /\ picked \in Seq(Resources) /\ IsInjective(picked)
  /\ \A f \in flows : FlowOK(f)
  /\ query \in {Nil} \cup Queries
  /\ lines \subseteq Resources \X Nat

\* A command that has not been cancelled is the one of its monitor, which
\* is listed as monitoring, and each such monitor has one.
Following == {i \in Resources : Monitoring(i)}
Commands ==
  /\ \A i \in Resources : monitors[i] # Nil => monitors[i].run \in 1..starts
  /\ \A s \in streams : s.run \in 1..starts
  /\ \A s, t \in streams : s.run = t.run => s = t
  /\ \A s \in streams : IF s.canceled THEN ~Current(s) ELSE Current(s) /\ Monitoring(s.id)
  /\ \A i \in Resources : Monitoring(i) => \E s \in streams : s.id = i /\ Current(s) /\ ~s.canceled
  /\ IsFiniteSet(Following) /\ Cardinality(Following) <= MaxActive

\* How a change of a monitor gets to the list: an event, an answer under way.
StateOf(i) == IF monitors[i] = Nil THEN Nil ELSE monitors[i].state
Told == \E k \in DOMAIN logWire : logWire[k] = Nil
Pending(i) == \E f \in flows : f.victim = Nil /\ i \in Range(f.wanted) /\ f.out[i] \in States
Arriving(i) == Told \/ Pending(i)
ListFits ==
  ~discarded => \A i \in Resources \ dropped :
    \/ list[i] = StateOf(i) \/ Arriving(i)
    \/ load # Nil /\ (load.items = Nil \/ load.items[i] = StateOf(i))
LoadFits ==
  load # Nil /\ load.items # Nil =>
    \A i \in Resources : (i \in dropped /\ load.items[i] # Nil) \/ load.items[i] = StateOf(i) \/ Arriving(i)

\* How a line gets to the window: it waits to be announced, an event.
Announced(i) == (monitors[i] # Nil /\ monitors[i].news) \/ \E k \in DOMAIN logWire : i \in logWire[k]
LinesFit ==
  ~wiped => \A line \in FoundLines(ActiveIDs) :
    \/ line \in lines \/ Announced(line[1])
    \/ query # Nil /\ (query.found = Nil \/ query.dirty \/ line \in query.found)
QueryFits ==
  query # Nil =>
    /\ query.ids = ActiveIDs
    /\ query.found # Nil =>
         /\ \A line \in query.found : line[1] \in ActiveIDs
         /\ query.dirty \/ \A line \in FoundLines(ActiveIDs) : line \in query.found \/ Announced(line[1])

LogIInv ==
  /\ ServiceTypes /\ WindowTypes /\ Commands
  /\ ListFits /\ LoadFits
  /\ LinesFit /\ QueryFits /\ LinesAreOfSelection

\* Without the first of an element that is there once, a sequence has the others.
LEMMA RemoveFirstIs ==
  ASSUME NEW S, NEW s \in Seq(S), IsInjective(s), NEW e
  PROVE  RemoveFirst(s, e) \in Seq(S) /\ IsInjective(RemoveFirst(s, e))
<1> DEFINE I == {i \in 1..Len(s) : s[i] = e}
<1>1. CASE ~\E i \in 1..Len(s): s[i] = e
  BY <1>1 DEF RemoveFirst
<1>2. CASE \E i \in 1..Len(s): s[i] = e
  <2>1. I # {} /\ I \in SUBSET Nat
    BY <1>2
  <2>2. Min(I) \in I
    BY <2>1, Least DEF Min
  <2>3. SelectInSeq(s, LAMBDA v : v = e) = Min(I)
    BY <2>1 DEF SelectInSeq
  <2>4. PICK n \in 1..Len(s) : n = Min(I)
    BY <2>2
  <2>5. RemoveFirst(s, e) = SubSeq(s, 1, n-1) \o SubSeq(s, n+1, Len(s))
    BY <1>2, <2>3, <2>4 DEF RemoveFirst, RemoveAt
  <2> DEFINE t == SubSeq(s, 1, n-1) \o SubSeq(s, n+1, Len(s))
  <2>6. t \in Seq(S) /\ Len(t) = Len(s) - 1 /\ \A i \in 1..Len(t) : t[i] = IF i < n THEN s[i] ELSE s[i + 1]
    <3> DEFINE u == SubSeq(s, 1, n-1)
               w == SubSeq(s, n+1, Len(s))
    <3>1. u \in Seq(S) /\ Len(u) = n - 1 /\ \A i \in 1..(n-1) : u[i] = s[i]
      OBVIOUS
    <3>2. w \in Seq(S) /\ Len(w) = Len(s) - n /\ \A i \in 1..(Len(s)-n) : w[i] = s[n+i]
      OBVIOUS
    <3> HIDE DEF u, w
    <3>3. u \o w \in Seq(S) /\ Len(u \o w) = Len(s) - 1
      BY <3>1, <3>2
    <3>4. ASSUME NEW i \in 1..Len(u \o w) PROVE (u \o w)[i] = IF i < n THEN s[i] ELSE s[i + 1]
      <4>1. (u \o w)[i] = IF i <= Len(u) THEN u[i] ELSE w[i - Len(u)]
        BY <3>1, <3>2, <3>3, <3>4
      <4>2. CASE i < n
        BY <4>1, <4>2, <3>1, <3>4
      <4>3. CASE ~(i < n)
        <5>1. i - Len(u) \in 1..(Len(s) - n) /\ n + (i - Len(u)) = i + 1
          BY <4>3, <3>1, <3>3, <3>4
        <5> QED BY <4>1, <4>3, <5>1, <3>1, <3>2
      <4> QED BY <4>2, <4>3
    <3> QED BY <3>3, <3>4 DEF u, w
  <2> HIDE DEF t
  <2>7. ASSUME NEW a \in DOMAIN t, NEW b \in DOMAIN t, t[a] = t[b] PROVE a = b
    BY <2>6, <2>7 DEF IsInjective
  <2> QED BY <2>5, <2>6, <2>7 DEF IsInjective, t
<1> QED BY <1>1, <1>2

\* No buffer with lines, no lines.
LEMMA EmptyTotal ==
  ASSUME NEW ms, Lines(ms) = {}
  PROVE  Total(ms) = 0
<1> DEFINE Op(x) == Len(ms[x].buffer)
           f == [s \in SUBSET {} |-> 0]
           g == CHOOSE g : g = [s \in SUBSET {} |->
                  IF s = {} THEN 0 ELSE Op(CHOOSE x \in s : TRUE) + g[s \ {CHOOSE x \in s : TRUE}]]
<1>1. f = [s \in SUBSET {} |-> IF s = {} THEN 0 ELSE Op(CHOOSE x \in s : TRUE) + f[s \ {CHOOSE x \in s : TRUE}]]
  OBVIOUS
<1>2. g = [s \in SUBSET {} |-> IF s = {} THEN 0 ELSE Op(CHOOSE x \in s : TRUE) + g[s \ {CHOOSE x \in s : TRUE}]]
  BY <1>1
<1>3. g[{}] = 0
  BY <1>2
<1>4. Total(ms) = g[{}]
  BY Zenon DEF Total, MapThenSumSet, MapThenFoldSet
<1> QED BY <1>3, <1>4

\* The oldest line of all goes, or none does.
LEMMA CutAllIs ==
  ASSUME NEW ms \in [Resources -> {Nil} \cup Monitors]
  PROVE  CutAll(ms) = ms \/ \E i \in Lines(ms) : CutAll(ms) = WithoutFirst(ms, i)
<1>1. CASE ~(Total(ms) > TotalLines)
  BY <1>1 DEF CutAll
<1>2. CASE Total(ms) > TotalLines
  <2> DEFINE Heads == {Head(ms[i].buffer) : i \in Lines(ms)}
  <2>1. Lines(ms) # {}
    BY <1>2, EmptyTotal, LogBoundsAssumption
  <2>2. \A i \in Lines(ms) : Head(ms[i].buffer) \in Nat
    BY DEF Lines, Monitors
  <2>3. Heads \in SUBSET Nat /\ Heads # {}
    BY <2>1, <2>2
  <2>4. PICK x \in Heads : \A y \in Heads : x <= y
    BY <2>3, Least
  <2>5. \E i \in Lines(ms) : \A j \in Lines(ms) : Head(ms[i].buffer) <= Head(ms[j].buffer)
    BY <2>4
  <2> QED BY <1>2, <2>5 DEF CutAll
<1> QED BY <1>1, <1>2

\* Appending a line, and cutting, changes nothing but buffers, and they get no other line.
LEMMA FirstGone ==
  ASSUME NEW ms \in [Resources -> {Nil} \cup Monitors], NEW i \in Lines(ms)
  PROVE  /\ WithoutFirst(ms, i) \in [Resources -> {Nil} \cup Monitors]
         /\ \A j \in Resources :
              /\ WithoutFirst(ms, i)[j] = Nil <=> ms[j] = Nil
              /\ ms[j] # Nil =>
                   /\ WithoutFirst(ms, i)[j].state = ms[j].state /\ WithoutFirst(ms, i)[j].run = ms[j].run
                   /\ WithoutFirst(ms, i)[j].news = ms[j].news
                   /\ Range(WithoutFirst(ms, i)[j].buffer) \subseteq Range(ms[j].buffer)
<1> DEFINE m == [ms[i] EXCEPT !.buffer = Tail(@)]
<1>1. i \in Resources /\ ms[i] \in Monitors /\ ms[i].buffer \in Seq(Nat) /\ ms[i].buffer # <<>>
  BY DEF Lines, Monitors
<1>2. Tail(ms[i].buffer) \in Seq(Nat) /\ Range(Tail(ms[i].buffer)) \subseteq Range(ms[i].buffer)
  BY <1>1 DEF Range
<1>3. m \in Monitors /\ m # Nil /\ m.state = ms[i].state /\ m.run = ms[i].run /\ m.news = ms[i].news
      /\ m.buffer = Tail(ms[i].buffer)
  BY <1>1, <1>2, NoMonitorAssumption DEF Monitors
<1>4. WithoutFirst(ms, i) = [ms EXCEPT ![i] = m]
  BY DEF WithoutFirst
<1> HIDE DEF m
<1>5. \A j \in Resources : WithoutFirst(ms, i)[j] = IF j = i THEN m ELSE ms[j]
  BY <1>1, <1>4
<1>6. WithoutFirst(ms, i) \in [Resources -> {Nil} \cup Monitors]
  BY <1>3, <1>4
<1> QED BY <1>1, <1>2, <1>3, <1>5, <1>6, NoMonitorAssumption

-----------------------------------------------------------------------------
\* A step that leaves the service alone, and one that changes no state and no
\* command of a monitor.
LEMMA SameService ==
  ASSUME ServiceTypes, Commands, UNCHANGED service
  PROVE  ServiceTypes' /\ Commands'
BY DEF ServiceTypes, Commands, service, Following, Monitoring, Current

LEMMA SameMeta ==
  ASSUME ServiceTypes, Commands, UNCHANGED <<streams, starts>>,
         sequence' \in Nat, monitors' \in [Resources -> {Nil} \cup Monitors],
         \A i \in Resources :
           /\ monitors'[i] = Nil <=> monitors[i] = Nil
           /\ monitors[i] # Nil => monitors'[i].state = monitors[i].state /\ monitors'[i].run = monitors[i].run
  PROVE  /\ ServiceTypes' /\ Commands'
         /\ \A i \in Resources : StateOf(i)' = StateOf(i)
<1>1. Following' = Following
  BY DEF Following, Monitoring
<1>2. \A s \in streams : s.id \in Resources /\ (Current(s)' <=> Current(s)) /\ (Monitoring(s.id)' <=> Monitoring(s.id))
  BY DEF ServiceTypes, Current, Monitoring
<1>3. \A i \in Resources : Monitoring(i)' <=> Monitoring(i)
  BY DEF Monitoring
<1>4. ServiceTypes'
  BY DEF ServiceTypes
<1>5. Commands'
  BY <1>1, <1>2, <1>3 DEF Commands
<1> QED BY <1>4, <1>5 DEF StateOf

\* RemoveLogMonitor: the monitor goes, and its command is cancelled.
LEMMA RemoveService ==
  ASSUME ServiceTypes, Commands, NEW i, RemoveMonitor(i)
  PROVE  /\ ServiceTypes' /\ Commands'
         /\ \A j \in Resources \ {i} : monitors'[j] = monitors[j]
         /\ i \in Resources => monitors'[i] = Nil
<1>1. monitors' \in [Resources -> {Nil} \cup Monitors] /\ (\A j \in Resources \ {i} : monitors'[j] = monitors[j])
      /\ (i \in Resources => monitors'[i] = Nil)
  BY DEF RemoveMonitor, ServiceTypes
<1> DEFINE F(s) == IF s.id = i /\ Current(s) THEN Canceled(s) ELSE s
<1>2. streams' = {F(s) : s \in streams} /\ starts' = starts /\ sequence' = sequence
  BY DEF RemoveMonitor
<1>3. ASSUME NEW s \in streams
      PROVE  /\ F(s) \in [id : Resources, run : Nat, canceled : BOOLEAN] /\ F(s).id = s.id /\ F(s).run = s.run
             /\ F(s).canceled = (s.canceled \/ (s.id = i /\ Current(s)))
  BY DEF ServiceTypes, Canceled
<1> HIDE DEF F
<1>4. ServiceTypes'
  BY <1>1, <1>2, <1>3 DEF ServiceTypes
<1>5. \A j \in Resources : Monitoring(j)' <=> (j # i /\ Monitoring(j))
  BY <1>1 DEF Monitoring
<1>6. \A s \in streams : \A t : t = F(s) => (Current(t)' <=> (s.id # i /\ Current(s)))
  BY <1>1, <1>3 DEF Current, ServiceTypes
<1>7. IsFiniteSet(Following') /\ Cardinality(Following') <= MaxActive
  <2>1. Following' \in SUBSET Following
    BY <1>5 DEF Following
  <2>2. IsFiniteSet(Following') /\ Cardinality(Following') <= Cardinality(Following)
    BY <2>1, FS_Subset DEF Commands
  <2>3. Cardinality(Following) \in Nat /\ Cardinality(Following') \in Nat
    BY <2>2, FS_CardinalityType DEF Commands
  <2> QED BY <2>2, <2>3, LogBoundsAssumption DEF Commands
<1>8. \A j \in Resources : monitors'[j] # Nil => monitors'[j].run \in 1..starts'
  BY <1>1, <1>2 DEF Commands
<1>9. \A s \in streams' : s.run \in 1..starts'
  BY <1>2, <1>3 DEF Commands
<1>10. \A s, t \in streams' : s.run = t.run => s = t
  BY <1>2, <1>3 DEF Commands
<1>11. ASSUME NEW t \in streams' PROVE IF t.canceled THEN ~Current(t)' ELSE Current(t)' /\ Monitoring(t.id)'
  <2>1. PICK s \in streams : t = F(s)
    BY <1>2
  <2>2. (Current(t)' <=> (s.id # i /\ Current(s))) /\ t.id = s.id /\ t.canceled = (s.canceled \/ (s.id = i /\ Current(s)))
    BY <1>3, <1>6, <2>1
  <2>3. IF s.canceled THEN ~Current(s) ELSE Current(s) /\ Monitoring(s.id)
    BY DEF Commands
  <2>4. s.id \in Resources
    BY DEF ServiceTypes
  <2> QED BY <1>5, <2>2, <2>3, <2>4
<1>12. \A j \in Resources : Monitoring(j)' => \E s \in streams' : s.id = j /\ Current(s)' /\ ~s.canceled
  <2> SUFFICES ASSUME NEW j \in Resources, Monitoring(j)' PROVE \E s \in streams' : s.id = j /\ Current(s)' /\ ~s.canceled
    OBVIOUS
  <2>1. j # i /\ Monitoring(j)
    BY <1>5
  <2>2. PICK s \in streams : s.id = j /\ Current(s) /\ ~s.canceled
    BY <2>1 DEF Commands
  <2>3. PICK t : t = F(s)
    OBVIOUS
  <2>4. t \in streams' /\ t.id = j /\ Current(t)' /\ ~t.canceled
    BY <1>2, <1>3, <1>6, <2>1, <2>2, <2>3
  <2> QED BY <2>4
<1> QED BY <1>1, <1>4, <1>7, <1>8, <1>9, <1>10, <1>11, <1>12 DEF Commands

\* A command is started for a monitor that follows none, below the limit.
LEMMA StartService ==
  ASSUME ServiceTypes, Commands, NEW f, StartFollower(f), Head(f.todo) \in Resources
  PROVE  /\ ServiceTypes' /\ Commands'
         /\ \A j \in Resources \ {Head(f.todo)} : monitors'[j] = monitors[j]
         /\ monitors'[Head(f.todo)] # Nil /\ monitors'[Head(f.todo)].state = "monitoring"
         /\ IF monitors[Head(f.todo)] = Nil THEN monitors'[Head(f.todo)].buffer = <<>>
            ELSE monitors'[Head(f.todo)].buffer = monitors[Head(f.todo)].buffer
                 /\ monitors'[Head(f.todo)].news = monitors[Head(f.todo)].news
<1> DEFINE i == Head(f.todo)
           old == monitors[i]
           new == [state |-> "monitoring", run |-> starts + 1,
                   buffer |-> IF old = Nil THEN <<>> ELSE old.buffer,
                   news |-> IF old = Nil THEN FALSE ELSE old.news]
           c == [id |-> i, run |-> starts + 1, canceled |-> FALSE]
<1>1. /\ i \in Resources /\ ~Monitoring(i) /\ ActiveCount < MaxActive
      /\ monitors' = [monitors EXCEPT ![i] = new] /\ streams' = streams \cup {c}
      /\ starts' = starts + 1 /\ sequence' = sequence
  BY DEF StartFollower
<1>2. new \in Monitors /\ new # Nil /\ starts + 1 \in Nat
  <2>1. old # Nil => old.buffer \in Seq(Nat) /\ old.news \in BOOLEAN
    BY <1>1 DEF Monitors, ServiceTypes
  <2>2. starts + 1 \in Nat
    BY DEF ServiceTypes
  <2>3. new \in Monitors
    <3>1. CASE old = Nil
      <4>1. new = [state |-> "monitoring", run |-> starts + 1, buffer |-> <<>>, news |-> FALSE]
        BY <3>1
      <4>2. <<>> \in Seq(Nat)
        OBVIOUS
      <4> QED BY <4>1, <4>2, <2>2 DEF Monitors, States
    <3>2. CASE old # Nil
      <4>1. new = [state |-> "monitoring", run |-> starts + 1, buffer |-> old.buffer, news |-> old.news]
        BY <3>2
      <4> QED BY <4>1, <3>2, <2>1, <2>2 DEF Monitors, States
    <3> QED BY <3>1, <3>2
  <2> QED BY <2>2, <2>3, NoMonitorAssumption
<1>3. \A j \in Resources : monitors'[j] = IF j = i THEN new ELSE monitors[j]
  BY <1>1 DEF ServiceTypes
<1>4. new.state = "monitoring" /\ new.run = starts + 1 /\ c.run = starts + 1 /\ c.id = i /\ c.canceled = FALSE
      /\ c \in [id : Resources, run : Nat, canceled : BOOLEAN]
      /\ (IF old = Nil THEN new.buffer = <<>> ELSE new.buffer = old.buffer /\ new.news = old.news)
  BY <1>1, <1>2
<1> HIDE DEF new, c
<1>5. ServiceTypes'
  BY <1>1, <1>2, <1>4 DEF ServiceTypes
<1>6. Following' = Following \cup {i} /\ i \notin Following
  BY <1>1, <1>2, <1>3, <1>4 DEF Following, Monitoring
<1>7. IsFiniteSet(Following') /\ Cardinality(Following') <= MaxActive
  <2>1. Cardinality(Following) = ActiveCount /\ IsFiniteSet(Following)
    BY DEF ActiveCount, Following, Commands
  <2>2. Cardinality(Following) \in Nat
    BY <2>1, FS_CardinalityType
  <2>3. IsFiniteSet(Following \cup {i}) /\ Cardinality(Following \cup {i}) = Cardinality(Following) + 1
    BY <2>1, <1>6, FS_AddElement
  <2> QED BY <1>1, <1>6, <2>1, <2>2, <2>3, LogBoundsAssumption
<1>8. \A j \in Resources : monitors'[j] # Nil => monitors'[j].run \in 1..starts'
  BY <1>1, <1>2, <1>3, <1>4 DEF Commands, ServiceTypes
<1>9. \A s \in streams' : s.run \in 1..starts'
  BY <1>1, <1>2, <1>4 DEF Commands, ServiceTypes
<1>10. \A s \in streams : s.run # starts + 1 /\ s.run \in Nat /\ s.id \in Resources
  BY DEF Commands, ServiceTypes
<1>11. \A s, t \in streams' : s.run = t.run => s = t
  BY <1>1, <1>4, <1>10 DEF Commands
<1>12. ASSUME NEW s \in streams' PROVE IF s.canceled THEN ~Current(s)' ELSE Current(s)' /\ Monitoring(s.id)'
  <2>1. CASE s = c
    BY <2>1, <1>1, <1>2, <1>3, <1>4 DEF Current, Monitoring
  <2>2. CASE s \in streams /\ s.id # i
    BY <2>2, <1>3, <1>10 DEF Current, Monitoring, Commands
  <2>3. CASE s \in streams /\ s.id = i
    BY <2>3, <1>1, <1>2, <1>3, <1>4, <1>10 DEF Current, Monitoring, Commands
  <2> QED BY <1>1, <2>1, <2>2, <2>3
<1>13. ASSUME NEW j \in Resources, Monitoring(j)' PROVE \E s \in streams' : s.id = j /\ Current(s)' /\ ~s.canceled
  <2>1. CASE j = i
    BY <2>1, <1>1, <1>2, <1>3, <1>4 DEF Current
  <2>2. CASE j # i
    <3>1. PICK s \in streams : s.id = j /\ Current(s) /\ ~s.canceled
      BY <2>2, <1>13, <1>3 DEF Commands, Monitoring
    <3> QED BY <3>1, <2>2, <1>1, <1>3 DEF Current
  <2> QED BY <2>1, <2>2
<1>14. Commands'
  BY <1>7, <1>8, <1>9, <1>11, <1>12, <1>13 DEF Commands
<1> QED BY <1>1, <1>2, <1>3, <1>4, <1>5, <1>14

\* After the command.
LEMMA SettleService ==
  ASSUME ServiceTypes, Commands,
         NEW s \in streams, NEW state \in {"stopped", "disconnected"}, Settle(s, state)
  PROVE  /\ ServiceTypes' /\ Commands'
         /\ \A j \in Resources : (monitors[j] = Nil <=> monitors'[j] = Nil)
              /\ (monitors[j] # Nil => monitors'[j].buffer = monitors[j].buffer /\ monitors'[j].news = monitors[j].news)
         /\ UNCHANGED monitors \/ logWire' = Append(logWire, Nil)
<1>1. streams' = streams \ {s} /\ UNCHANGED <<starts, sequence>>
  BY DEF Settle
<1>2. s.id \in Resources
  BY DEF ServiceTypes
<1>3. CASE ~Current(s)
  <2>1. UNCHANGED <<monitors, logWire>>
    BY <1>3 DEF Settle
  <2>2. s.canceled
    BY <1>3 DEF Commands
  <2>3. ServiceTypes'
    BY <1>1, <2>1 DEF ServiceTypes
  <2>4. Following' = Following /\ (\A t \in streams : Current(t)' <=> Current(t)) /\ (\A j \in Resources : Monitoring(j)' <=> Monitoring(j))
        /\ (\A t \in streams : Monitoring(t.id)' <=> Monitoring(t.id))
    BY <2>1 DEF Following, Monitoring, Current
  <2>5. Commands'
    BY <1>1, <2>1, <2>2, <2>4 DEF Commands
  <2> QED BY <2>1, <2>3, <2>5
<1>4. CASE Current(s)
  <2>1. monitors' = [monitors EXCEPT ![s.id].state = state] /\ logWire' = Append(logWire, Nil)
    BY <1>4 DEF Settle
  <2>2. monitors[s.id] \in Monitors /\ monitors[s.id] # Nil
    BY <1>2, <1>4 DEF Current, ServiceTypes
  <2> DEFINE new == [monitors[s.id] EXCEPT !.state = state]
  <2>3. new \in Monitors /\ new # Nil /\ new.state = state /\ new.run = monitors[s.id].run
        /\ new.buffer = monitors[s.id].buffer /\ new.news = monitors[s.id].news
    BY <2>2, NoMonitorAssumption DEF Monitors, States
  <2>4. \A j \in Resources : monitors'[j] = IF j = s.id THEN new ELSE monitors[j]
    BY <2>1, <1>2 DEF ServiceTypes
  <2>5. monitors' = [monitors EXCEPT ![s.id] = new]
    BY <2>1
  <2> HIDE DEF new
  <2>6. ServiceTypes'
    BY <1>1, <1>2, <2>3, <2>5 DEF ServiceTypes
  <2>7. \A t \in streams : t.id \in Resources /\ (Current(t)' <=> Current(t))
    BY <2>2, <2>3, <2>4 DEF Current, ServiceTypes
  <2>8. \A j \in Resources : Monitoring(j)' <=> (j # s.id /\ Monitoring(j))
    BY <2>3, <2>4 DEF Monitoring
  <2>9. IsFiniteSet(Following') /\ Cardinality(Following') <= MaxActive
    <3>1. Following' \in SUBSET Following
      BY <2>8 DEF Following
    <3>2. IsFiniteSet(Following') /\ Cardinality(Following') <= Cardinality(Following)
      BY <3>1, FS_Subset DEF Commands
    <3>3. Cardinality(Following) \in Nat /\ Cardinality(Following') \in Nat
      BY <3>2, FS_CardinalityType DEF Commands
    <3> QED BY <3>2, <3>3, LogBoundsAssumption DEF Commands
  <2>10. \A j \in Resources : monitors'[j] # Nil => monitors'[j].run \in 1..starts'
    BY <1>1, <2>2, <2>3, <2>4 DEF Commands
  <2>11. ASSUME NEW t \in streams' PROVE IF t.canceled THEN ~Current(t)' ELSE Current(t)' /\ Monitoring(t.id)'
    <3>1. t \in streams /\ t # s
      BY <1>1
    <3>2. IF t.canceled THEN ~Current(t) ELSE Current(t) /\ Monitoring(t.id)
      BY <3>1 DEF Commands
    <3>3. ~t.canceled => t.id # s.id
      BY <3>1, <3>2, <1>4 DEF Commands, Current
    <3> QED BY <3>1, <3>2, <3>3, <2>7, <2>8
  <2>12. ASSUME NEW j \in Resources, Monitoring(j)' PROVE \E t \in streams' : t.id = j /\ Current(t)' /\ ~t.canceled
    <3>1. j # s.id /\ Monitoring(j)
      BY <2>8, <2>12
    <3>2. PICK t \in streams : t.id = j /\ Current(t) /\ ~t.canceled
      BY <3>1 DEF Commands
    <3> QED BY <1>1, <2>7, <3>1, <3>2
  <2>13. Commands'
    BY <1>1, <2>9, <2>10, <2>11, <2>12 DEF Commands
  <2> QED BY <2>1, <2>2, <2>3, <2>4, <2>6, <2>13
<1> QED BY <1>3, <1>4

\* The service prints a line.
LEMMA LineService ==
  ASSUME ServiceTypes, Commands, NEW s \in streams, Line(s)
  PROVE  /\ ServiceTypes' /\ Commands'
         /\ \A i \in Resources :
              /\ StateOf(i)' = StateOf(i)
              /\ monitors'[i] # Nil =>
                   monitors[i] # Nil /\ (monitors'[i].news \/ Range(monitors'[i].buffer) \subseteq Range(monitors[i].buffer))
              /\ monitors[i] # Nil /\ monitors[i].news => monitors'[i] # Nil /\ monitors'[i].news
<1> DEFINE old == monitors[s.id]
           new == [old EXCEPT !.buffer = Append(@, sequence + 1), !.news = TRUE]
           m0 == [monitors EXCEPT ![s.id] = new]
           m1 == Cut(m0, s.id)
           m2 == CutAll(m1)
           M == [Resources -> {Nil} \cup Monitors]
           \* Lines are new in what has news.
           After(m) ==
             /\ m \in M
             /\ \A j \in Resources :
                  /\ m[j] = Nil <=> monitors[j] = Nil
                  /\ monitors[j] # Nil =>
                       /\ m[j].state = monitors[j].state /\ m[j].run = monitors[j].run
                       /\ monitors[j].news => m[j].news
                       /\ m[j].news \/ Range(m[j].buffer) \subseteq Range(monitors[j].buffer)
<1>1. s.id \in Resources /\ old \in Monitors /\ old # Nil /\ sequence + 1 \in Nat
  BY DEF Line, Current, ServiceTypes
<1>2. new \in Monitors /\ new # Nil /\ new.state = old.state /\ new.run = old.run /\ new.news = TRUE
  <2>1. Append(old.buffer, sequence + 1) \in Seq(Nat)
    BY <1>1 DEF Monitors
  <2> QED BY <1>1, <2>1, NoMonitorAssumption DEF Monitors
<1>3. monitors' = m2 /\ UNCHANGED <<streams, starts>> /\ sequence' = sequence + 1
  <2>1. m0 = [monitors EXCEPT ![s.id].buffer = Append(@, sequence + 1), ![s.id].news = TRUE]
    BY <1>1 DEF ServiceTypes, Monitors
  <2> QED BY <2>1 DEF Line
<1>4. After(m0)
  BY <1>1, <1>2 DEF ServiceTypes
<1>5. ASSUME NEW m, After(m), NEW i \in Lines(m) PROVE After(WithoutFirst(m, i))
  <2> DEFINE w == WithoutFirst(m, i)
  <2>1. /\ w \in M
        /\ \A j \in Resources :
             /\ w[j] = Nil <=> m[j] = Nil
             /\ m[j] # Nil =>
                  /\ w[j].state = m[j].state /\ w[j].run = m[j].run /\ w[j].news = m[j].news
                  /\ Range(w[j].buffer) \subseteq Range(m[j].buffer)
    <3>1. m \in [Resources -> {Nil} \cup Monitors]
      BY <1>5
    <3> HIDE DEF After
    <3> QED BY ONLY <3>1, FirstGone, NoMonitorAssumption, i \in Lines(m), Zenon
  <2> HIDE DEF w
  <2>2. ASSUME NEW j \in Resources
        PROVE  /\ w[j] = Nil <=> monitors[j] = Nil
               /\ monitors[j] # Nil =>
                    /\ w[j].state = monitors[j].state /\ w[j].run = monitors[j].run
                    /\ monitors[j].news => w[j].news
                    /\ w[j].news \/ Range(w[j].buffer) \subseteq Range(monitors[j].buffer)
    <3>1. /\ m[j] = Nil <=> monitors[j] = Nil
          /\ monitors[j] # Nil =>
               /\ m[j].state = monitors[j].state /\ m[j].run = monitors[j].run
               /\ monitors[j].news => m[j].news
               /\ m[j].news \/ Range(m[j].buffer) \subseteq Range(monitors[j].buffer)
      BY <1>5
    <3>2. /\ w[j] = Nil <=> m[j] = Nil
          /\ m[j] # Nil =>
               /\ w[j].state = m[j].state /\ w[j].run = m[j].run /\ w[j].news = m[j].news
               /\ Range(w[j].buffer) \subseteq Range(m[j].buffer)
      BY <2>1
    <3> QED BY <3>1, <3>2
  <2>3. After(w)
    BY <2>1, <2>2
  <2> QED BY <2>3 DEF w
<1>6. After(m1)
  <2> HIDE DEF m0
  <2>1. CASE Len(m0[s.id].buffer) > BufferLines
    <3>1. m0[s.id] # Nil /\ m0[s.id] \in Monitors
      BY <1>1, <1>4
    <3>2. s.id \in Lines(m0)
      BY <1>1, <2>1, <3>1, LogBoundsAssumption DEF Lines, Monitors
    <3> HIDE DEF After
    <3> QED BY <2>1, <3>2, <1>4, <1>5 DEF Cut
  <2>2. CASE ~(Len(m0[s.id].buffer) > BufferLines)
    BY <2>2, <1>4 DEF Cut
  <2> QED BY <2>1, <2>2
<1>7. After(m2)
  <2>1. m1 \in M
    BY <1>6
  <2> HIDE DEF m1, After
  <2>2. CutAll(m1) = m1 \/ \E i \in Lines(m1) : CutAll(m1) = WithoutFirst(m1, i)
    BY <2>1, CutAllIs
  <2> QED BY <1>5, <1>6, <2>2
<1> HIDE DEF m2
<1>8. sequence' \in Nat /\ monitors' \in M /\ \A j \in Resources :
         /\ monitors'[j] = Nil <=> monitors[j] = Nil
         /\ monitors[j] # Nil => monitors'[j].state = monitors[j].state /\ monitors'[j].run = monitors[j].run
  BY <1>1, <1>3, <1>7
<1>9. ServiceTypes' /\ Commands' /\ \A i \in Resources : StateOf(i)' = StateOf(i)
  BY <1>3, <1>8, SameMeta
<1> QED BY <1>3, <1>7, <1>9

\* What was to be announced is.
LEMMA FlushService ==
  ASSUME ServiceTypes, Commands, Flush
  PROVE  /\ ServiceTypes' /\ Commands'
         /\ \A i \in Resources :
              /\ StateOf(i)' = StateOf(i)
              /\ monitors'[i] = Nil <=> monitors[i] = Nil
              /\ monitors[i] # Nil => monitors'[i].buffer = monitors[i].buffer
<1>1. ASSUME NEW i \in Resources
      PROVE  /\ monitors'[i] \in {Nil} \cup Monitors
             /\ monitors'[i] = Nil <=> monitors[i] = Nil
             /\ monitors[i] # Nil =>
                  /\ monitors'[i].state = monitors[i].state /\ monitors'[i].run = monitors[i].run
                  /\ monitors'[i].buffer = monitors[i].buffer
  <2>1. monitors'[i] = IF i \in News THEN [monitors[i] EXCEPT !.news = FALSE] ELSE monitors[i]
    BY DEF Flush
  <2>2. monitors[i] \in {Nil} \cup Monitors
    BY DEF ServiceTypes
  <2>3. CASE i \in News
    <3>1. monitors[i] \in Monitors /\ monitors[i] # Nil
      BY <2>2, <2>3 DEF News
    <3>2. [monitors[i] EXCEPT !.news = FALSE] \in Monitors
      BY <3>1 DEF Monitors
    <3> QED BY <2>1, <2>3, <3>1, <3>2, NoMonitorAssumption DEF Monitors
  <2> QED BY <2>1, <2>2, <2>3
<1>2. monitors' = [i \in Resources |-> monitors'[i]]
  BY DEF Flush
<1>3. monitors' \in [Resources -> {Nil} \cup Monitors] /\ sequence' \in Nat /\ UNCHANGED <<streams, starts>>
  BY <1>1, <1>2 DEF Flush, ServiceTypes
<1>4. ServiceTypes' /\ Commands' /\ \A i \in Resources : StateOf(i)' = StateOf(i)
  BY <1>1, <1>3, SameMeta
<1> QED BY <1>1, <1>4

\* ClearLogBuffer.
LEMMA ClearService ==
  ASSUME ServiceTypes, Commands, NEW i \in Resources, ClearBuffer(i)
  PROVE  /\ ServiceTypes' /\ Commands'
         /\ \A j \in Resources :
              /\ StateOf(j)' = StateOf(j)
              /\ j # i => monitors'[j] = monitors[j]
         /\ monitors'[i] # Nil => monitors'[i].buffer = <<>>
<1>1. CASE monitors[i] = Nil
  <2>1. UNCHANGED service
    BY <1>1 DEF ClearBuffer, service
  <2> QED BY <1>1, <2>1, SameService DEF service, StateOf
<1>2. CASE monitors[i] # Nil
  <2> DEFINE new == [monitors[i] EXCEPT !.buffer = <<>>, !.news = FALSE]
  <2>1. monitors[i] \in Monitors
    BY <1>2 DEF ServiceTypes
  <2>2. new \in Monitors /\ new # Nil /\ new.state = monitors[i].state /\ new.run = monitors[i].run /\ new.buffer = <<>>
    <3> DEFINE r == monitors[i]
               e == [r EXCEPT !.buffer = <<>>]
    <3>1. e \in Monitors /\ e.state = r.state /\ e.run = r.run /\ e.buffer = <<>>
      <4>1. <<>> \in Seq(Nat)
        OBVIOUS
      <4> QED BY <2>1, <4>1 DEF Monitors
    <3>2. new = [e EXCEPT !.news = FALSE]
      OBVIOUS
    <3> HIDE DEF e
    <3>3. new \in Monitors /\ new.state = r.state /\ new.run = r.run /\ new.buffer = <<>>
      BY <3>1, <3>2 DEF Monitors
    <3> QED BY <3>3, NoMonitorAssumption
  <2>3. monitors' = [monitors EXCEPT ![i] = new]
    <3>1. monitors' = [monitors EXCEPT ![i].buffer = <<>>, ![i].news = FALSE]
      BY <1>2 DEF ClearBuffer
    <3> QED BY <3>1 DEF ServiceTypes
  <2>4. \A j \in Resources : monitors'[j] = IF j = i THEN new ELSE monitors[j]
    BY <2>3 DEF ServiceTypes
  <2> HIDE DEF new
  <2>5. monitors' \in [Resources -> {Nil} \cup Monitors] /\ sequence' \in Nat /\ UNCHANGED <<streams, starts>>
    BY <2>2, <2>3 DEF ClearBuffer, ServiceTypes
  <2>6. ServiceTypes' /\ Commands' /\ \A j \in Resources : StateOf(j)' = StateOf(j)
    BY <1>2, <2>2, <2>4, <2>5, SameMeta
  <2> QED BY <2>2, <2>4, <2>6
<1> QED BY <1>1, <1>2

-----------------------------------------------------------------------------
\* The list of monitors.
LEMMA ListKept ==
  ASSUME ListFits, LoadFits, UNCHANGED <<list, load, discarded>>, dropped \subseteq dropped',
         \A i \in Resources : StateOf(i)' = StateOf(i) \/ Arriving(i)' \/ (i \in dropped' /\ StateOf(i)' = Nil),
         \A i \in Resources : Arriving(i) => Arriving(i)'
  PROVE  ListFits' /\ LoadFits'
<1>1. ListFits'
  BY DEF ListFits
<1>2. LoadFits'
  BY DEF LoadFits
<1> QED BY <1>1, <1>2

\* An event is sent; one is heard.
LEMMA ToldKept ==
  ASSUME WindowTypes, NEW e \in {Nil} \cup SUBSET Resources, logWire' = Append(logWire, e)
  PROVE  /\ logWire' \in Seq({Nil} \cup SUBSET Resources)
         /\ Told => Told'
         /\ e = Nil => Told'
         /\ \A i : (\E k \in DOMAIN logWire : i \in logWire[k]) => \E k \in DOMAIN logWire' : i \in logWire'[k]
         /\ \A i \in e : \E k \in DOMAIN logWire' : i \in logWire'[k]
<1>1. logWire \in Seq({Nil} \cup SUBSET Resources)
  BY DEF WindowTypes
<1>2. /\ logWire' \in Seq({Nil} \cup SUBSET Resources)
      /\ \A k \in DOMAIN logWire : k \in DOMAIN logWire' /\ logWire'[k] = logWire[k]
      /\ Len(logWire') \in DOMAIN logWire' /\ logWire'[Len(logWire')] = e
  BY <1>1
<1> QED BY <1>2 DEF Told

LEMMA HeardKept ==
  ASSUME WindowTypes, logWire # <<>>, logWire' = Tail(logWire)
  PROVE  /\ logWire' \in Seq({Nil} \cup SUBSET Resources)
         /\ Told => Told' \/ Head(logWire) = Nil
         /\ \A i : (\E k \in DOMAIN logWire : i \in logWire[k]) => i \in Head(logWire) \/ \E k \in DOMAIN logWire' : i \in logWire'[k]
<1>1. logWire \in Seq({Nil} \cup SUBSET Resources)
  BY DEF WindowTypes
<1>2. logWire' \in Seq({Nil} \cup SUBSET Resources) /\ Head(logWire) = logWire[1]
      /\ \A k \in DOMAIN logWire : k = 1 \/ (k - 1 \in DOMAIN logWire' /\ logWire'[k - 1] = logWire[k])
  BY <1>1
<1> QED BY <1>2 DEF Told

\* One resource of a call to StartLogMonitors has its answer.
LEMMA HandledFlows ==
  ASSUME WindowTypes, NEW f, InService(f), NEW r \in States \cup {"failed"}, Handled(f, Head(f.todo), r)
  PROVE  /\ \A g \in flows' : FlowOK(g)
         /\ \A i : Pending(i) => Pending(i)'
         /\ r \in States => Pending(Head(f.todo))'
<1> DEFINE i == Head(f.todo)
           g == [f EXCEPT !.todo = Tail(@), !.out[i] = r, !.held = 0]
<1>1. f \in flows /\ f.todo # <<>> /\ FlowOK(f)
  BY DEF InService, WindowTypes
<1>2. f.todo \in Seq(Resources) /\ IsInjective(f.todo) /\ Range(f.todo) \subseteq Range(f.wanted) /\ f.victim = Nil
      /\ f.out \in [Resources -> States \cup {Nil, "failed"}]
  BY <1>1 DEF FlowOK
<1>3. /\ i \in Resources /\ i \in Range(f.todo) /\ Tail(f.todo) \in Seq(Resources) /\ IsInjective(Tail(f.todo))
      /\ \A j \in Range(Tail(f.todo)) : j \in Range(f.todo) /\ j # i
  <2>1. i = f.todo[1] /\ 1 \in DOMAIN f.todo /\ Tail(f.todo) \in Seq(Resources)
        /\ \A k \in DOMAIN Tail(f.todo) : k + 1 \in DOMAIN f.todo /\ Tail(f.todo)[k] = f.todo[k + 1] /\ k \in Nat /\ k >= 1
    BY <1>1, <1>2
  <2> QED BY <2>1, <1>2 DEF IsInjective, Range
<1>4. /\ g \in [place : {f.place}, wanted : Seq(Resources), kept : {f.kept}, listed : {f.listed}, number : {f.number},
                todo : Seq(Resources), held : Nat, out : [Resources -> States \cup {Nil, "failed"}], again : BOOLEAN,
                victim : {f.victim}]
      /\ g.place = f.place /\ g.kept = f.kept /\ g.listed = f.listed /\ g.number = f.number
      /\ g.todo = Tail(f.todo) /\ g.wanted = f.wanted /\ g.victim = f.victim /\ g.out = [f.out EXCEPT ![i] = r]
  <2> DEFINE t == Tail(f.todo)
             o == [f.out EXCEPT ![i] = r]
  <2>1. o \in [Resources -> States \cup {Nil, "failed"}] /\ t \in Seq(Resources)
    BY <1>2, <1>3
  <2>2. g = [f EXCEPT !.todo = t, !.out = o, !.held = 0]
    OBVIOUS
  <2> HIDE DEF t, o, g
  <2>3. QED
    BY <1>1, <2>1, <2>2 DEF FlowOK, t, o
<1>5. \A j \in Resources : g.out[j] = IF j = i THEN r ELSE f.out[j]
  BY <1>2, <1>4
<1>6. flows' = (flows \ {f}) \cup {g}
  BY DEF Handled
<1> HIDE DEF g
<1>7. FlowOK(g)
  <2>1. g \in [place : {g.place}, wanted : Seq(Resources), kept : {g.kept}, listed : {g.listed}, number : {g.number},
            todo : Seq(Resources), held : Nat, out : [Resources -> States \cup {Nil, "failed"}], again : BOOLEAN,
            victim : {g.victim}]
    BY <1>4
  <2>2. Range(g.todo) \subseteq Range(g.wanted) /\ IsInjective(g.wanted) /\ IsInjective(g.todo) /\ g.victim = Nil
    BY <1>1, <1>2, <1>3, <1>4 DEF FlowOK
  <2>3. ASSUME NEW j \in Range(g.todo) PROVE g.out[j] \notin States
    <3>1. j \in Range(f.todo) /\ j # i /\ f.out[j] \notin States
      BY <1>1, <1>3, <1>4, <2>3 DEF FlowOK
    <3>2. j \in Resources
      BY <1>2, <3>1 DEF Range
    <3> QED BY <1>5, <3>1, <3>2
  <2> QED BY <2>1, <2>2, <2>3 DEF FlowOK
<1>8. ASSUME NEW j, Pending(j) PROVE Pending(j)'
  <2>1. PICK h \in flows : h.victim = Nil /\ j \in Range(h.wanted) /\ h.out[j] \in States
    BY <1>8 DEF Pending
  <2>2. CASE h # f
    BY <1>6, <2>1, <2>2 DEF Pending
  <2>3. CASE h = f
    <3>1. j # i /\ j \in Resources
      BY <1>1, <1>3, <2>1, <2>3 DEF FlowOK, Range
    <3> QED BY <1>4, <1>5, <1>6, <2>1, <2>3, <3>1 DEF Pending
  <2> QED BY <2>2, <2>3
<1>9. r \in States => Pending(i)'
  BY <1>2, <1>3, <1>4, <1>5, <1>6 DEF Pending
<1> QED BY <1>1, <1>6, <1>7, <1>8, <1>9 DEF WindowTypes

\* A run of ensureSelectionMonitors begins.
LEMMA BeginFlows ==
  ASSUME WindowTypes, NEW where, NEW wanted \in Seq(Resources), IsInjective(wanted), Begin(where, wanted)
  PROVE  /\ \A g \in flows' : FlowOK(g)
         /\ flows \subseteq flows'
<1> DEFINE g == [place |-> where, wanted |-> wanted, kept |-> Range(wanted) \cup Range(picked'),
                 listed |-> {i \in Resources : list[i] = "monitoring"}, number |-> logMoves + 1,
                 todo |-> wanted, held |-> 0, out |-> NoMonitors, again |-> FALSE, victim |-> Nil]
<1>1. flows' = flows \/ flows' = flows \cup {g}
  BY DEF Begin, Flow
<1>2. NoMonitors \in [Resources -> States \cup {Nil, "failed"}] /\ \A i \in Resources : NoMonitors[i] \notin States
  BY NoMonitorAssumption DEF NoMonitors
<1> DEFINE k == Range(wanted) \cup Range(picked')
           l == {i \in Resources : list[i] = "monitoring"}
           n == logMoves + 1
<1> HIDE DEF k, l, n
<1>3. g = [place |-> where, wanted |-> wanted, kept |-> k, listed |-> l, number |-> n,
           todo |-> wanted, held |-> 0, out |-> NoMonitors, again |-> FALSE, victim |-> Nil]
  BY DEF k, l, n
<1> HIDE DEF g
<1>4. FlowOK(g)
  <2>1. g.place = where /\ g.wanted = wanted /\ g.kept = k /\ g.listed = l /\ g.number = n /\ g.todo = wanted
        /\ g.out = NoMonitors /\ g.victim = Nil
    BY <1>3
  <2>2. g \in [place : {g.place}, wanted : Seq(Resources), kept : {g.kept}, listed : {g.listed}, number : {g.number},
            todo : Seq(Resources), held : Nat, out : [Resources -> States \cup {Nil, "failed"}], again : BOOLEAN,
            victim : {g.victim}]
    BY <1>2, <1>3, <2>1
  <2>3. \A i \in Range(g.todo) : i \in Resources
    BY <2>1 DEF Range
  <2> QED BY <1>2, <2>1, <2>2, <2>3 DEF FlowOK
<1> QED BY <1>1, <1>4 DEF WindowTypes

-----------------------------------------------------------------------------
\* The lines.
Holds(i) == IF monitors[i] = Nil THEN {} ELSE Range(monitors[i].buffer)

\* The lines found for some monitors are those in their buffers.
LEMMA FoundIs ==
  /\ \A ids, line : line \in FoundLines(ids) <=> \E i \in ids : \E n \in Holds(i) : line = <<i, n>>
  /\ \A ids, line : line \in FoundLines(ids)' <=> \E i \in ids : \E n \in Holds(i)' : line = <<i, n>>
<1>1. ASSUME NEW ids, NEW line PROVE line \in FoundLines(ids) <=> \E i \in ids : \E n \in Holds(i) : line = <<i, n>>
  BY DEF FoundLines, Holds
<1>2. ASSUME NEW ids, NEW line PROVE line \in FoundLines(ids)' <=> \E i \in ids : \E n \in Holds(i)' : line = <<i, n>>
  BY DEF FoundLines, Holds
<1> QED BY <1>1, <1>2

\* Nothing has changed but the buffers.
LEMMA LinesKept ==
  ASSUME LinesFit, QueryFits, LinesAreOfSelection,
         UNCHANGED <<query, lines, wiped, list, selection, picked>>,
         \A i \in Resources : Announced(i)' \/ (Holds(i)' \subseteq Holds(i) /\ (Announced(i) => Announced(i)' \/ Holds(i)' = {}))
  PROVE  LinesFit' /\ QueryFits' /\ LinesAreOfSelection'
<1>1. ActiveIDs' = ActiveIDs /\ ActiveIDs \subseteq Resources
  BY DEF ActiveIDs, Selected, Listed
<1>2. ASSUME NEW line \in FoundLines(ActiveIDs)'
      PROVE  Announced(line[1])' \/ (line \in FoundLines(ActiveIDs) /\ ~Announced(line[1]))
  <2>1. PICK i \in ActiveIDs : \E n \in Holds(i)' : line = <<i, n>>
    <3>1. \A ids : line \in FoundLines(ids)' => \E i \in ids : \E n \in Holds(i)' : line = <<i, n>>
      BY FoundIs
    <3>2. line \in UNION {{<<i, n>> : n \in Range(monitors'[i].buffer)} : i \in {i \in ActiveIDs : monitors'[i] # Nil}}
      BY <1>1, <1>2 DEF FoundLines
    <3> QED BY <3>2 DEF Holds
  <2>2. PICK n \in Holds(i)' : line = <<i, n>>
    BY <2>1
  <2>3. line[1] = i /\ i \in Resources
    BY <1>1, <2>2
  <2>4. CASE Announced(i)'
    BY <2>3, <2>4
  <2>5. CASE ~Announced(i)'
    <3>1. n \in Holds(i) /\ ~Announced(i)
      BY <2>2, <2>3, <2>5
    <3> QED BY <2>2, <2>3, <3>1, FoundIs
  <2> QED BY <2>4, <2>5
<1>3. LinesFit'
  BY <1>2 DEF LinesFit
<1>4. QueryFits'
  BY <1>1, <1>2 DEF QueryFits
<1>5. LinesAreOfSelection'
  BY <1>1 DEF LinesAreOfSelection
<1> QED BY <1>3, <1>4, <1>5

\* The effect on activeMonitorKey.
LEMMA RenderedLines ==
  ASSUME LinesFit, QueryFits, LinesAreOfSelection, Rendered, UNCHANGED <<monitors, logWire>>,
         query \in {Nil} \cup Queries
  PROVE  LinesFit' /\ QueryFits' /\ LinesAreOfSelection' /\ query' \in {Nil} \cup Queries
         /\ (lines' = lines \/ lines' = {})
<1> DEFINE ids == Selected(selection', list', picked')
<1>1. ActiveIDs' = ids /\ ids \subseteq Resources
  BY DEF ActiveIDs, Selected, Listed
<1>2. CASE ids = ActiveIDs
  <2>1. UNCHANGED <<query, lines, wiped>>
    BY <1>2 DEF Rendered
  <2>2. \A i : Announced(i)' <=> Announced(i)
    BY DEF Announced
  <2>3. FoundLines(ActiveIDs)' = FoundLines(ActiveIDs)
    BY <1>1, <1>2 DEF FoundLines
  <2>4. LinesFit' /\ QueryFits' /\ LinesAreOfSelection'
    BY <1>1, <1>2, <2>1, <2>2, <2>3 DEF LinesFit, QueryFits, LinesAreOfSelection
  <2> QED BY <2>1, <2>4
<1>3. CASE ids # ActiveIDs
  <2>1. lines' = {} /\ query' = IF ids = {} THEN Nil ELSE [ids |-> ids, found |-> Nil, dirty |-> FALSE]
    BY <1>3 DEF Rendered, Question
  <2>2. CASE ids = {}
    <3>1. query' = Nil /\ FoundLines(ActiveIDs)' = {}
      BY <1>1, <2>1, <2>2 DEF FoundLines
    <3> QED BY <2>1, <3>1 DEF LinesFit, QueryFits, LinesAreOfSelection
  <2>3. CASE ids # {}
    <3> HIDE DEF ids
    <3> DEFINE q == [ids |-> ids, found |-> Nil, dirty |-> FALSE]
    <3>2. q \in Queries
      BY <1>1 DEF Queries
    <3>1. query' \in Queries /\ query' # Nil /\ query'.ids = ids /\ query'.found = Nil
      BY <2>1, <2>3, <3>2, NoMonitorAssumption
    <3> QED BY <1>1, <2>1, <3>1 DEF LinesFit, QueryFits, LinesAreOfSelection
  <2> QED BY <2>2, <2>3
<1> QED BY <1>2, <1>3

-----------------------------------------------------------------------------
\* StartLogMonitors, one resource after the other.
LEMMA ReuseInv ==
  ASSUME LogIInv, NEW f, Reuse(f)
  PROVE  LogIInv'
<1> DEFINE n == monitors[Head(f.todo)].run
           g == [f EXCEPT !.held = n]
<1>1. f \in flows /\ f.todo # <<>> /\ FlowOK(f) /\ flows' = (flows \ {f}) \cup {g} /\ Monitoring(Head(f.todo))
  BY DEF Reuse, InService, LogIInv, WindowTypes
<1>2. UNCHANGED <<service, logWire, list, load, selection, picked, query, lines, dropped, discarded, wiped>>
  BY DEF Reuse, reading, logHistory
<1>3. n \in Nat
  <2>1. Head(f.todo) \in Resources
    BY <1>1 DEF FlowOK
  <2> QED BY <1>1, <2>1 DEF LogIInv, ServiceTypes, Monitoring, Monitors
<1> HIDE DEF n
<1>4. g \in [place : {f.place}, wanted : Seq(Resources), kept : {f.kept}, listed : {f.listed}, number : {f.number},
             todo : Seq(Resources), held : Nat, out : [Resources -> States \cup {Nil, "failed"}], again : BOOLEAN,
             victim : {f.victim}]
      /\ g.place = f.place /\ g.kept = f.kept /\ g.listed = f.listed /\ g.number = f.number
      /\ g.todo = f.todo /\ g.wanted = f.wanted /\ g.victim = f.victim /\ g.out = f.out
  BY <1>1, <1>3 DEF FlowOK
<1> HIDE DEF g
<1>5. FlowOK(g)
  <2>1. g \in [place : {g.place}, wanted : Seq(Resources), kept : {g.kept}, listed : {g.listed}, number : {g.number},
            todo : Seq(Resources), held : Nat, out : [Resources -> States \cup {Nil, "failed"}], again : BOOLEAN,
            victim : {g.victim}]
    BY <1>4
  <2> QED BY <1>1, <1>4, <2>1 DEF FlowOK
<1>6. WindowTypes'
  BY <1>1, <1>2, <1>5 DEF LogIInv, WindowTypes
<1>7. \A i : Arriving(i) => Arriving(i)'
  <2>1. Told => Told'
    BY <1>2 DEF Told
  <2>2. \A i : Pending(i) => Pending(i)'
    BY <1>1, <1>4 DEF Pending
  <2> QED BY <2>1, <2>2 DEF Arriving
<1>8. ServiceTypes' /\ Commands'
  BY <1>2, SameService DEF LogIInv
<1>9. ListFits' /\ LoadFits'
  BY <1>2, <1>7, ListKept DEF LogIInv, StateOf, service
<1>10. LinesFit' /\ QueryFits' /\ LinesAreOfSelection'
  <2>1. \A i \in Resources : (Announced(i)' <=> Announced(i)) /\ Holds(i)' = Holds(i)
    BY <1>2 DEF Announced, Holds, service
  <2> QED BY <1>2, <2>1, LinesKept DEF LogIInv
<1> QED BY <1>6, <1>8, <1>9, <1>10 DEF LogIInv

LEMMA AnsweredInv ==
  ASSUME LogIInv, NEW f, ReadState(f) \/ RefuseStart(f)
  PROVE  LogIInv'
<1>1. InService(f) /\ UNCHANGED <<service, logWire, list, load, selection, picked, query, lines, dropped, discarded, wiped>>
  BY DEF ReadState, RefuseStart, reading, logHistory
<1>2. PICK r \in States \cup {"failed"} : Handled(f, Head(f.todo), r)
  <2>1. Head(f.todo) \in Resources
    BY <1>1 DEF InService, LogIInv, WindowTypes, FlowOK
  <2>2. CASE RefuseStart(f)
    BY <2>2 DEF RefuseStart
  <2>3. CASE ReadState(f)
    BY <2>1, <2>3 DEF ReadState, LastStates, LogIInv, ServiceTypes, Monitors, States
  <2> QED BY <2>2, <2>3
<1>3. (\A g \in flows' : FlowOK(g)) /\ \A i : Pending(i) => Pending(i)'
  BY <1>1, <1>2, HandledFlows DEF LogIInv
<1>4. WindowTypes'
  BY <1>1, <1>3 DEF LogIInv, WindowTypes
<1>5. \A i : Arriving(i) => Arriving(i)'
  <2>1. Told => Told'
    BY <1>1 DEF Told
  <2> QED BY <1>3, <2>1 DEF Arriving
<1>6. ServiceTypes' /\ Commands'
  BY <1>1, SameService DEF LogIInv
<1>7. ListFits' /\ LoadFits'
  BY <1>1, <1>5, ListKept DEF LogIInv, StateOf, service
<1>8. LinesFit' /\ QueryFits' /\ LinesAreOfSelection'
  <2>1. \A i \in Resources : (Announced(i)' <=> Announced(i)) /\ Holds(i)' = Holds(i)
    BY <1>1 DEF Announced, Holds, service
  <2> QED BY <1>1, <2>1, LinesKept DEF LogIInv
<1> QED BY <1>4, <1>6, <1>7, <1>8 DEF LogIInv

LEMMA StartFollowerInv ==
  ASSUME LogIInv, NEW f, StartFollower(f)
  PROVE  LogIInv'
<1> DEFINE i == Head(f.todo)
<1>1. InService(f) /\ UNCHANGED <<logWire, list, load, selection, picked, query, lines, dropped, discarded, wiped>>
      /\ Handled(f, i, "monitoring")
  BY DEF StartFollower, reading, logHistory
<1>2. i \in Resources
  BY <1>1 DEF InService, LogIInv, WindowTypes, FlowOK
<1>3. (\A g \in flows' : FlowOK(g)) /\ (\A j : Pending(j) => Pending(j)') /\ Pending(i)'
  <2>1. "monitoring" \in States
    BY DEF States
  <2> QED BY <1>1, <2>1, HandledFlows DEF LogIInv
<1>4. WindowTypes'
  BY <1>1, <1>3 DEF LogIInv, WindowTypes
<1>5. \A j : Arriving(j) => Arriving(j)'
  <2>1. Told => Told'
    BY <1>1 DEF Told
  <2> QED BY <1>3, <2>1 DEF Arriving
<1>6. /\ ServiceTypes' /\ Commands'
      /\ \A j \in Resources \ {i} : monitors'[j] = monitors[j]
      /\ monitors'[i] # Nil
      /\ IF monitors[i] = Nil THEN monitors'[i].buffer = <<>>
         ELSE monitors'[i].buffer = monitors[i].buffer /\ monitors'[i].news = monitors[i].news
  BY <1>2, StartService DEF LogIInv
<1>7. ListFits' /\ LoadFits'
  <2>1. \A j \in Resources : StateOf(j)' = StateOf(j) \/ Arriving(j)'
    BY <1>3, <1>6 DEF StateOf, Arriving
  <2> QED BY <1>1, <1>5, <2>1, ListKept DEF LogIInv
<1>8. LinesFit' /\ QueryFits' /\ LinesAreOfSelection'
  <2>1. ASSUME NEW j \in Resources
        PROVE Holds(j)' \subseteq Holds(j) /\ (Announced(j) => Announced(j)' \/ Holds(j)' = {})
    <3>1. CASE j # i
      BY <1>1, <1>6, <3>1 DEF Announced, Holds
    <3>2. CASE j = i /\ monitors[i] = Nil
      BY <1>1, <1>6, <3>2 DEF Announced, Holds, Range
    <3>3. CASE j = i /\ monitors[i] # Nil
      BY <1>1, <1>6, <3>3 DEF Announced, Holds
    <3> QED BY <3>1, <3>2, <3>3
  <2> QED BY <1>1, <2>1, LinesKept DEF LogIInv
<1> QED BY <1>4, <1>6, <1>7, <1>8 DEF LogIInv

\* What the removal of a monitor means for the window.
LEMMA RemovedKept ==
  ASSUME LogIInv, NEW i, RemoveMonitor(i),
         UNCHANGED <<logWire, list, load, selection, picked, query, lines, discarded, wiped>>,
         \A j : Pending(j) => Pending(j)'
  PROVE  ServiceTypes' /\ Commands' /\ ListFits' /\ LoadFits' /\ LinesFit' /\ QueryFits' /\ LinesAreOfSelection'
<1>1. /\ ServiceTypes' /\ Commands'
      /\ \A j \in Resources \ {i} : monitors'[j] = monitors[j]
      /\ i \in Resources => monitors'[i] = Nil
  BY RemoveService DEF LogIInv
<1>2. dropped' = dropped \cup {i}
  BY DEF RemoveMonitor
<1>3. ListFits' /\ LoadFits'
  <2>1. \A j \in Resources : StateOf(j)' = StateOf(j) \/ (j \in dropped' /\ StateOf(j)' = Nil)
    BY <1>1, <1>2 DEF StateOf
  <2>2. \A j \in Resources : Arriving(j) => Arriving(j)'
    BY DEF Arriving, Told
  <2> QED BY <1>2, <2>1, <2>2, ListKept DEF LogIInv
<1>4. LinesFit' /\ QueryFits' /\ LinesAreOfSelection'
  <2>1. ASSUME NEW j \in Resources
        PROVE Holds(j)' \subseteq Holds(j) /\ (Announced(j) => Announced(j)' \/ Holds(j)' = {})
    <3>1. CASE j # i
      BY <1>1, <3>1 DEF Announced, Holds
    <3>2. CASE j = i
      BY <1>1, <3>2 DEF Holds
    <3> QED BY <3>1, <3>2
  <2> QED BY <2>1, LinesKept DEF LogIInv
<1> QED BY <1>1, <1>3, <1>4

\* confirmUnpick and evictAutoMonitor remove a monitor.
LEMMA UnpickRemovesInv ==
  ASSUME LogIInv, UnpickRemoves
  PROVE  LogIInv'
<1>1. RemoveMonitor(unpicking.id)
      /\ UNCHANGED <<logWire, list, load, selection, picked, flows, query, lines, discarded, wiped>>
  BY DEF UnpickRemoves, follow, reading
<1>2. \A j : Pending(j) => Pending(j)'
  BY <1>1 DEF Pending
<1>3. WindowTypes'
  BY <1>1 DEF LogIInv, WindowTypes
<1> QED BY <1>1, <1>2, <1>3, RemovedKept DEF LogIInv

LEMMA EvictInv ==
  ASSUME LogIInv, NEW f, Evict(f)
  PROVE  LogIInv'
<1> DEFINE g == [f EXCEPT !.victim = Nil, !.again = TRUE, !.todo = f.wanted, !.out = NoMonitors]
<1>1. /\ f \in flows /\ f.victim # Nil /\ FlowOK(f) /\ flows' = (flows \ {f}) \cup {g}
      /\ RemoveMonitor(f.victim) /\ UNCHANGED <<logWire, list, load, selection, picked, query, lines, discarded, wiped>>
  BY DEF Evict, LogIInv, WindowTypes, reading
<1>2. NoMonitors \in [Resources -> States \cup {Nil, "failed"}] /\ \A i \in Resources : NoMonitors[i] \notin States
  BY NoMonitorAssumption DEF NoMonitors
<1>3. g \in [place : {f.place}, wanted : Seq(Resources), kept : {f.kept}, listed : {f.listed}, number : {f.number},
             todo : Seq(Resources), held : Nat, out : [Resources -> States \cup {Nil, "failed"}], again : BOOLEAN,
             victim : {Nil}]
      /\ g.place = f.place /\ g.kept = f.kept /\ g.listed = f.listed /\ g.number = f.number
      /\ g.todo = f.wanted /\ g.wanted = f.wanted /\ g.victim = Nil /\ g.out = NoMonitors
  BY <1>1, <1>2 DEF FlowOK
<1> HIDE DEF g
<1>4. FlowOK(g)
  <2>1. g \in [place : {g.place}, wanted : Seq(Resources), kept : {g.kept}, listed : {g.listed}, number : {g.number},
            todo : Seq(Resources), held : Nat, out : [Resources -> States \cup {Nil, "failed"}], again : BOOLEAN,
            victim : {g.victim}]
    BY <1>3
  <2>2. \A i \in Range(g.todo) : g.out[i] \notin States
    BY <1>1, <1>2, <1>3 DEF FlowOK, Range
  <2> QED BY <1>1, <1>3, <2>1, <2>2 DEF FlowOK
<1>5. WindowTypes'
  BY <1>1, <1>4 DEF LogIInv, WindowTypes
<1>6. \A j : Pending(j) => Pending(j)'
  BY <1>1 DEF Pending
<1> QED BY <1>1, <1>5, <1>6, RemovedKept DEF LogIInv

\* A line comes, a command ends, lines are announced, a buffer is cleared.
LEMMA LineInv ==
  ASSUME LogIInv, NEW s \in streams, Line(s)
  PROVE  LogIInv'
<1>1. UNCHANGED <<logWire, list, load, selection, picked, flows, query, lines, dropped, discarded, wiped>>
  BY DEF Line, follow, reading, logHistory
<1>2. /\ ServiceTypes' /\ Commands'
      /\ \A i \in Resources :
           /\ StateOf(i)' = StateOf(i)
           /\ monitors'[i] # Nil =>
                monitors[i] # Nil /\ (monitors'[i].news \/ Range(monitors'[i].buffer) \subseteq Range(monitors[i].buffer))
           /\ monitors[i] # Nil /\ monitors[i].news => monitors'[i] # Nil /\ monitors'[i].news
  BY LineService DEF LogIInv
<1>3. WindowTypes'
  BY <1>1 DEF LogIInv, WindowTypes
<1>4. ListFits' /\ LoadFits'
  <2>1. \A j \in Resources : Arriving(j) => Arriving(j)'
    BY <1>1 DEF Arriving, Told, Pending
  <2> QED BY <1>1, <1>2, <2>1, ListKept DEF LogIInv
<1>5. LinesFit' /\ QueryFits' /\ LinesAreOfSelection'
  <2>1. \A i \in Resources : Announced(i)' \/ (Holds(i)' \subseteq Holds(i) /\ (Announced(i) => Announced(i)'))
    BY <1>1, <1>2 DEF Announced, Holds
  <2> QED BY <1>1, <2>1, LinesKept DEF LogIInv
<1> QED BY <1>2, <1>3, <1>4, <1>5 DEF LogIInv

LEMMA SettleInv ==
  ASSUME LogIInv, NEW s \in streams, CommandCanceled(s) \/ CommandEnds(s)
  PROVE  LogIInv'
<1>1. PICK state \in {"stopped", "disconnected"} : Settle(s, state)
  BY DEF CommandCanceled, CommandEnds
<1>2. UNCHANGED <<list, load, selection, picked, flows, query, lines, dropped, discarded, wiped>>
  BY <1>1 DEF Settle, follow, reading, logHistory
<1>3. logWire' = logWire \/ logWire' = Append(logWire, Nil)
  BY <1>1 DEF Settle
<1>4. /\ ServiceTypes' /\ Commands'
      /\ \A j \in Resources : (monitors[j] = Nil <=> monitors'[j] = Nil)
           /\ (monitors[j] # Nil => monitors'[j].buffer = monitors[j].buffer /\ monitors'[j].news = monitors[j].news)
      /\ UNCHANGED monitors \/ logWire' = Append(logWire, Nil)
  BY <1>1, SettleService DEF LogIInv
<1>5. /\ logWire' \in Seq({Nil} \cup SUBSET Resources)
      /\ Told => Told'
      /\ logWire' = Append(logWire, Nil) => Told'
      /\ \A i : (\E k \in DOMAIN logWire : i \in logWire[k]) => \E k \in DOMAIN logWire' : i \in logWire'[k]
  <2>1. CASE logWire' = logWire
    <3>1. WindowTypes
      BY DEF LogIInv
    <3>2. Told => Told'
      BY <2>1 DEF Told
    <3>3. CASE logWire' # Append(logWire, Nil)
      BY <2>1, <3>1, <3>2, <3>3 DEF WindowTypes
    <3>4. CASE logWire' = Append(logWire, Nil)
      BY <3>1, <3>4, ToldKept
    <3> QED BY <3>3, <3>4
  <2>2. CASE logWire' = Append(logWire, Nil)
    BY <2>2, ToldKept DEF LogIInv
  <2> QED BY <1>3, <2>1, <2>2
<1>6. WindowTypes'
  BY <1>2, <1>5 DEF LogIInv, WindowTypes
<1>7. ListFits' /\ LoadFits'
  <2>1. \A j \in Resources : StateOf(j)' = StateOf(j) \/ Arriving(j)'
    BY <1>4, <1>5 DEF StateOf, Arriving
  <2>2. \A j \in Resources : Arriving(j) => Arriving(j)'
    BY <1>2, <1>5 DEF Arriving, Pending
  <2> QED BY <1>2, <2>1, <2>2, ListKept DEF LogIInv
<1>8. LinesFit' /\ QueryFits' /\ LinesAreOfSelection'
  <2>1. \A i \in Resources : Holds(i)' \subseteq Holds(i) /\ (Announced(i) => Announced(i)')
    BY <1>4, <1>5 DEF Announced, Holds
  <2> QED BY <1>2, <2>1, LinesKept DEF LogIInv
<1> QED BY <1>4, <1>6, <1>7, <1>8 DEF LogIInv

LEMMA FlushInv ==
  ASSUME LogIInv, Flush
  PROVE  LogIInv'
<1>1. UNCHANGED <<list, load, selection, picked, flows, query, lines, dropped, discarded, wiped>>
      /\ logWire' = Append(logWire, News) /\ News \in SUBSET Resources
  BY DEF Flush, follow, reading, logHistory, News
<1>2. /\ ServiceTypes' /\ Commands'
      /\ \A i \in Resources :
           /\ StateOf(i)' = StateOf(i)
           /\ monitors'[i] = Nil <=> monitors[i] = Nil
           /\ monitors[i] # Nil => monitors'[i].buffer = monitors[i].buffer
  BY FlushService DEF LogIInv
<1>3. /\ logWire' \in Seq({Nil} \cup SUBSET Resources)
      /\ Told => Told'
      /\ \A i : (\E k \in DOMAIN logWire : i \in logWire[k]) => \E k \in DOMAIN logWire' : i \in logWire'[k]
      /\ \A i \in News : \E k \in DOMAIN logWire' : i \in logWire'[k]
  BY <1>1, ToldKept DEF LogIInv
<1>4. WindowTypes'
  BY <1>1, <1>3 DEF LogIInv, WindowTypes
<1>5. ListFits' /\ LoadFits'
  <2>1. \A j \in Resources : Arriving(j) => Arriving(j)'
    BY <1>1, <1>3 DEF Arriving, Pending
  <2> QED BY <1>1, <1>2, <2>1, ListKept DEF LogIInv
<1>6. LinesFit' /\ QueryFits' /\ LinesAreOfSelection'
  <2>1. \A i \in Resources : Holds(i)' \subseteq Holds(i) /\ (Announced(i) => Announced(i)')
    BY <1>2, <1>3 DEF Announced, Holds, News
  <2> QED BY <1>1, <2>1, LinesKept DEF LogIInv
<1> QED BY <1>2, <1>4, <1>5, <1>6 DEF LogIInv

LEMMA ClearBufferInv ==
  ASSUME LogIInv, NEW i \in Resources, ClearBuffer(i)
  PROVE  LogIInv'
<1>1. UNCHANGED <<logWire, list, load, selection, picked, flows, query, lines, dropped, discarded, wiped>>
  BY DEF ClearBuffer, follow, logHistory
<1>2. /\ ServiceTypes' /\ Commands'
      /\ \A j \in Resources :
           /\ StateOf(j)' = StateOf(j)
           /\ j # i => monitors'[j] = monitors[j]
      /\ monitors'[i] # Nil => monitors'[i].buffer = <<>>
  BY ClearService DEF LogIInv
<1>3. WindowTypes'
  BY <1>1 DEF LogIInv, WindowTypes
<1>4. ListFits' /\ LoadFits'
  <2>1. \A j \in Resources : Arriving(j) => Arriving(j)'
    BY <1>1 DEF Arriving, Told, Pending
  <2> QED BY <1>1, <1>2, <2>1, ListKept DEF LogIInv
<1>5. LinesFit' /\ QueryFits' /\ LinesAreOfSelection'
  <2>1. ASSUME NEW j \in Resources
        PROVE Holds(j)' \subseteq Holds(j) /\ (Announced(j) => Announced(j)' \/ Holds(j)' = {})
    <3>1. CASE j # i
      BY <1>1, <1>2, <3>1 DEF Announced, Holds
    <3>2. CASE j = i
      BY <1>2, <3>2 DEF Holds, Range
    <3> QED BY <3>1, <3>2
  <2> QED BY <1>1, <2>1, LinesKept DEF LogIInv
<1> QED BY <1>2, <1>3, <1>4, <1>5 DEF LogIInv

-----------------------------------------------------------------------------
\* The questions of the window are handled and answered.
LEMMA QueryHandledInv ==
  ASSUME LogIInv, QueryHandled
  PROVE  LogIInv'
<1> DEFINE q == [query EXCEPT !.found = FoundLines(query.ids)]
<1>1. /\ UNCHANGED <<service, logWire, list, load, selection, picked, flows, lines, dropped, discarded, wiped>>
      /\ query # Nil /\ query.found = Nil /\ query' = q
  BY DEF QueryHandled, follow, logHistory
<1>2. query \in Queries /\ query.ids = ActiveIDs /\ ActiveIDs \subseteq Resources
  BY <1>1 DEF LogIInv, WindowTypes, QueryFits, ActiveIDs, Selected, Listed
<1> DEFINE F == FoundLines(ActiveIDs)
<1>3. F \in SUBSET (Resources \X Nat) /\ \A line \in F : line[1] \in ActiveIDs
  <2>1. ASSUME NEW line \in F PROVE line \in Resources \X Nat /\ line[1] \in ActiveIDs
    <3>1. PICK i \in ActiveIDs : \E n \in Holds(i) : line = <<i, n>>
      BY FoundIs
    <3>2. PICK n \in Holds(i) : line = <<i, n>>
      BY <3>1
    <3>3. n \in Nat
      BY <1>2, <3>2 DEF Holds, Range, LogIInv, ServiceTypes, Monitors
    <3> QED BY <1>2, <3>2, <3>3
  <2> QED BY <2>1
<1>4. F' = F /\ ActiveIDs' = ActiveIDs /\ \A i : Announced(i)' <=> Announced(i)
  BY <1>1 DEF ActiveIDs, Selected, Listed, FoundLines, Announced, service
<1> HIDE DEF F
<1>5. q \in Queries /\ q # Nil /\ q.ids = query.ids /\ q.found = F /\ q.dirty = query.dirty
  <2>1. q = [query EXCEPT !.found = F]
    BY <1>2 DEF F
  <2> HIDE DEF q
  <2> QED BY <1>2, <1>3, <2>1, NoMonitorAssumption DEF Queries
<1> HIDE DEF q
<1>6. WindowTypes'
  BY <1>1, <1>5 DEF LogIInv, WindowTypes
<1>7. ServiceTypes' /\ Commands'
  BY <1>1, SameService DEF LogIInv
<1>8. ListFits' /\ LoadFits'
  <2>1. \A j \in Resources : Arriving(j) => Arriving(j)'
    BY <1>1 DEF Arriving, Told, Pending
  <2> QED BY <1>1, <2>1, ListKept DEF LogIInv, StateOf, service
<1>9. LinesFit' /\ QueryFits' /\ LinesAreOfSelection'
  BY <1>1, <1>2, <1>3, <1>4, <1>5 DEF LogIInv, LinesFit, QueryFits, LinesAreOfSelection, F
<1> QED BY <1>6, <1>7, <1>8, <1>9 DEF LogIInv

LEMMA QueryAnsweredInv ==
  ASSUME LogIInv, QueryAnswered
  PROVE  LogIInv'
<1>1. /\ UNCHANGED <<service, logWire, list, load, selection, picked, flows, dropped, discarded>>
      /\ query # Nil /\ query.found # Nil /\ lines' = query.found /\ wiped' = FALSE
      /\ query' = IF query.dirty THEN Ask ELSE Nil
  BY DEF QueryAnswered, follow
<1>2. query \in Queries /\ query.ids = ActiveIDs /\ ActiveIDs \subseteq Resources
      /\ (\A line \in query.found : line[1] \in ActiveIDs)
      /\ (query.dirty \/ \A line \in FoundLines(ActiveIDs) : line \in query.found \/ Announced(line[1]))
  BY <1>1 DEF LogIInv, WindowTypes, QueryFits, ActiveIDs, Selected, Listed
<1>3. FoundLines(ActiveIDs)' = FoundLines(ActiveIDs) /\ ActiveIDs' = ActiveIDs /\ \A i : Announced(i)' <=> Announced(i)
  BY <1>1 DEF ActiveIDs, Selected, Listed, FoundLines, Announced, service
<1>4. Ask \in Queries /\ Ask # Nil /\ Ask.ids = ActiveIDs /\ Ask.found = Nil /\ Ask.dirty = FALSE
  <2>1. Ask \in Queries
    BY <1>2 DEF Ask, Question, Queries
  <2> QED BY <2>1, NoMonitorAssumption DEF Ask, Question
<1>5. WindowTypes'
  <2>1. query.found \in SUBSET (Resources \X Nat)
    BY <1>1, <1>2 DEF Queries
  <2>2. query' \in {Nil} \cup Queries
    BY <1>1, <1>4
  <2> QED BY <1>1, <2>1, <2>2 DEF LogIInv, WindowTypes
<1>6. ServiceTypes' /\ Commands'
  BY <1>1, SameService DEF LogIInv
<1>7. ListFits' /\ LoadFits'
  <2>1. \A j \in Resources : Arriving(j) => Arriving(j)'
    BY <1>1 DEF Arriving, Told, Pending
  <2> QED BY <1>1, <2>1, ListKept DEF LogIInv, StateOf, service
<1>8. LinesFit' /\ QueryFits' /\ LinesAreOfSelection'
  BY <1>1, <1>2, <1>3, <1>4 DEF LinesFit, QueryFits, LinesAreOfSelection
<1> QED BY <1>5, <1>6, <1>7, <1>8 DEF LogIInv

LEMMA LoadHandledInv ==
  ASSUME LogIInv, LoadHandled
  PROVE  LogIInv'
<1> DEFINE states == [i \in Resources |-> IF monitors[i] = Nil THEN Nil ELSE monitors[i].state]
<1>1. /\ UNCHANGED <<service, logWire, list, selection, picked, flows, query, lines, dropped, discarded, wiped>>
      /\ load # Nil /\ load.items = Nil /\ load' = [items |-> states]
  BY DEF LoadHandled, reading, logHistory
<1>2. states \in [Resources -> States \cup {Nil}] /\ \A i \in Resources : states[i] = StateOf(i)
  BY DEF LogIInv, ServiceTypes, Monitors, StateOf
<1> HIDE DEF states
<1>3. load' \in Answers /\ load'.items = states
  BY <1>1, <1>2 DEF Answers
<1>4. WindowTypes'
  BY <1>1, <1>3 DEF LogIInv, WindowTypes
<1>5. ServiceTypes' /\ Commands'
  BY <1>1, SameService DEF LogIInv
<1>6. (\A i : StateOf(i)' = StateOf(i)) /\ \A i : Arriving(i)' <=> Arriving(i)
  BY <1>1 DEF StateOf, Arriving, Told, Pending, service
<1>7. ListFits' /\ LoadFits'
  <2>1. load' # Nil
    BY <1>3, NoMonitorAssumption
  <2> QED BY <1>1, <1>2, <1>3, <1>6, <2>1 DEF ListFits, LoadFits
<1>8. LinesFit' /\ QueryFits' /\ LinesAreOfSelection'
  <2>1. \A i \in Resources : (Announced(i)' <=> Announced(i)) /\ Holds(i)' = Holds(i)
    BY <1>1 DEF Announced, Holds, service
  <2> QED BY <1>1, <2>1, LinesKept DEF LogIInv
<1> QED BY <1>4, <1>5, <1>7, <1>8 DEF LogIInv

\* An event is heard.
LEMMA EventInv ==
  ASSUME LogIInv, EventArrives
  PROVE  LogIInv'
<1>1. /\ UNCHANGED <<service, list, selection, picked, flows, lines, dropped, discarded, wiped>>
      /\ logWire # <<>> /\ logWire' = Tail(logWire)
  BY DEF EventArrives, logHistory
<1>2. \/ Head(logWire) = Nil /\ load' = [items |-> Nil] /\ Run
      \/ Head(logWire) # Nil /\ load' = load /\ Head(logWire) \cap ActiveIDs # {} /\ Run
      \/ Head(logWire) # Nil /\ load' = load /\ Head(logWire) \cap ActiveIDs = {} /\ query' = query
  BY DEF EventArrives, Load
<1>3. /\ logWire' \in Seq({Nil} \cup SUBSET Resources)
      /\ Told => Told' \/ Head(logWire) = Nil
      /\ \A i : (\E k \in DOMAIN logWire : i \in logWire[k]) => i \in Head(logWire) \/ \E k \in DOMAIN logWire' : i \in logWire'[k]
  BY <1>1, HeardKept DEF LogIInv
<1>4. FoundLines(ActiveIDs)' = FoundLines(ActiveIDs) /\ ActiveIDs' = ActiveIDs /\ ActiveIDs \subseteq Resources
      /\ \A line \in FoundLines(ActiveIDs) : line[1] \in ActiveIDs
  BY <1>1 DEF ActiveIDs, Selected, Listed, FoundLines, service
<1>5. [items |-> Nil] \in Answers /\ [items |-> Nil] # Nil /\ [items |-> Nil].items = Nil
  BY NoMonitorAssumption DEF Answers
<1>6. Ask \in Queries /\ Ask # Nil /\ Ask.ids = ActiveIDs /\ Ask.found = Nil /\ Ask.dirty = FALSE
  <2>1. Ask \in Queries
    BY <1>4 DEF Ask, Question, Queries
  <2> QED BY <2>1, NoMonitorAssumption DEF Ask, Question
<1> DEFINE again == [query EXCEPT !.dirty = TRUE]
<1>7. query # Nil => query \in Queries /\ again \in Queries /\ again # Nil /\ again.ids = query.ids
        /\ again.found = query.found /\ again.dirty = TRUE
  <2>1. query # Nil => query \in Queries
    BY DEF LogIInv, WindowTypes
  <2> QED BY <2>1, NoMonitorAssumption DEF Queries
<1>8. Run => query' = IF ActiveIDs = {} THEN Nil ELSE IF query = Nil THEN Ask ELSE again
  BY DEF Run
<1> HIDE DEF again
<1>9. WindowTypes'
  <2>1. query' \in {Nil} \cup Queries
    <3>1. query \in {Nil} \cup Queries
      BY DEF LogIInv, WindowTypes
    <3> QED BY <1>2, <1>6, <1>7, <1>8, <3>1
  <2>2. load' \in {Nil} \cup Answers
    BY <1>2, <1>5 DEF LogIInv, WindowTypes
  <2> QED BY <1>1, <1>3, <2>1, <2>2 DEF LogIInv, WindowTypes
<1>10. ServiceTypes' /\ Commands'
  BY <1>1, SameService DEF LogIInv
<1>11. ListFits' /\ LoadFits'
  <2>1. (\A i : StateOf(i)' = StateOf(i)) /\ \A i : Pending(i)' <=> Pending(i)
    BY <1>1 DEF StateOf, Pending, service
  <2>2. CASE Head(logWire) = Nil
    BY <1>1, <1>2, <1>5, <2>2 DEF ListFits, LoadFits
  <2>3. CASE Head(logWire) # Nil
    BY <1>1, <1>2, <1>3, <2>1, <2>3 DEF LogIInv, ListFits, LoadFits, Arriving
  <2> QED BY <2>2, <2>3
<1>12. LinesFit' /\ QueryFits' /\ LinesAreOfSelection'
  <2>1. LinesAreOfSelection'
    BY <1>1, <1>4 DEF LogIInv, LinesAreOfSelection
  <2>2. CASE ActiveIDs = {}
    <3>1. query' = Nil \/ query' = query
      BY <1>2, <1>8, <2>2
    <3> QED BY <1>1, <1>4, <2>1, <2>2, <3>1 DEF LogIInv, LinesFit, QueryFits
  <2>3. CASE ActiveIDs # {} /\ Run
    <3>1. /\ query' # Nil /\ query'.ids = ActiveIDs /\ (query'.found = Nil \/ query'.dirty)
          /\ query'.found # Nil => \A line \in query'.found : line[1] \in ActiveIDs
      BY <1>6, <1>7, <1>8, <2>3 DEF LogIInv, QueryFits
    <3> QED BY <1>1, <1>4, <2>1, <3>1 DEF LinesFit, QueryFits
  <2>4. CASE Head(logWire) \cap ActiveIDs = {} /\ query' = query
    <3>1. \A line \in FoundLines(ActiveIDs) : Announced(line[1]) => Announced(line[1])'
      BY <1>1, <1>3, <1>4, <2>4 DEF Announced, service
    <3> QED BY <1>1, <1>4, <2>1, <2>4, <3>1 DEF LogIInv, LinesFit, QueryFits
  <2> QED BY <1>2, <2>2, <2>3, <2>4
<1> QED BY <1>9, <1>10, <1>11, <1>12 DEF LogIInv

-----------------------------------------------------------------------------
\* The window takes an answer, or the user does something: what is shown follows.
LEMMA RenderedInv ==
  ASSUME LogIInv, UNCHANGED <<service, logWire>>, Rendered,
         list' \in [Resources -> States \cup {Nil}], load' \in {Nil} \cup Answers,
         picked' \in Seq(Resources), IsInjective(picked)', \A f \in flows' : FlowOK(f),
         ListFits', LoadFits'
  PROVE  LogIInv'
<1>1. ServiceTypes' /\ Commands'
  BY SameService DEF LogIInv
<1>2. LinesFit' /\ QueryFits' /\ LinesAreOfSelection' /\ query' \in {Nil} \cup Queries
      /\ (lines' = lines \/ lines' = {})
  BY RenderedLines DEF LogIInv, WindowTypes, service
<1>3. WindowTypes'
  <2>1. lines' \subseteq Resources \X Nat
    BY <1>2 DEF LogIInv, WindowTypes
  <2>2. logWire' \in Seq({Nil} \cup SUBSET Resources)
    BY DEF LogIInv, WindowTypes
  <2> QED BY <1>2, <2>1, <2>2 DEF WindowTypes
<1> QED BY <1>1, <1>2, <1>3 DEF LogIInv

\* What is under way stays so.
LEMMA ArrivingKept ==
  ASSUME UNCHANGED <<service, logWire>>, flows \subseteq flows'
  PROVE  \A i : StateOf(i)' = StateOf(i) /\ (Arriving(i) => Arriving(i)')
BY DEF StateOf, service, Arriving, Told, Pending

\* The list of monitors is there.
LEMMA LoadAnsweredInv ==
  ASSUME LogIInv, LoadAnswered
  PROVE  LogIInv'
<1>1. /\ UNCHANGED <<service, logWire, selection, picked, flows>> /\ Rendered
      /\ load # Nil /\ load.items # Nil /\ list' = load.items /\ load' = Nil
      /\ dropped' = dropped \cap Listed(load.items) /\ discarded' = FALSE
  BY DEF LoadAnswered
<1>2. load.items \in [Resources -> States \cup {Nil}]
  BY <1>1 DEF LogIInv, WindowTypes, Answers
<1>3. \A i : StateOf(i)' = StateOf(i) /\ (Arriving(i) => Arriving(i)')
  BY <1>1, ArrivingKept
<1>4. ListFits'
  BY <1>1, <1>3 DEF LogIInv, LoadFits, ListFits, Listed
<1>5. LoadFits'
  BY <1>1 DEF LoadFits
<1>6. picked' \in Seq(Resources) /\ IsInjective(picked)' /\ \A f \in flows' : FlowOK(f)
  BY <1>1 DEF LogIInv, WindowTypes
<1> QED BY <1>1, <1>2, <1>4, <1>5, <1>6, RenderedInv

\* A change of the selection, or of the picks.
LEMMA MovedInv ==
  ASSUME LogIInv, UNCHANGED <<service, logWire, list, load, dropped, discarded>>, Rendered,
         picked' \in Seq(Resources), IsInjective(picked)', \A f \in flows' : FlowOK(f), flows \subseteq flows'
  PROVE  LogIInv'
<1>1. \A i : StateOf(i)' = StateOf(i) /\ (Arriving(i) => Arriving(i)')
  BY ArrivingKept
<1>2. ListFits' /\ LoadFits'
  BY <1>1, ListKept DEF LogIInv
<1>3. list' \in [Resources -> States \cup {Nil}] /\ load' \in {Nil} \cup Answers
  BY DEF LogIInv, WindowTypes
<1> QED BY <1>2, <1>3, RenderedInv

LEMMA SelectInv ==
  ASSUME LogIInv, NEW i \in Resources, Select(i)
  PROVE  LogIInv'
<1>1. UNCHANGED <<service, logWire, list, load, picked, dropped, discarded>> /\ Rendered
      /\ Begin(i, IF list[i] = "monitoring" THEN <<>> ELSE <<i>>)
  BY DEF Select
<1>2. (\A f \in flows' : FlowOK(f)) /\ flows \subseteq flows'
  <2>1. <<i>> \in Seq(Resources) /\ IsInjective(<<i>>) /\ <<>> \in Seq(Resources) /\ IsInjective(<<>>)
    BY DEF IsInjective
  <2>2. CASE list[i] = "monitoring"
    <3>1. Begin(i, <<>>)
      BY <1>1, <2>2
    <3> QED BY <2>1, <3>1, BeginFlows DEF LogIInv
  <2>3. CASE list[i] # "monitoring"
    <3>1. Begin(i, <<i>>)
      BY <1>1, <2>3
    <3> QED BY <2>1, <3>1, BeginFlows DEF LogIInv
  <2> QED BY <2>2, <2>3
<1>3. picked' \in Seq(Resources) /\ IsInjective(picked)'
  BY <1>1 DEF LogIInv, WindowTypes
<1> QED BY <1>1, <1>2, <1>3, MovedInv

LEMMA SelectPickedInv ==
  ASSUME LogIInv, SelectPicked
  PROVE  LogIInv'
<1>1. UNCHANGED <<service, logWire, list, load, picked, flows, dropped, discarded>> /\ Rendered
  BY DEF SelectPicked
<1>2. picked' \in Seq(Resources) /\ IsInjective(picked)' /\ \A f \in flows' : FlowOK(f)
  BY <1>1 DEF LogIInv, WindowTypes
<1> QED BY <1>1, <1>2, MovedInv

LEMMA PickInv ==
  ASSUME LogIInv, NEW i \in Resources, Pick(i)
  PROVE  LogIInv'
<1>1. UNCHANGED <<service, logWire, list, load, dropped, discarded>> /\ Rendered
      /\ Begin("picked", picked') /\ picked' = Append(picked, i) /\ i \notin Range(picked)
  BY DEF Pick
<1>2. picked \in Seq(Resources) /\ IsInjective(picked)
  BY DEF LogIInv, WindowTypes
<1>3. picked' \in Seq(Resources)
  BY <1>1, <1>2
<1>4. IsInjective(picked)'
  <2>1. DOMAIN picked' = DOMAIN picked \cup {Len(picked) + 1} /\ picked'[Len(picked) + 1] = i
        /\ \A k \in DOMAIN picked : picked'[k] = picked[k] /\ picked[k] # i
    BY <1>1, <1>2 DEF Range
  <2> QED BY <1>2, <2>1 DEF IsInjective
<1>5. (\A f \in flows' : FlowOK(f)) /\ flows \subseteq flows'
  <2> DEFINE p == picked'
  <2>1. p \in Seq(Resources) /\ IsInjective(p) /\ Begin("picked", p) /\ WindowTypes
    BY <1>1, <1>3, <1>4 DEF LogIInv
  <2> HIDE DEF p
  <2> QED BY <2>1, BeginFlows
<1> QED BY <1>1, <1>3, <1>4, <1>5, MovedInv

\* A pick is gone, and a call for the list with it.
LEMMA UnpickedInv ==
  ASSUME LogIInv, Unpicked
  PROVE  LogIInv'
<1>1. UNCHANGED <<service, logWire, list, dropped>> /\ Rendered /\ load' = Nil /\ discarded' = (discarded \/ load # Nil)
      /\ Begin("picked", picked') /\ picked' = RemoveFirst(picked, unpicking.id)
  BY DEF Unpicked, Discard
<1>2. picked' \in Seq(Resources) /\ IsInjective(picked)'
  BY <1>1, RemoveFirstIs DEF LogIInv, WindowTypes
<1>3. (\A f \in flows' : FlowOK(f)) /\ flows \subseteq flows'
  <2> DEFINE p == picked'
  <2>1. p \in Seq(Resources) /\ IsInjective(p) /\ Begin("picked", p) /\ WindowTypes
    BY <1>1, <1>2 DEF LogIInv
  <2> HIDE DEF p
  <2> QED BY <2>1, BeginFlows
<1>4. \A i : StateOf(i)' = StateOf(i) /\ (Arriving(i) => Arriving(i)')
  BY <1>1, <1>3, ArrivingKept
<1>5. ListFits' /\ LoadFits'
  <2>1. LoadFits'
    BY <1>1 DEF LoadFits
  <2>2. ListFits'
    BY <1>1, <1>4 DEF LogIInv, ListFits
  <2> QED BY <2>1, <2>2
<1>6. list' \in [Resources -> States \cup {Nil}] /\ load' \in {Nil} \cup Answers
  BY <1>1 DEF LogIInv, WindowTypes
<1> QED BY <1>1, <1>2, <1>3, <1>5, <1>6, RenderedInv

\* The list is asked for anew.
LEMMA ChangeTargetInv ==
  ASSUME LogIInv, ChangeTarget
  PROVE  LogIInv'
<1>1. UNCHANGED <<service, logWire, list, picked, flows>> /\ Rendered /\ load' = [items |-> Nil]
  BY DEF ChangeTarget, Load
<1>2. [items |-> Nil] \in Answers /\ [items |-> Nil] # Nil /\ [items |-> Nil].items = Nil
  BY NoMonitorAssumption DEF Answers
<1>3. ListFits' /\ LoadFits'
  BY <1>1, <1>2 DEF ListFits, LoadFits
<1>4. /\ list' \in [Resources -> States \cup {Nil}] /\ picked' \in Seq(Resources) /\ IsInjective(picked)'
      /\ \A f \in flows' : FlowOK(f)
  BY <1>1 DEF LogIInv, WindowTypes
<1> QED BY <1>1, <1>2, <1>3, <1>4, RenderedInv

LEMMA ClearedInv ==
  ASSUME LogIInv, Cleared
  PROVE  LogIInv'
<1>1. /\ UNCHANGED <<service, logWire, list, selection, picked, flows, query, dropped, discarded>>
      /\ load' = [items |-> Nil] /\ lines' = {} /\ wiped' = (FoundLines(ActiveIDs) # {})
  BY DEF Cleared, Load
<1>2. [items |-> Nil] \in Answers /\ [items |-> Nil] # Nil /\ [items |-> Nil].items = Nil
  BY NoMonitorAssumption DEF Answers
<1>3. ListFits' /\ LoadFits'
  BY <1>1, <1>2 DEF ListFits, LoadFits
<1>4. WindowTypes'
  BY <1>1, <1>2 DEF LogIInv, WindowTypes
<1>5. ServiceTypes' /\ Commands'
  BY <1>1, SameService DEF LogIInv
<1>6. FoundLines(ActiveIDs)' = FoundLines(ActiveIDs) /\ ActiveIDs' = ActiveIDs /\ \A i : Announced(i)' <=> Announced(i)
  BY <1>1 DEF ActiveIDs, Selected, Listed, FoundLines, Announced, service
<1>7. LinesFit' /\ QueryFits' /\ LinesAreOfSelection'
  BY <1>1, <1>6 DEF LogIInv, LinesFit, QueryFits, LinesAreOfSelection
<1> QED BY <1>3, <1>4, <1>5, <1>7 DEF LogIInv

\* The answer of StartLogMonitors.
LEMMA MergeInv ==
  ASSUME LogIInv, NEW f, AllAnswered(f), Merge(f),
         flows \ {f} \subseteq flows', \A g \in flows' : FlowOK(g)
  PROVE  LogIInv'
<1>1. f \in flows /\ FlowOK(f) /\ f.victim = Nil
  BY DEF AllAnswered, LogIInv, WindowTypes
<1> DEFINE A == Accepted(f)
<1>2. A \subseteq Resources /\ f.out \in [Resources -> States \cup {Nil, "failed"}] /\ \A i \in A : f.out[i] \in States \cup {Nil}
  BY <1>1 DEF FlowOK, Accepted, Range
<1>3. \A i \in Range(f.wanted) : f.out[i] \in States => i \in A
  BY DEF Accepted, States
<1>4. /\ UNCHANGED <<service, logWire, selection, picked>> /\ Rendered /\ load' = Nil
      /\ list' = [i \in Resources |-> IF i \in A THEN f.out[i] ELSE list[i]]
      /\ discarded' = (\/ discarded \/ load # Nil
                    \/ \E i \in A : IF monitors[i] = Nil THEN TRUE ELSE monitors[i].state # f.out[i])
      /\ dropped' = dropped \ {i \in A : monitors[i] # Nil}
  BY DEF Merge
<1> HIDE DEF A
<1>5. list' \in [Resources -> States \cup {Nil}]
  BY <1>2, <1>4 DEF LogIInv, WindowTypes
<1>6. ListFits'
  <2> SUFFICES ASSUME ~discarded', NEW i \in Resources \ dropped' PROVE list'[i] = StateOf(i)' \/ Arriving(i)'
    BY DEF ListFits
  <2>1. ~discarded /\ load = Nil /\ \A j \in A : monitors[j] # Nil /\ monitors[j].state = f.out[j]
    BY <1>4
  <2>2. StateOf(i)' = StateOf(i)
    BY <1>4 DEF StateOf, service
  <2>3. CASE i \in A
    BY <1>4, <2>1, <2>2, <2>3 DEF StateOf
  <2>4. CASE i \notin A
    <3>1. i \notin dropped /\ list'[i] = list[i]
      BY <1>4, <2>4
    <3>2. list[i] = StateOf(i) \/ Told \/ Pending(i)
      BY <2>1, <3>1 DEF LogIInv, ListFits, Arriving
    <3>3. Told => Told'
      BY <1>4 DEF Told
    <3>4. Pending(i) => Pending(i)'
      <4>1. ASSUME NEW g \in flows, g.victim = Nil, i \in Range(g.wanted), g.out[i] \in States PROVE g \in flows'
        BY <1>3, <2>4, <4>1
      <4> QED BY <4>1 DEF Pending
    <3> QED BY <2>2, <3>1, <3>2, <3>3, <3>4 DEF Arriving
  <2> QED BY <2>3, <2>4
<1>7. LoadFits'
  BY <1>4 DEF LoadFits
<1>8. picked' \in Seq(Resources) /\ IsInjective(picked)' /\ load' \in {Nil} \cup Answers
  BY <1>4 DEF LogIInv, WindowTypes
<1> QED BY <1>4, <1>5, <1>6, <1>7, <1>8, RenderedInv

LEMMA StartAnsweredInv ==
  ASSUME LogIInv, NEW f, StartAnswered(f)
  PROVE  LogIInv'
<1>1. AllAnswered(f) /\ Merge(f) /\ flows' = flows \ {f}
  BY DEF StartAnswered
<1>2. \A g \in flows' : FlowOK(g)
  BY <1>1 DEF LogIInv, WindowTypes
<1> QED BY <1>1, <1>2, MergeInv

LEMMA StartRefusedInv ==
  ASSUME LogIInv, NEW f, StartRefused(f)
  PROVE  LogIInv'
<1> DEFINE victim == Head(Evictable(f))
           g == [f EXCEPT !.victim = victim]
<1>1. AllAnswered(f) /\ Merge(f) /\ flows' = (flows \ {f}) \cup {g}
  BY DEF StartRefused
<1> HIDE DEF victim
<1>2. f \in flows /\ FlowOK(f) /\ f.todo = <<>>
  BY <1>1 DEF AllAnswered, LogIInv, WindowTypes
<1>3. g \in [place : {f.place}, wanted : Seq(Resources), kept : {f.kept}, listed : {f.listed}, number : {f.number},
             todo : Seq(Resources), held : Nat, out : [Resources -> States \cup {Nil, "failed"}], again : BOOLEAN,
             victim : {victim}]
      /\ g.place = f.place /\ g.kept = f.kept /\ g.listed = f.listed /\ g.number = f.number
      /\ g.todo = f.todo /\ g.wanted = f.wanted /\ g.out = f.out /\ g.victim = victim
  BY <1>2 DEF FlowOK
<1> HIDE DEF g
<1>4. FlowOK(g)
  <2>1. g \in [place : {g.place}, wanted : Seq(Resources), kept : {g.kept}, listed : {g.listed}, number : {g.number},
            todo : Seq(Resources), held : Nat, out : [Resources -> States \cup {Nil, "failed"}], again : BOOLEAN,
            victim : {g.victim}]
    BY <1>3
  <2> QED BY <1>2, <1>3, <2>1 DEF FlowOK
<1>5. \A h \in flows' : FlowOK(h)
  BY <1>1, <1>4 DEF LogIInv, WindowTypes
<1> QED BY <1>1, <1>5, MergeInv

\* What the invariant speaks of stays.
LEMMA StutterInv ==
  ASSUME LogIInv,
         UNCHANGED <<service, logWire, list, load, selection, picked, flows, query, lines, dropped, discarded, wiped>>
  PROVE  LogIInv'
<1>1. ServiceTypes' /\ Commands'
  BY SameService DEF LogIInv
<1>2. WindowTypes'
  BY DEF LogIInv, WindowTypes
<1>3. ListFits' /\ LoadFits'
  BY DEF LogIInv, ListFits, LoadFits, StateOf, Arriving, Told, Pending, service
<1>4. ActiveIDs' = ActiveIDs /\ FoundLines(ActiveIDs)' = FoundLines(ActiveIDs) /\ \A i : Announced(i)' <=> Announced(i)
  BY DEF ActiveIDs, Selected, Listed, FoundLines, Announced, service
<1>5. LinesFit' /\ QueryFits' /\ LinesAreOfSelection'
  BY <1>4 DEF LogIInv, LinesFit, QueryFits, LinesAreOfSelection
<1> QED BY <1>1, <1>2, <1>3, <1>5 DEF LogIInv

\* The invariant holds at first, and every step keeps it.
LEMMA LogInitHolds ==
  ASSUME LogInit
  PROVE  LogIInv
<1> USE DEF LogInit
<1>1. ServiceTypes
  BY DEF ServiceTypes, NoMonitors
<1>2. WindowTypes
  <2>1. <<>> \in Seq({Nil} \cup SUBSET Resources) /\ <<>> \in Seq(Resources) /\ IsInjective(<<>>)
    BY DEF IsInjective
  <2>2. list \in [Resources -> States \cup {Nil}]
    BY DEF NoMonitors
  <2>3. logWire = <<>> /\ load \in {Nil} \cup Answers /\ picked = <<>> /\ flows = {}
        /\ query \in {Nil} \cup Queries /\ lines = {}
    BY DEF Answers
  <2> HIDE DEF LogInit
  <2> QED BY <2>1, <2>2, <2>3 DEF WindowTypes
<1>3. Commands
  <2>1. Following = {}
    BY DEF Following, Monitoring, NoMonitors
  <2> QED BY <2>1, FS_EmptySet, LogBoundsAssumption DEF Commands, Monitoring, NoMonitors
<1>4. ListFits /\ LoadFits
  BY DEF ListFits, LoadFits, StateOf, NoMonitors
<1>5. ActiveIDs = {}
  BY DEF ActiveIDs, Selected, Listed, NoMonitors
<1>6. LinesFit /\ QueryFits /\ LinesAreOfSelection
  BY <1>5 DEF LinesFit, QueryFits, LinesAreOfSelection, FoundLines
<1> QED BY <1>1, <1>2, <1>3, <1>4, <1>6 DEF LogIInv

LEMMA LogNextKeeps ==
  ASSUME LogIInv, [LogNext]_logVars
  PROVE  LogIInv'
<1>1. ASSUME NEW f \in flows, Reuse(f) \/ ReadState(f) \/ RefuseStart(f) \/ StartFollower(f) \/ Evict(f) PROVE LogIInv'
  BY <1>1, ReuseInv, AnsweredInv, StartFollowerInv, EvictInv
<1>2. ASSUME NEW s \in streams, Line(s) \/ CommandCanceled(s) \/ CommandEnds(s) PROVE LogIInv'
  BY <1>2, LineInv, SettleInv
<1>3. CASE Flush \/ QueryHandled \/ LoadHandled \/ UnpickRemoves \/ \E i \in Resources : ClearBuffer(i)
  BY <1>3, FlushInv, QueryHandledInv, LoadHandledInv, UnpickRemovesInv, ClearBufferInv
<1>4. CASE EventArrives \/ QueryAnswered \/ LoadAnswered \/ Unpicked \/ Cleared
  BY <1>4, EventInv, QueryAnsweredInv, LoadAnsweredInv, UnpickedInv, ClearedInv
<1>5. ASSUME NEW f \in flows, StartAnswered(f) \/ StartRefused(f) PROVE LogIInv'
  BY <1>5, StartAnsweredInv, StartRefusedInv
<1>6. ASSUME NEW i \in Resources, Select(i) \/ Pick(i) PROVE LogIInv'
  BY <1>6, SelectInv, PickInv
<1>7. CASE SelectPicked \/ ChangeTarget
  BY <1>7, SelectPickedInv, ChangeTargetInv
<1>8. ASSUME NEW i \in Resources, Unpick(i) PROVE LogIInv'
  BY <1>8, StutterInv DEF Unpick, follow, reading, logHistory
<1>9. CASE Clear
  BY <1>9, StutterInv DEF Clear, follow, logHistory
<1>10. CASE UNCHANGED logVars
  BY <1>10, StutterInv DEF logVars, follow, reading, logHistory
<1> QED BY <1>1, <1>2, <1>3, <1>4, <1>5, <1>6, <1>7, <1>8, <1>9, <1>10 DEF LogNext, ServeLogs, HearLogs

\* What the invariant means for the properties.
LEMMA LogMeaning ==
  ASSUME LogIInv
  PROVE  FollowersAreKnown /\ ListIsCurrent /\ NoLineIsMissing /\ LinesAreOfSelection
<1>1. FollowersAreKnown
  <2> DEFINE R == {s \in streams : ~s.canceled}
             id == [s \in R |-> s.id]
  <2>1. \A s \in R : s.id \in Following /\ Current(s) /\ Monitoring(s.id) /\ s.id \in Resources
    BY DEF LogIInv, Commands, ServiceTypes, Following
  <2>2. id \in [R -> Following]
    BY <2>1
  <2>3. ASSUME NEW s \in R, NEW t \in R, id[s] = id[t] PROVE s = t
    <3>1. s.run = t.run
      BY <2>1, <2>3 DEF Current
    <3> QED BY <3>1 DEF LogIInv, Commands
  <2>4. id \in Injection(R, Following)
    BY <2>2, <2>3 DEF Injection, IsInjective
  <2>5. IsFiniteSet(Following) /\ Cardinality(Following) <= MaxActive /\ Cardinality(Following) \in Nat
    BY FS_CardinalityType DEF LogIInv, Commands
  <2>6. IsFiniteSet(R) /\ Cardinality(R) <= Cardinality(Following)
    BY <2>4, <2>5, FS_Injection
  <2>7. Cardinality(R) <= MaxActive
    BY <2>5, <2>6, FS_CardinalityType, LogBoundsAssumption
  <2> QED BY <2>1, <2>7 DEF FollowersAreKnown, LogIInv, Commands
<1>2. ListIsCurrent
  <2>1. Rest => ~Told /\ \A i : ~Pending(i)
    BY DEF Rest, Told, Pending
  <2> QED BY <2>1 DEF ListIsCurrent, Rest, LogIInv, ListFits, Arriving, StateOf
<1>3. NoLineIsMissing
  <2> SUFFICES ASSUME Rest, query = Nil, News = {}, ~wiped, NEW line \in FoundLines(ActiveIDs) PROVE line \in lines
    BY DEF NoLineIsMissing
  <2>1. line[1] \in Resources
    <3>1. PICK i \in ActiveIDs : \E n \in Holds(i) : line = <<i, n>>
      BY FoundIs
    <3> QED BY <3>1 DEF ActiveIDs, Selected, Listed
  <2>2. ~Announced(line[1])
    BY <2>1 DEF Announced, News, Rest
  <2> QED BY <2>2 DEF LogIInv, LinesFit
<1> QED BY <1>1, <1>2, <1>3 DEF LogIInv

\* The inductive invariant.
LEMMA LogInvariance == LogSpec => []LogIInv
BY LogInitHolds, LogNextKeeps, PTL DEF LogSpec

\* Every command that runs is known; at rest the window lists the monitors
\* there are and misses no line of them, and it never shows one of a monitor
\* that is not selected (servicemanagerservice.go, ServiceManagerTool.tsx),
\* for any resources, limits and numbers of lines.
THEOREM LogsFollowed == LogSpec => []LogsAreFollowed
<1>1. LogIInv => LogsAreFollowed
  BY LogMeaning DEF LogsAreFollowed
<1> QED BY <1>1, LogInvariance, PTL

(***************************************************************************)
(* The task centre.  What was ever on its way tells of each task a history *)
(* (History), and what the window knows of a task fits into it (ViewFits): *)
(* then no snapshot that is taken in announces the same end twice.  The    *)
(* property speaks of rest only, so the invariant says what brings the     *)
(* newest table (NewsComes) and the end that is still to be announced      *)
(* (EndsAreDue).                                                           *)
(***************************************************************************)
\* What is on its way, and what the service has.
Replies == {f \in fetches : f.answer # Absent}
OnTheWay == taskWire \cup buffered \cup {f.answer : f \in Replies} \cup ({clearing} \ {Absent})
          \cup {Snapshot(revision, table)}

TableTypes ==
  /\ table \in Tables /\ revision \in Nat /\ IsFiniteSet(created)
  /\ taskWire \subseteq Snapshots /\ buffered \subseteq Snapshots /\ IsFiniteSet(buffered)
  /\ fetches \subseteq [subscription : Nat, answer : {Absent} \cup Snapshots]
  /\ clearing \in {Absent} \cup Snapshots
  /\ shown \in Tables /\ ended \subseteq Runs
  /\ revision <= MaxRevision /\ live \in BOOLEAN
  /\ subscription \in 1..MaxSubscriptions /\ \A f \in fetches : f.subscription <= subscription

\* What a task is in one snapshot, and in a later one.
Before(a, b) == a.run < b.run \/ (a.run = b.run /\ (a.status \in Terminal => b.status = a.status))
History ==
  /\ \A s \in OnTheWay : s.revision <= revision
  /\ \A s, u \in OnTheWay : s.revision <= u.revision =>
       \A t \in Tasks : s.tasks[t] = Absent \/ u.tasks[t] = Absent \/ Before(s.tasks[t], u.tasks[t])
  /\ \A s, u \in OnTheWay : s.revision = u.revision => s = u
  /\ \A s \in OnTheWay : \A t \in Tasks : s.tasks[t] # Absent =>
       t \in created /\ (s.tasks[t].status \in {"success", "failed"} => <<t, s.tasks[t].run>> \in ended)

\* What the window knows of a task is a row that no later snapshot contradicts.
Views == [current : Nat \cup {-1}, statuses : [Tasks -> {Absent} \cup Active \cup Terminal],
          pending : {Absent} \cup Tables, announced : [Runs -> {0, 1}]]
Latest(v) == IF v.pending = Absent THEN shown ELSE v.pending
KnownAs(v, t, row) ==
  /\ row.status = v.statuses[t]
  /\ \A s \in OnTheWay : s.revision >= v.current /\ s.tasks[t] # Absent => Before(row, s.tasks[t])
  /\ \A n \in 1..MaxRuns : v.announced[<<t, n>>] = 1 => n < row.run \/ (n = row.run /\ row.status \in Terminal)
ViewFits(v) ==
  /\ v \in Views /\ v.current <= revision
  /\ \A s \in OnTheWay : s.revision = v.current => s.tasks = Latest(v)
  /\ \A t \in Tasks : IF v.statuses[t] = Absent THEN \A n \in 1..MaxRuns : v.announced[<<t, n>>] = 0
                      ELSE t \in created /\ \E row \in Rows : KnownAs(v, t, row)
  /\ \A r \in Runs : v.announced[r] = 1 => r \in ended

NewsComes ==
  \/ current = revision \/ Snapshot(revision, table) \in taskWire \cup buffered
  \/ revision = 0 /\ current = -1 /\ table = Empty /\ shown = Empty /\ pending = Absent

\* The end of a run that is still to be announced.
Due(t, n) ==
  /\ statuses[t] \in Active /\ current < revision
  /\ clearing = Absent /\ Replies = {}
  /\ table[t] # Absent /\ table[t].run = n /\ table[t].status \in {"success", "failed"}
  /\ \A s \in taskWire \cup buffered : s.revision > current /\ s.tasks[t] = table[t]
EndsAreDue == \A r \in ended \ quiet : announced[r] = 1 \/ Due(r[1], r[2])

CenterIInv == TableTypes /\ History /\ ViewFits(TaskView) /\ NewsComes /\ EndsAreDue

\* The newest of some snapshots is one of them.
LEMMA NewestIs ==
  ASSUME NEW S \in SUBSET Snapshots, S # {}, NEW top \in Nat, \A s \in S : s.revision <= top
  PROVE  Newest(S) \in S /\ \A u \in S : u.revision <= Newest(S).revision
<1> DEFINE Gaps == {n \in Nat : \E s \in S : n = top - s.revision}
<1>1. PICK s \in S : TRUE
  OBVIOUS
<1>2. \A u \in S : top - u.revision \in Gaps
  BY DEF Snapshots
<1>3. Gaps \in SUBSET Nat /\ Gaps # {}
  BY <1>1, <1>2
<1> HIDE DEF Gaps
<1>4. PICK n \in Gaps : \A m \in Gaps : n <= m
  BY <1>3, Least
<1>5. PICK u \in S : n = top - u.revision
  BY <1>4 DEF Gaps
<1>6. \A w \in S : w.revision <= u.revision
  BY <1>2, <1>4, <1>5 DEF Snapshots
<1> QED BY <1>6 DEF Newest

\* What several snapshots do to the window keeps to whatever each of them
\* does, and it ends at the newest of them or later.
LEMMA TakenIs ==
  ASSUME NEW S \in SUBSET Snapshots, IsFiniteSet(S), NEW top \in Nat, \A s \in S : s.revision <= top,
         NEW W, NEW now \in W, \A v \in W : v.current \in Int,
         \A v \in W : \A s \in S : Processed(v, s, TRUE) \in W
  PROVE  Taken(now, S) \in W /\ \A s \in S : s.revision <= Taken(now, S).current
<1> DEFINE Rec(g, ss) == IF ss = {} THEN now ELSE Processed(g[ss \ {Newest(ss)}], Newest(ss), TRUE)
           Upto(n) == {ss \in SUBSET S : Cardinality(ss) <= n}
           Bad == {n \in Nat : ~\E g : g = [ss \in Upto(n) |-> Rec(g, ss)]}
<1>1. \A ss \in SUBSET S : ss # {} => Newest(ss) \in ss /\ \A u \in ss : u.revision <= Newest(ss).revision
  BY NewestIs
<1>2. \A ss \in SUBSET S : IsFiniteSet(ss) /\ Cardinality(ss) \in Nat
  BY FS_Subset, FS_CardinalityType
<1>3. \A ss \in SUBSET S : ss # {} => Cardinality(ss \ {Newest(ss)}) = Cardinality(ss) - 1
  BY <1>1, <1>2, FS_RemoveElement
<1>4. \A ss \in SUBSET S : Cardinality(ss) = 0 <=> ss = {}
  BY <1>2, FS_EmptySet
<1>5. Bad = {}
  <2> SUFFICES ASSUME Bad # {} PROVE FALSE
    OBVIOUS
  <2>1. PICK n \in Bad : \A m \in Bad : n <= m
    BY Least
  <2>2. n \in Nat
    OBVIOUS
  <2>3. CASE n = 0
    <3> DEFINE g == [ss \in Upto(0) |-> now]
    <3>1. \A ss \in Upto(0) : ss = {}
      BY <1>2, <1>4
    <3>2. \A ss \in Upto(0) : Rec(g, ss) = now
      BY <3>1
    <3>3. g = [ss \in Upto(0) |-> Rec(g, ss)]
      <4>1. \A h : (\A ss \in Upto(0) : Rec(h, ss) = now) => g = [ss \in Upto(0) |-> Rec(h, ss)]
        <5> HIDE DEF Rec, Upto
        <5> QED OBVIOUS
      <4> HIDE DEF g, Rec, Upto
      <4> QED BY <3>2, <4>1
    <3> HIDE DEF g
    <3> QED BY <2>1, <2>3, <3>3
  <2>4. CASE n # 0
    <3>1. n - 1 \in Nat /\ n - 1 \notin Bad
      <4> HIDE DEF Bad
      <4> QED BY <2>1, <2>2, <2>4
    <3>2. PICK h : h = [ss \in Upto(n - 1) |-> Rec(h, ss)]
      BY <3>1
    <3> DEFINE g == [ss \in Upto(n) |-> Rec(h, ss)]
    <3>3. \A ss \in Upto(n) : ss # {} => ss \ {Newest(ss)} \in Upto(n - 1)
      BY <1>2, <1>3, <2>2
    <3>4. \A ss \in Upto(n - 1) : ss \in Upto(n) /\ g[ss] = h[ss]
      <4>1. ASSUME NEW ss \in Upto(n - 1) PROVE ss \in Upto(n)
        BY <4>1, <1>2, <2>2
      <4> HIDE DEF Rec
      <4> QED BY <4>1, <3>2
    <3>5. \A ss \in Upto(n) : Rec(h, ss) = Rec(g, ss)
      BY <3>3, <3>4
    <3>6. g = [ss \in Upto(n) |-> Rec(g, ss)]
      <4> HIDE DEF Rec
      <4> QED BY <3>5
    <3> HIDE DEF g
    <3> QED BY <2>1, <3>6
  <2> QED BY <2>3, <2>4
<1>6. \E g : g = [ss \in SUBSET S |-> Rec(g, ss)]
  <2>1. Cardinality(S) \in Nat /\ Cardinality(S) \notin Bad
    BY <1>2, <1>5
  <2>2. PICK g : g = [ss \in Upto(Cardinality(S)) |-> Rec(g, ss)]
    BY <2>1
  <2>3. Upto(Cardinality(S)) = SUBSET S
    BY <1>2, FS_Subset
  <2> HIDE DEF Rec, Upto
  <2> QED BY <2>2, <2>3
<1> DEFINE it == CHOOSE g : g = [ss \in SUBSET S |-> Rec(g, ss)]
<1>7. it = [ss \in SUBSET S |-> Rec(it, ss)]
  <2> HIDE DEF Rec
  <2> QED BY <1>6
<1>8. Taken(now, S) = it[S]
  BY Zenon DEF Taken, MapThenFoldSet
<1> HIDE DEF it
<1> DEFINE Good(ss) == it[ss] \in W /\ \A s \in ss : s.revision <= it[ss].current
           Sizes == {Cardinality(ss) : ss \in {ss \in SUBSET S : ~Good(ss)}}
<1>9. Sizes = {}
  <2> SUFFICES ASSUME Sizes # {} PROVE FALSE
    OBVIOUS
  <2>1. Sizes \in SUBSET Nat
    BY <1>2
  <2>2. PICK n \in Sizes : \A m \in Sizes : n <= m
    BY <2>1, Least
  <2>3. PICK ss \in SUBSET S : ~Good(ss) /\ Cardinality(ss) = n
    OBVIOUS
  <2>4. it[ss] = Rec(it, ss)
    <3> HIDE DEF Rec
    <3> QED BY <1>7
  <2>5. ss # {}
    BY <2>3, <2>4
  <2> DEFINE x == Newest(ss)
             rest == ss \ {x}
  <2>6. x \in ss /\ \A u \in ss : u.revision <= x.revision
    BY <1>1, <2>5
  <2>7. Good(rest)
    <3>1. Cardinality(rest) < n
      BY <1>2, <1>3, <2>3, <2>5
    <3>2. rest \in SUBSET S
      OBVIOUS
    <3> HIDE DEF Good, rest
    <3> QED BY <1>2, <2>1, <2>2, <3>1, <3>2
  <2>8. it[ss] = Processed(it[rest], x, TRUE)
    BY <2>4, <2>5
  <2>9. it[ss] \in W
    BY <2>6, <2>7, <2>8
  <2>10. x.revision <= it[ss].current
    BY <2>6, <2>7, <2>8 DEF Processed, Outdated, Snapshots
  <2>11. \A u \in ss : u.revision <= it[ss].current
    BY <2>6, <2>9, <2>10 DEF Snapshots
  <2> QED BY <2>3, <2>9, <2>11
<1>10. Good(S)
  BY <1>9
<1> QED BY <1>8, <1>10

LEMMA TaskRows ==
  /\ \A row \in Rows : row.status \in Active \cup Terminal /\ row.run \in 1..MaxRuns /\ row.run \in Nat
  /\ \A content \in Tables : content # Absent /\ \A t \in Tasks : content[t] # Absent => content[t] \in Rows
  /\ \A s \in Snapshots : s # Absent /\ s.revision \in Nat /\ s.tasks \in Tables
  /\ \A r, content : Snapshot(r, content).revision = r /\ Snapshot(r, content).tasks = content
  /\ \A r \in Nat, content \in Tables : Snapshot(r, content) \in Snapshots
  /\ "success" \in Terminal /\ "failed" \in Terminal /\ Absent \notin Active /\ Absent \notin Terminal
  /\ \A x \in Active : x \notin Terminal
<1>1. MaxRuns \in Nat
  BY CenterBoundsAssumption
<1>2. \A row \in Rows : row.status \in Active \cup Terminal /\ row.run \in 1..MaxRuns /\ row.run \in Nat
  BY <1>1 DEF Rows
<1> QED BY <1>2, NoTaskAssumption DEF Tables, Snapshots, Snapshot, Active, Terminal

LEMMA OnTheWayAre ==
  ASSUME TableTypes
  PROVE  OnTheWay \subseteq Snapshots /\ Snapshot(revision, table) \in OnTheWay
BY TaskRows DEF TableTypes, OnTheWay, Replies

\* Later is transitive.
LEMMA BeforeIs ==
  /\ \A a \in Rows : Before(a, a)
  /\ \A a, b, c \in Rows : Before(a, b) /\ Before(b, c) => Before(a, c)
BY TaskRows DEF Before

LEMMA ViewFitsIs ==
  ASSUME NEW v, ViewFits(v)
  PROVE  v \in Views /\ v.current \in Int /\ v.current <= revision
BY DEF ViewFits, Views

\* What the window has taken in, and what it has announced, it does not forget.
Onward(v, w) == w.current >= v.current /\ \A r \in Runs : v.announced[r] = 1 => w.announced[r] = 1

\* The window takes a snapshot in.
LEMMA ProcessedFits ==
  ASSUME TableTypes, History, NEW v, ViewFits(v), NEW s \in OnTheWay, NEW notify \in BOOLEAN
  PROVE  /\ ViewFits(Processed(v, s, notify))
         /\ Processed(v, s, notify).current >= s.revision /\ Onward(v, Processed(v, s, notify))
<1> DEFINE w == Processed(v, s, notify)
<1>1. s \in Snapshots /\ v \in Views /\ s.revision \in Nat /\ v.current \in Int /\ s.tasks \in Tables
  BY OnTheWayAre, TaskRows DEF ViewFits, Views
<1>2. CASE Outdated(s, v.current)
  BY <1>1, <1>2 DEF Processed, Outdated, Onward
<1>3. CASE ~Outdated(s, v.current)
  <2>1. /\ w.current = s.revision /\ w.pending = s.tasks /\ w.statuses = Recorded(v, s)
        /\ w.announced = [r \in Runs |-> IF notify /\ r[1] \in Ends(v, s) /\ s.tasks[r[1]].run = r[2]
                                         THEN v.announced[r] + 1 ELSE v.announced[r]]
        /\ w = [current |-> w.current, pending |-> w.pending, statuses |-> w.statuses, announced |-> w.announced]
    BY <1>3 DEF Processed
  <2>2. s.revision >= v.current
    BY <1>1, <1>3 DEF Outdated
  <2> HIDE DEF w
  <2>3. \A t \in Tasks : s.tasks[t] # Absent => s.tasks[t] \in Rows
    BY <1>1, TaskRows
  \* What the window now takes each task for.
  <2>4. ASSUME NEW t \in Tasks, s.tasks[t] # Absent
        PROVE  /\ w.statuses[t] = s.tasks[t].status /\ t \in created
               /\ \A u \in OnTheWay : u.revision >= w.current /\ u.tasks[t] # Absent => Before(s.tasks[t], u.tasks[t])
    BY <2>1, <2>4 DEF Recorded, History
  <2>5. ASSUME NEW t \in Tasks, v.statuses[t] # Absent
        PROVE  \E row \in Rows : KnownAs(v, t, row) /\ (s.tasks[t] # Absent => Before(row, s.tasks[t]))
    BY <2>2, <2>5 DEF ViewFits, KnownAs
  <2>6. ASSUME NEW t \in Tasks, NEW n \in 1..MaxRuns, notify, t \in Ends(v, s), s.tasks[t].run = n
        PROVE  v.announced[<<t, n>>] = 0
    <3>1. v.statuses[t] # Absent /\ v.statuses[t] \notin Terminal /\ s.tasks[t] # Absent
      BY <2>6 DEF Ends
    <3>2. PICK row \in Rows : KnownAs(v, t, row) /\ Before(row, s.tasks[t])
      BY <2>5, <3>1
    <3>3. row.status \notin Terminal /\ row.run <= n
      BY <3>1, <3>2, <2>6, TaskRows DEF KnownAs, Before
    <3>4. ~(v.announced[<<t, n>>] = 1)
      BY <3>2, <3>3, TaskRows DEF KnownAs
    <3>5. <<t, n>> \in Runs
      BY DEF Runs
    <3> QED BY <1>1, <3>4, <3>5 DEF Views
  <2>7. \A r \in Runs : r[1] \in Tasks /\ r[2] \in 1..MaxRuns /\ r = <<r[1], r[2]>>
    BY DEF Runs
  <2>8. w.announced \in [Runs -> {0, 1}]
    <3>1. ASSUME NEW r \in Runs PROVE w.announced[r] \in {0, 1}
      <4>1. v.announced[r] \in {0, 1}
        BY <1>1 DEF Views
      <4>2. CASE notify /\ r[1] \in Ends(v, s) /\ s.tasks[r[1]].run = r[2]
        <5>1. v.announced[r] = 0
          BY <2>6, <2>7, <4>2
        <5> QED BY <2>1, <4>2, <5>1
      <4> QED BY <2>1, <4>1, <4>2
    <3> QED BY <2>1, <3>1
  <2>9. w.statuses \in [Tasks -> {Absent} \cup Active \cup Terminal]
    BY <1>1, <2>1, <2>3, TaskRows DEF Recorded, Views
  <2>10. w \in Views
    BY <1>1, <2>1, <2>8, <2>9 DEF Views
  <2>11. \A u \in OnTheWay : u.revision = w.current => u.tasks = Latest(w)
    <3>1. Latest(w) = s.tasks
      BY <2>1, <1>1, TaskRows DEF Latest
    <3> QED BY <3>1, <2>1 DEF History
  <2>12. ASSUME NEW t \in Tasks
         PROVE  IF w.statuses[t] = Absent THEN \A n \in 1..MaxRuns : w.announced[<<t, n>>] = 0
                ELSE t \in created /\ \E row \in Rows : KnownAs(w, t, row)
    <3>0. \A n \in 1..MaxRuns : <<t, n>> \in Runs /\ <<t, n>>[1] = t /\ <<t, n>>[2] = n
      BY DEF Runs
    <3>1. CASE s.tasks[t] = Absent
      <4>1. w.statuses[t] = v.statuses[t]
        BY <2>1, <3>1 DEF Recorded
      <4>2. \A n \in 1..MaxRuns : w.announced[<<t, n>>] = v.announced[<<t, n>>]
        BY <2>1, <3>0, <3>1 DEF Ends
      <4>3. CASE v.statuses[t] # Absent
        <5>1. PICK row \in Rows : KnownAs(v, t, row)
          BY <4>3 DEF ViewFits
        <5>2. \A u \in OnTheWay : u.revision >= w.current => u.revision >= v.current
          BY <1>1, <2>1, <2>2, OnTheWayAre, TaskRows
        <5>3. KnownAs(w, t, row)
          BY <4>1, <4>2, <5>1, <5>2 DEF KnownAs
        <5> QED BY <4>1, <4>3, <5>3 DEF ViewFits
      <4> QED BY <4>1, <4>2, <4>3 DEF ViewFits
    <3>2. CASE s.tasks[t] # Absent
      <4> DEFINE row == s.tasks[t]
      <4>1. row \in Rows /\ w.statuses[t] = row.status /\ t \in created
        BY <2>3, <2>4, <3>2
      <4>2. ASSUME NEW n \in 1..MaxRuns, w.announced[<<t, n>>] = 1
            PROVE  n < row.run \/ (n = row.run /\ row.status \in Terminal)
        <5>1. CASE v.announced[<<t, n>>] = 1
          <6>1. v.statuses[t] # Absent
            BY <5>1 DEF ViewFits
          <6>2. PICK old \in Rows : KnownAs(v, t, old) /\ Before(old, row)
            BY <2>5, <3>2, <6>1
          <6>3. n < old.run \/ (n = old.run /\ old.status \in Terminal)
            BY <5>1, <6>2 DEF KnownAs
          <6> QED BY <4>1, <6>2, <6>3, TaskRows DEF Before
        <5>2. CASE v.announced[<<t, n>>] # 1
          <6>1. t \in Ends(v, s) /\ row.run = n
            BY <2>1, <3>0, <4>2, <5>2
          <6> QED BY <6>1, TaskRows DEF Ends
        <5> QED BY <5>1, <5>2
      <4>3. KnownAs(w, t, row)
        BY <2>4, <3>2, <4>1, <4>2 DEF KnownAs
      <4>4. w.statuses[t] # Absent
        BY <4>1, TaskRows
      <4> QED BY <4>1, <4>3, <4>4
    <3> QED BY <3>1, <3>2
  <2>13. ASSUME NEW r \in Runs, w.announced[r] = 1 PROVE r \in ended
    <3>1. CASE v.announced[r] = 1
      BY <3>1 DEF ViewFits
    <3>2. CASE v.announced[r] # 1
      <4>1. r[1] \in Ends(v, s) /\ s.tasks[r[1]].run = r[2]
        BY <2>1, <2>13, <3>2
      <4>2. s.tasks[r[1]] # Absent /\ s.tasks[r[1]].status \in {"success", "failed"} /\ r[1] \in Tasks
        BY <4>1 DEF Ends
      <4>3. <<r[1], s.tasks[r[1]].run>> \in ended
        BY <4>2 DEF History
      <4> QED BY <2>7, <4>1, <4>3
    <3> QED BY <3>1, <3>2
  <2>14. w.current <= revision /\ w.current >= s.revision /\ w.current >= v.current
    BY <1>1, <2>1, <2>2 DEF History
  <2>15. ASSUME NEW r \in Runs, v.announced[r] = 1 PROVE w.announced[r] = 1
    <3>1. w.announced[r] = 1 \/ w.announced[r] = 2
      BY <2>1, <2>15
    <3> QED BY <2>8, <3>1
  <2> QED BY <2>10, <2>11, <2>12, <2>13, <2>14, <2>15 DEF ViewFits, Onward, w
<1> QED BY <1>2, <1>3

\* The window takes in what was buffered.
LEMMA TakenFits ==
  ASSUME TableTypes, History, NEW v, ViewFits(v)
  PROVE  /\ ViewFits(Taken(v, buffered))
         /\ \A s \in buffered : s.revision <= Taken(v, buffered).current
         /\ Onward(v, Taken(v, buffered))
<1> DEFINE W == {x \in Views : ViewFits(x) /\ Onward(v, x)}
<1>0. v.current \in Int
  BY DEF ViewFits, Views
<1>1. v \in W /\ \A x \in W : x.current \in Int
  BY <1>0 DEF ViewFits, Views, Onward
<1>2. buffered \in SUBSET Snapshots /\ IsFiniteSet(buffered) /\ buffered \subseteq OnTheWay
  BY DEF TableTypes, OnTheWay
<1>3. revision \in Nat /\ \A s \in buffered : s.revision <= revision
  BY <1>2 DEF TableTypes, History
<1>4. \A x \in W : \A s \in buffered : Processed(x, s, TRUE) \in W
  <2> TAKE x \in W
  <2> TAKE s \in buffered
  <2>1. ViewFits(Processed(x, s, TRUE)) /\ Onward(x, Processed(x, s, TRUE))
    BY <1>2, ProcessedFits
  <2>2. Processed(x, s, TRUE).current \in Int /\ Processed(x, s, TRUE) \in Views /\ x.current \in Int /\ Onward(v, x)
    BY <2>1, ViewFitsIs
  <2>3. \A i, j, k \in Int : i >= j /\ j >= k => i >= k
    OBVIOUS
  <2>4. Onward(v, Processed(x, s, TRUE))
    BY <1>0, <2>1, <2>2, <2>3 DEF Onward
  <2> QED BY <2>1, <2>2, <2>4
<1>5. Taken(v, buffered) \in W /\ \A s \in buffered : s.revision <= Taken(v, buffered).current
  <2> HIDE DEF W
  <2> QED BY <1>1, <1>2, <1>3, <1>4, TakenIs
<1> QED BY <1>5

\* The service has changed its table, and has announced it.
LEMMA ServiceFits ==
  ASSUME TableTypes, History, ViewFits(TaskView), revision' \in Nat, table' \in Tables,
         revision' > revision \/ (revision' = revision /\ table' = table),
         OnTheWay' \subseteq OnTheWay \cup {Snapshot(revision', table')},
         created \subseteq created', ended \subseteq ended', UNCHANGED <<taskView, shown>>,
         \A t \in Tasks : table'[t] # Absent =>
           /\ t \in created' /\ (t \notin created \/ (table[t] # Absent /\ Before(table[t], table'[t])))
           /\ table'[t].status \in {"success", "failed"} => <<t, table'[t].run>> \in ended'
  PROVE  History' /\ ViewFits(TaskView)'
<1> DEFINE new == Snapshot(revision', table')
           old == Snapshot(revision, table)
<1>1. new.revision = revision' /\ new.tasks = table' /\ old.revision = revision /\ old.tasks = table /\ old \in OnTheWay
      /\ revision \in Nat /\ OnTheWay \subseteq Snapshots
  BY OnTheWayAre, TaskRows DEF TableTypes
<1> HIDE DEF new, old
<1>2. \A s \in OnTheWay : s.revision \in Nat /\ s.revision <= revision
  BY <1>1, TaskRows DEF History
<1>3. \A s \in OnTheWay, t \in Tasks : s.tasks[t] # Absent /\ table'[t] # Absent => Before(s.tasks[t], table'[t])
  <2> TAKE s \in OnTheWay, t \in Tasks
  <2> HAVE s.tasks[t] # Absent /\ table'[t] # Absent
  <2>1. t \in created
    BY DEF History
  <2>2. table[t] # Absent /\ Before(table[t], table'[t])
    BY <2>1
  <2>3. Before(s.tasks[t], table[t])
    BY <1>1, <1>2, <2>2 DEF History
  <2>4. s.tasks[t] \in Rows /\ table[t] \in Rows /\ table'[t] \in Rows
    BY <1>1, <2>2, TaskRows DEF TableTypes
  <2> QED BY <2>2, <2>3, <2>4, BeforeIs
<1>4. revision' = revision => new = old
  BY <1>1 DEF new, old
<1>5. \A s \in OnTheWay' : s \in OnTheWay \/ s = new
  BY DEF new
<1>6. History'
  <2>1. \A s \in OnTheWay' : s.revision <= revision'
    BY <1>1, <1>2, <1>5
  <2>2. ASSUME NEW s \in OnTheWay', NEW u \in OnTheWay', s.revision <= u.revision, NEW t \in Tasks,
               s.tasks[t] # Absent, u.tasks[t] # Absent
        PROVE  Before(s.tasks[t], u.tasks[t])
    <3>1. CASE u \in OnTheWay
      <4>1. s \in OnTheWay
        BY <1>1, <1>2, <1>4, <1>5, <2>2, <3>1
      <4> QED BY <2>2, <3>1, <4>1 DEF History
    <3>2. CASE u = new /\ s \in OnTheWay
      BY <1>1, <1>3, <2>2, <3>2
    <3>3. CASE u = new /\ s = new
      BY <1>1, <2>2, <3>3, TaskRows, BeforeIs
    <3> QED BY <1>5, <3>1, <3>2, <3>3
  <2>3. \A s, u \in OnTheWay' : s.revision = u.revision => s = u
    BY <1>1, <1>2, <1>4, <1>5 DEF History
  <2>4. \A s \in OnTheWay' : \A t \in Tasks : s.tasks[t] # Absent =>
          t \in created' /\ (s.tasks[t].status \in {"success", "failed"} => <<t, s.tasks[t].run>> \in ended')
    BY <1>1, <1>5 DEF History
  <2> QED BY <2>1, <2>2, <2>3, <2>4 DEF History
<1>7. TaskView' = TaskView /\ shown' = shown
  BY DEF TaskView, taskView
<1>8. ViewFits(TaskView)'
  <2> DEFINE v == TaskView
  <2>1. v \in Views /\ v.current \in Int /\ v.current <= revision
    BY DEF ViewFits, Views
  <2> HIDE DEF v
  <2>2. \A s \in OnTheWay' : s.revision = v.current => s.tasks = Latest(v)
    BY <1>1, <1>4, <1>5, <2>1 DEF ViewFits, v
  <2>3. ASSUME NEW t \in Tasks, v.statuses[t] # Absent, NEW row \in Rows, KnownAs(v, t, row)
        PROVE  \A s \in OnTheWay' : s.revision >= v.current /\ s.tasks[t] # Absent => Before(row, s.tasks[t])
    <3>1. t \in created
      BY <2>3 DEF ViewFits, v
    <3>2. CASE table'[t] # Absent
      <4>1. table[t] # Absent /\ Before(table[t], table'[t])
        BY <3>1, <3>2
      <4>2. Before(row, table[t])
        BY <1>1, <2>1, <2>3, <4>1 DEF KnownAs
      <4>3. table[t] \in Rows /\ table'[t] \in Rows
        BY <3>2, <4>1, TaskRows DEF TableTypes
      <4>4. Before(row, table'[t])
        BY <4>1, <4>2, <4>3, BeforeIs
      <4> QED BY <1>1, <1>5, <2>3, <4>4 DEF KnownAs
    <3> QED BY <1>1, <1>5, <2>3, <3>2 DEF KnownAs
  <2>4. ASSUME NEW t \in Tasks
        PROVE  IF v.statuses[t] = Absent THEN \A n \in 1..MaxRuns : v.announced[<<t, n>>] = 0
               ELSE t \in created' /\ \E row \in Rows :
                 /\ row.status = v.statuses[t]
                 /\ \A s \in OnTheWay' : s.revision >= v.current /\ s.tasks[t] # Absent => Before(row, s.tasks[t])
                 /\ \A n \in 1..MaxRuns : v.announced[<<t, n>>] = 1 =>
                      n < row.run \/ (n = row.run /\ row.status \in Terminal)
    <3>1. CASE v.statuses[t] # Absent
      <4>1. PICK row \in Rows : KnownAs(v, t, row)
        BY <3>1 DEF ViewFits, v
      <4>2. t \in created'
        BY <3>1 DEF ViewFits, v
      <4> QED BY <2>3, <3>1, <4>1, <4>2 DEF KnownAs
    <3> QED BY <3>1 DEF ViewFits, v
  <2>5. v.current <= revision'
    BY <2>1, <1>1
  <2>6. \A r \in Runs : v.announced[r] = 1 => r \in ended'
    BY DEF ViewFits, v
  <2>7. TaskView' = v
    BY <1>7 DEF v
  <2> QED BY <1>7, <2>1, <2>2, <2>4, <2>5, <2>6, <2>7 DEF ViewFits, KnownAs, Latest
<1> QED BY <1>6, <1>8

\* The window has taken something in.
LEMMA WindowFits ==
  ASSUME TableTypes, History, NEW v, ViewFits(v), Becomes(v), UNCHANGED <<table, revision, created, ended>>,
         OnTheWay' \subseteq OnTheWay, Latest(v) = (IF pending' = Absent THEN shown' ELSE pending'),
         pending' \in {Absent} \cup Tables
  PROVE  History' /\ ViewFits(TaskView)'
<1>1. History'
  BY DEF History
<1> DEFINE w == TaskView'
<1>2. v \in Views
  BY DEF ViewFits
<1>3. w.current = v.current /\ w.statuses = v.statuses /\ w.announced = v.announced /\ w.pending = pending' /\ w \in Views
  BY <1>2 DEF Becomes, TaskView, Views
<1> HIDE DEF w
<1>4. \A t \in Tasks, row \in Rows : KnownAs(v, t, row) =>
        /\ row.status = w.statuses[t]
        /\ \A s \in OnTheWay' : s.revision >= w.current /\ s.tasks[t] # Absent => Before(row, s.tasks[t])
        /\ \A n \in 1..MaxRuns : w.announced[<<t, n>>] = 1 => n < row.run \/ (n = row.run /\ row.status \in Terminal)
  BY <1>3 DEF KnownAs
<1>5. \A t \in Tasks : IF w.statuses[t] = Absent THEN \A n \in 1..MaxRuns : w.announced[<<t, n>>] = 0
        ELSE t \in created' /\ \E row \in Rows :
                 /\ row.status = w.statuses[t]
                 /\ \A s \in OnTheWay' : s.revision >= w.current /\ s.tasks[t] # Absent => Before(row, s.tasks[t])
                 /\ \A n \in 1..MaxRuns : w.announced[<<t, n>>] = 1 =>
                      n < row.run \/ (n = row.run /\ row.status \in Terminal)
  <2> TAKE t \in Tasks
  <2>1. CASE v.statuses[t] # Absent
    <3>1. PICK row \in Rows : KnownAs(v, t, row)
      BY <2>1 DEF ViewFits
    <3>2. t \in created'
      BY <2>1 DEF ViewFits
    <3> QED BY <1>3, <1>4, <2>1, <3>1, <3>2
  <2> QED BY <1>3, <2>1 DEF ViewFits
<1>6. \A s \in OnTheWay' : s.revision = w.current => s.tasks = (IF w.pending = Absent THEN shown' ELSE w.pending)
  BY <1>3 DEF ViewFits
<1>7. w.current <= revision' /\ \A r \in Runs : w.announced[r] = 1 => r \in ended'
  BY <1>3 DEF ViewFits
<1> QED BY <1>1, <1>3, <1>5, <1>6, <1>7 DEF ViewFits, KnownAs, Latest, w

\* What is due has news on its way.
LEMMA DueIs ==
  ASSUME CenterIInv, NEW t \in Tasks, NEW n, Due(t, n)
  PROVE  /\ Snapshot(revision, table) \in taskWire \cup buffered
         /\ <<t, n>> \in RunsOf({t}) /\ \A ids : t \in ids => <<t, n>> \in Hidden(ids)
         /\ t \in Finished(table) /\ table[t] # Absent /\ table[t].status \in {"success", "failed"}
<1>1. current < revision /\ table[t] # Absent /\ table[t].run = n /\ table[t].status \in {"success", "failed"}
  BY DEF Due
<1>2. current # revision /\ table # Empty
  BY <1>1 DEF CenterIInv, ViewFits, Views, TaskView, TableTypes, Empty
<1>3. Snapshot(revision, table) \in taskWire \cup buffered
  BY <1>2 DEF CenterIInv, NewsComes
<1>4. \A ids : t \in ids => <<t, n>> \in RunsOf(ids)
  BY <1>1 DEF RunsOf
<1> QED BY <1>1, <1>3, <1>4 DEF Hidden, Finished, Terminal

LEMMA ViewIs ==
  ASSUME ViewFits(TaskView)
  PROVE  /\ current \in Nat \cup {-1} /\ current <= revision
         /\ statuses \in [Tasks -> {Absent} \cup Active \cup Terminal]
         /\ pending \in {Absent} \cup Tables /\ announced \in [Runs -> {0, 1}]
         /\ Latest(TaskView) = (IF pending = Absent THEN shown ELSE pending)
BY DEF ViewFits, Views, TaskView, Latest

LEMMA TableIs ==
  ASSUME CenterIInv
  PROVE  /\ IsFiniteSet(created) /\ ended \subseteq Runs
         /\ \A t \in Tasks : table[t] # Absent =>
              /\ table[t] \in Rows /\ t \in created
              /\ table[t].status \in {"success", "failed"} => <<t, table[t].run>> \in ended
<1>1. TableTypes /\ History
  BY DEF CenterIInv
<1>2. \A t \in Tasks : table[t] # Absent =>
        t \in created /\ (table[t].status \in {"success", "failed"} => <<t, table[t].run>> \in ended)
  BY <1>1, OnTheWayAre, TaskRows DEF History
<1>3. \A t \in Tasks : table[t] # Absent => table[t] \in Rows
  BY <1>1, TaskRows DEF TableTypes
<1> QED BY <1>1, <1>2, <1>3 DEF TableTypes

\* The service.
LEMMA ChangeInv ==
  ASSUME CenterIInv, NEW t \in Tasks, NEW task \in Rows, Change(t, task), UNCHANGED OutsideTable,
         created \subseteq created', IsFiniteSet(created'), t \in created', ended \subseteq ended', ended' \subseteq Runs,
         t \notin created \/ (table[t] # Absent /\ Before(table[t], task)),
         task.status \in {"success", "failed"} => <<t, task.run>> \in ended',
         quiet \subseteq quiet',
         \A r \in ended' \ quiet' : Due(r[1], r[2])' \/ (r \in ended /\ (r[1] = t => ~Due(r[1], r[2])))
  PROVE  CenterIInv'
<1> DEFINE new == Snapshot(revision', table')
<1>1. TableTypes /\ History /\ ViewFits(TaskView) /\ NewsComes /\ EndsAreDue
  BY DEF CenterIInv
<1>2. /\ revision' = revision + 1 /\ revision' <= MaxRevision /\ revision \in Nat /\ MaxRevision \in Nat
      /\ table' = [table EXCEPT ![t] = task] /\ taskWire' = taskWire \cup {new}
  BY <1>1, CenterBoundsAssumption DEF Change, TableTypes
<1>0. revision' \in Nat /\ revision' > revision /\ table \in Tables
  BY <1>1, <1>2 DEF TableTypes
<1>3. table' \in Tables /\ new \in Snapshots
  <2>1. table' \in Tables
    BY <1>0, <1>2 DEF Tables
  <2> QED BY <1>0, <2>1, TaskRows
<1>4. UNCHANGED <<fetches, clearing, subscription, live, buffered, taskView, shown>>
  BY DEF OutsideTable
<1> HIDE DEF new
<1>5. TableTypes'
  BY <1>1, <1>2, <1>3, <1>4 DEF TableTypes
<1>6. OnTheWay' \subseteq OnTheWay \cup {new}
  BY <1>2, <1>4 DEF OnTheWay, Replies, new
<1>7. \A u \in Tasks : table[u] # Absent =>
        u \in created /\ (table[u].status \in {"success", "failed"} => <<u, table[u].run>> \in ended)
  BY TableIs
<1>8. \A u \in Tasks : table'[u] # Absent =>
        /\ u \in created' /\ (u \notin created \/ (table[u] # Absent /\ Before(table[u], table'[u])))
        /\ table'[u].status \in {"success", "failed"} => <<u, table'[u].run>> \in ended'
  BY <1>1, <1>2, <1>7, TaskRows, BeforeIs DEF TableTypes, Tables
<1>9. History' /\ ViewFits(TaskView)'
  <2>1. UNCHANGED <<taskView, shown>>
    BY <1>4
  <2>2. OnTheWay' \subseteq OnTheWay \cup {Snapshot(revision', table')}
    BY <1>6 DEF new
  <2>3. revision' > revision \/ (revision' = revision /\ table' = table)
    BY <1>0
  <2> QED BY <1>0, <1>1, <1>3, <1>8, <2>1, <2>2, <2>3, ServiceFits
<1>10. NewsComes'
  BY <1>2 DEF NewsComes, new
<1>11. EndsAreDue'
  <2> SUFFICES ASSUME NEW r \in ended' \ quiet', r \in ended, r[1] = t => ~Due(r[1], r[2])
               PROVE  (announced[r] = 1)' \/ Due(r[1], r[2])'
    BY DEF EndsAreDue
  <2>1. r \in ended \ quiet /\ r[1] \in Tasks
    BY <1>1 DEF TableTypes, Runs
  <2>2. CASE announced[r] = 1
    BY <1>4, <2>2 DEF taskView
  <2>3. CASE announced[r] # 1
    <3>1. Due(r[1], r[2]) /\ r[1] # t
      BY <1>1, <2>1, <2>3 DEF EndsAreDue
    <3>2. table'[r[1]] = table[r[1]]
      BY <1>1, <1>2, <2>1, <3>1 DEF TableTypes, Tables
    <3>3. new.revision > current /\ new.tasks = table' /\ current < revision'
      BY <1>1, <1>2, ViewIs, TaskRows DEF new
    <3>4. Replies' = Replies
      BY <1>4 DEF Replies
    <3> QED BY <1>2, <1>4, <3>1, <3>2, <3>3, <3>4 DEF Due, taskView
  <2> QED BY <2>2, <2>3
<1> QED BY <1>5, <1>9, <1>10, <1>11 DEF CenterIInv

LEMMA CreateInv ==
  ASSUME CenterIInv, NEW t \in Tasks, Create(t)
  PROVE  CenterIInv'
<1> DEFINE task == Task("queued", 1)
<1>1. task \in Rows /\ task.status = "queued"
  BY CenterBoundsAssumption DEF Task, Rows, Active
<1>2. t \notin created /\ created' = created \cup {t} /\ Change(t, task) /\ UNCHANGED <<OutsideTable, ended, quiet>>
  BY DEF Create
<1>3. IsFiniteSet(created') /\ ended \subseteq Runs
  BY <1>2, FS_AddElement DEF CenterIInv, TableTypes
<1>4. table[t] = Absent
  BY <1>2, TableIs
<1>5. \A r \in ended' \ quiet' : r \in ended /\ (r[1] = t => ~Due(r[1], r[2]))
  BY <1>2, <1>4 DEF Due
<1> HIDE DEF task
<1> QED BY <1>1, <1>2, <1>3, <1>5, ChangeInv

LEMMA StartInv ==
  ASSUME CenterIInv, NEW t \in Tasks, Start(t)
  PROVE  CenterIInv'
<1> DEFINE task == [table[t] EXCEPT !.status = "running"]
<1>1. table[t] # Absent /\ table[t].status = "queued" /\ Change(t, task) /\ UNCHANGED <<OutsideTable, created, ended, quiet>>
  BY DEF Start
<1>2. table[t] \in Rows
  BY <1>1, TaskRows DEF CenterIInv, TableTypes
<1>3. task \in Rows /\ task.status = "running" /\ Before(table[t], task)
  BY <1>1, <1>2 DEF Rows, Active, Before, Terminal
<1>4. t \in created /\ IsFiniteSet(created) /\ ended \subseteq Runs
  BY <1>1, TableIs
<1>5. \A r \in ended' \ quiet' : r \in ended /\ (r[1] = t => ~Due(r[1], r[2]))
  BY <1>1 DEF Due
<1> HIDE DEF task
<1> QED BY <1>1, <1>3, <1>4, <1>5, ChangeInv

LEMMA RetryInv ==
  ASSUME CenterIInv, NEW t \in Tasks, Retry(t)
  PROVE  CenterIInv'
<1> DEFINE task == Task("queued", table[t].run + 1)
<1>1. /\ table[t] # Absent /\ table[t].run < MaxRuns /\ Change(t, task) /\ UNCHANGED <<OutsideTable, created, ended>>
      /\ quiet' = quiet \cup Hidden({t})
  BY DEF Retry
<1>2. table[t] \in Rows
  BY <1>1, TaskRows DEF CenterIInv, TableTypes
<1>3. task \in Rows /\ task.status = "queued" /\ Before(table[t], task)
  BY <1>1, <1>2, CenterBoundsAssumption DEF Rows, Active, Before, Task
<1>4. t \in created /\ IsFiniteSet(created) /\ ended \subseteq Runs
  BY <1>1, TableIs
<1>5. ASSUME NEW r \in ended' \ quiet' PROVE r \in ended /\ (r[1] = t => ~Due(r[1], r[2]))
  <2>1. r \in Runs /\ r = <<r[1], r[2]>>
    BY <1>1, <1>4 DEF Runs
  <2>2. ASSUME r[1] = t, Due(r[1], r[2]) PROVE FALSE
    <3>1. <<t, r[2]>> \in Hidden({t})
      BY <2>2, DueIs
    <3> QED BY <1>1, <2>1, <2>2, <3>1
  <2> QED BY <1>1, <2>2
<1> HIDE DEF task
<1> QED BY <1>1, <1>3, <1>4, <1>5, ChangeInv

LEMMA EndInv ==
  ASSUME CenterIInv, NEW t \in Tasks, NEW status \in Terminal, End(t, status)
  PROVE  CenterIInv'
<1> DEFINE task == [table[t] EXCEPT !.status = status]
<1>0. PICK n : n = table[t].run
  OBVIOUS
<1>1. /\ table[t] # Absent /\ table[t].status \in Active /\ Change(t, task) /\ UNCHANGED <<OutsideTable, created>>
      /\ ended' = (IF status = "canceled" THEN ended ELSE ended \cup RunsOf({t}))
      /\ quiet' = (IF Calm /\ statuses[t] = table[t].status THEN quiet ELSE quiet \cup RunsOf({t}))
  BY DEF End
<1>2. table[t] \in Rows /\ RunsOf({t}) = {<<t, n>>}
  BY <1>0, <1>1, TaskRows DEF CenterIInv, TableTypes, RunsOf
<1>3. task \in Rows /\ task.status = status /\ task.run = n /\ Before(table[t], task)
  BY <1>0, <1>1, <1>2, TaskRows DEF Rows, Before
<1>4. t \in created /\ IsFiniteSet(created) /\ ended \subseteq Runs
  BY <1>1, TableIs
<1>5. ended' \subseteq Runs
  BY <1>0, <1>1, <1>2, <1>4 DEF Runs, Rows
<1>6. task.status \in {"success", "failed"} => <<t, task.run>> \in ended'
  BY <1>1, <1>2, <1>3
<1>7. ASSUME NEW r \in ended' \ quiet' PROVE Due(r[1], r[2])' \/ (r \in ended /\ (r[1] = t => ~Due(r[1], r[2])))
  <2>1. r[1] = t => ~Due(r[1], r[2])
    BY <1>1 DEF Due, Active
  <2>2. CASE r \notin ended
    <3>1. r = <<t, n>> /\ status # "canceled"
      BY <1>1, <1>2, <2>2
    <3>2. Calm /\ statuses[t] = table[t].status
      BY <1>1, <1>2, <3>1
    <3>3. table' = [table EXCEPT ![t] = task] /\ revision' = revision + 1 /\ table \in Tables /\ revision \in Nat
      BY <1>1 DEF Change, CenterIInv, TableTypes
    <3>4. taskWire' = {Snapshot(revision', table')} /\ buffered' = {} /\ fetches' = {} /\ clearing' = Absent
          /\ statuses' = statuses /\ current' = current
      BY <1>1, <3>2, <3>3 DEF Calm, Change, OutsideTable, taskView
    <3>5. table'[t] = task
      BY <3>3 DEF Tables
    <3>6. current < revision'
      BY <3>3, ViewIs DEF CenterIInv
    <3>7. status \in {"success", "failed"}
      BY <3>1 DEF Terminal
    <3>8. Snapshot(revision', table').revision = revision' /\ Snapshot(revision', table').tasks = table'
      BY TaskRows
    <3>9. table'[t] # Absent
      BY <1>3, <3>5, NoTaskAssumption
    <3>10. Due(t, n)'
      <4> HIDE DEF task
      <4>1. Replies' = {}
        BY <3>4 DEF Replies
      <4>2. statuses'[t] \in Active
        BY <1>1, <3>2, <3>4
      <4>3. \A s \in (taskWire \cup buffered)' : s.revision > current' /\ s.tasks[t] = table'[t]
        BY <3>4, <3>6, <3>8
      <4> QED BY <1>3, <3>4, <3>5, <3>6, <3>7, <3>9, <4>1, <4>2, <4>3 DEF Due
    <3> QED BY <3>1, <3>10
  <2> QED BY <2>1, <2>2
<1> HIDE DEF task
<1> QED BY <1>1, <1>3, <1>4, <1>5, <1>6, <1>7, ChangeInv

LEMMA ClearFinishedInv ==
  ASSUME CenterIInv, ClearFinished
  PROVE  CenterIInv'
<1> DEFINE new == Snapshot(revision', table')
<1>1. TableTypes /\ History /\ ViewFits(TaskView) /\ NewsComes /\ EndsAreDue
  BY DEF CenterIInv
<1>2. /\ revision' = revision + Cardinality(Finished(table)) /\ revision' <= MaxRevision
      /\ table' = [t \in Tasks |-> IF t \in Finished(table) THEN Absent ELSE table[t]]
      /\ taskWire' = taskWire \cup {new} /\ clearing' = new
      /\ quiet' = quiet \cup Hidden(Finished(table))
      /\ UNCHANGED <<created, fetches, subscription, live, buffered, taskView, shown, ended>>
  BY TaskRows DEF ClearFinished
<1>3. Finished(table) \subseteq created
  BY TableIs DEF Finished
<1>4. IsFiniteSet(Finished(table)) /\ Cardinality(Finished(table)) \in Nat
  BY <1>3, TableIs, FS_Subset, FS_CardinalityType
<1>5. revision \in Nat /\ revision' \in Nat /\ table \in Tables /\ table' \in Tables /\ new \in Snapshots
  <2>1. table' \in Tables
    BY <1>1, <1>2 DEF TableTypes, Tables
  <2> QED BY <1>1, <1>2, <1>4, <2>1, TaskRows DEF TableTypes
<1>6. revision' > revision \/ (revision' = revision /\ table' = table)
  <2>1. CASE Finished(table) = {}
    BY <1>2, <1>5, <2>1, FS_EmptySet DEF Tables
  <2>2. CASE Finished(table) # {}
    BY <1>2, <1>4, <1>5, <2>2, FS_EmptySet
  <2> QED BY <2>1, <2>2
<1> HIDE DEF new
<1>7. TableTypes'
  BY <1>1, <1>2, <1>5 DEF TableTypes
<1>8. OnTheWay' \subseteq OnTheWay \cup {new}
  BY <1>2 DEF OnTheWay, Replies, new
<1>9. \A t \in Tasks : table'[t] # Absent =>
        /\ t \in created' /\ (t \notin created \/ (table[t] # Absent /\ Before(table[t], table'[t])))
        /\ table'[t].status \in {"success", "failed"} => <<t, table'[t].run>> \in ended'
  BY <1>2, TableIs, BeforeIs
<1>10. History' /\ ViewFits(TaskView)'
  <2>1. OnTheWay' \subseteq OnTheWay \cup {Snapshot(revision', table')}
    BY <1>8 DEF new
  <2>2. created \subseteq created' /\ ended \subseteq ended' /\ UNCHANGED <<taskView, shown>>
    BY <1>2
  <2> QED BY <1>1, <1>5, <1>6, <1>9, <2>1, <2>2, ServiceFits
<1>11. NewsComes'
  BY <1>2 DEF NewsComes, new
<1>12. EndsAreDue'
  <2> SUFFICES ASSUME NEW r \in ended' \ quiet' PROVE (announced[r] = 1)' \/ Due(r[1], r[2])'
    BY DEF EndsAreDue
  <2>1. r \in ended \ quiet /\ r[1] \in Tasks /\ r = <<r[1], r[2]>>
    BY <1>2, TableIs DEF Runs
  <2>2. ~Due(r[1], r[2])
    BY <1>2, <2>1, DueIs
  <2> QED BY <1>1, <1>2, <2>1, <2>2 DEF EndsAreDue, taskView
<1> QED BY <1>7, <1>10, <1>11, <1>12 DEF CenterIInv

\* The window.
\* What the window shows has not changed.
LEMMA SameViewInv ==
  ASSUME CenterIInv, TableTypes', UNCHANGED <<taskService, taskView, shown, ended>>, OnTheWay' \subseteq OnTheWay,
         Snapshot(revision, table) \in taskWire \cup buffered =>
           Snapshot(revision, table) \in taskWire' \cup buffered',
         quiet \subseteq quiet',
         \A r \in ended \ quiet' : Due(r[1], r[2]) => Due(r[1], r[2])'
  PROVE  CenterIInv'
<1>1. TableTypes /\ History /\ ViewFits(TaskView) /\ NewsComes /\ EndsAreDue
  BY DEF CenterIInv
<1>2. Becomes(TaskView) /\ pending' = pending
  BY DEF Becomes, TaskView, taskView
<1>3. History' /\ ViewFits(TaskView)'
  <2>1. UNCHANGED <<table, revision, created, ended>>
    BY DEF taskService
  <2>2. Latest(TaskView) = (IF pending' = Absent THEN shown' ELSE pending') /\ pending' \in {Absent} \cup Tables
    BY <1>1, <1>2, ViewIs
  <2> QED BY <1>1, <1>2, <2>1, <2>2, WindowFits
<1>4. NewsComes'
  BY <1>1 DEF NewsComes, taskService, taskView
<1>5. EndsAreDue'
  <2> SUFFICES ASSUME NEW r \in ended' \ quiet' PROVE (announced[r] = 1)' \/ Due(r[1], r[2])'
    BY DEF EndsAreDue
  <2>1. r \in ended \ quiet /\ r \in ended \ quiet'
    OBVIOUS
  <2> QED BY <1>1, <2>1 DEF EndsAreDue, taskView
<1> QED BY <1>3, <1>4, <1>5 DEF CenterIInv

LEMMA ResubscribeInv ==
  ASSUME CenterIInv, Resubscribe
  PROVE  CenterIInv'
<1> DEFINE f == [subscription |-> subscription + 1, answer |-> Absent]
<1>1. /\ subscription < MaxSubscriptions /\ subscription' = subscription + 1 /\ live' = FALSE
      /\ fetches' = fetches \cup {f}
      /\ UNCHANGED <<taskService, taskWire, clearing, buffered, taskView, shown, ended, quiet>>
  BY DEF Resubscribe
<1>2. TableTypes /\ MaxSubscriptions \in Nat
  BY CenterBoundsAssumption DEF CenterIInv
<1>3. TableTypes'
  <2>1. subscription \in Nat /\ subscription' \in 1..MaxSubscriptions /\ subscription <= subscription'
    BY <1>1, <1>2 DEF TableTypes
  <2>2. \A g \in fetches' : g.subscription <= subscription'
    <3> TAKE g \in fetches'
    <3>1. CASE g \in fetches
      BY <1>1, <1>2, <2>1, <3>1 DEF TableTypes
    <3>2. CASE g = f
      BY <1>1, <2>1, <3>2
    <3> QED BY <1>1, <3>1, <3>2
  <2>3. fetches' \subseteq [subscription : Nat, answer : {Absent} \cup Snapshots]
    BY <1>1, <1>2, <2>1 DEF TableTypes
  <2> QED BY <1>1, <1>2, <2>1, <2>2, <2>3 DEF TableTypes, taskService
<1>4. Replies' = Replies
  BY <1>1 DEF Replies
<1>5. OnTheWay' \subseteq OnTheWay
  BY <1>1, <1>4 DEF OnTheWay, taskService
<1>6. \A r \in ended \ quiet' : Due(r[1], r[2]) => Due(r[1], r[2])'
  BY <1>1, <1>4 DEF Due, taskService, taskView
<1> QED BY <1>1, <1>3, <1>5, <1>6, SameViewInv

LEMMA FetchInv ==
  ASSUME CenterIInv, NEW f, Fetch(f)
  PROVE  CenterIInv'
<1> DEFINE g == [f EXCEPT !.answer = Snapshot(revision, table)]
<1>1. /\ f \in fetches /\ f.answer = Absent /\ fetches' = (fetches \ {f}) \cup {g}
      /\ quiet' = quiet \cup Hidden(Finished(table))
      /\ UNCHANGED <<taskService, taskWire, clearing, subscription, live, buffered, taskView, shown, ended>>
  BY DEF Fetch
<1>2. TableTypes /\ Snapshot(revision, table) \in Snapshots
  BY OnTheWayAre DEF CenterIInv
<1>3. g \in [subscription : Nat, answer : Snapshots] /\ g.answer = Snapshot(revision, table)
      /\ g.subscription = f.subscription
  BY <1>1, <1>2 DEF TableTypes
<1> HIDE DEF g
<1>4. TableTypes'
  <2>1. \A h \in fetches' : h.subscription <= subscription'
    BY <1>1, <1>2, <1>3 DEF TableTypes
  <2>2. fetches' \subseteq [subscription : Nat, answer : {Absent} \cup Snapshots]
    BY <1>1, <1>2, <1>3 DEF TableTypes
  <2> QED BY <1>1, <1>2, <2>1, <2>2 DEF TableTypes, taskService
<1>5. Replies' \subseteq Replies \cup {g}
  BY <1>1 DEF Replies
<1>6. OnTheWay' \subseteq OnTheWay
  BY <1>1, <1>3, <1>5 DEF OnTheWay, taskService
<1>7. ASSUME NEW r \in ended \ quiet' PROVE ~Due(r[1], r[2])
  <2>1. r[1] \in Tasks /\ r = <<r[1], r[2]>>
    BY TableIs DEF Runs
  <2> QED BY <1>1, <2>1, DueIs
<1> QED BY <1>1, <1>4, <1>6, <1>7, SameViewInv

LEMMA FetchFailsInv ==
  ASSUME CenterIInv, NEW f, FetchFails(f)
  PROVE  CenterIInv'
<1>1. /\ f \in fetches /\ fetches' = fetches \ {f} /\ live' = (live \/ f.subscription = subscription)
      /\ UNCHANGED <<taskService, taskWire, clearing, subscription, buffered, taskView, shown, ended, quiet>>
  BY DEF FetchFails
<1>2. TableTypes
  BY DEF CenterIInv
<1>3. live' \in BOOLEAN
  BY <1>1
<1>4. TableTypes'
  BY <1>1, <1>2, <1>3 DEF TableTypes, taskService
<1>5. Replies' \subseteq Replies
  BY <1>1 DEF Replies
<1>6. OnTheWay' \subseteq OnTheWay
  BY <1>1, <1>5 DEF OnTheWay, taskService
<1>7. \A r \in ended \ quiet' : Due(r[1], r[2]) => Due(r[1], r[2])'
  BY <1>1, <1>5 DEF Due, taskService, taskView
<1> QED BY <1>1, <1>4, <1>6, <1>7, SameViewInv

\* What the window shows has changed.
LEMMA ViewInv ==
  ASSUME CenterIInv, TableTypes', NEW v, ViewFits(v), Becomes(v), Onward(TaskView, v),
         UNCHANGED <<taskService, ended, quiet>>, OnTheWay' \subseteq OnTheWay,
         Latest(v) = (IF pending' = Absent THEN shown' ELSE pending'), pending' \in {Absent, v.pending},
         v = TaskView \/ v.current >= 0,
         Snapshot(revision, table) \in taskWire \cup buffered =>
           Snapshot(revision, table) \in taskWire' \cup buffered' \/ v.current >= revision,
         \A r \in ended \ quiet : Due(r[1], r[2]) => announced'[r] = 1 \/ Due(r[1], r[2])'
  PROVE  CenterIInv'
<1>1. TableTypes /\ History /\ ViewFits(TaskView) /\ NewsComes /\ EndsAreDue
  BY DEF CenterIInv
<1>2. /\ current' = v.current /\ announced' = v.announced /\ v.current \in Int /\ v.current <= revision
      /\ TaskView.current = current /\ TaskView.announced = announced /\ TaskView.pending = pending
      /\ revision \in Nat /\ current <= revision /\ current \in Int
  BY <1>1, ViewFitsIs, ViewIs DEF Becomes, TaskView, TableTypes
<1>3. UNCHANGED <<table, revision, created>>
  BY DEF taskService
<1>4. History' /\ ViewFits(TaskView)'
  <2>1. pending' \in {Absent} \cup Tables
    BY DEF ViewFits, Views
  <2> QED BY <1>1, <1>3, <2>1, WindowFits
<1>5. NewsComes'
  <2>1. CASE current = revision
    <3>1. v.current >= revision
      BY <1>2, <2>1 DEF Onward
    <3> QED BY <1>2, <1>3, <3>1 DEF NewsComes
  <2>2. CASE Snapshot(revision, table) \in taskWire \cup buffered
    BY <1>2, <1>3, <2>2 DEF NewsComes
  <2>3. CASE revision = 0 /\ current = -1 /\ table = Empty /\ shown = Empty /\ pending = Absent
    <3>1. CASE v.current >= 0
      BY <1>2, <1>3, <2>3, <3>1 DEF NewsComes
    <3>2. CASE v = TaskView
      <4>1. pending' = Absent /\ shown' = Empty
        BY <1>2, <2>3, <3>2 DEF Latest
      <4> QED BY <1>2, <1>3, <2>3, <3>2, <4>1 DEF NewsComes
    <3> QED BY <3>1, <3>2
  <2> QED BY <1>1, <2>1, <2>2, <2>3 DEF NewsComes
<1>6. EndsAreDue'
  <2> SUFFICES ASSUME NEW r \in ended' \ quiet' PROVE (announced[r] = 1)' \/ Due(r[1], r[2])'
    BY DEF EndsAreDue
  <2>1. r \in ended \ quiet /\ r \in Runs
    BY <1>1 DEF TableTypes
  <2> QED BY <1>1, <1>2, <2>1 DEF EndsAreDue, Onward
<1> QED BY <1>4, <1>5, <1>6 DEF CenterIInv

\* What is shown at once, and what is shown later, is what was taken in last.
LEMMA ShownIs ==
  ASSUME NEW v \in Views
  PROVE  /\ AtOnce(v) => Becomes(v) /\ pending' = Absent /\ shown' = Latest(v)
         /\ Later(v) => Becomes(v) /\ pending' = v.pending /\ shown' = shown
BY DEF AtOnce, Later, Latest

LEMMA ShownTypes ==
  ASSUME TableTypes, NEW v \in Views
  PROVE  Latest(v) \in Tables
BY DEF TableTypes, Views, Latest

LEMMA CommitInv ==
  ASSUME CenterIInv, Commit
  PROVE  CenterIInv'
<1> DEFINE v == TaskView
<1>1. /\ AtOnce(v)
      /\ UNCHANGED <<taskService, taskWire, fetches, clearing, subscription, live, buffered, ended, quiet>>
  BY DEF Commit
<1>2. TableTypes /\ ViewFits(v) /\ v \in Views
  BY ViewFitsIs DEF CenterIInv
<1>3. Becomes(v) /\ pending' = Absent /\ shown' = Latest(v) /\ Latest(v) \in Tables
  BY <1>1, <1>2, ShownIs, ShownTypes
<1>4. TableTypes'
  BY <1>1, <1>2, <1>3 DEF TableTypes, taskService
<1>5. Replies' = Replies /\ OnTheWay' = OnTheWay
  BY <1>1 DEF Replies, OnTheWay, taskService
<1>6. statuses' = statuses /\ current' = current
  BY <1>3 DEF Becomes, TaskView
<1>7. \A r \in ended \ quiet : Due(r[1], r[2]) => Due(r[1], r[2])'
  BY <1>1, <1>5, <1>6 DEF Due, taskService
<1>8. Onward(v, v)
  BY <1>2, ViewFitsIs DEF Onward
<1> HIDE DEF v
<1>9. v = TaskView
  BY DEF v
<1> QED BY <1>1, <1>2, <1>3, <1>4, <1>5, <1>7, <1>8, <1>9, ViewInv

LEMMA SnapshotArrivesInv ==
  ASSUME CenterIInv, NEW e, SnapshotArrives(e)
  PROVE  CenterIInv'
<1>1. /\ e \in taskWire /\ taskWire' = taskWire \ {e}
      /\ UNCHANGED <<taskService, fetches, clearing, subscription, live, ended, quiet>>
  BY DEF SnapshotArrives
<1>2. TableTypes /\ History /\ ViewFits(TaskView) /\ e \in OnTheWay /\ e \in Snapshots /\ e.revision \in Nat
  BY <1>1, TaskRows DEF CenterIInv, TableTypes, OnTheWay
<1>3. Replies' = Replies
  BY <1>1 DEF Replies
<1>4. CASE ~live
  <2>1. buffered' = buffered \cup {e} /\ UNCHANGED <<taskView, shown>>
    BY <1>4 DEF SnapshotArrives
  <2>2. IsFiniteSet(buffered')
    BY <1>2, <2>1, FS_AddElement DEF TableTypes
  <2>3. TableTypes'
    BY <1>1, <1>2, <2>1, <2>2 DEF TableTypes, taskService
  <2>4. OnTheWay' \subseteq OnTheWay
    BY <1>1, <1>3, <2>1 DEF OnTheWay, taskService
  <2>5. taskWire' \cup buffered' = taskWire \cup buffered
    BY <1>1, <2>1
  <2>6. \A r \in ended \ quiet' : Due(r[1], r[2]) => Due(r[1], r[2])'
    BY <1>1, <1>3, <2>1, <2>5 DEF Due, taskService, taskView
  <2> QED BY <1>1, <2>1, <2>3, <2>4, <2>5, <2>6, SameViewInv
<1>5. CASE live
  <2> DEFINE v == Processed(TaskView, e, TRUE)
  <2>1. Later(v) /\ buffered' = buffered
    BY <1>5 DEF SnapshotArrives
  <2>2. ViewFits(v) /\ v \in Views /\ v.current \in Int /\ v.current >= e.revision /\ Onward(TaskView, v)
    BY <1>2, ProcessedFits, ViewFitsIs
  <2>3. Becomes(v) /\ pending' = v.pending /\ shown' = shown
    BY <2>1, <2>2, ShownIs
  <2>10. \A r \in Runs : r[1] \in Ends(TaskView, e) /\ e.tasks[r[1]].run = r[2] /\ ~Outdated(e, TaskView.current) =>
           v.announced[r] = TaskView.announced[r] + 1
    BY DEF Processed
  <2> HIDE DEF v
  <2>4. TableTypes'
    BY <1>1, <1>2, <2>1, <2>3 DEF TableTypes, taskService
  <2>5. OnTheWay' \subseteq OnTheWay
    BY <1>1, <1>3, <2>1 DEF OnTheWay, taskService
  <2>6. Snapshot(revision, table) \in taskWire \cup buffered =>
          Snapshot(revision, table) \in taskWire' \cup buffered' \/ v.current >= revision
    BY <1>1, <2>1, <2>2, TaskRows
  <2>7. ASSUME NEW r \in ended \ quiet, Due(r[1], r[2]) PROVE announced'[r] = 1
    <3>1. r[1] \in Tasks /\ r = <<r[1], r[2]>> /\ r \in Runs
      BY TableIs DEF Runs
    <3>2. e.revision > current /\ e.tasks[r[1]] = table[r[1]] /\ statuses[r[1]] \in Active
          /\ table[r[1]] # Absent /\ table[r[1]].run = r[2] /\ table[r[1]].status \in {"success", "failed"}
      BY <1>1, <2>7 DEF Due
    <3>3. ~Outdated(e, TaskView.current) /\ r[1] \in Ends(TaskView, e)
      BY <1>2, <3>1, <3>2, TaskRows, ViewIs DEF Outdated, TaskView, Ends
    <3>4. v.announced[r] = TaskView.announced[r] + 1
      BY <3>1, <3>2, <3>3, <2>10
    <3>5. TaskView.announced[r] \in {0, 1} /\ v.announced[r] \in {0, 1} /\ announced' = v.announced
      BY <1>2, <2>2, <2>3, <3>1, ViewFitsIs DEF Views, Becomes
    <3> QED BY <3>4, <3>5
  <2>8. v.current >= 0
    BY <1>2, <2>2
  <2>9. Latest(v) = (IF pending' = Absent THEN shown' ELSE pending')
    BY <2>3 DEF Latest
  <2> QED BY <1>1, <2>2, <2>3, <2>4, <2>5, <2>6, <2>7, <2>8, <2>9, ViewInv
<1> QED BY <1>4, <1>5

LEMMA ClearAnsweredInv ==
  ASSUME CenterIInv, ClearAnswered
  PROVE  CenterIInv'
<1> DEFINE v == Processed(TaskView, clearing, FALSE)
<1>1. /\ clearing # Absent /\ clearing' = Absent /\ AtOnce(v)
      /\ UNCHANGED <<taskService, taskWire, fetches, subscription, live, buffered, ended, quiet>>
  BY DEF ClearAnswered
<1>2. TableTypes /\ History /\ ViewFits(TaskView) /\ clearing \in OnTheWay /\ clearing.revision \in Nat
  BY <1>1, TaskRows DEF CenterIInv, TableTypes, OnTheWay
<1>3. ViewFits(v) /\ v \in Views /\ v.current \in Int /\ v.current >= 0 /\ Onward(TaskView, v)
  <2>1. ViewFits(v) /\ v.current >= clearing.revision /\ Onward(TaskView, v)
    BY <1>2, ProcessedFits
  <2> HIDE DEF v
  <2> QED BY <1>2, <2>1, ViewFitsIs
<1>4. Becomes(v) /\ pending' = Absent /\ shown' = Latest(v) /\ Latest(v) \in Tables
  BY <1>1, <1>2, <1>3, ShownIs, ShownTypes
<1> HIDE DEF v
<1>5. TableTypes'
  BY <1>1, <1>2, <1>4 DEF TableTypes, taskService
<1>6. OnTheWay' \subseteq OnTheWay
  BY <1>1 DEF OnTheWay, Replies, taskService
<1>7. \A r \in ended \ quiet : ~Due(r[1], r[2])
  BY <1>1 DEF Due
<1> QED BY <1>1, <1>2, <1>3, <1>4, <1>5, <1>6, <1>7, ViewInv

LEMMA FetchAnsweredInv ==
  ASSUME CenterIInv, NEW f, FetchAnswered(f)
  PROVE  CenterIInv'
<1> DEFINE first == Processed(TaskView, f.answer, FALSE)
           v == Taken(first, buffered)
<1>1. /\ f \in fetches /\ f.answer # Absent /\ fetches' = fetches \ {f} /\ AtOnce(v) /\ buffered' = {}
      /\ live' = (live \/ f.subscription = subscription)
      /\ UNCHANGED <<taskService, taskWire, clearing, subscription, ended, quiet>>
  BY DEF FetchAnswered
<1>2. TableTypes /\ History /\ ViewFits(TaskView) /\ f.answer \in OnTheWay /\ f.answer.revision \in Nat /\ f \in Replies
  BY <1>1, TaskRows DEF CenterIInv, TableTypes, OnTheWay, Replies
<1>3. ViewFits(first) /\ first.current \in Int /\ first.current >= 0 /\ Onward(TaskView, first)
  <2>1. ViewFits(first) /\ first.current >= f.answer.revision /\ Onward(TaskView, first)
    BY <1>2, ProcessedFits
  <2> HIDE DEF first
  <2> QED BY <1>2, <2>1, ViewFitsIs
<1>4. ViewFits(v) /\ v \in Views /\ v.current \in Int /\ Onward(first, v) /\ \A s \in buffered : s.revision <= v.current
  <2> HIDE DEF first
  <2> QED BY <1>2, <1>3, TakenFits, ViewFitsIs
<1> HIDE DEF first, v
<1>5. v.current >= 0 /\ Onward(TaskView, v)
  BY <1>2, <1>3, <1>4, ViewFitsIs DEF Onward
<1>6. Becomes(v) /\ pending' = Absent /\ shown' = Latest(v) /\ Latest(v) \in Tables
  BY <1>1, <1>2, <1>4, ShownIs, ShownTypes
<1>7. TableTypes'
  <2>1. live' \in BOOLEAN /\ IsFiniteSet({})
    BY <1>1, FS_EmptySet
  <2> QED BY <1>1, <1>2, <1>6, <2>1 DEF TableTypes, taskService
<1>8. OnTheWay' \subseteq OnTheWay
  BY <1>1 DEF OnTheWay, Replies, taskService
<1>9. \A r \in ended \ quiet : ~Due(r[1], r[2])
  BY <1>2 DEF Due
<1>10. Snapshot(revision, table) \in taskWire \cup buffered =>
         Snapshot(revision, table) \in taskWire' \cup buffered' \/ v.current >= revision
  <2>1. revision \in Nat
    BY <1>2 DEF TableTypes
  <2> QED BY <1>1, <1>4, <2>1, TaskRows
<1> QED BY <1>1, <1>2, <1>4, <1>5, <1>6, <1>7, <1>8, <1>9, <1>10, ViewInv

\* The specification.
LEMMA CenterInitHolds ==
  ASSUME CenterInit
  PROVE  CenterIInv
<1>1. Empty \in Tables /\ Empty # Absent /\ Snapshot(0, Empty) \in Snapshots
  BY TaskRows DEF Empty, Tables
<1>2. TableTypes
  <2>1. subscription \in 1..MaxSubscriptions /\ revision <= MaxRevision /\ revision \in Nat
    BY CenterBoundsAssumption DEF CenterInit
  <2>2. fetches \subseteq [subscription : Nat, answer : {Absent} \cup Snapshots]
        /\ \A f \in fetches : f.subscription <= subscription
    BY DEF CenterInit
  <2>3. taskWire = {} /\ buffered = {} /\ created = {} /\ ended = {} /\ live \in BOOLEAN /\ clearing = Absent
        /\ table \in Tables /\ shown \in Tables
    BY <1>1 DEF CenterInit
  <2> QED BY <2>1, <2>2, <2>3, FS_EmptySet DEF TableTypes
<1>3. OnTheWay = {Snapshot(0, Empty)}
  BY DEF CenterInit, OnTheWay, Replies
<1>4. Snapshot(0, Empty).revision = 0 /\ Snapshot(0, Empty).tasks = Empty /\ \A t \in Tasks : Empty[t] = Absent
  BY TaskRows DEF Empty
<1>5. History
  BY <1>3, <1>4 DEF History, CenterInit
<1>6. ViewFits(TaskView)
  <2>1. TaskView.current = -1 /\ TaskView.statuses = Empty /\ TaskView.pending = Absent
        /\ TaskView.announced = [r \in Runs |-> 0] /\ TaskView \in Views
    BY DEF TaskView, CenterInit, Views, Empty
  <2>2. \A t \in Tasks, n \in 1..MaxRuns : TaskView.announced[<<t, n>>] = 0
    BY <2>1 DEF Runs
  <2>3. revision = 0
    BY DEF CenterInit
  <2> QED BY <1>3, <1>4, <2>1, <2>2, <2>3 DEF ViewFits
<1>7. NewsComes /\ EndsAreDue
  BY DEF CenterInit, NewsComes, EndsAreDue
<1> QED BY <1>2, <1>5, <1>6, <1>7 DEF CenterIInv

LEMMA CenterNextKeeps ==
  ASSUME CenterIInv, [CenterNext]_centerVars
  PROVE  CenterIInv'
<1>1. CASE \E t \in Tasks : Create(t) \/ Start(t) \/ Retry(t) \/ (\E s \in Terminal : End(t, s))
  BY <1>1, CreateInv, StartInv, RetryInv, EndInv
<1>2. CASE \E e \in taskWire : SnapshotArrives(e)
  BY <1>2, SnapshotArrivesInv
<1>3. CASE Commit \/ Resubscribe \/ ClearFinished \/ ClearAnswered
  BY <1>3, CommitInv, ResubscribeInv, ClearFinishedInv, ClearAnsweredInv
<1>4. CASE \E f \in fetches : Fetch(f) \/ FetchAnswered(f) \/ FetchFails(f)
  BY <1>4, FetchInv, FetchAnsweredInv, FetchFailsInv
<1>5. CASE UNCHANGED centerVars
  <2>1. UNCHANGED <<taskService, taskWire, fetches, clearing, subscription, live, buffered, taskView, shown, ended, quiet>>
    BY <1>5 DEF centerVars
  <2>2. TableTypes'
    BY <2>1 DEF CenterIInv, TableTypes, taskService
  <2>3. OnTheWay' = OnTheWay /\ Replies' = Replies
    BY <2>1 DEF OnTheWay, Replies, taskService
  <2>4. \A r \in ended \ quiet' : Due(r[1], r[2]) => Due(r[1], r[2])'
    BY <2>1, <2>3 DEF Due, taskService, taskView
  <2> QED BY <2>1, <2>2, <2>3, <2>4, SameViewInv
<1> QED BY <1>1, <1>2, <1>3, <1>4, <1>5 DEF CenterNext

LEMMA CenterMeaning ==
  ASSUME CenterIInv
  PROVE  CenterOK /\ TasksAreShown
<1>1. TableTypes /\ History /\ ViewFits(TaskView) /\ NewsComes /\ EndsAreDue
  BY DEF CenterIInv
<1>2. CenterOK
  <2>1. current \in -1..revision /\ revision \in 0..MaxRevision
    BY <1>1, ViewIs, CenterBoundsAssumption DEF TableTypes
  <2> QED BY <1>1, <2>1, ViewIs DEF CenterOK, TableTypes
\* At rest the window has taken in the newest snapshot.
<1>3. CenterAtRest => current = revision \/ (table = Empty /\ shown = Empty)
  <2> SUFFICES ASSUME CenterAtRest PROVE current = revision \/ (table = Empty /\ shown = Empty)
    OBVIOUS
  <2>1. CASE Snapshot(revision, table) \in taskWire \cup buffered
    <3>1. revision <= current
      BY <2>1, TaskRows DEF CenterAtRest
    <3> QED BY <1>1, <3>1, ViewIs DEF TableTypes
  <2> QED BY <1>1, <2>1 DEF NewsComes
<1>4. ShownIsTheTable
  <2>1. ASSUME CenterAtRest, current = revision PROVE shown = table
    <3>1. table = Latest(TaskView)
      BY <1>1, <2>1, OnTheWayAre, TaskRows DEF ViewFits, TaskView
    <3> QED BY <1>1, <2>1, <3>1, ViewIs DEF CenterAtRest
  <2> QED BY <1>3, <2>1 DEF ShownIsTheTable
<1>5. EndsAreAnnouncedOnce
  <2>1. \A r \in Runs : announced[r] = 0 \/ (announced[r] = 1 /\ r \in ended)
    BY <1>1, ViewIs DEF ViewFits, TaskView
  <2>2. ASSUME CenterAtRest, NEW r \in ended \ quiet PROVE announced[r] = 1
    <3>1. r[1] \in Tasks /\ r = <<r[1], r[2]>>
      BY TableIs DEF Runs
    <3>2. ~Due(r[1], r[2])
      <4>1. ASSUME Due(r[1], r[2]) PROVE FALSE
        <5>1. Snapshot(revision, table) \in buffered
          BY <2>2, <3>1, <4>1, DueIs DEF CenterAtRest
        <5>2. Snapshot(revision, table).revision > current
          BY <4>1, <5>1 DEF Due
        <5> QED BY <1>1, <2>2, <5>1, <5>2, ViewIs, TaskRows DEF CenterAtRest, TableTypes
      <4> QED BY <4>1
    <3> QED BY <1>1, <2>2, <3>2 DEF EndsAreDue
  <2> QED BY <2>1, <2>2 DEF EndsAreAnnouncedOnce
<1> QED BY <1>2, <1>4, <1>5 DEF TasksAreShown

\* The inductive invariant.
LEMMA CenterInvariance == CenterSpec => []CenterIInv
BY CenterInitHolds, CenterNextKeeps, PTL DEF CenterSpec

\* The variables of the table and of the window have the values the code gives
\* them (imageexport.go, TaskCenter.tsx), for any tasks and bounds.
THEOREM CenterTypes == CenterSpec => []CenterOK
<1>1. CenterIInv => CenterOK
  BY CenterMeaning
<1> QED BY <1>1, CenterInvariance, PTL

\* At rest the window shows the table of the service, and the end of every run
\* is announced once (TaskCenter.tsx), for any tasks, retries, subscriptions
\* and order of snapshots.
THEOREM TasksShown == CenterSpec => []TasksAreShown
<1>1. CenterIInv => TasksAreShown
  BY CenterMeaning
<1> QED BY <1>1, CenterInvariance, PTL
=============================================================================
