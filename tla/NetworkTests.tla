---------------------------- MODULE NetworkTests ----------------------------
(***************************************************************************)
(* A network test (networktest*.go) and the window that shows it           *)
(* (NetworkTestTool.tsx).                                                  *)
(*                                                                         *)
(* A run goes through stages: it looks up names, connects, opens tunnels,  *)
(* makes TLS handshakes, sends requests and waits for answers, along a     *)
(* route that the request chooses, and again after a redirect.  Every      *)
(* change of a stage is kept in the run and sent to the window; the result *)
(* holds all stages.  A run of TCP, UDP, NTP or RTSP is one goroutine.     *)
(* Those of HTTP and WebSocket leave the work to net/http, which connects, *)
(* writes and reads in goroutines of its own and calls back; Do returns    *)
(* when the run's context has ended, and does not wait for them.           *)
(*                                                                         *)
(* A goroutine has a list of things to do.  What it fails at makes it give *)
(* up the list, and fail the stages it has begun.  One run is followed;    *)
(* the window drops the events of the others by their runID.  How a stage  *)
(* failed (error, timeout, canceled) is not told apart, and the note that  *)
(* a connection left through a VPN (tunnel-route) is left out.             *)
(***************************************************************************)
EXTENDS Integers, FiniteSets, Sequences, SequencesExt

CONSTANTS Requests,     \* what the user asks for
          MaxRedirects, \* maxNetworkRedirects
          MaxWire,      \* bounds the events on their way
          None
BoundAssumption == MaxRedirects \in Nat /\ MaxWire \in Nat \ {0}

VARIABLES
  \* The run.
  request, route, secure,
  credentials, \* the target of RTSP comes with a name and password
  hop,        \* redirects followed so far, by the request under way
  base,       \* the request under way: OPTIONS or DESCRIBE
  ended,      \* the context is canceled or past its deadline
  todo,       \* what each goroutine has still to do
  held,       \* the event a goroutine is about to send, after the unlock of mu
  stages,
  seen,       \* what the callbacks found out: "written", "byte"
  outcome, result,
  \* The window.
  wire, stageMap, shown,
  \* What the properties remember.
  late,       \* stages a callback wrote, or announced, when Do had returned
  misnamed    \* a stage left alone because the error text spoke of TLS

run == <<request, route, secure, credentials, hop, base, ended, outcome, result>>
window == <<wire, stageMap, shown>>
target == <<secure, credentials>>
vars == <<run, todo, held, stages, seen, window, late, misnamed>>

Hops == 0..MaxRedirects
Names == {"validate", "proxy-resolve", "dns-proxy", "dns-target", "tcp-connect", "ssh-connect", "ssh-forward",
          "proxy-tunnel", "tls", "tls-probe", "http-request", "http-response", "websocket-handshake",
          "rtsp-options", "rtsp-auth", "rtsp-describe", "send", "response"}
\* networkRedirectStageID; "send" and "response" are those of UDP or NTP.
Ids == Names \X Hops
NoStages == [id \in Ids |-> None]

Main == <<"main", 0>>
Helpers == {"dial", "write", "read"} \X Hops
Actors == {Main} \cup Helpers

Protocols == {"tcp", "datagram", "rtsp", "http", "websocket"}
\* What may be asked for: TLS is a matter of the target's scheme, and only
\* HTTP goes through SSH.  A large body is one that is not sent at once.
AllRequests ==
  {r \in [protocol : Protocols, secure : BOOLEAN, route : {"direct", "socks5", "http", "system", "ssh"},
          proxyDNS : BOOLEAN, credentials : BOOLEAN, large : BOOLEAN,
          redirects : Hops] :
     /\ r.secure => r.protocol \in {"rtsp", "http", "websocket"}
     /\ r.route = "ssh" => r.protocol = "http"
     /\ r.proxyDNS => r.route \in {"socks5", "system"}
     /\ r.credentials => r.protocol = "rtsp"
     /\ r.large => r.protocol = "http"
     /\ r.redirects > 0 => r.protocol \in {"rtsp", "http", "websocket"}}
RequestsAssumption == Requests \subseteq AllRequests

Init ==
  /\ request \in Requests
  /\ route = request.route /\ secure = request.secure /\ credentials = request.credentials
  /\ hop = 0 /\ base = "rtsp-options" /\ ended = FALSE
  /\ todo = [a \in Actors |-> IF a = Main THEN <<[op |-> "start"]>> ELSE <<>>]
  /\ held = [a \in Actors |-> None]
  /\ stages = NoStages /\ seen = {} /\ outcome = "success" /\ result = None
  /\ wire = <<>> /\ stageMap = NoStages /\ shown = NoStages
  /\ late = {} /\ misnamed = {}

(***************************************************************************)
(* What there is to do.                                                    *)
(***************************************************************************)
Begin(name, h) == [op |-> "begin", id |-> <<name, h>>]
End(name, h) == [op |-> "end", id |-> <<name, h>>]    \* what was begun may fail
Done(name, h) == [op |-> "done", id |-> <<name, h>>]  \* it has not
Fail(name, h) == [op |-> "fail", id |-> <<name, h>>]
Do(what) == [op |-> what]
Either(choices) == <<[op |-> "either", of |-> choices]>>
Stage(name, h) == <<Begin(name, h), End(name, h)>>

\* resolve: an address is not looked up.
Resolve(name, h) == Either({Stage(name, h), <<Done(name, h)>>})
Direct(dns, h) == Resolve(dns, h) \o Stage("tcp-connect", h)
SOCKS5(lookup, h) ==
  Direct("dns-proxy", h) \o <<Begin("proxy-tunnel", h)>> \o lookup \o <<End("proxy-tunnel", h)>>
TargetLookup(h) == IF request.proxyDNS THEN <<>> ELSE Resolve("dns-target", h)

\* dialContext, and openStream with its CONNECT tunnel.
Dial(r, h) ==
  CASE r = "ssh" -> Stage("ssh-forward", h)
    [] r = "http" -> Direct("dns-proxy", h)
    [] r = "socks5" -> SOCKS5(TargetLookup(h), h)
    [] OTHER -> Direct("dns-target", h)
Stream(r, h) == Dial(r, h) \o (IF r = "http" THEN Stage("proxy-tunnel", h) ELSE <<>>)
TLS(tls, h) == IF tls THEN Stage("tls", h) ELSE <<>>

\* openUDPChannel: sockets are opened without a stage, a relay may be a name.
Channel(r) ==
  IF r = "socks5"
  THEN TargetLookup(0) \o SOCKS5(Either({<<>>, Stage("dns-target", 0)}), 0)
  ELSE Resolve("dns-target", 0) \o <<Do("try")>>

Ask(name, h) == <<Begin(name, h), Do("answer")>>
Connect(r, tls, name, h) == Stream(r, h) \o TLS(tls, h) \o Ask(name, h)

\* The CONNECT of net/http has its stage begun here, at redirects by HTTP alone.
Exchange(r, tls, h) ==
  (IF r = "http" /\ tls THEN <<Begin("proxy-tunnel", h)>> ELSE <<>>) \o <<Do("do")>>

Plan(r) ==
  CASE request.protocol = "tcp" -> Stream(r, 0)
    [] request.protocol = "datagram" -> Channel(r) \o Stage("send", 0) \o Stage("response", 0)
    [] request.protocol = "rtsp" -> Connect(r, secure, base, 0)
    [] OTHER -> (IF r = "ssh" THEN Stage("ssh-connect", 0) ELSE <<>>) \o Exchange(r, secure, 0)

\* The stages begun and not ended, the innermost first.
Begun(list) ==
  SelectSeq(list, LAMBDA o : o.op = "end" /\ Begin(o.id[1], o.id[2]) \notin ToSet(list))
\* Mutant: the innermost is left to whoever sees the error.
UnwoundOuter(list) ==
  LET begun == Begun(list) IN [i \in 1..(Len(begun) - 1) |-> Fail(begun[i + 1].id[1], begun[i + 1].id[2])]
Unwound(list) == LET begun == Begun(list) IN [i \in DOMAIN begun |-> Fail(begun[i].id[1], begun[i].id[2])]

(***************************************************************************)
(* A goroutine at work.                                                    *)
(***************************************************************************)
Free(a) == todo[a] # <<>> /\ held[a] = None
At(a, op) == Free(a) /\ Head(todo[a]).op = op
Goes(a, list) == todo' = [todo EXCEPT ![a] = list]
Waiting(h) == hop = h /\ todo[Main] # <<>> /\ Head(todo[Main]).op = "wait"

\* A helper nobody waits for writes a stage, or sends its event.
Late(a, id) == IF a # Main /\ ~Waiting(a[2]) THEN late \cup {id} ELSE late

\* stage() and fail(): the map under the lock, the event after it.
Write(a, id, status) ==
  /\ stages' = [stages EXCEPT ![id] = status]
  /\ held' = [held EXCEPT ![a] = <<id, status>>]
  /\ late' = Late(a, id)

\* The callbacks take the request's stage from the requestTrace, which goes
\* with the redirects, and the answer's from their closure.
Target(a, id) == IF a[1] = "write" /\ id[1] # "http-response" THEN <<id[1], hop>> ELSE id
Status(op) == CASE op = "begin" -> "running" [] op = "fail" -> "failed" [] OTHER -> "success"
Facts(a, o) ==
  IF a[1] = "write" /\ o.op = (IF request.protocol = "http" THEN "end" ELSE "begin") THEN {<<"written", a[2]>>} ELSE {}

Perform(a) ==
  /\ Free(a)
  /\ LET o == Head(todo[a])
     IN /\ o.op \in {"begin", "end", "done", "fail"}
        /\ Write(a, Target(a, o.id), Status(o.op))
        /\ seen' = seen \cup Facts(a, o)
        /\ outcome' = IF a = Main THEN Status(o.op) ELSE outcome
        /\ Goes(a, Tail(todo[a]))
  /\ UNCHANGED <<request, route, target, hop, base, ended, result, window, misnamed>>

Settle(a) ==
  /\ At(a, "either")
  /\ \E list \in Head(todo[a]).of : Goes(a, list \o Tail(todo[a]))
  /\ UNCHANGED <<run, held, stages, seen, window, late, misnamed>>

Pass(a) ==
  /\ At(a, "try")
  /\ Goes(a, Tail(todo[a]))
  /\ UNCHANGED <<run, held, stages, seen, window, late, misnamed>>

\* What the caller adds to a failure: runRTSP the request that was redirected,
\* exchangeDatagram its own stage if no other is there to blame.
Blame(a, unwound) ==
  CASE a[1] = "dial" -> <<Do("error")>>
    [] a = Main /\ request.protocol = "rtsp" /\ hop > 0 -> <<Fail(base, hop)>>
    [] a = Main /\ request.protocol = "datagram" /\ unwound = <<>> -> <<Fail("send", 0)>>
    [] OTHER -> <<>>

Break(a) ==
  /\ Free(a) /\ Head(todo[a]).op \in {"end", "try"}
  /\ LET unwound == Unwound(todo[a]) IN Goes(a, unwound \o Blame(a, unwound))
  /\ UNCHANGED <<run, held, stages, seen, window, late, misnamed>>

Emit(a) ==
  /\ held[a] # None /\ Len(wire) < MaxWire
  /\ wire' = Append(wire, held[a])
  /\ held' = [held EXCEPT ![a] = None]
  /\ late' = Late(a, held[a][1])
  /\ UNCHANGED <<run, todo, stages, seen, stageMap, shown, misnamed>>

(***************************************************************************)
(* RunNetworkTest.                                                         *)
(***************************************************************************)
Start ==
  /\ At(Main, "start")
  /\ \/ Goes(Main, <<Fail("validate", 0)>>)
     \/ /\ ~(request.protocol = "datagram" /\ route = "http")
        /\ Goes(Main, IF route = "system" THEN <<Begin("proxy-resolve", 0), Do("resolve")>> ELSE Plan(route))
  /\ UNCHANGED <<run, held, stages, seen, window, late, misnamed>>

\* resolveSystemProxy.
ResolveSystemProxy ==
  /\ At(Main, "resolve")
  /\ \/ Goes(Main, <<Fail("proxy-resolve", 0)>>) /\ UNCHANGED route
     \/ \E r \in {"direct", "socks5", "http"} :
          /\ request.proxyDNS => r = "socks5"
          /\ request.protocol = "datagram" => r # "http"
          /\ route' = r
          /\ Goes(Main, <<Done("proxy-resolve", 0)>> \o Plan(r))
  /\ UNCHANGED <<request, target, hop, base, ended, outcome, result, held, stages, seen, window, late, misnamed>>

\* explainSilentFailure: a stage of its own, begun and ended, if there is time.
Probes(silent) ==
  {<<>>} \cup (IF silent /\ ~secure /\ ~ended THEN {<<Begin("tls-probe", hop), Done("tls-probe", hop)>>} ELSE {})

\* The answer to an RTSP request, once authentication has been tried.  The
\* second request is sent over the same connection, and counts its own redirects.
\* A redirect may name credentials; those there were are kept on the same host only.
Answered(prefix, kind) ==
  \/ /\ kind = "good"
     /\ base' = "rtsp-describe" /\ hop' = (IF base = "rtsp-options" THEN 0 ELSE hop) /\ UNCHANGED target
     /\ Goes(Main, prefix \o <<Done(base, hop)>>
                      \o (IF base = "rtsp-options" THEN Ask("rtsp-describe", 0) ELSE <<>>))
  \/ /\ kind \in {"bad", "moved"}
     /\ UNCHANGED <<target, hop, base>>
     /\ Goes(Main, prefix \o <<Fail(base, hop)>>)
  \/ /\ kind = "moved" /\ hop < request.redirects
     /\ \E tls \in BOOLEAN :
          /\ secure' = tls /\ credentials' \in BOOLEAN
          /\ Goes(Main, prefix \o <<Done(base, hop)>> \o Connect(route, tls, base, hop + 1))
     /\ hop' = hop + 1 /\ UNCHANGED base

Kinds == {"good", "bad", "moved"}
Unauthorized ==
  IF credentials
  THEN Goes(Main, <<Begin("rtsp-auth", hop), Do("retried")>>)
  ELSE Goes(Main, <<Fail("rtsp-auth", hop), Fail(base, hop)>>)
Answer ==
  /\ At(Main, "answer")
  /\ \/ \E probe \in Probes(TRUE) : Goes(Main, probe \o <<Fail(base, hop)>>) /\ UNCHANGED <<target, hop, base>>
     \/ Unauthorized /\ UNCHANGED <<target, hop, base>>
     \/ \E kind \in Kinds : Answered(<<>>, kind)
  /\ UNCHANGED <<request, route, ended, outcome, result, held, stages, seen, window, late, misnamed>>
\* Any status but a 2xx is taken for a refusal, that of a redirect too.
Retried ==
  /\ At(Main, "retried")
  /\ \/ \E probe \in Probes(TRUE) :
          Goes(Main, probe \o <<Fail("rtsp-auth", hop), Fail(base, hop)>>) /\ UNCHANGED <<target, hop, base>>
     \/ \E kind \in Kinds :
          Answered(<<IF kind = "good" THEN Done("rtsp-auth", hop) ELSE Fail("rtsp-auth", hop)>>, kind)
  /\ UNCHANGED <<request, route, ended, outcome, result, held, stages, seen, window, late, misnamed>>

\* The deadline, or CancelNetworkTest.
ContextEnds ==
  /\ ~ended /\ result = None
  /\ ended' = TRUE
  /\ UNCHANGED <<request, route, target, hop, base, outcome, result, todo, held, stages, seen, window, late, misnamed>>

Return ==
  /\ todo[Main] = <<>> /\ held[Main] = None /\ result = None
  /\ result' = [stages |-> stages, taken |-> FALSE]
  /\ UNCHANGED <<request, route, target, hop, base, ended, outcome, todo, held, stages, seen, window, late, misnamed>>

(***************************************************************************)
(* HTTP and WebSocket: Do, and net/http behind it.                         *)
(***************************************************************************)
Handshake == request.protocol = "websocket"
RequestStage == IF Handshake THEN "websocket-handshake" ELSE "http-request"

\* net/http dials; a CONNECT it was refused has no callback.
RoundTrip ==
  /\ At(Main, "do")
  /\ todo' = [todo EXCEPT
       ![Main] = <<Do("wait")>>,
       ![<<"dial", hop>>] =
          Dial(route, hop)
            \o (IF secure /\ route = "http" THEN <<Do("try"), Done("proxy-tunnel", hop)>> ELSE <<>>)
            \o TLS(secure, hop) \o <<Do("connected")>>]
  /\ UNCHANGED <<run, held, stages, seen, window, late, misnamed>>

\* A connection nobody waits for is closed.
Connected(h) ==
  /\ At(<<"dial", h>>, "connected")
  /\ todo' = [todo EXCEPT
       ![<<"dial", h>>] = <<>>,
       ![<<"write", h>>] =
          IF ~Waiting(h) THEN <<>>
          ELSE IF Handshake THEN <<Begin(RequestStage, h)>>
          ELSE Stage(RequestStage, h) \o <<Begin("http-response", h)>>]
  /\ seen' = IF Waiting(h) THEN seen \cup {<<"connection", h>>} ELSE seen
  /\ UNCHANGED <<run, held, stages, window, late, misnamed>>

\* A small request is written to the end before it is flushed.
FirstByte(h) ==
  /\ <<"connection", h>> \in seen /\ <<"byte", h>> \notin seen
  /\ held[<<"write", h>>] = None
  /\ \/ todo[<<"write", h>>] = <<>> /\ <<"written", h>> \in seen
     \/ request.large /\ Len(todo[<<"write", h>>]) < 3
  /\ seen' = seen \cup {<<"byte", h>>}
  /\ Goes(<<"read", h>>, IF Handshake THEN <<>> ELSE <<Begin("http-response", h)>>)
  /\ UNCHANGED <<run, held, stages, window, late, misnamed>>

Response == At(Main, "wait") /\ <<"byte", hop>> \in seen /\ todo[<<"read", hop>>] = <<>> /\ held[<<"read", hop>>] = None

\* The client of WebSocket follows redirects by itself; onRedirect is called back.
Upgrade ==
  /\ Response /\ Handshake
  /\ \/ \E last \in {Done(RequestStage, hop), Fail(RequestStage, hop)} : Goes(Main, <<last>>) /\ UNCHANGED <<hop, secure>>
     \/ /\ hop < request.redirects
        /\ hop' = hop + 1 /\ secure' \in BOOLEAN
        /\ Goes(Main, <<Begin(RequestStage, hop + 1), Do("do")>>)
  /\ UNCHANGED <<request, route, credentials, base, ended, outcome, result, held, stages, seen, window, late, misnamed>>

Headers ==
  /\ Response /\ ~Handshake
  /\ Goes(Main, <<Begin("http-response", hop), Do("body")>>)
  /\ UNCHANGED <<run, held, stages, seen, window, late, misnamed>>

Body ==
  /\ At(Main, "body")
  /\ \/ Goes(Main, <<Fail("http-response", hop)>>) /\ UNCHANGED <<hop, secure, outcome, stages, held, late>>
     \/ /\ Write(Main, <<"http-response", hop>>, "success") /\ outcome' = "success"
        /\ \/ Goes(Main, <<>>) /\ UNCHANGED <<hop, secure>>
           \/ /\ hop < request.redirects
              /\ Goes(Main, <<Fail("http-request", hop + 1)>>) /\ UNCHANGED <<hop, secure>>
           \/ /\ hop < request.redirects
              /\ hop' = hop + 1
              /\ \E tls \in BOOLEAN : secure' = tls /\ Goes(Main, Exchange(route, tls, hop + 1))
  /\ UNCHANGED <<request, route, credentials, base, ended, result, seen, window, misnamed>>

\* currentStageForHop.
RunningOrder ==
  <<"http-response", "websocket-handshake", "http-request", "tls", "proxy-tunnel", "ssh-forward", "ssh-connect",
    "tcp-connect", "dns-target", "dns-proxy", "proxy-resolve">>
FailedOrder ==
  <<"proxy-resolve", "dns-target", "dns-proxy", "tcp-connect", "ssh-connect", "ssh-forward", "proxy-tunnel", "tls",
    "http-request", "websocket-handshake", "http-response">>
InStatus(order, status) == SelectSeq(order, LAMBDA name : stages[<<name, hop>>] = status)
CurrentStage ==
  LET candidates == InStatus(RunningOrder, "running") \o InStatus(FailedOrder, "failed")
  IN IF candidates # <<>> THEN Head(candidates)
     ELSE IF stages[<<"http-request", hop>>] = "success" THEN "http-response"
     ELSE RequestStage

\* HTTP has its two flags for each request, WebSocket for all.
Known(fact) == IF Handshake THEN \E h \in Hops : <<fact, h>> \in seen ELSE <<fact, hop>> \in seen

\* Do fails: net/http could not connect, lost the connection, or the context
\* has ended.  An error of HTTP that says "tls" is one of TLS.
Error(name) ==
  \E probe \in Probes(Known("written") /\ ~Known("byte")) : Goes(Main, probe \o <<Fail(name, hop)>>)
DialError == todo[<<"dial", hop>>] = <<Do("error")>> /\ held[<<"dial", hop>>] = None
ProxyError == DialError /\ route = "http" /\ secure /\ stages[<<"tcp-connect", hop>>] # "success"
DoFails ==
  /\ At(Main, "wait")
  /\ \/ ProxyError /\ Goes(Main, <<Fail("proxy-tunnel", hop)>>) /\ UNCHANGED misnamed
     \/ /\ (DialError /\ ~ProxyError) \/ <<"connection", hop>> \in seen \/ ended
        /\ \/ Error(CurrentStage) /\ UNCHANGED misnamed
           \/ /\ ~Handshake /\ Error("tls")
              /\ misnamed' = misnamed \cup ({<<CurrentStage, hop>>} \ {<<"tls", hop>>})
  /\ UNCHANGED <<run, held, stages, seen, window, late>>

(***************************************************************************)
(* The window.                                                             *)
(***************************************************************************)
Deliver ==
  /\ wire # <<>>
  /\ stageMap' = [stageMap EXCEPT ![Head(wire)[1]] = Head(wire)[2]]
  /\ shown' = stageMap'
  /\ wire' = Tail(wire)
  /\ UNCHANGED <<run, todo, held, stages, seen, late, misnamed>>

\* The answer replaces what is shown, and not the map behind it.
TakeResult ==
  /\ result # None /\ ~result.taken
  /\ shown' = result.stages
  /\ result' = [result EXCEPT !.taken = TRUE]
  /\ UNCHANGED <<request, route, target, hop, base, ended, outcome, todo, held, stages, seen, wire, stageMap, late, misnamed>>

Next ==
  \/ \E a \in Actors : Perform(a) \/ Settle(a) \/ Pass(a) \/ Break(a) \/ Emit(a)
  \/ Start \/ ResolveSystemProxy \/ Answer \/ Retried \/ ContextEnds \/ Return
  \/ RoundTrip \/ Upgrade \/ Headers \/ Body \/ DoFails
  \/ \E h \in Hops : Connected(h) \/ FirstByte(h)
  \/ Deliver \/ TakeResult

Spec == Init /\ [][Next]_vars

(***************************************************************************)
(* Properties.                                                             *)
(***************************************************************************)
Statuses == {None, "running", "success", "failed"}
\* Stages, events and outcomes are those of the code.
TypeOK ==
  /\ request \in Requests /\ secure \in BOOLEAN /\ credentials \in BOOLEAN /\ hop \in Hops /\ ended \in BOOLEAN
  /\ base \in {"rtsp-options", "rtsp-describe"} /\ outcome \in {"running", "success", "failed"}
  /\ stages \in [Ids -> Statuses] /\ stageMap \in [Ids -> Statuses] /\ shown \in [Ids -> Statuses]
  /\ \A a \in Actors : held[a] = None \/ held[a] \in Ids \X Statuses
  /\ wire \in Seq(Ids \X Statuses) /\ Len(wire) <= MaxWire
  /\ late \subseteq Ids /\ misnamed \subseteq Ids

AtRest ==
  /\ result # None /\ result.taken /\ wire = <<>>
  /\ \A a \in Actors : todo[a] \in {<<>>, <<Do("error")>>} /\ held[a] = None

\* networktestservice_test.go:2301: a stage must not stay in progress.  Three
\* things leave one there: a redirect of WebSocket, which begins the next
\* handshake, ends none, and blames a proxy alone when the proxy fails; an
\* error text that names TLS when something else was under way; and a callback
\* after Do has returned, which begins to wait for an answer that has come, or
\* ends the next request instead of its own.
LeftRunning ==
  (misnamed \cup (late \cap ({"http-response", "websocket-handshake"} \X Hops)))
    \cup {<<"websocket-handshake", h>> : h \in {i \in 0..hop : i < hop \/ (hop > 0 /\ route = "http")}}
    \cup (IF request.large THEN {"http-request"} \X (0..(hop - 1)) ELSE {})

\* networktestservice.go, NetworkTestTool.tsx: when all is done, no other stage
\* is running, the window shows each as it is, unless a callback came late, and
\* a run has failed exactly if one of its stages has (but credentials may be
\* refused with a redirect, a large body with an answer, and the run go on).
StagesAreSettled ==
  AtRest =>
    /\ \A id \in Ids : stages[id] = "running" => id \in LeftRunning
    /\ \A id \in Ids \ late : shown[id] = stages[id]
    /\ outcome = "failed" => late # {} \/ \E id \in Ids : stages[id] = "failed"
    /\ outcome = "success" =>
         \A id \in Ids : stages[id] = "failed" =>
           id \in late \/ id[1] = "rtsp-auth" \/ (request.large /\ id[1] = "http-request")
=============================================================================
