------------------------------ MODULE MCWindows ------------------------------
(***************************************************************************)
(* Constants for checking Windows with TLC.                                *)
(***************************************************************************)
EXTENDS Windows, TLC

CONSTANTS docker, registry, a, t1, t2, r1, r2

\* One source has a path of its own to begin with.
MCLogin == 1 :> "home" @@ 2 :> "home"
MCDefaultPath == 1 :> NoPath @@ 2 :> "home"

\* Every route and every protocol, a redirect where one may be followed, and
\* for the large body, which is what takes states, none.
MCRequests ==
  {r \in [protocol : {"tcp", "datagram", "rtsp", "http", "websocket"}, secure : BOOLEAN,
          route : {"direct", "socks5", "http", "system", "ssh"}, proxyDNS : BOOLEAN, credentials : BOOLEAN,
          large : BOOLEAN, redirects : {0, 1}] :
     /\ r.secure => r.protocol \in {"rtsp", "http", "websocket"}
     /\ r.route = "ssh" => r.protocol = "http"
     /\ r.proxyDNS => r.route \in {"socks5", "system"} /\ r.protocol # "rtsp"
     /\ r.credentials => r.protocol = "rtsp" /\ r.route = "direct"
     /\ r.large => r.protocol = "http" /\ r.route = "direct"
     /\ r.redirects = 0 <=> (r.large \/ r.protocol \in {"tcp", "datagram"})
     /\ r.secure /\ r.protocol = "rtsp" => r.route \in {"direct", "http"}
     /\ r.protocol = "websocket" => r.route \in {"direct", "http"}
     /\ r.protocol = "http" => r.route # "system" /\ (r.route = "socks5" => ~r.secure)}

ASSUME MCAssumption == WindowsAssumption

\* The two resources are alike.  So are the two tasks, but to use that would cost
\* the other windows more time than it saves.
MCSymmetry == Permutations(Resources)
==============================================================================
