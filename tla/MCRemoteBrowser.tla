-------------------------- MODULE MCRemoteBrowser --------------------------
EXTENDS RemoteBrowser, TLC
MCLogin == (1 :> "home") @@ (2 :> "home")
MCDefaultPath == (1 :> "") @@ (2 :> "home")
=============================================================================
