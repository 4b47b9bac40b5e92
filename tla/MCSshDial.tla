----------------------------- MODULE MCSshDial -----------------------------
(* Two dialers of the same target, one of them through a jump host; the    *)
(* target has keys of two types, so that a dialer may need each of the     *)
(* three attempts, and both may meet the same unknown key at once.  The    *)
(* settings may delete records.  The run about long chains has one dialer  *)
(* and two jump hosts, the shortest chain with a jump host that is itself  *)
(* reached through another.                                                *)
EXTENDS SshDial, TLC

CONSTANTS d1, d2, jump, far, target

MCDialers == {d1, d2}
MCHosts == {jump, target}
MCTypes == {1, 2}
MCOffers == (jump :> {1}) @@ (target :> {1, 2})
MCRoute == (d1 :> <<jump, target>>) @@ (d2 :> <<target>>)
MCFirstKnown ==
  {k \in Records :
     \/ /\ k[jump] = <<"good", "none">>
        /\ k[target] \in {<<"none", "none">>, <<"stale", "none">>, <<"none", "good">>}
     \/ /\ k[jump] = <<"none", "stale">>
        /\ k[target] = <<"none", "stale">>}
MCEdits == {"none"}

\* A chain with two jump hosts, every key on record.
MCChainDialers == {d1}
MCChainHosts == {jump, far, target}
MCChainTypes == {1}
MCChainOffers == [h \in MCChainHosts |-> {1}]
MCChainRoute == d1 :> <<jump, far, target>>
MCChainFirstKnown == {[h \in MCChainHosts |-> [y \in MCChainTypes |-> r]] : r \in {"good", "stale"}}
=============================================================================
