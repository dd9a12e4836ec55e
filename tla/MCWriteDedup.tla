---------------------------- MODULE MCWriteDedup ----------------------------
(* Small instances of WriteDedup: two clients with addresses of their own,  *)
(* or behind one BACnet router.                                             *)
EXTENDS WriteDedup, TLC

CONSTANTS c1, c2, ip1, ip2, v1

MCClients == {c1, c2}
MCIps == {ip1, ip2}
MCOwnAddress == c1 :> ip1 @@ c2 :> ip2
MCBehindRouter == c1 :> ip1 @@ c2 :> ip1
MCPayloads == {v1}

\* Clients that have addresses of their own change places together with them.
MCSymmetry == {[x \in MCClients \cup MCIps |-> x],
               c1 :> c2 @@ c2 :> c1 @@ ip1 :> ip2 @@ ip2 :> ip1}
=============================================================================
