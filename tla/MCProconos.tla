---------------------------- MODULE MCProconos ----------------------------
(***************************************************************************)
(* Small instance of Proconos. Either one client is alone and sends any    *)
(* three requests, or it sends any two beside a client that writes. (What  *)
(* connections share is the counter and the audit trail, and the second    *)
(* case has the three writes that overflow it.)                            *)
(***************************************************************************)
EXTENDS Proconos, TLC

CONSTANTS c1, c2

MCClients == {c1, c2}
MCLoops == 1..2
MCQuota == (c1 :> 3) @@ (c2 :> 1)
MCAsks == (c1 :> Requests) @@ (c2 :> {"write"})
MCSpent == {(c1 :> 0) @@ (c2 :> 1), (c1 :> 1) @@ (c2 :> 0)}
===========================================================================
