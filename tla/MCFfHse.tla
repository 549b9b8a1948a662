------------------------------ MODULE MCFfHse ------------------------------
(***************************************************************************)
(* Small instance of FfHse: a poll, or a request in two parts, beside a    *)
(* connection that finishes the session, polls it or asks for something    *)
(* else, while alarms are raised faster than they are taken.               *)
(***************************************************************************)
EXTENDS FfHse, TLC

CONSTANTS c1, c2, h1

MCConns == {c1, c2}
MCHandles == {h1}
MCAsks ==
  (c1 :> {[kind |-> "LRES", handle |-> h1, parts |-> 1],
          [kind |-> "LREQ", handle |-> h1, parts |-> 2]})
  @@ (c2 :> {[kind |-> k, handle |-> h1, parts |-> 1] :
               k \in {"LFIN", "LRES", "SM_IDENTIFY"}})
===========================================================================
