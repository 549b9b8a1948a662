------------------------------ MODULE MCRedLion -----------------------------
(***************************************************************************)
(* Small instance of RedLion: a client that writes, correctly or not, and *)
(* one that reads, with two requests and one, share a tag of each of two   *)
(* types.                                                                  *)
(***************************************************************************)
EXTENDS RedLion, TLC

CONSTANTS c1, c2

MCTagType == ("level" :> "float") @@ ("speed" :> "int")

Req(cmd, tag, value) == [cmd |-> cmd, tag |-> tag, value |-> value]
MCRequests ==
  (c1 :> {Req("junk", "none", "none"), Req("unknown", "none", "none"),
          Req("write", "level", "huge"), Req("write", "speed", "nan")}) @@
  (c2 :> {Req("status", "none", "none"), Req("info", "none", "none"),
          Req("read", "level", "none"), Req("write", "none", "plain")})
MCMisread ==
  (c1 :> {Req("unknown", "none", "none"), Req("write", "level", "huge")}) @@
  (c2 :> {Req("legacy", "none", "none"), Req("read", "level", "none")})
MCMaxAsked == (c1 :> 2) @@ (c2 :> 1)
MCMaxCuts == (c1 :> 1) @@ (c2 :> 2)
===========================================================================
