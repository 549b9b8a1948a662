------------------------------ MODULE MCGeSrtp ------------------------------
(***************************************************************************)
(* Small instance of GeSrtp: a connection that carries every kind of       *)
(* packet, one from the same port or another that asks for the uptime, and *)
(* a third from the first port that says nothing.                          *)
(***************************************************************************)
EXTENDS GeSrtp

CONSTANTS a1, a2

NoMemory == [type |-> "R", offset |-> 0, count |-> 0]
Pkt(t, n, s, m) == [type |-> t, length |-> n, service |-> s, memory |-> m]
MCConns == 1..3
Hello == Pkt("INIT", 0, SSTAT, NoMemory)
Uptime == Pkt("REQ", 4, LSTAT, NoMemory)
MCOrigins == {<<a1, a1, a1>>, <<a1, a2, a1>>}
MCPackets ==
  [c \in MCConns |->
     IF c = 3 THEN {}
     ELSE IF c = 2 THEN {Hello}
     ELSE {Hello, Uptime,
           Pkt("REQ", 8, MEM_WRITE, NoMemory),
           Pkt("REQ", 9, MEM_READ, [type |-> "AI", offset |-> 4095, count |-> 2])}]
MCMaxAsked == <<3, 1, 0>>
===========================================================================
