---------------------------- MODULE MCPlcHealth ----------------------------
(***************************************************************************)
(* Small instance of PlcHealth: every protocol and option, the states and  *)
(* fault words the decode tables tell apart, and frames cut or stretched   *)
(* around every length the probes index.                                   *)
(***************************************************************************)
EXTENDS PlcHealth

MCOptions ==
  [proto : {"modbus", "auto"}, bit : BOOLEAN, out : {{}, {"json", "csv"}}]
  \cup [proto : {"s7", "enip"}, bit : {FALSE}, out : {{"json"}, {"json", "csv"}}]

MCCpuStates == {0, 4, 8}
MCDiagEvents == {0, 17152}

\* 0x0000, 0x0090 (major unrecoverable) and 0x0060 (no fault nibble).
MCStatusWords == {0, 144, 96}
MCCipStates == {2, 3, 4, 5}

MCOtherFrames ==
  [p \in Protos |->
     CASE p = "modbus" ->
            [body : {-2, 0, 1, 2, 3}, data : [exc : {FALSE}, count : {0, 2}, bit : {TRUE}]]
            \cup {[body |-> 0, data |-> [exc |-> TRUE, count |-> 0, bit |-> FALSE]]}
       [] p = "s7" ->
            [body : {-4, 0, 3, 8, 9, 10, 11, 12}, data : {[state |-> 8, event |-> 1]}]
       [] p = "enip" ->
            [body : {0, 5, 12, 33, 34, 45, 60},
             data : [item : {28, 54}, status : {0}, state : {0}]]]

MCSegments == {1, 1460}
===========================================================================
