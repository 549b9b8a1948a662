---------------------------- MODULE HealthModel ----------------------------
(***************************************************************************)
(* The data of plc-health: the health record (model.py), the decode tables *)
(* (faultcodes.py), what each probe computes from the frames it has read   *)
(* (probes/modbus.py, s7.py, enip.py) and the process exit code (cli.py).  *)
(*                                                                         *)
(* A frame is the part of a reply the probes look at:                      *)
(*   body  the number of bytes the header announces after itself (what the *)
(*         code passes to recv_exactly, so it can be zero or negative: a   *)
(*         16-bit length less 2 or 4)                                      *)
(*   data  the fields the probe of that protocol indexes out of the bytes  *)
(* Byte values are the real ones; the upper bound of a two-byte field      *)
(* plays no part, so it is any natural number; names, hex dumps and addresses are left  *)
(* out.                                                                    *)
(***************************************************************************)
EXTENDS Integers, Sequences

Protos == {"modbus", "s7", "enip"}

\* poller._AUTO_ORDER: ports 502, 102, 44818.
AutoOrder == <<"modbus", "s7", "enip">>

State == {"RUN", "STOP", "STARTUP", "HOLD", "DEFECT", "FAULT", "UNKNOWN",
          "UNREACHABLE"}

\* Fault.source; every code path of the probes appends at most one fault.
FaultSource == {"modbus", "s7-diag", "cip"}

PLCHealth == [proto : Protos \cup {"auto"}, reachable : BOOLEAN,
              state : State, faults : SUBSET FaultSource]

unreachable(p) == [proto |-> p, reachable |-> FALSE,
                   state |-> "UNREACHABLE", faults |-> {}]

answered(p, s, f) == [proto |-> p, reachable |-> TRUE, state |-> s, faults |-> f]

\* Mutant: a RUN state hides the faults.
healthyIgnoringFaults(h) == h.reachable /\ h.state = "RUN"

healthy(h) == h.reachable /\ h.state = "RUN" /\ h.faults = {}

ExitCode(h) == IF ~h.reachable THEN 2 ELSE IF healthy(h) THEN 0 ELSE 1

---------------------------------------------------------------------------
\* Mutant: a negative length is waited for.
GotUnclamped(f) == f.body

\* What recv_exactly(sock, n) returns: n bytes, none when n <= 0.
Got(f) == IF f.body > 0 THEN f.body ELSE 0

ModbusData == [exc : BOOLEAN, count : 0..255, bit : BOOLEAN]
S7Data == [state : 0..255, event : Nat]
EnipData == [item : Nat, status : Nat, state : 0..255]

Body == {n \in Int : n >= -4}

\* The requests a probe sends, each answered before the next is sent, and
\* the length of the header it reads first.
Exchanges(p) ==
  IF p = "s7" THEN <<"cotp", "setup", "szl0424", "szl00a0">>
  ELSE IF p = "modbus" THEN <<"read">> ELSE <<"identity">>

HeadLen(p) == IF p = "modbus" THEN 8 ELSE IF p = "s7" THEN 4 ELSE 24

---------------------------------------------------------------------------
(* Modbus: body is length - 2, the PDU after the function code.            *)

\* rest[0] on an empty PDU, or struct.unpack of less than a register.
ModbusRaises(f) ==
  \/ Got(f) < 1
  \/ ~f.data.exc /\ f.data.count >= 2 /\ Got(f) < 3

RegisterBit(f) == f.data.count >= 2 /\ Got(f) >= 3 /\ f.data.bit

\* checkBit: the probe was given a fault_bit.
ModbusHealth(f, checkBit) ==
  IF f.data.exc \/ (checkBit /\ RegisterBit(f))
  THEN answered("modbus", "FAULT", {"modbus"})
  ELSE answered("modbus", "RUN", {})

---------------------------------------------------------------------------
(* S7: body is total - 4 of the TPKT header 03 00 hi lo.                   *)

s7_cpu_state(b) ==
  CASE b \in 1..3 -> "STARTUP"
    [] b = 4 -> "STOP"
    [] b = 5 -> "HOLD"
    [] b = 8 -> "RUN"
    [] b = 16 -> "DEFECT"
    [] OTHER -> "UNKNOWN"

\* state_resp[-1]: with no body it is the low byte of the header's length.
LastByte(f) == IF Got(f) = 0 THEN (f.body + 4) % 256 ELSE f.data.state

\* The first u16 of diag_resp[-12:]: a frame of less than 16 bytes still has
\* (part of) the header 03 00 hi lo in that window.
TailWord(f) ==
  LET total == Got(f) + 4
  IN  CASE total <= 12 -> 768
        [] total = 13 -> 0
        [] total = 14 -> 14
        [] total = 15 -> 3840
        [] OTHER -> f.data.event

S7Health(szl, diag) ==
  answered("s7", s7_cpu_state(LastByte(szl)),
           IF TailWord(diag) # 0 THEN {"s7-diag"} ELSE {})

---------------------------------------------------------------------------
(* EtherNet/IP: body is the encapsulation length; the CPF item starts at   *)
(* body[6:] and is cut at item_len, or where the body ends.                *)

ItemLen(f) ==
  IF Got(f) < 6 THEN 0
  ELSE IF f.data.item < Got(f) - 6 THEN f.data.item ELSE Got(f) - 6

\* body[4:6] or item[26:28] is too short for struct.unpack.
EnipRaises(f) == ItemLen(f) < 28

cip_status_faults(status) ==
  IF (status \div 16) % 16 \in {4, 5, 8, 9} THEN {"cip"} ELSE {}

EnipHealth(f) ==
  LET faults == cip_status_faults(f.data.status)
  IN  CASE f.data.state = 2 \/ faults # {} -> answered("enip", "FAULT", faults)
        [] f.data.state \in {1, 3} /\ faults = {} -> answered("enip", "STOP", faults)
        [] OTHER -> answered("enip", "RUN", faults)
===========================================================================
