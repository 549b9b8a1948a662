---------------------------- MODULE HealthMocks ----------------------------
(***************************************************************************)
(* What the sandbox mocks answer to the requests of plc-health: the        *)
(* targets its test suite polls (modbus_mock_server.py,                    *)
(* s7commplus_mock_server.py, enip_mock_server.py). Each mock answers one  *)
(* whole request with one whole frame and keeps no state between requests; *)
(* its command line fixes what it presents.                                *)
(***************************************************************************)
EXTENDS HealthModel

CONSTANTS
  CpuStates,    \* --cpu-state of the S7 mock
  DiagEvents,   \* --diag-event of the S7 mock, 0 when none is configured
  StatusWords,  \* --status of the EtherNet/IP mock
  CipStates     \* --state of the EtherNet/IP mock

ASSUME CpuStatesAssumption == CpuStates \subseteq 0..255
ASSUME DiagEventsAssumption == DiagEvents \subseteq Nat
ASSUME StatusWordsAssumption == StatusWords \subseteq Nat
ASSUME CipStatesAssumption == CipStates \subseteq 0..255

\* Handler.handle: a two-byte exception PDU, or one register; bit is the bit of
\* --fault-reg-value the poller is told to look at.
ModbusMock(exception, bit) ==
  IF exception
  THEN [body |-> 1, data |-> [exc |-> TRUE, count |-> 0, bit |-> FALSE]]
  ELSE [body |-> 3, data |-> [exc |-> FALSE, count |-> 2, bit |-> bit]]

\* response_for: Connection Confirm (22 bytes), setup Ack_Data (27), SZL (60);
\* the state byte is the last of the frame, the event starts its last 12.
S7Mock(request, cpu, event) ==
  CASE request = "cotp"    -> [body |-> 18, data |-> [state |-> 2, event |-> 0]]
    [] request = "setup"   -> [body |-> 23, data |-> [state |-> 240, event |-> 0]]
    [] request = "szl0424" -> [body |-> 56, data |-> [state |-> cpu, event |-> 0]]
    [] OTHER               -> [body |-> 56, data |-> [state |-> 0, event |-> event]]

\* build_list_identity_response: a 6-byte CPF prefix and the Identity body, 34
\* bytes and the 20 of the default profile's product name.
EnipMock(status, state) ==
  [body |-> 60, data |-> [item |-> 54, status |-> status, state |-> state]]

\* Every reply a mock of protocol p can give to a request.
MockReplies(p, request) ==
  CASE p = "modbus" -> {ModbusMock(e, b) : e, b \in BOOLEAN}
    [] p = "s7"     -> {S7Mock(request, c, e) : c \in CpuStates, e \in DiagEvents}
    [] OTHER        -> {EnipMock(w, s) : w \in StatusWords, s \in CipStates}
===========================================================================
