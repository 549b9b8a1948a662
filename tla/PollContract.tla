---------------------------- MODULE PollContract ---------------------------
(***************************************************************************)
(* What `plchealth poll` promises a scheduler that reads nothing but its   *)
(* exit code (plc-health/README.md: "0 healthy, 1 fault/degraded, 2        *)
(* unreachable/error"). During a poll facts come up about the target; the  *)
(* code the process ends with must be justified by the facts of that poll, *)
(* whatever order they came in.                                            *)
(***************************************************************************)
EXTENDS Integers

VARIABLES
  told,   \* what has come up since the poll started
  exit,   \* the exit code, NoCode while the poll runs
  blind   \* the facts that a poll with this command line may overlook

NoCode == -1

Facts == {"running",     \* the target says it runs
          "stopped",     \* the target says it is in another state
          "fault",       \* the target reports a fault: a Modbus exception, an S7
                         \* diagnostic event, a fault nibble of the CIP status
          "garbled",     \* the target's reply is not a frame of its protocol
          "lost",        \* a connection attempt, a send or a read failed
          "unwritable",  \* a report file could not be written
          "bit",         \* the register bit named on the command line is set
          "cipfault"}    \* the CIP state byte names a fault state

\* An exit code is owed to facts: 0 to a target that said it runs, when nothing else
\* came up than what the poll is blind to; 1 to something that is wrong with the target,
\* its reply or the report; 2 to a lost connection.
Justified(code, facts) ==
  CASE code = 0 -> "running" \in facts /\ facts \subseteq {"running"} \cup blind
    [] code = 1 -> facts \cap {"fault", "stopped", "garbled", "unwritable"} # {}
                   \/ "bit" \in facts \ blind
    [] code = 2 -> "lost" \in facts
    [] OTHER -> FALSE

Init == told = {} /\ exit = NoCode /\ blind \subseteq Facts

Learn ==
  /\ exit = NoCode
  /\ told \subseteq told' /\ told' \subseteq Facts
  /\ exit' = NoCode

Conclude ==
  /\ exit = NoCode
  /\ told \subseteq told' /\ told' \subseteq Facts
  /\ exit' \in 0..2
  /\ Justified(exit', told')

NextPoll ==
  /\ exit # NoCode
  /\ told' = {} /\ exit' = NoCode

Next == (Learn \/ Conclude \/ NextPoll) /\ UNCHANGED blind

Spec == Init /\ [][Next]_<<told, exit, blind>>
===========================================================================
