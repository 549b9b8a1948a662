----------------------------- MODULE PlcHealth -----------------------------
(***************************************************************************)
(* One `plchealth poll` process and the target it polls, run again and     *)
(* again as a scheduler would (cli.py, poller.py, framing.py and the three *)
(* probes).                                                                *)
(*                                                                         *)
(* The process is sequential; what makes it hard is the network between    *)
(* two of its steps. Every connection attempt and send may fail, a reply   *)
(* arrives in pieces of any size, is cut by a close or a timeout after any *)
(* number of bytes, and says whatever the target says at that moment: the  *)
(* target may change between the two SZL reads of one S7 poll, or between  *)
(* the port check of --proto auto and the connection of the probe.         *)
(***************************************************************************)
EXTENDS HealthMocks, FiniteSets

CONSTANTS
  Options,      \* the command lines polled with
  OtherFrames,  \* replies of a target other than the mocks, per protocol
  Segments,     \* sizes of the pieces a reply arrives in (at most)
  MaxPolls      \* bound: polls the scheduler starts

Outputs == {"json", "csv"}

\* The command line: bit says whether --modbus-fault-bit is given (it names the
\* bit every poll of the behaviour looks at), out which report files are.
OptionsType == [proto : Protos \cup {"auto"}, bit : BOOLEAN, out : SUBSET Outputs]

DataOf(p) == IF p = "modbus" THEN ModbusData
             ELSE IF p = "s7" THEN S7Data ELSE EnipData

FrameOf(p) == [body : Body, data : DataOf(p)]

ASSUME OptionsAssumption == \A o \in Options : o \in OptionsType
ASSUME OtherFramesAssumption ==
  /\ DOMAIN OtherFrames = Protos
  /\ \A p \in Protos : \A f \in OtherFrames[p] : f \in FrameOf(p)
ASSUME SegmentsAssumption == \A s \in Segments : s \in Nat \ {0}
ASSUME MaxPollsAssumption == MaxPolls \in Nat \ {0}

VARIABLES
  opt,      \* args, the same for every poll
  pc,       \* where the process is
  proto,    \* the probe that runs ("auto" until poll() has chosen one)
  idx,      \* position of the loop over _AUTO_ORDER
  refused,  \* history: the protocols whose port this poll found closed
  step,     \* the exchange of the probe under way
  want,     \* bytes recv_exactly still waits for
  wire,     \* the reply to the request under way, or NoFrame
  szl,      \* state_resp of the S7 probe, or NoFrame
  health,   \* the record the poll has produced, or NoRecord
  disk,     \* the report files, relative to the poll under way
  polls,    \* how many polls have been started
  told,     \* history: the facts of this poll (see PollContract)
  exit      \* the exit code of the process, NoCode while it runs

vars == <<opt, pc, proto, idx, refused, step, want, wire, szl, health, disk,
          polls, told, exit>>

\* What exit code 0 does not answer for: a malformed reply the probe can still index, a
\* CIP state byte other than 2 that names a fault, and the register bit unless the probe
\* was named (cli.py hands --modbus-fault-bit to no other).
Blind(o) == {"garbled", "cipfault"} \cup (IF o.proto = "modbus" THEN {} ELSE {"bit"})

Contract == INSTANCE PollContract WITH told <- told, exit <- exit, blind <- Blind(opt)

NoCode == Contract!NoCode
NoFrame == [none |-> TRUE]
NoRecord == [none |-> TRUE]

TypeOK ==
  /\ opt \in OptionsType
  /\ pc \in {"check", "connect", "send", "head", "body", "emit", "exited"}
  /\ proto \in Protos \cup {"auto"}
  /\ idx \in 1..Len(AutoOrder)
  /\ refused \subseteq Protos
  /\ step \in 1..4
  /\ want \in Nat
  /\ wire \in FrameOf("modbus") \cup FrameOf("s7") \cup FrameOf("enip") \cup {NoFrame}
  /\ szl \in FrameOf("s7") \cup {NoFrame}
  /\ health \in PLCHealth \cup {NoRecord}
  /\ disk \in [Outputs -> {"none", "old", "partial", "new"}]
  /\ polls \in 1..MaxPolls
  /\ told \subseteq Contract!Facts
  /\ exit \in {NoCode, 0, 1, 2}

---------------------------------------------------------------------------
(* What the target tells with a reply.                                     *)

request == Exchanges(proto)[step]

\* The fields the probe indexes are all inside the frame.
WellFormed(p, req, f) ==
  CASE p = "modbus" ->
         Got(f) >= 1 /\ (f.data.exc \/ (f.data.count >= 2 /\ Got(f) >= 3))
    [] p = "s7" -> IF req = "szl00a0" THEN Got(f) >= 12 ELSE Got(f) >= 1
    [] OTHER -> ItemLen(f) >= 34 /\ f.data.item = ItemLen(f)

SaysModbus(f, o) ==
  (IF f.data.exc THEN {"fault"} ELSE {"running"})
  \cup (IF ~f.data.exc /\ o.bit /\ RegisterBit(f) THEN {"bit"} ELSE {})

SaysS7(req, f) ==
  CASE req = "szl0424" /\ Got(f) >= 1 ->
         IF f.data.state = 8 THEN {"running"} ELSE {"stopped"}
    [] req = "szl00a0" /\ Got(f) >= 12 ->
         IF f.data.event # 0 THEN {"fault"} ELSE {}
    [] OTHER -> {}

\* A state byte other than 1, 2 and 3 counts as running, as it does for the probe.
SaysEnip(f) ==
  IF ItemLen(f) < 28 THEN {}
  ELSE (IF f.data.state \in {1, 2, 3} THEN {"stopped"} ELSE {"running"})
       \cup (IF f.data.state \in {2, 5} THEN {"cipfault"} ELSE {})
       \cup (IF cip_status_faults(f.data.status) # {} THEN {"fault"} ELSE {})

Says(p, req, f, o) ==
  (CASE p = "modbus" -> SaysModbus(f, o)
     [] p = "s7"     -> SaysS7(req, f)
     [] OTHER        -> SaysEnip(f))
  \cup (IF WellFormed(p, req, f) THEN {} ELSE {"garbled"})

---------------------------------------------------------------------------
(* The process.                                                            *)

\* A poll starts: poller.poll with "auto" checks ports first, an explicit
\* protocol connects its probe at once.
StartPoll(o) ==
  /\ pc' = IF o.proto = "auto" THEN "check" ELSE "connect"
  /\ proto' = o.proto
  /\ idx' = 1 /\ refused' = {} /\ step' = 1 /\ want' = 0
  /\ wire' = NoFrame /\ szl' = NoFrame /\ health' = NoRecord
  /\ told' = {} /\ exit' = NoCode

Init ==
  /\ opt \in Options
  /\ pc = IF opt.proto = "auto" THEN "check" ELSE "connect"
  /\ proto = opt.proto
  /\ idx = 1 /\ refused = {} /\ step = 1 /\ want = 0
  /\ wire = NoFrame /\ szl = NoFrame /\ health = NoRecord
  /\ disk = [o \in Outputs |-> "none"] /\ polls = 1
  /\ told = {} /\ exit = NoCode

\* _port_open returned True: this protocol's probe runs, and its answer is final.
CheckOpen ==
  /\ pc = "check"
  /\ proto' = AutoOrder[idx]
  /\ pc' = "connect"
  /\ UNCHANGED <<opt, idx, refused, step, want, wire, szl, health, disk, polls,
                 told, exit>>

\* Mutant: the loop gives up one port early.
CheckRefusedShort ==
  /\ pc = "check"
  /\ refused' = refused \cup {AutoOrder[idx]}
  /\ IF idx < Len(AutoOrder) - 1
     THEN idx' = idx + 1 /\ UNCHANGED <<pc, health, told>>
     ELSE /\ pc' = "emit"
          /\ health' = unreachable("auto")
          /\ told' = told \cup {"lost"}
          /\ UNCHANGED idx
  /\ UNCHANGED <<opt, proto, step, want, wire, szl, disk, polls, exit>>

\* _port_open returned False: on to the next port, or no port is open.
CheckRefused ==
  /\ pc = "check"
  /\ refused' = refused \cup {AutoOrder[idx]}
  /\ IF idx < Len(AutoOrder)
     THEN idx' = idx + 1 /\ UNCHANGED <<pc, health, told>>
     ELSE /\ pc' = "emit"
          /\ health' = unreachable("auto")
          /\ told' = told \cup {"lost"}
          /\ UNCHANGED idx
  /\ UNCHANGED <<opt, proto, step, want, wire, szl, disk, polls, exit>>

Connected ==
  /\ pc = "connect"
  /\ pc' = "send"
  /\ UNCHANGED <<opt, proto, idx, refused, step, want, wire, szl, health, disk,
                 polls, told, exit>>

\* sendall of the next request; then the header of its reply is awaited.
Sent ==
  /\ pc = "send"
  /\ pc' = "head"
  /\ want' = HeadLen(proto)
  /\ wire' = NoFrame
  /\ UNCHANGED <<opt, proto, idx, refused, step, szl, health, disk, polls, told,
                 exit>>

\* Mutant: a connection lost after the first SZL read reports the state read.
LostKeepsState ==
  /\ pc \in {"connect", "send"} \/ (pc \in {"head", "body"} /\ want > 0)
  /\ pc' = "emit"
  /\ health' = IF szl = NoFrame THEN unreachable(proto)
               ELSE answered("s7", s7_cpu_state(LastByte(szl)), {})
  /\ told' = told \cup {"lost"}
  /\ UNCHANGED <<opt, proto, idx, refused, step, want, wire, szl, disk, polls,
                 exit>>

\* Mutant: recv has no timeout, so a silent target is waited for.
LostWithoutTimeout ==
  /\ pc \in {"connect", "send"}
     \/ (pc \in {"head", "body"} /\ want > 0 /\ wire # NoFrame)
  /\ pc' = "emit"
  /\ health' = unreachable(proto)
  /\ told' = told \cup {"lost"}
  /\ UNCHANGED <<opt, proto, idx, refused, step, want, wire, szl, disk, polls,
                 exit>>

\* create_connection, sendall or recv raised OSError (refused, reset, closed by
\* the peer before the last byte, or timed out): the probe reports UNREACHABLE,
\* whatever it has read before.
Lost ==
  /\ pc \in {"connect", "send"} \/ (pc \in {"head", "body"} /\ want > 0)
  /\ pc' = "emit"
  /\ health' = unreachable(proto)
  /\ told' = told \cup {"lost"}
  /\ UNCHANGED <<opt, proto, idx, refused, step, want, wire, szl, disk, polls,
                 exit>>

\* recv returns a piece of the reply.
Deliver ==
  /\ pc \in {"head", "body"} /\ wire # NoFrame
  /\ \E n \in Segments :
       want' = IF n < want THEN want - n ELSE 0
  /\ want > 0
  /\ UNCHANGED <<opt, pc, proto, idx, refused, step, wire, szl, health, disk,
                 polls, told, exit>>

\* The header is complete: the length in it says how much recv_exactly reads next.
HeadRead ==
  /\ pc = "head" /\ want = 0
  /\ pc' = "body"
  /\ want' = Got(wire)
  /\ UNCHANGED <<opt, proto, idx, refused, step, wire, szl, health, disk, polls,
                 told, exit>>

\* A reply is complete and another request follows.
NextExchange ==
  /\ pc = "body" /\ want = 0 /\ step < Len(Exchanges(proto))
  /\ pc' = "send"
  /\ step' = step + 1
  /\ szl' = IF request = "szl0424" THEN wire ELSE szl
  /\ wire' = NoFrame
  /\ UNCHANGED <<opt, proto, idx, refused, want, health, disk, polls, told, exit>>

\* The probe indexes or unpacks bytes that are not there: IndexError or
\* struct.error, which no probe catches.
Raises ==
  \/ proto = "modbus" /\ ModbusRaises(wire)
  \/ proto = "enip" /\ EnipRaises(wire)

\* The interpreter prints a traceback and the process ends with 1.
Traceback == pc' = "exited" /\ exit' = 1

ProbeRaises ==
  /\ pc = "body" /\ want = 0 /\ step = Len(Exchanges(proto))
  /\ Raises
  /\ Traceback
  /\ UNCHANGED <<opt, proto, idx, refused, step, want, wire, szl, health, disk,
                 polls, told>>

\* The record of a completed probe. Only the explicit modbus branch of the CLI
\* hands the fault bit to the probe; poller.poll calls it without.
Probed ==
  CASE proto = "modbus" ->
         ModbusHealth(wire, opt.bit /\ opt.proto = "modbus")
    [] proto = "s7"   -> S7Health(szl, wire)
    [] OTHER          -> EnipHealth(wire)

ProbeReturns ==
  /\ pc = "body" /\ want = 0 /\ step = Len(Exchanges(proto))
  /\ ~Raises
  /\ health' = Probed
  /\ pc' = "emit"
  /\ UNCHANGED <<opt, proto, idx, refused, step, want, wire, szl, disk, polls,
                 told, exit>>

\* _emit writes the JSON file, then the CSV file.
Written(o) == o \notin opt.out \/ disk[o] = "new"
\* Mutant: the files are written in any order.
NextOutputUnordered(o) == ~Written(o)
NextOutput(o) == ~Written(o) /\ (o = "csv" => Written("json"))

WriteReport ==
  /\ pc = "emit"
  /\ \E o \in Outputs : NextOutput(o) /\ disk' = [disk EXCEPT ![o] = "new"]
  /\ UNCHANGED <<opt, pc, proto, idx, refused, step, want, wire, szl, health,
                 polls, told, exit>>

\* open() fails and leaves the file as it was, or a write fails in the file that
\* open() has truncated; nothing catches either.
WriteFails ==
  /\ pc = "emit"
  /\ \E o \in Outputs :
       /\ NextOutput(o)
       /\ disk' \in {disk, [disk EXCEPT ![o] = "partial"]}
  /\ told' = told \cup {"unwritable"}
  /\ Traceback
  /\ UNCHANGED <<opt, proto, idx, refused, step, want, wire, szl, health, polls>>

\* The summary is printed and main returns the exit code of the record.
Exit ==
  /\ pc = "emit"
  /\ \A o \in Outputs : Written(o)
  /\ exit' = ExitCode(health)
  /\ pc' = "exited"
  /\ UNCHANGED <<opt, proto, idx, refused, step, want, wire, szl, health, disk,
                 polls, told>>

Process ==
  \/ CheckOpen \/ CheckRefused
  \/ Connected \/ Sent \/ Lost \/ Deliver \/ HeadRead \/ NextExchange
  \/ ProbeRaises \/ ProbeReturns
  \/ WriteReport \/ WriteFails \/ Exit

---------------------------------------------------------------------------
(* The target and the scheduler.                                           *)

\* The target answers the request it has been sent.
Answer ==
  /\ pc = "head" /\ wire = NoFrame
  /\ \E f \in MockReplies(proto, request) \cup OtherFrames[proto] :
       /\ wire' = f
       /\ told' = told \cup Says(proto, request, f, opt)
  /\ UNCHANGED <<opt, pc, proto, idx, refused, step, want, szl, health, disk,
                 polls, exit>>

\* cron starts the next poll; the report files of the last one are still there.
NextPoll ==
  /\ pc = "exited" /\ polls < MaxPolls
  /\ polls' = polls + 1
  /\ disk' = [o \in Outputs |-> IF disk[o] = "new" THEN "old" ELSE disk[o]]
  /\ StartPoll(opt)
  /\ UNCHANGED opt

Next == Process \/ Answer \/ NextPoll

\* The process is never stopped for ever: recv and connect return when their
\* timeout has passed, so one of its steps is always taken in the end. Nothing
\* is assumed of the target or of the scheduler.
Spec == Init /\ [][Next]_vars /\ WF_vars(Process)
---------------------------------------------------------------------------
(* Properties.                                                             *)

\* The exit code of every poll is owed to what came up during that poll: 0 only to a
\* target that said it runs, when nothing else came up but what Blind names, 2 only to a
\* lost connection, 1 only to a fault, the register bit where it is looked at, another
\* state, a malformed reply or a report that could not be written. It relates the last
\* step of cli.main to replies read several exchanges earlier (poller.py, probes/*.py,
\* cli._exit_code).
ExitJustified == Contract!Spec

Earlier(p) == {q \in Protos : \E i, j \in 1..3 :
                 AutoOrder[i] = q /\ AutoOrder[j] = p /\ i < j}

\* With --proto auto a probe runs only after every earlier port of _AUTO_ORDER
\* was found closed, and "no port open" is reported only when all three were
\* (poller.poll, lines 21-27), however ports open and close meanwhile.
AutoTriesInOrder ==
  opt.proto = "auto" =>
    /\ proto # "auto" => refused = Earlier(proto)
    /\ health = unreachable("auto") => refused = Protos

\* A connection that is refused, reset, closed early or silent ends in the
\* UNREACHABLE record and exit code 2, in whatever exchange it happens and
\* whatever was read before it (the except OSError of each probe).
LostExitsTwo ==
  pc = "exited" /\ "lost" \in told /\ "unwritable" \notin told =>
    exit = 2 /\ health = unreachable(proto)

\* A scheduler that reads the report files: after exit code 0 or 2 every file it
\* asked for is this poll's; no file is this poll's without a record; and the
\* CSV file is never ahead of the JSON file (cli._emit before cli._exit_code).
ReportsMatchExit ==
  /\ \A o \in Outputs : disk[o] = "new" => o \in opt.out /\ health # NoRecord
  /\ exit \in {0, 2} => \A o \in opt.out : disk[o] = "new"
  /\ "json" \in opt.out /\ disk["csv"] = "new" => disk["json"] = "new"

\* No poll hangs, however slowly the target answers or if it never does
\* (framing.recv_exactly's timeout, base.tcp's).
PollEnds == pc # "exited" ~> pc = "exited"

---------------------------------------------------------------------------
(* A claim of the repository that the code does not keep.                  *)

\* What a target reports is in the record of the poll. The design asks for it three
\* times: FAULT "when a fault register bit is set" (docs/superpowers/specs/
\* 2026-07-19-plc-health-design.md:88), and for a "Malformed/short protocol response"
\* state UNKNOWN with a Fault (line 130); "A faulted state byte or any fault bit =>
\* FAULT" is from probes/enip.py:4.
RecordTells ==
  pc = "exited" /\ told \cap {"lost", "unwritable"} = {} =>
    /\ "garbled" \in told => health # NoRecord /\ health.state = "UNKNOWN" /\ health.faults # {}
    /\ "garbled" \notin told /\ told \cap {"bit", "cipfault"} # {} => health.state = "FAULT"
===========================================================================
