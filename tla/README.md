# Specifications of ot-nmap-blue-team

TLA+ models of this repository's programs, checked with TLC on small instances
and, where noted, proved with TLAPS for every value of the constants. Source paths
are relative to the repository; every definition's lines are in `PROJECT.json`
(`map`), every hazard the properties aim at under `hazards`.

## The system

The repository is a workbench for reading industrial devices over the network. It
has three kinds of programs: clients that read a device (`plc-health`, the NSE
scripts), emulators of devices (`sandbox/*_mock_server.py`) and a pipeline over scan
results (`asset-inventory`). A client and an emulator meet only on a TCP or UDP
connection; the test suites start an emulator as a process, wait for its port, run
the client and stop the emulator.

| Component | State it keeps | Operations | What is hard | Correct when |
|---|---|---|---|---|
| **plc-health poller** `plc-health/plchealth/` | one process per poll: the probe, its exchange, bytes still wanted, the record, the report files | check port, connect, send, `recv_exactly`, decode, write reports, exit | loss at any byte of any exchange, malformed replies, a target that changes between two reads, a report that cannot be written | the exit code is owed to what this poll saw; every poll ends |
| **plc-health mocks** modbus, s7commplus, enip | none between requests | answer one request | being polled halfway | answers decode to what the command line asked for |
| **ProConOS emulator** `proconos_mock_server.py` | per connection: an Event, a sequence number, push threads; shared: counters, audit trail | ident, read, write, start, stop, status | handler and push threads on one socket; nothing joins a push thread | one pusher per subscription, exact counters, every thread of a closed connection ends |
| **FF HSE emulator** `ffhse_mock_server.py` | alarm queue, session table | six requests, alarm generator, shutdown | handlers compete for alarms; a request's end is a silence | an alarm is told once or lost, and what is lost is newer than what was told |
| **GE SRTP emulator** `gesrtp_mock_server.py` | `_connection_states`: an entry per client address and port, under a lock; per handler a reference to an entry | INIT, status, controller, memory read and write, configuration | a port that is reused while its old handler sleeps or cleans up; close and removal are two steps | no stale entry; entries of ports that were not reused are exact; requests answered in turn |
| **OPC UA emulator** `opcua_mock_server.py` | per connection: byte buffer, channel, `handshake_done` | HEL, OPN, MSG services, CLO | messages cut and joined by `recv`, lengths that are wrong, order of messages | nothing handled twice, nobody cut off on the channel it was told, handlers end |
| **Red Lion emulator** `redlion_mock_server.py` | tag database without a lock, three counters under one | device information, configuration, login, status, tag read and write | a `recv` is taken for a request; values no answer can hold; a handler ends in a dozen places | counters exact; nobody cut off for another reason than a value; answers in turn, and none too many without a cut |
| **MELSEC-Q emulator** `melsecq_mock_server.py` | per connection: `last_seq` | 0x5000 frames; extended read, write, loop test | 16-bit numbers and sizes at their limit; the replay test moves its own bar | no frame passed over; a replay is flagged, or a flag was raised between it and the number it repeats |
| **Legacy emulators, launcher** `ot_mock_servers.py` | `_subprocesses`, the stop event, the threads | start, wait, join, terminate, kill, clear; six servers of its own | a Ctrl+C at any step; a thread that appends a process while the list is walked | main ends, and no process started in time outlives it |
| **Asset inventory** `asset-inventory/assetinv/` | the file of the last run | scan or load, parse, normalise, correlate, export | labels said twice, a scan cut short, a stop at any step | every script that spoke has its asset; the old file stays until the new one is built, and then holds nothing but the new |
| **NSE scripts** `improved-scripts/` | a socket each | one to three requests | short or late replies | fields come from the reply |
| **BACnet emulator** | none | datagram loop, readiness listener | none | encodings |
| **Harnesses** conftest, `run_tests.sh` | processes | start, wait for port, stop | a port held by an earlier run | nothing is left running |

## The modules

| Module | Models |
|---|---|
| `HealthModel` | the decode functions of plc-health: records, fault tables, what each probe concludes from a frame, lengths and the points where it raises |
| `HealthMocks` | what the three mocks answer to the poller |
| `PlcHealth` | one poll after another: `cli`, `poller`, `framing`, the three probes, and the network between two steps |
| `PollContract` | abstract: what a scheduler may conclude from the exit code alone |
| `Proconos` | the ProConOS emulator: clients, handlers, push loops |
| `FfHse` | the FF HSE emulator: clients, handlers, alarm generator, main thread |
| `AlarmDelivery` | abstract: where an alarm may be and go |
| `Dialogue` | abstract: requests are answered once, in turn, and not after the close; with `Lossless`, none is passed over |
| `GeSrtp` | the GE SRTP emulator: accept loop, handlers, the table of connection states |
| `OpcUa` | the OPC UA connection handler: receive buffer, framing, messages |
| `RedLion` | the Red Lion emulator: handlers, counters and their lock, tags |
| `MelsecQ` | the MELSEC-Q connection handler: framing, commands, replay test |
| `OtMocks` | the launcher, its threads and processes, and the inline servers |
| `AssetInv` | one run of the inventory command |
| `Commands_proofs` | the theorems about the two commands, `PlcHealth` and `AssetInv` |
| `Proconos_proofs`, `FfHse_proofs`, `GeSrtp_proofs`, `OpcUa_proofs`, `RedLion_proofs`, `MelsecQ_proofs`, `OtMocks_proofs` | the theorems about the module they are named after |
| `MC...` | the small instances TLC checks |

The emulators and the poller meet only on a connection, so each is modelled with the
other side as an environment: an emulator with clients that send, cut and leave as
they like, the poller with a target that answers like a mock or anything else.
`PlcHealth` is the composition of poller and mocks. What the five emulators have in
common is stated once, in `Dialogue`, and each of them is shown to implement it:
`GeSrtp` and `MelsecQ` with `Lossless`, as they read by length and never drop a
request; `OpcUa`, `RedLion` and `OtMocks` without, as they throw away what follows a
wrong length, what shares a segment, or what the position does not expect. An operator
marked `Mutant` beside a definition is that definition with a likely mistake; no
specification uses it.

### plc-health

`cli.main` is a sequential process, so its state is `pc` with the Python locals that
outlive a step: `proto` and `idx` (the loop over `_AUTO_ORDER`), `step` (the exchange
of the probe), `want` (what `recv_exactly` still waits for), `wire` (the reply), `szl`
(the first S7 reply), `health` (the record), `disk` (the report files) and `exit`.
Actions: `CheckOpen`, `CheckRefused` (the port check of `poller.poll`), `Connected`,
`Sent`, `HeadRead`, `Deliver` (one `recv`), `NextExchange`, `ProbeReturns`,
`ProbeRaises`, `Lost` (an `OSError` in any of them), `WriteReport`, `WriteFails`,
`Exit`, `Answer` (the target) and `NextPoll` (the scheduler). A frame is the length
of its body and the fields the decoders read, so cutting it short, or stating a
length that is negative after the subtraction the code does, is a choice of `body`.
`told` and `refused` are history: what came up in this poll, and the ports found closed.

`PollContract` says to which facts an exit code is owed, up to what the poll is `blind`
to; `Blind(opt)` is what this program overlooks: a malformed
frame that the probe can still index, a CIP state byte that names a fault but is not 2, and
the register bit, unless the command line says `--proto modbus`. (`cli.py` hands
`--modbus-fault-bit` to no other; with `auto` it is accepted and dropped.) `ExitJustified`
gives a reader of exit code 0 just that much. The documents promise more: `RecordTells`
states it, and the run `record_tells` refutes it.

Not modelled: command lines that `argparse` or `struct.pack` reject, and the wording
of records.

### ProConOS emulator

Each connection has a handler (`pc`) and up to `|Loops|` push threads (`loop`). They
share `ev` (`cyclic_ev`) and `seq` (`cyclic_seq[0]`). `_handle_cyclic_start` is three
steps, since the push loop of an earlier subscription may run between them:
`TakeStart` (the Event), `ResetSeq`, `SendReply` and `Spawn`. The push loop is
`LoopTest`, `LoopInc`, `LoopBuild`, `LoopSend` and `LoopBreak`. `WriteTracker.log` is
`Log`, `TrimTest`, `TrimPop`, since nothing locks it. `Cleanup` is the `finally`
block. A single statement on a shared object is a step. For `rt_state[...] += 1` and `-= 1`
(lines 449 and 523, without a lock) that is an assumption: the interpreter could switch
threads between the load and the store, and a count would be lost. `CurrentExact` holds
under it; what it shows is that every way out of the handler counts the connection out.
A socket holds `Window` replies; a full one blocks `sendall`, except for the
50 ms timeout that `_drain_socket` puts on it while it runs (`send_timed`).

Not modelled: mixing of two threads' bytes inside a frame when the buffer is full;
values (a write is acknowledged and logged, never applied); Ctrl+C, which ends the
process with its daemon threads.

What the model makes visible without contradicting anything the code promises: a stop
and a start within one cycle leave two push loops that share the sequence number, and
a push loop that ends in the 50 ms timeout leaves the Event set, so the next start is
answered "already active" though nothing is pushed. `NumbersConsecutive` and
`StopEndsPush` say what still holds then.

### FF HSE emulator

A handler goes `banner`, `first` (the first `recv`, 10 s), `gather` (until 0.3 s of silence),
`classify`, `store` (the session of a poll), `respond`, `late` (the second
`_get_pending_alarms`), `notify`, `done`. `GenWake` and `GenRaise` are the generator's loop,
`Interrupt` and `ProcessExit` the main thread's shutdown. `_state_lock` and `_session_lock`
make the queue operations and the table operations single steps. A request arrives in one or
two segments; a part of a tagged request is classified `UNKNOWN`, as no tag begins like the SM
or MA protocol. `SendFails` needs no client that has left: the 0.3 s set for gathering (line
730) are still the socket's timeout when the answer and the notifications go out, so `sendall`
may raise to one that stays and does not read. What the handler holds by then is lost;
`LostAreNewest` says that these are the newest of what it took, so that no gap is left among
the alarms the client was told. `place` reads off where each alarm is, and is the refinement
mapping to `AlarmDelivery`.

The type field of an LREQ's answer is 0x0004 in the code, 0x8001 in the docstring of the
emulator; nothing here depends on it.

Not modelled: the drift of the process value, the contents of descriptors, the
listening sockets of the other ports (any port runs the same handler). A client
that never pauses for 0.3 s would keep its handler gathering for ever; the model's
clients send at most two segments per request, so `HandlersEnd` is about those.

### GE SRTP emulator

A handler goes `start` (`track_connection`), `init`, `ack`, `req`, `answer`, `close`,
`remove`, `done`. `_connection_states` is `table`: for each address (ip and port) the
entry, named after the connection that made it, 0 for none. A handler keeps the
reference (`ref`) it got from `track_connection`, while `ReadInit` marks whatever entry
the table shows at that moment, and `remove_connection_state` drops whatever is there.
With a client that resets and comes back from the same port these three may be
different entries; `overlap` is the history of the connections to which that
happened. `Send` queues at most `InFlight` packets; `ShortRead` is every way
`recv_exact` ends early. `Stop` is Ctrl+C: the process with all that it held.
`Values` is what an answer carries, cut to the 16 bits of its fields; the uptime of an
answer is modelled by the entry it is counted from (`since`).

Not modelled: register contents, texts, the self test, argument parsing.

### OPC UA emulator

The handler's loop is `Recv` (one chunk: any number of messages and some of the next),
`RecvNothing` (the 60 s timeout or the end of the stream) and one action per branch.
`buf` and `part` are the byte buffer: the messages received whole, and how much of the
first on the wire (nothing, fewer than the 8 bytes of a header, or more). A message is
its type, its service and how far the length it states reaches: `exact`, `long` (to the
end of the next message), `bad` (outside 12 to 65536), and for a HEL, whose length is
believed as it stands, `short` or `zero`. What is left of a message whose front is gone
is `Junk`, which is of no known type. `Consume` cuts by the stated length, `Clear` is
`buf = b""`. `HandleOpen` draws the channel at the first OPN only. `Sent` is `sendall`
to a client that may have gone: the first data is lost, the next raises, which ends the
handler where the code does not catch it.

A HEL of length 0 consumes nothing: the handler acknowledges the same bytes for ever
and reads nothing more until the client leaves. No document promises otherwise, so
this is not a finding; `OnlyEmptyHelRepeats` says it is the only message that does this,
and `HandlersEnd` excepts it.

Not modelled: what the answers say (address space, encoders), sequence numbers, the
accept loop, whose handlers share nothing.

### Red Lion emulator

A handler goes `start`, `enter`, `recv`, `delay`, perhaps `status`, `error` or `failed`,
`leave`, `close`, `done`. The first section under `_global_lock` is two steps (`Enter`,
`EnterSession`: two counters), the other ones single statements; `LockFree` is the lock. A
status answer reads two counters without it, in two steps. `Recv` takes a segment of any number
of requests, perhaps cut inside the next one, early or before its last byte, the ETX, without
which it is answered all the same. The first is answered, whole ones behind it are gone. What
is left of a request is a `Rest` in front of the next `recv`, and the handler looks at it as if
a request began there: `parse_stx_request` wants no more than a first byte 0x02, and the legacy
branch 16 zeros, so it may be answered as another command. `Misread` is what it may be taken
for (and what a malformed request may be, when more follows it in its segment); an answer to a
rest counts in `strays`, not in `answered`. `cuts` is the history of early cuts. A value is
`plain`, `huge` (so large that the 3 % jitter of `TagDatabase.read` may carry it over a 32-bit
float), `inf` or `nan`; `round()` raises on the last two, for an integer tag. `strained` is the
history of tags that ever were huge.

`AnswersInTurn` is about the answers to requests, and `StraysFromCuts` about all others: there
is at most one for every cut. The sandbox's README promises more, that partial reads are
assembled; `FragmentsAssemble` says so, and `redlion_fragments` refutes it.

Not modelled: how tags are chosen at start, the jitter itself, texts, the accept loop.

### MELSEC-Q emulator

The handler reads a frame, answers it, and sleeps the scan delay (`pause`). A frame is
its subheader, command, number, device, points and stated size; the handlers
(`handle_5000`, `handle_device_read` and the others) compute error code and size, and
`CanBePacked` is the 16 bits of the number after the request's and of the size: number
65535, or a loop test of 65534 bytes, ends the connection. The fixed header of 14 bytes
takes bytes of the next frame when the frame is shorter (`Arrived`). `served` is the
history of numbers handled and whether `ServeExtended` flagged them.

Not modelled: values read, texts, the echo of the routing fields, the accept loop.

### Legacy emulators and launcher

`main` is `StartThread`, the wait for Ctrl+C (`Interrupt`), `Join` (two seconds for each
thread), `Terminate`, `Kill`, `WalkOver`, `Clear`. Only the loop after the start is guarded: a
Ctrl+C during the start, or a second one while stopping, aborts main there and the processes
stay. (`sandbox/README.md`, lines 95-98 and 157, promises a clean shutdown on Ctrl+C; it is
listed under `hazards`, without a property that repeats what `Interrupt` says.) A standalone
server's thread is `Launch`, `Track`, `WaitOver`; `ProcExits` is a process that ends by itself.
`late` is the history of threads main gave up joining. An inline server is `Bind`, `Accept`,
`ServeOver`, its handler `Reply` and `Close`: it answers by position, `Replies` times. One
`recv` is one turn. It takes any number of the requests sent, the last of them perhaps not
whole (`part`); what comes of that later takes a turn of its own, with a further answer, unless
it comes with the next request. `cuts` counts the segments that end within a request, and
`hasty` remembers a client that sent before it had its answer: `InStep` says that only these
put the answers out of step. The second answer of the `mms` handler is a literal that is not
hexadecimal, so `bytes.fromhex` raises and the handler ends after one answer.

Not modelled: contents of answers, the command line.

### Asset inventory

`Read`, `Parse`, `Build` (one asset), `Open`, `WriteSome`, `Write`, `Return`, with `Stopped` at
every step. The functions are operators with the names of the code where it has one:
`script_fields`, `host_address`, `host_records`, `parse_xml`, `normalize`, `matches`,
`correlate`; whether one text contains another is the constant `Within`. To open the output
file empties it; until then it is the file of the last run. The text then reaches it in pieces,
an asset at a time, and a stop, or a `write` that raises, leaves what is there: `file.whole` is
set only by the last. A vendor of blanks is stripped to the empty text by the parser, and
counts as missing in `matches`. `RunInit`, `RunNext` and `RunSpec` are named apart because
`Commands_proofs` extends `PlcHealth` too.

`script_fields` keeps one value, the last, of a label that occurs in several tables of a
script. `InventoryFaithful` says what holds then. `asset-inventory/README.md` (line 45) says
of `raw` that nothing is lost: that is `NothingLost`, which the run `nothing_lost` refutes.

Not modelled: the CSV form, output to the terminal, ports and device labels.

## What the runs check

| Run | Instance | Shows |
|---|---|---|
| `plc_health` | two polls; all protocols, options and mock answers, plus malformed frames cut around every index the probes use; segments of 1 and of all bytes; 729 thousand states | types; `AutoTriesInOrder`; `LostExitsTwo`; `ReportsMatchExit`; refinement of `PollContract` (`ExitJustified`); `PollEnds` |
| `proconos` | one connection alone with any three requests, or any two beside one that writes; two loop identities, window 1, audit trail of 2 | types, `CurrentExact`, `AuditKeepsNewest`, `OneLoopUntilStop`, `NumbersConsecutive`, `StopEndsPush`, `CleanedUp` |
| `ffhse` | two connections (poll or split LREQ; finish, poll or identify), three alarms, queue of 2 | types, `QueueIsNewest`, `LostAreNewest`, `AnsweredPollHasSession`, refinement of `AlarmDelivery` (`AlarmsDeliveredOnce`), `HandlersEnd` |
| `gesrtp` | three connections with three, one and no packet, the third and perhaps the second from the port of the first; four kinds of packet | `EntryHasHandler`, `ExactUnlessReused`, refinement of the lossless `Dialogue` (`EveryRequestInTurn`), `HandlersEnd` |
| `opcua` | one connection, three messages of eleven kinds, cut anywhere; 237 thousand states | `OnlyEmptyHelRepeats`, `NeverRefusedOnItsChannel`, refinement of `Dialogue` (`AnswersInTurn`), `HandlersEnd` |
| `redlion` | a writer of two requests and a reader of one on a float and an integer tag, segments joined anywhere and cut early once and twice, rests that read as four commands or none | types, `CountersExact`, `CutOffOnlyForValues`, `StraysFromCuts`, refinement of `Dialogue` (`AnswersInTurn`) |
| `melsecq` | one connection, four frames of ten kinds at the edges of number and size | `NoSilentReplay`, refinement of the lossless `Dialogue` (`EveryFrameInTurn`) |
| `ot_mocks` | a standalone server, `pcworx` (three answers) with two requests cut and joined anywhere, and the datagram server with one; up to two Ctrl+C at any step; 632 thousand states | `StoppedUnlessLate`, `InStep`, `EverythingStops`, refinement of `Dialogue` (`AnswersInTurn`) |
| `assetinv` | every document of up to two hosts from five reports and three lists of addresses, one document cut short, hints or not | `InventoryFaithful`, `OldKeptUntilBuilt` |

Three runs show what the documentation says and the code does not do (`findings`):

| Run | Instance | Refutes |
|---|---|---|
| `record_tells` | as `plc_health`, one poll | `RecordTells`: a malformed reply is in the record as UNKNOWN, a faulted CIP state byte or register bit as FAULT. TLC stops at the first counterexample; restricted to `garbled`, to `cipfault` or to `bit`, it is violated as well |
| `redlion_fragments` | as `redlion` | `FragmentsAssemble`: what a handler takes for a request is never a part of one |
| `nothing_lost` | as `assetinv` | `NothingLost`: every value that a script gave a label is in the inventory |

Bounds. Two polls suffice for plc-health: the process keeps nothing between polls but the
report files, which `disk` carries over. The frame lengths stand on both sides of every index
and slice in the probes. In ProConOS three requests are a start, a stop and a start, the
shortest sequence that leaves two push loops alive. What connections share is a counter and the
trail, for which two requests beside a writer are enough: `Spent` is how much of its quota each
client lacks from the start, so one run has both. Sequence numbers are modulo 3, enough to tell
successor, repetition and gap apart. An audit trail of 2 with two writers makes both trim at
once. In FF HSE three alarms exceed the queue of 2, and two handlers take at four places.
`Window` 1 makes every second send block.

In GE SRTP three connections are the predecessor, the one that shares its entry and
the one that finds it removed; a packet in flight is enough for a handler to be busy
while its client resets. The OPC UA handlers share nothing, so one connection is the
general case; of three messages the middle one is cut, swallowed or thrown away
with a neighbour on both sides. In Red Lion one writer and one reader suffice for a
value written by one to end the other, and for the two-step sections to interleave; two
early cuts of one request leave a rest that is itself cut (`MaxCuts`).
Of four MELSEC-Q frames, the last two repeat numbers after the bar was lowered. In
`OtMocks` the three servers are the three kinds of thread; two requests and three answers
leave room for one answer too many, or one too few. The inventory treats
hosts and scripts independently, so two of each show order and mixing.

Fairness. plc-health is weakly fair in the whole process: every blocking call has a
timeout (`base.tcp`, `recv_exactly`), so it always has an outcome; the target and the
scheduler owe nothing. The emulators are weakly fair per thread, as the operating
system schedules each, and the launcher in `main` too; clients, keys and the
processes the launcher started are not, they may do nothing for ever. `sendall` to a
client that does not read blocks for ever in ProConOS, so `StopEndsPush` assumes that
the client reads again and again, and `CleanedUp` that it has closed. In GE SRTP an
accepted socket has no timeout, so `HandlersEnd` is about clients that left; in OPC UA
the 60 s timeout is a step of the handler, so it is about all.

Deadlock is not checked where things end or may be left alone: after the last poll,
the last frame, the end of main or of a command, and in emulators whose clients have
nothing more to do.

## What is proved

`Commands_proofs` proves of plc-health, for every set of command lines, every foreign frame and
every segmentation (the named assumptions of `PlcHealth` and `HealthMocks`):

- `TypeCorrect`, `AutoOrdered`, `LostReported`, `ReportsTruthful`: the invariants of
  the run;
- `ExitCodesJustified`: every step of `PlcHealth` is a step of `PollContract` or
  leaves its variables alone, so every exit code is justified, up to the facts that
  `Blind` names for the command line;
- `S7Justified`: for any two S7 frames, short ones included, what the probe concludes
  is owed to what the frames said;
- `PollShrinks`: every step of the process brings the poll nearer to its end, and an
  answer of the target does not put it off.

None of the invariants is inductive alone. `IInv` adds to the types: `Control` (which
variables are set at which `pc`), `Evidence` (the record, if there is one, is owed to
`told`; a reply that was read is in `told`; a lost connection is in `told` only with
the unreachable record), `Tried` (the ports found closed are the first `idx - 1` of
`_AUTO_ORDER`) and `Files` (which files are this poll's at which step). There is a
lemma per action, with a step per conjunct; what a probe concludes from a frame is
three lemmas about the decoders alone (`ModbusJustified`, `EnipJustified`,
`S7Justified`), so the temporal argument never opens them.

`Commands_proofs` proves of the inventory, for documents of any number of hosts, addresses,
scripts and elements (`DocumentsAssumption`: they are documents; `BundleAssumption`: a hint
names a product that no asset without one contains):

- `ParserListsSpeaking`: the records of the parser are those of the scripts that said
  anything, each once, in the order of the document;
- `OldKept` and `Faithful`: the two invariants of the run.

The inductive invariant is `RunInv`: `Parsed` (from the parser on, the records are those of
the document), `Built` (the assets are those of the first records, in order), `Filed` (a run
that wrote to the end has written all of them) and `OldKeptUntilBuilt` (what is in the file is a
beginning of the assets, at every piece). Under it `Faithful` is a fact
about the pure functions `script_fields`, `parse_xml`, `normalize` and `correlate`. What
`script_fields` has collected after each element, and what the flattened lists of records
hold, is proved by the least counterexample: the set of lengths at which the claim fails
would have a smallest member (`NatLessThanWellFounded` with `WFMin`, the forms of the library
that take a set and not an operator), and the claim goes from a length to the next.

`FfHse_proofs` proves, for every set of connections, requests and handles, every
number of alarms and every capacity of the queue (the named assumptions of `FfHse`):

- `TypeCorrect`, `QueueNewest`, `LostNewest`, `PollsOpened`: the invariants of
  the run;
- `AlarmsDelivered`: under the mapping `place`, `FfHse` implements `AlarmDelivery`.

The refinement needs that an alarm is never in two places and never in none, which
no single action shows. `IInv` therefore adds to the checked invariants: `Covered`
(every alarm raised is in the queue, trimmed, or with a connection), `Separate` (only
one of these, and at one index, in the order raised), `Holding` (a handler holds alarms only between
taking and sending them), `Raising` (the generator's bound) and `Opened` (the session
of a poll exists from before its answer is built). Each action has a lemma, and
handing a list of alarms from one holder to the next is a lemma of its own
(`TailElements` and those beside it). `PlacesFound` reads `place` off an `IInv` state;
`StepMoves` then needs only what each action does to one alarm.

`Proconos_proofs` proves, for every finite set of connections and loops, any requests,
windows and modulus, as many loop identities as the requests can start, and a trail at
least as long as there are connections (in the code it is far longer):
`TypeCorrect`, `ConnectionsCounted`, `AuditTrail`, `OneLoopPerStart` and
`FramesNumbered`, all the safety properties of the run. `IInv` adds to types and
counter: `OneLoop` (after a start that found no loop there is one at most, and none
before its spawn), `FirstStart` (until a stop is acknowledged, an accepted start is the
first), `InStep` (where the shared number stands at each step of a loop that is alone),
and for the trail `Enough`, `Numbered` and `Bounded`: handlers that trim together may pop
one entry too many each, and the length says how many are about to.

`GeSrtp_proofs` proves, for every set of connections, any reuse of addresses, any
packets and either kind of PLC: `TypeCorrect`, `NoStaleEntry`, `EntriesExact` and
`RequestsInTurn`. `IInv` adds `InStep` (what is read, answered and waiting adds up),
`Fresh` (a connection nobody serves has touched nothing), `Held` and `Listed` (who may
hold or list an entry: one of its own address, and another than its maker only after
the two ran side by side), `Alone` (a connection without overlap is the only live one
of its address) and `Owns` (the checked property, told apart per `pc`). The types of
`GeSrtp` and `MelsecQ` are proved only; no run repeats them.

`OpcUa_proofs` proves, for every set of connections, messages and any number of them:
`OnlyOneRepeats`, `ItsChannelAccepted` and `MessagesInTurn`. `IInv` is types, `Cut` (what
has begun is on the wire), `Ordered` (over buffer and wire together, messages are
numbered upwards, all above the last answer but perhaps the first, if that is a rest or
an empty HEL), the checked property and `OneChannel` (the channel is drawn once, and is
the only one told). `Ordered` is a property of sequences; that cutting, joining and
replacing the front keep it are lemmas about sequences alone.

`RedLion_proofs` proves, for every finite set of connections, any tags and requests:
`TypeCorrect`, `CountersAgree`, `OnlyValuesCutOff`, `RequestsInTurn` and `StraysBounded`.
`IInv` adds `Carried` (a write carries a value), `Counted` (one handler at most in the first
section, and how the numbers drawn and told stand to the counter), `Strained` (a huge value
came through a write), `InTurn` and `Owed` (answers to rests, one that is being given and a
rest on the wire, together, are no more than the cuts). The counters are cardinalities, so the
set of handlers inside grows and shrinks by `FiniteSetTheorems`.

`MelsecQ_proofs` proves, for every set of connections and frames: `TypeCorrect`,
`ReplaysFlagged` and `FramesInTurn`. `NoSilentReplay` with "`last_seq` is the number
handled last" (in `TypeOK`) is inductive: a new number above the last is above all that
came since the last flag. `InStep` serves the refinement.

`OtMocks_proofs` proves, for every list of servers and any number of requests and interrupts:
`StopsWhatItJoined`, `InlineInTurn` and `AnswersByPosition`. `IInv` is `Types`, `Listed` (a
process that runs is on the list or about to be), `PutThere`, `Unstarted`, `Walked` (what main
has passed in its walk has exited, or was late), the checked property, `Behind` (what is
received is answered, and was asked) and `Paced` (the answers, and one for a request that is
not all there, are no more than requests answered and cuts; a client that waits is one request
ahead at most).

The refinement theorems (`ExitCodesJustified`, `AlarmsDelivered`, `RequestsInTurn`,
`MessagesInTurn`, `FramesInTurn`, `InlineInTurn`) prove that `Init` maps to the abstract
`Init` and every step under the invariant to an abstract step or a stutter. The named
assumptions of each module are all that is assumed of the constants; TLC evaluates
them in the runs.

That something ends is proved as far as no fairness is needed: each of these theorems names
a number (for a poll and for a ProConOS handler two, of which the second counts while the
first stays) and proves that it is natural in every reachable state, that every step of the
thread lowers it, and who may raise it:

| Theorem | The number | Raised by |
|---|---|---|
| `PollShrinks` (plc-health) | exchanges still to make, then bytes still to read or files to write | nobody |
| `MainShrinks` (`OtMocks`) | threads to join, processes to stop; at most three for every server and three more | nobody, once Ctrl+C was pressed |
| `HandlersShrink` (`FfHse`) | the handler's steps to its end, the alarms it sends included; at most `Cap + 9` | nobody |
| `HandlersShrink` (`GeSrtp`) | packets that wait, and steps to the end | nobody, once the client has left |
| `HandlersShrink` (`OpcUa`) | messages in the buffer and on the wire, whole or begun | only the client, by sending; an empty `HEL` of a client that stays leaves it as it is |
| `HandlersShrink` (`Proconos`) | requests that wait, and steps to the end; then entries the audit trail has to lose | only the client, by sending; the second by a write another handler logs |
| `PushesShrink` (`Proconos`) | steps of a push loop to its end once the Event is cleared; at most four | only a start; nobody, once the handler is over |

They are the safety half of `PollEnds`, `EverythingStops`, `HandlersEnd` (three modules),
`StopEndsPush` and `CleanedUp`. The one in `OpcUa` shows why an empty `HEL` needs a
condition of its own in `HandlersEnd`: it is the only way for a handler to go round.

Only model-checked: the seven liveness properties themselves (`PollEnds`, `StopEndsPush`,
`CleanedUp`, `HandlersEnd` of three modules, `EverythingStops`). What the theorems above leave
is that a thread which may go on does go on: fairness and ENABLED, which the prover does
not handle.

## Not modelled

- **NSE scripts.** Each owns one connection, keeps nothing and asks one to three
  requests; the emulator it was written for is modelled from the other side. They are
  Lua run by nmap, whose socket semantics would all be assumptions.
  `dnp3-advanced-info.nse` sweeps addresses on one connection, where a late answer could
  be read as the next one's; the repository has no outstation, so when and to which
  address anything answers would be a guess of the model, not of the code.
- **BACnet emulator.** One stateless datagram loop; there is nothing to check but
  encodings.
- **Harnesses** (`conftest.py`, `run_tests.sh`, `test_runner.sh`): they start an emulator,
  wait for a port and stop it.
- **Container image, continuous integration, reference documents**: no behaviour.
- **Command lines and self tests** of the programs modelled, and the wording and
  contents of answers beyond what is said per module above.
- **Mixing of bytes** of two threads on one ProConOS socket, silent clients of GE SRTP, which no
  timeout ends, an aborted launcher and the exit code of nmap are listed under
  `hazards` with the reason no property is about them.
