------------------------------ MODULE Proconos ------------------------------
(***************************************************************************)
(* The ProConOS runtime emulator (sandbox/proconos_mock_server.py): a      *)
(* thread per connection, the threads that push cyclic data on it, and     *)
(* what the connections share: the runtime counters and the audit trail of *)
(* variable writes.                                                        *)
(*                                                                         *)
(* A connection's handler and its push loops share one socket, one Event   *)
(* and one sequence number. Nothing joins a push loop: a stop only clears  *)
(* the Event, and a loop that sleeps sees it when it wakes, by which time  *)
(* another start may have set it again.                                    *)
(*                                                                         *)
(* A request stands for its whole frame (recv_exactly waits for the rest), *)
(* a reply for its bytes; profiles and values are left out, as a write is  *)
(* acknowledged and logged but never applied. The interpreter lock makes   *)
(* single statements on shared objects atomic.                             *)
(***************************************************************************)
EXTENDS Integers, Sequences, FiniteSets

CONSTANTS
  Clients,      \* the connections (one handler thread each)
  Loops,        \* bound: identities for the push threads of a connection
  Asks,         \* the requests each client may send
  Quota,        \* bound: how many requests each client sends
  Spent,        \* how much of its quota each client may lack from the start
  Window,       \* replies the socket holds until the client reads
  MaxLen,       \* WriteTracker.maxlen (1000 in the code)
  SeqMod        \* bound: sequence numbers are counted modulo SeqMod

Requests == {"cc", "read", "write", "short_write", "start", "stop", "status",
             "unknown"}

\* A start that is acknowledged needs an identity for its loop, and between two
\* of them there is a stop.
\* Fewer handlers than entries: pops that race never empty the audit trail.
ASSUME ClientsAssumption ==
  IsFiniteSet(Clients) /\ Cardinality(Clients) <= MaxLen
ASSUME LoopsAssumption ==
  /\ IsFiniteSet(Loops)
  /\ \A c \in Clients : 2 * Cardinality(Loops) >= Quota[c]
ASSUME AsksAssumption == Asks \in [Clients -> SUBSET Requests]
ASSUME SpentAssumption ==
  \A spent \in Spent : spent \in [Clients -> Nat] /\ \A c \in Clients : spent[c] <= Quota[c]
ASSUME BoundsAssumption ==
  /\ Quota \in [Clients -> Nat] /\ Window \in Nat \ {0} /\ MaxLen \in Nat \ {0}
  /\ SeqMod \in Nat \ {0, 1}

VARIABLES
  client,   \* the client's end of each connection
  asked,    \* how many requests each client has sent
  rx,       \* the requests that wait in the server's socket
  unread,   \* replies and pushes that wait for the client to read
  pc,       \* where each handler is
  reply,    \* what the handler is about to send
  ev,       \* cyclic_ev
  seq,      \* cyclic_seq[0]
  loop,     \* where each push loop is, "off" before and after its life
  number,   \* the sequence number in the frame a loop has built, 0 when it has none
  writes,   \* WriteTracker.writes, each entry by its number
  logged,   \* history: how many writes were ever logged
  current,  \* rt_state["current_connections"]
  last,     \* history: number of the last frame pushed since the last start
  alone,    \* history: no older loop was alive at the last start
  stopped   \* history: a stop was acknowledged on this connection

sock == <<client, asked, rx, unread>>
cyclic == <<ev, seq, loop, number>>
audit == <<writes, logged>>
history == <<last, alone, stopped>>
vars == <<sock, pc, reply, cyclic, audit, current, history>>

Off(c) == \A i \in Loops : loop[c][i] = "off"

HandlerAt == {"off", "recv", "drain", "log", "trim", "pop", "reset", "reply",
              "spawn", "cleanup", "done"}
Replies == {"none", "ident", "value", "ack_write", "ack_start", "dup_start",
            "ack_stop", "not_active", "status", "unknown"}

TypeOK ==
  /\ client \in [Clients -> {"new", "open", "closed"}]
  /\ asked \in [Clients -> Nat] /\ \A c \in Clients : asked[c] <= Quota[c]
  /\ rx \in [Clients -> Seq(Requests)]
  /\ unread \in [Clients -> 0..Window]
  /\ pc \in [Clients -> HandlerAt]
  /\ reply \in [Clients -> Replies]
  /\ ev \in [Clients -> BOOLEAN]
  /\ seq \in [Clients -> 0..SeqMod - 1]
  /\ loop \in [Clients -> [Loops -> {"off", "top", "inc", "build", "send", "send_timed"}]]
  /\ number \in [Clients -> [Loops -> 0..SeqMod - 1]]
  /\ writes \in Seq(Nat) /\ logged \in Nat
  /\ current \in Nat
  /\ last \in [Clients -> 0..SeqMod - 1]
  /\ alone \in [Clients -> BOOLEAN]
  /\ stopped \in [Clients -> BOOLEAN]

Init ==
  /\ client = [c \in Clients |-> "new"] /\ asked \in Spent
  /\ rx = [c \in Clients |-> <<>>] /\ unread = [c \in Clients |-> 0]
  /\ pc = [c \in Clients |-> "off"] /\ reply = [c \in Clients |-> "none"]
  /\ ev = [c \in Clients |-> FALSE] /\ seq = [c \in Clients |-> 0]
  /\ loop = [c \in Clients |-> [i \in Loops |-> "off"]]
  /\ number = [c \in Clients |-> [i \in Loops |-> 0]]
  /\ writes = <<>> /\ logged = 0 /\ current = 0
  /\ last = [c \in Clients |-> 0] /\ alone = [c \in Clients |-> TRUE]
  /\ stopped = [c \in Clients |-> FALSE]

---------------------------------------------------------------------------
(* The clients.                                                            *)

\* Bound: a client that has nothing left to send stays away.
Connect(c) ==
  /\ client[c] = "new" /\ asked[c] < Quota[c]
  /\ client' = [client EXCEPT ![c] = "open"]
  /\ UNCHANGED <<asked, rx, unread, pc, reply, cyclic, audit, current, history>>

\* A client need not wait for a reply before it sends the next request.
Send(c) ==
  /\ client[c] = "open" /\ asked[c] < Quota[c]
  /\ \E r \in Asks[c] : rx' = [rx EXCEPT ![c] = Append(@, r)]
  /\ asked' = [asked EXCEPT ![c] = @ + 1]
  /\ UNCHANGED <<client, unread, pc, reply, cyclic, audit, current, history>>

Read(c) ==
  /\ client[c] = "open" /\ unread[c] > 0
  /\ unread' = [unread EXCEPT ![c] = @ - 1]
  /\ UNCHANGED <<client, asked, rx, pc, reply, cyclic, audit, current, history>>

Close(c) ==
  /\ client[c] = "open"
  /\ client' = [client EXCEPT ![c] = "closed"]
  /\ UNCHANGED <<asked, rx, unread, pc, reply, cyclic, audit, current, history>>

---------------------------------------------------------------------------
(* The handler of a connection (client_handler).                           *)

\* sendall returns: the client has room, or is gone and the bytes are lost.
Sends(c) ==
  \/ client[c] = "open" /\ unread[c] < Window
       /\ unread' = [unread EXCEPT ![c] = @ + 1]
  \/ client[c] = "closed" /\ UNCHANGED unread

Goto(c, l) == pc' = [pc EXCEPT ![c] = l]
Answer(c, r) == Goto(c, "reply") /\ reply' = [reply EXCEPT ![c] = r]

\* Mutant: the connection is not counted in.
AcceptUncounted(c) ==
  /\ pc[c] = "off" /\ client[c] # "new"
  /\ Goto(c, "recv")
  /\ UNCHANGED <<sock, reply, cyclic, audit, current, history>>

Accept(c) ==
  /\ pc[c] = "off" /\ client[c] # "new"
  /\ Goto(c, "recv")
  /\ current' = current + 1
  /\ UNCHANGED <<sock, reply, cyclic, audit, history>>

\* The next request is taken; rest is what else it changes.
Takes(c, kinds) ==
  /\ pc[c] = "recv" /\ rx[c] # <<>> /\ Head(rx[c]) \in kinds
  /\ rx' = [rx EXCEPT ![c] = Tail(@)]
  /\ UNCHANGED <<client, asked, unread, audit, current>>

Simple == [read |-> "value", status |-> "status", unknown |-> "unknown"]

TakeSimple(c) ==
  /\ Takes(c, DOMAIN Simple)
  /\ Answer(c, Simple[Head(rx[c])])
  /\ UNCHANGED <<cyclic, history>>

TakeProbe(c) ==
  /\ Takes(c, {"cc"})
  /\ Goto(c, "drain")
  /\ UNCHANGED <<reply, cyclic, history>>

\* A value shorter than its type makes unpack_from raise struct.error, which ends
\* the connection without a reply.
TakeWrite(c) ==
  /\ Takes(c, {"write", "short_write"})
  /\ Goto(c, IF Head(rx[c]) = "write" THEN "log" ELSE "cleanup")
  /\ UNCHANGED <<reply, cyclic, history>>

\* Mutant: a second start is not rejected.
TakeStartAgain(c) ==
  /\ Takes(c, {"start"})
  /\ ev' = [ev EXCEPT ![c] = TRUE]
  /\ Goto(c, "reset")
  /\ alone' = [alone EXCEPT ![c] = Off(c)]
  /\ UNCHANGED <<reply, seq, loop, number, last, stopped>>

TakeStart(c) ==
  /\ Takes(c, {"start"})
  /\ IF ev[c]
     THEN Answer(c, "dup_start") /\ UNCHANGED <<ev, alone>>
     ELSE /\ ev' = [ev EXCEPT ![c] = TRUE]
          /\ Goto(c, "reset")
          /\ alone' = [alone EXCEPT ![c] = Off(c)]
          /\ UNCHANGED reply
  /\ UNCHANGED <<seq, loop, number, last, stopped>>

\* Mutant: the numbering goes on from the last subscription.
ResetSeqNot(c) ==
  /\ pc[c] = "reset"
  /\ last' = [last EXCEPT ![c] = 0]
  /\ Answer(c, "ack_start")
  /\ UNCHANGED <<sock, cyclic, audit, current, alone, stopped>>

\* cyclic_seq[0] = 0, after the Event is set and before the ACK.
ResetSeq(c) ==
  /\ pc[c] = "reset"
  /\ seq' = [seq EXCEPT ![c] = 0]
  /\ last' = [last EXCEPT ![c] = 0]
  /\ Answer(c, "ack_start")
  /\ UNCHANGED <<sock, ev, loop, number, audit, current, alone, stopped>>

TakeStop(c) ==
  /\ Takes(c, {"stop"})
  /\ IF ev[c]
     THEN /\ ev' = [ev EXCEPT ![c] = FALSE]
          /\ stopped' = [stopped EXCEPT ![c] = TRUE]
          /\ Answer(c, "ack_stop")
     ELSE Answer(c, "not_active") /\ UNCHANGED <<ev, stopped>>
  /\ UNCHANGED <<seq, loop, number, last, alone>>

\* _drain_socket: everything that arrives within 50 ms of the last bytes is read
\* and dropped, further requests of the client included.
Drain(c) ==
  /\ pc[c] = "drain" /\ rx[c] # <<>>
  /\ rx' = [rx EXCEPT ![c] = <<>>]
  /\ UNCHANGED <<client, asked, unread, pc, reply, cyclic, audit, current, history>>

Drained(c) ==
  /\ pc[c] = "drain" /\ rx[c] = <<>>
  /\ Answer(c, "ident")
  /\ UNCHANGED <<sock, cyclic, audit, current, history>>

\* WriteTracker.log: append, then pop the oldest while there are too many; the
\* test and the pop are two steps, and other handlers log meanwhile.
Log(c) ==
  /\ pc[c] = "log"
  /\ logged' = logged + 1
  /\ writes' = Append(writes, logged + 1)
  /\ Goto(c, "trim")
  /\ UNCHANGED <<sock, reply, cyclic, current, history>>

TrimTest(c) ==
  /\ pc[c] = "trim"
  /\ IF Len(writes) > MaxLen
     THEN Goto(c, "pop") /\ UNCHANGED reply
     ELSE Answer(c, "ack_write")
  /\ UNCHANGED <<sock, cyclic, audit, current, history>>

\* Mutant: the newest write goes.
TrimPopNewest(c) ==
  /\ pc[c] = "pop"
  /\ writes' = SubSeq(writes, 1, Len(writes) - 1)
  /\ Goto(c, "trim")
  /\ UNCHANGED <<sock, reply, cyclic, logged, current, history>>

TrimPop(c) ==
  /\ pc[c] = "pop"
  /\ writes' = Tail(writes)
  /\ Goto(c, "trim")
  /\ UNCHANGED <<sock, reply, cyclic, logged, current, history>>

SendReply(c) ==
  /\ pc[c] = "reply"
  /\ Sends(c)
  /\ Goto(c, IF reply[c] = "ack_start" THEN "spawn" ELSE "recv")
  /\ reply' = [reply EXCEPT ![c] = "none"]
  /\ UNCHANGED <<client, asked, rx, cyclic, audit, current, history>>

\* The push thread starts after the ACK of its start is out.
Spawn(c) ==
  /\ pc[c] = "spawn"
  /\ \E i \in Loops :
       loop[c][i] = "off" /\ loop' = [loop EXCEPT ![c][i] = "top"]
  /\ Goto(c, "recv")
  /\ UNCHANGED <<sock, reply, ev, seq, number, audit, current, history>>

\* Mutant: the end of the stream is not noticed.
LeaveOnReset(c) ==
  /\ client[c] = "closed"
  /\ pc[c] = "reply"
  /\ Goto(c, "cleanup")
  /\ UNCHANGED <<sock, reply, cyclic, audit, current, history>>

\* recv returns nothing or fails, sendall fails: the loop of the handler is left.
Leave(c) ==
  /\ client[c] = "closed"
  /\ pc[c] \in {"recv", "reply"}
  /\ Goto(c, "cleanup")
  /\ UNCHANGED <<sock, reply, cyclic, audit, current, history>>

\* Mutant: only a connection with cyclic data running is counted out.
CleanupCyclicOnly(c) ==
  /\ pc[c] = "cleanup"
  /\ ev' = [ev EXCEPT ![c] = FALSE]
  /\ current' = IF ev[c] THEN current - 1 ELSE current
  /\ Goto(c, "done")
  /\ UNCHANGED <<sock, reply, seq, loop, number, audit, history>>

\* The finally block: the Event is cleared, the connection counted out and its
\* socket closed, whatever ended the handler.
Cleanup(c) ==
  /\ pc[c] = "cleanup"
  /\ ev' = [ev EXCEPT ![c] = FALSE]
  /\ current' = current - 1
  /\ Goto(c, "done")
  /\ UNCHANGED <<sock, reply, seq, loop, number, audit, history>>

Handler(c) ==
  \/ Accept(c) \/ TakeSimple(c) \/ TakeProbe(c) \/ TakeWrite(c)
  \/ TakeStart(c) \/ ResetSeq(c) \/ TakeStop(c) \/ Drain(c) \/ Drained(c)
  \/ Log(c) \/ TrimTest(c) \/ TrimPop(c) \/ SendReply(c) \/ Spawn(c)
  \/ Leave(c) \/ Cleanup(c)

---------------------------------------------------------------------------
(* The push loops (_push_loop). A loop at "top" sleeps or is about to test. *)

At(c, i, l) == loop' = [loop EXCEPT ![c][i] = l]

\* Mutant: the loop runs for ever.
LoopTestNot(c, i) ==
  /\ loop[c][i] = "top"
  /\ At(c, i, "inc")
  /\ UNCHANGED <<sock, pc, reply, ev, seq, number, audit, current, history>>

LoopTest(c, i) ==
  /\ loop[c][i] = "top"
  /\ At(c, i, IF ev[c] THEN "inc" ELSE "off")
  /\ UNCHANGED <<sock, pc, reply, ev, seq, number, audit, current, history>>

LoopInc(c, i) ==
  /\ loop[c][i] = "inc"
  /\ seq' = [seq EXCEPT ![c] = (@ + 1) % SeqMod]
  /\ At(c, i, "build")
  /\ UNCHANGED <<sock, pc, reply, ev, number, audit, current, history>>

\* The number is read again for the frame, and sendall takes the timeout the
\* socket has at that moment: 50 ms while the handler drains it.
LoopBuild(c, i) ==
  /\ loop[c][i] = "build"
  /\ number' = [number EXCEPT ![c][i] = seq[c]]
  /\ At(c, i, IF pc[c] = "drain" THEN "send_timed" ELSE "send")
  /\ UNCHANGED <<sock, pc, reply, ev, seq, audit, current, history>>

LoopSend(c, i) ==
  /\ loop[c][i] \in {"send", "send_timed"} /\ pc[c] # "done"
  /\ Sends(c)
  /\ At(c, i, "top")
  /\ last' = [last EXCEPT ![c] = number[c][i]]
  /\ number' = [number EXCEPT ![c][i] = 0]
  /\ UNCHANGED <<client, asked, rx, pc, reply, ev, seq, audit, current, alone,
                 stopped>>

\* sendall raises OSError (the socket is closed, the client is gone, or it has
\* not read for 50 ms): the loop ends and leaves the Event as it is.
LoopBreak(c, i) ==
  /\ \/ loop[c][i] \in {"send", "send_timed"}
          /\ (pc[c] = "done" \/ client[c] = "closed")
     \/ loop[c][i] = "send_timed" /\ unread[c] = Window
  /\ At(c, i, "off")
  /\ number' = [number EXCEPT ![c][i] = 0]
  /\ UNCHANGED <<sock, pc, reply, ev, seq, audit, current, history>>

Pusher(c, i) ==
  LoopTest(c, i) \/ LoopInc(c, i) \/ LoopBuild(c, i) \/ LoopSend(c, i)
  \/ LoopBreak(c, i)

---------------------------------------------------------------------------
Client(c) == Connect(c) \/ Send(c) \/ Read(c) \/ Close(c)

Next ==
  \E c \in Clients : Client(c) \/ Handler(c) \/ \E i \in Loops : Pusher(c, i)

\* Every thread is scheduled in the end; a client may do nothing for ever.
Spec ==
  /\ Init /\ [][Next]_vars
  /\ \A c \in Clients : WF_vars(Handler(c))
  /\ \A c \in Clients, i \in Loops : WF_vars(Pusher(c, i))
---------------------------------------------------------------------------
(* Properties.                                                             *)

\* current_connections is the number of handlers inside client_handler, whatever
\* ends them: a close, a failed send or an exception in a handler.
CurrentExact ==
  current = Cardinality({c \in Clients : pc[c] \notin {"off", "done"}})

\* The audit trail is the newest writes in the order they were logged. Handlers
\* that trim together may drop more than the excess, but no more than one entry
\* each: a trail of MaxLen entries keeps the newest MaxLen + 1 - |Clients|.
AuditKeepsNewest ==
  /\ \A k \in 1..Len(writes) : writes[k] = logged - Len(writes) + k
  /\ Len(writes) >= logged \/ Len(writes) >= MaxLen + 1 - Cardinality(Clients)
  /\ Len(writes) <= MaxLen + Cardinality({c \in Clients : pc[c] \in {"trim", "pop"}})

\* Until a stop is acknowledged a connection never has two push loops, however
\* many starts the client pipelines ("per-client thread").
OneLoopUntilStop ==
  \A c \in Clients :
    ~stopped[c] => Cardinality({i \in Loops : loop[c][i] # "off"}) <= 1

\* Frames pushed since a start that found no older loop alive are numbered
\* consecutively from 1. (A stop and a start within one cycle leave the old loop
\* alive, and then the two count together.)
NumbersConsecutive ==
  [][\A c \in Clients, i \in Loops :
       LoopSend(c, i) /\ alone[c] => number[c][i] = (last[c] + 1) % SeqMod]_vars

\* Once a connection is stopped for good every push loop on it ends, the ones a
\* start had revived included, as long as the client keeps reading.
StopEndsPush ==
  \A c \in Clients :
    <>[]~ev[c] /\ []<>(unread[c] < Window) => <>[]Off(c)

\* When the client closes, the handler and every push loop end, in whatever they
\* were doing, and the connection is counted out.
CleanedUp ==
  \A c \in Clients : client[c] = "closed" ~> (pc[c] = "done" /\ Off(c))
===========================================================================
