------------------------------- MODULE GeSrtp -------------------------------
(***************************************************************************)
(* The GE SRTP emulator (sandbox/gesrtp_mock_server.py): an accept loop,   *)
(* one thread per connection, and a table of connection states keyed by    *)
(* the client's address and port, shared under a lock. A handler keeps a   *)
(* reference to the entry it found or made, answers INIT and then any      *)
(* number of requests, each after the scan delay, closes its socket and    *)
(* only then drops the table's entry: a client that comes back from the    *)
(* same port in between meets what its predecessor left.                   *)
(*                                                                         *)
(* A packet is its type, the length its header states and what the         *)
(* dispatch reads; an entry is named after the connection that made it.    *)
(***************************************************************************)
EXTENDS Integers, Sequences

CONSTANTS
  Addrs,        \* client addresses (ip and port)
  Conns,        \* connections, numbered in the order they are made
  Origins,      \* where the connections may come from
  Packets,      \* the packets each connection may carry
  MaxAsked,     \* bound: packets each client sends
  InFlight,     \* bound: packets that wait to be read
  Profile       \* the PLC that is emulated

ASSUME ConnsAssumption == Conns \subseteq Nat \ {0} /\ Origins \subseteq [Conns -> Addrs]

VARIABLES
  up,        \* the process runs
  table,     \* _connection_states: the entry of each address, 0 for none
  entry,     \* the entries, by the connection that made them
  peer,      \* the client's end of each connection
  addr,      \* where each connection comes from
  pc,        \* where the handler of each connection is
  ref,       \* the entry each handler holds
  cur,       \* the request it is answering
  inbox,     \* packets sent and not yet read
  asked,     \* how many packets the client has sent
  read,      \* how many of them the handler has read
  answered,  \* the number of the last packet that was answered
  reply,     \* the last answer, until the next request is read
  overlap    \* history: connections that ran beside another of their address

client == <<peer, addr, inbox, asked>>
vars == <<up, table, entry, peer, addr, pc, ref, cur, inbox, asked, read,
          answered, reply, overlap>>

---------------------------------------------------------------------------
(* Requests and answers.                                                   *)

SSTAT == 0
LSTAT == 1
MEM_READ == 15
MEM_WRITE == 16
CONFIG == 67

\* The number of registers of each type.
MEMORY_RANGES ==
  IF Profile = "ge90_30" THEN [R |-> 4096, AI |-> 1024, AQ |-> 1024]
                         ELSE [R |-> 65536, AI |-> 4096, AQ |-> 4096]

PLC_PROFILES ==
  [rx3i |-> [mem_used |-> 43008, mem_total |-> 102400, max_conn |-> 32],
   ge90_70 |-> [mem_used |-> 66560, mem_total |-> 131072, max_conn |-> 16],
   ge90_30 |-> [mem_used |-> 28672, mem_total |-> 65536, max_conn |-> 8]]

valid_memory_access(m) ==
  /\ m.type \in DOMAIN MEMORY_RANGES
  /\ m.offset < MEMORY_RANGES[m.type]
  /\ m.count # 0
  /\ m.offset + m.count <= MEMORY_RANGES[m.type]

IsMemory(p) == p.service \in {MEM_READ, MEM_WRITE}

\* A request too short to be dispatched, or to name the memory it is for.
TooShort(p) == p.length < IF IsMemory(p) THEN 9 ELSE 4

Status(p) ==
  IF TooShort(p) THEN "InvalidData"
  ELSE IF IsMemory(p) THEN
    IF valid_memory_access(p.memory) THEN "Success" ELSE "InvalidData"
  ELSE IF p.service \in {SSTAT, LSTAT, CONFIG} THEN "Success"
  ELSE "InvalidService"

\* What an answer carries: identification, the memory sizes cut to 16 bits,
\* limits, as many registers as fit (of a rejected read too), a count written.
sstat_values == <<Profile>>
lstat_values == <<PLC_PROFILES[Profile].mem_used % 65536,
                  PLC_PROFILES[Profile].mem_total % 65536>>
config_values == <<PLC_PROFILES[Profile].max_conn>>
mem_read_values(p) == <<IF p.memory.count < 24 THEN p.memory.count ELSE 24>>
mem_write_values(p) == <<p.memory.count>>

Values(p) ==
  CASE TooShort(p) -> <<>>
    [] p.service = SSTAT -> sstat_values
    [] p.service = LSTAT -> lstat_values
    [] p.service = CONFIG -> config_values
    [] p.service = MEM_READ -> mem_read_values(p)
    [] p.service = MEM_WRITE -> mem_write_values(p)
    [] OTHER -> <<>>

\* The uptime is counted from the time in the entry the handler holds.
Answer(p, e) ==
  [status |-> Status(p), values |-> Values(p),
   since |-> IF p.service = LSTAT /\ ~TooShort(p) THEN e ELSE 0]

init_ack == [status |-> "Success", values |-> <<1, 0>>, since |-> 0]
NoReply == [status |-> "none", values |-> <<>>, since |-> 0]
NoPacket == [type |-> "none"]

---------------------------------------------------------------------------
NewEntry == [init_state |-> "pending", services |-> 0, sent |-> 0, received |-> 0]

Init ==
  /\ up = TRUE
  /\ table = [a \in Addrs |-> 0]
  /\ entry = [c \in Conns |-> NewEntry]
  /\ peer = [c \in Conns |-> "none"]
  /\ addr \in Origins
  /\ pc = [c \in Conns |-> "none"]
  /\ ref = [c \in Conns |-> 0]
  /\ cur = [c \in Conns |-> NoPacket]
  /\ inbox = [c \in Conns |-> <<>>]
  /\ asked = [c \in Conns |-> 0]
  /\ read = [c \in Conns |-> 0]
  /\ answered = [c \in Conns |-> 0]
  /\ reply = [c \in Conns |-> NoReply]
  /\ overlap = {}

---------------------------------------------------------------------------
(* Clients. An address is free again once its last connection was reset or *)
(* closed at both ends. A packet cut short stays unread, like none at all. *)

ServerClosed(c) == pc[c] \in {"remove", "done"}
AddrFree(a) ==
  \A d \in Conns : addr[d] = a =>
    \/ peer[d] \in {"none", "reset"}
    \/ peer[d] = "shut" /\ ServerClosed(d)

\* run_server takes the connection and starts its thread, which begins in its time.
Connect(c) ==
  /\ up
  /\ peer[c] = "none"
  /\ \A d \in Conns : d < c => peer[d] # "none"
  /\ AddrFree(addr[c])
  /\ peer' = [peer EXCEPT ![c] = "open"]
  /\ pc' = [pc EXCEPT ![c] = "start"]
  /\ UNCHANGED <<up, table, entry, addr, ref, cur, inbox, asked, read, answered, reply, overlap>>

Send(c) ==
  /\ peer[c] = "open" /\ ~ServerClosed(c)
  /\ asked[c] < MaxAsked[c] /\ Len(inbox[c]) < InFlight
  /\ \E p \in Packets[c] : inbox' = [inbox EXCEPT ![c] = Append(@, p)]
  /\ asked' = [asked EXCEPT ![c] = @ + 1]
  /\ UNCHANGED <<up, table, entry, peer, addr, pc, ref, cur, read, answered, reply, overlap>>

Shut(c) ==
  /\ peer[c] = "open"
  /\ peer' = [peer EXCEPT ![c] = "shut"]
  /\ UNCHANGED <<up, table, entry, addr, pc, ref, cur, inbox, asked, read, answered, reply, overlap>>

\* What has not been read is gone.
Reset(c) ==
  /\ peer[c] \in {"open", "shut"} /\ ~ServerClosed(c)
  /\ peer' = [peer EXCEPT ![c] = "reset"]
  /\ inbox' = [inbox EXCEPT ![c] = <<>>]
  /\ UNCHANGED <<up, table, entry, addr, pc, ref, cur, asked, read, answered, reply, overlap>>

---------------------------------------------------------------------------
(* The handlers.                                                           *)

Goto(c, there) == pc' = [pc EXCEPT ![c] = there]
Live(c) == pc[c] \notin {"none", "start", "done"}

track_connection(c) ==
  /\ up /\ pc[c] = "start"
  /\ LET a == addr[c]
         beside == {d \in Conns : Live(d) /\ addr[d] = a}
     IN  /\ table' = [table EXCEPT ![a] = IF @ = 0 THEN c ELSE @]
         /\ ref' = [ref EXCEPT ![c] = table'[a]]
         /\ overlap' = IF beside = {} THEN overlap ELSE overlap \cup beside \cup {c}
  /\ Goto(c, "init")
  /\ UNCHANGED <<up, entry, cur, read, answered, reply, client>>

\* Mutant: a reset is not taken for the end of the connection.
ShortReadIgnoresReset(c) ==
  /\ up /\ pc[c] \in {"init", "req"}
  /\ inbox[c] = <<>> /\ peer[c] = "shut"
  /\ Goto(c, "close")
  /\ UNCHANGED <<up, table, entry, ref, cur, read, answered, reply, overlap, client>>

\* recv_exact: less than a packet, because the client closed or reset.
ShortRead(c) ==
  /\ up /\ pc[c] \in {"init", "req"}
  /\ inbox[c] = <<>> /\ peer[c] # "open"
  /\ Goto(c, "close")
  /\ UNCHANGED <<up, table, entry, ref, cur, read, answered, reply, overlap, client>>

\* The INIT is noted in the table's entry, and counted in the one the handler holds.
ReadInit(c) ==
  /\ up /\ pc[c] = "init" /\ inbox[c] # <<>>
  /\ inbox' = [inbox EXCEPT ![c] = Tail(@)]
  /\ IF Head(inbox[c]).type # "INIT"
     THEN Goto(c, "close") /\ entry' = entry
     ELSE /\ Goto(c, "ack")
          /\ entry' = [o \in Conns |->
               [entry[o] EXCEPT
                  !.init_state = IF o = table[addr[c]] THEN "completed" ELSE @,
                  !.received = IF o = ref[c] THEN @ + 1 ELSE @]]
  /\ read' = [read EXCEPT ![c] = @ + 1]
  /\ UNCHANGED <<up, table, peer, addr, ref, cur, asked, answered, reply, overlap>>

\* Mutant: an answer is counted before it is sent.
AnswersCountedFirst(c, r, then) ==
  /\ entry' = [entry EXCEPT ![ref[c]].sent = @ + 1]
  /\ IF peer[c] = "reset"
     THEN Goto(c, "close") /\ UNCHANGED <<answered, reply>>
     ELSE /\ reply' = [reply EXCEPT ![c] = r]
          /\ answered' = [answered EXCEPT ![c] = read[c]]
          /\ Goto(c, then)

\* An answer the client's reset keeps from going out ends the handler.
Answers(c, r, then) ==
  IF peer[c] = "reset"
  THEN Goto(c, "close") /\ UNCHANGED <<entry, answered, reply>>
  ELSE /\ reply' = [reply EXCEPT ![c] = r]
       /\ answered' = [answered EXCEPT ![c] = read[c]]
       /\ entry' = [entry EXCEPT ![ref[c]].sent = @ + 1]
       /\ Goto(c, then)

SendInitAck(c) ==
  /\ up /\ pc[c] = "ack"
  /\ Answers(c, init_ack, "req")
  /\ UNCHANGED <<up, table, ref, cur, read, overlap, client>>

\* Anything but a REQ ends the connection without an answer.
ReadReq(c) ==
  /\ up /\ pc[c] = "req" /\ inbox[c] # <<>>
  /\ LET p == Head(inbox[c]) IN
       /\ Goto(c, IF p.type # "REQ" THEN "close" ELSE "answer")
       /\ cur' = [cur EXCEPT ![c] = IF p.type = "REQ" THEN p ELSE NoPacket]
       /\ reply' = [reply EXCEPT ![c] = NoReply]
       /\ entry' = [entry EXCEPT ![ref[c]].received = @ + 1,
                                 ![ref[c]].services =
                                   IF p.type = "REQ" /\ p.length >= 4 THEN @ + 1 ELSE @]
  /\ inbox' = [inbox EXCEPT ![c] = Tail(@)]
  /\ read' = [read EXCEPT ![c] = @ + 1]
  /\ UNCHANGED <<up, table, peer, addr, ref, asked, answered, overlap>>

\* Mutant: a rejected access is only logged.
SendReqAckUnlessRejected(c) ==
  /\ up /\ pc[c] = "answer"
  /\ IF IsMemory(cur[c]) /\ ~TooShort(cur[c]) /\ Status(cur[c]) # "Success"
     THEN Goto(c, "req") /\ UNCHANGED <<entry, answered, reply>>
     ELSE Answers(c, Answer(cur[c], ref[c]), IF TooShort(cur[c]) THEN "close" ELSE "req")
  /\ cur' = [cur EXCEPT ![c] = NoPacket]
  /\ UNCHANGED <<up, table, ref, read, overlap, client>>

SendReqAck(c) ==
  /\ up /\ pc[c] = "answer"
  /\ Answers(c, Answer(cur[c], ref[c]), IF TooShort(cur[c]) THEN "close" ELSE "req")
  /\ cur' = [cur EXCEPT ![c] = NoPacket]
  /\ UNCHANGED <<up, table, ref, read, overlap, client>>

\* Mutant: only a handler that was not reset cleans up.
CloseWithoutFinally(c) ==
  /\ up /\ pc[c] = "close"
  /\ Goto(c, IF peer[c] = "reset" THEN "done" ELSE "remove")
  /\ UNCHANGED <<up, table, entry, ref, cur, read, answered, reply, overlap, client>>

\* finally: conn.close(), and only then the entry goes, for good once no handler
\* holds it.
Close(c) ==
  /\ up /\ pc[c] = "close"
  /\ Goto(c, "remove")
  /\ UNCHANGED <<up, table, entry, ref, cur, read, answered, reply, overlap, client>>

remove_connection_state(c) ==
  /\ up /\ pc[c] = "remove"
  /\ table' = [table EXCEPT ![addr[c]] = 0]
  /\ Goto(c, "done")
  /\ ref' = [ref EXCEPT ![c] = 0]
  /\ entry' = [o \in Conns |-> IF \E d \in Conns : ref'[d] = o THEN entry[o] ELSE NewEntry]
  /\ reply' = [reply EXCEPT ![c] = NoReply]
  /\ UNCHANGED <<up, cur, read, answered, overlap, client>>

\* Ctrl+C: the process ends, with its sockets, its daemon threads and its memory.
Stop ==
  /\ up /\ up' = FALSE
  /\ peer' = [c \in Conns |-> "reset"]
  /\ pc' = [c \in Conns |-> "done"]
  /\ inbox' = [c \in Conns |-> <<>>]
  /\ table' = [a \in Addrs |-> 0] /\ entry' = [c \in Conns |-> NewEntry]
  /\ ref' = [c \in Conns |-> 0] /\ overlap' = {}
  /\ cur' = [c \in Conns |-> NoPacket] /\ reply' = [c \in Conns |-> NoReply]
  /\ UNCHANGED <<addr, asked, read, answered>>

Handler(c) ==
  \/ track_connection(c) \/ ShortRead(c) \/ ReadInit(c) \/ SendInitAck(c)
  \/ ReadReq(c) \/ SendReqAck(c) \/ Close(c) \/ remove_connection_state(c)

Next ==
  \/ Stop
  \/ \E c \in Conns : \/ Connect(c) \/ Send(c) \/ Shut(c) \/ Reset(c)
                      \/ Handler(c)

\* The threads run while the process does; clients need not.
Spec ==
  /\ Init /\ [][Next]_vars
  /\ \A c \in Conns : WF_vars(Handler(c))

---------------------------------------------------------------------------
(* Properties.                                                             *)

Entries == [init_state : {"pending", "completed"}, services : Nat, sent : Nat,
            received : Nat]
Places == {"none", "start", "init", "ack", "req", "answer", "close", "remove", "done"}

\* Every variable has its type: an entry is missing or one some connection made.
TypeOK ==
  /\ up \in BOOLEAN
  /\ table \in [Addrs -> Conns \cup {0}]
  /\ entry \in [Conns -> Entries]
  /\ peer \in [Conns -> {"none", "open", "shut", "reset"}]
  /\ addr \in [Conns -> Addrs]
  /\ pc \in [Conns -> Places]
  /\ ref \in [Conns -> Conns \cup {0}]
  /\ \A c \in Conns : pc[c] \in {"init", "ack", "req", "answer"} => ref[c] \in Conns
  /\ asked \in [Conns -> Nat] /\ read \in [Conns -> Nat] /\ answered \in [Conns -> Nat]
  /\ overlap \subseteq Conns

\* The table never keeps the entry of a connection that is over (the finally of
\* handle_client), even when successors from the same port share and drop it.
EntryHasHandler == \A a \in Addrs : table[a] # 0 => Live(table[a])

\* Unless its port was reused while it ran, a handler works on an entry of its own
\* that the table shows and that counts just what its client was told: the LSTAT
\* uptime starts with this connection, and one packet at most is unanswered.
ExactUnlessReused ==
  \A c \in Conns \ overlap : Live(c) =>
    /\ table[addr[c]] = c /\ ref[c] = c
    /\ reply[c].since \in {0, c}
    /\ entry[c].sent = answered[c]
    /\ entry[c].received - entry[c].sent \in
         CASE pc[c] \in {"init", "req"} -> {0}
           [] pc[c] \in {"ack", "answer"} -> {1}
           [] OTHER -> {0, 1}
    /\ entry[c].init_state = "completed" <=> entry[c].received > 0

open == [c \in Conns |-> ~ServerClosed(c)]

Talk == INSTANCE Dialogue WITH
  Conns <- Conns, Lossless <- TRUE, asked <- asked, answered <- answered, open <- open

\* Every packet is answered in turn, pipelined or not, until one ends the
\* connection: a rejected request is answered like a served one.
EveryRequestInTurn == Talk!Spec

\* The handler of a client that has left ends, whatever it was doing. (One whose
\* client stays and is silent waits for ever: accepted sockets have no timeout.)
HandlersEnd ==
  \A c \in Conns : peer[c] \in {"shut", "reset"} ~> (pc[c] = "done" \/ ~up)
===========================================================================
