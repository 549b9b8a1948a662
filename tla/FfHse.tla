------------------------------- MODULE FfHse -------------------------------
(***************************************************************************)
(* The FF HSE device emulator (sandbox/ffhse_mock_server.py): one thread   *)
(* per connection, the thread that raises alarms, and what they share under *)
(* two locks, the alarm queue and the table of local sessions.             *)
(*                                                                         *)
(* A connection carries one request. The handler cannot know where it ends *)
(* (the length is not on the wire): it gathers until nothing has come for  *)
(* 0.3 s and classifies what it has. A local poll (LRES) takes every alarm *)
(* that waits and opens a session; a finish (LFIN) closes it; and every    *)
(* handler, whatever it was asked, takes the alarms that wait by then and  *)
(* pushes them before it closes. The lock makes each of these one step.    *)
(*                                                                         *)
(* Values, profiles and descriptors are left out: the other requests read  *)
(* the profile and change nothing but the drift of the process value.      *)
(***************************************************************************)
EXTENDS Integers, Sequences, FiniteSets

CONSTANTS
  Conns,      \* the connections
  Asks,       \* the requests each connection may carry
  Handles,    \* session handles
  MaxAlarms,  \* bound: alarms the generator raises
  Cap         \* alarms that may wait (50 in the code)

\* kind: what the whole request is; parts: the segments it arrives in. The part of
\* a request with a tag is none of the other kinds: no tag starts like SM or MA.
Kinds == {"SM_IDENTIFY", "MA_IDENTIFY", "LREQ", "FMS_READ", "LRES", "LFIN", "UNKNOWN"}
Tagged == {"LREQ", "FMS_READ", "LRES", "LFIN"}
Request ==
  [kind : Kinds, handle : Handles, parts : {1}]
  \cup [kind : Tagged, handle : Handles, parts : {2}]

ASSUME AsksAssumption == Asks \in [Conns -> SUBSET Request]
ASSUME CapAssumption == Cap \in Nat \ {0} /\ MaxAlarms \in Nat

Alarms == 1..MaxAlarms

VARIABLES
  phase,     \* the main thread: "up", "stopping" after Ctrl+C, "exited"
  gen,       \* the alarm generator
  made,      \* how many alarms were raised
  queue,     \* _alarm_queue
  sessions,  \* _active_sessions: the handles with an entry
  client,    \* the client's end of each connection
  ask,       \* the request each client sends
  sent,      \* how many segments of it are out
  pc,        \* where each handler is
  got,       \* segments gathered in buf
  held,      \* alarms a handler has taken and not yet sent
  told,      \* history: alarms each connection has told its client
  lost,      \* history: alarms lost with each connection
  trimmed,   \* history: alarms that were trimmed
  rtype,     \* history: the type field of the response, 0 before
  finished   \* history: connections whose session was finished after their poll

alarmvars == <<gen, made, queue, trimmed>>
clientvars == <<client, ask, sent>>
vars == <<phase, alarmvars, sessions, clientvars, pc, got, held, told, lost,
          rtype, finished>>

HandlerAt == {"off", "banner", "first", "gather", "classify", "store", "respond",
              "late", "notify", "done"}

TypeOK ==
  /\ phase \in {"up", "stopping", "exited"}
  /\ gen \in {"wait", "raise", "off"}
  /\ made \in 0..MaxAlarms
  /\ queue \in Seq(Alarms) /\ Len(queue) <= Cap
  /\ sessions \subseteq Handles
  /\ client \in [Conns -> {"new", "open", "closed"}]
  /\ \A c \in Conns : ask[c] \in Asks[c]
  /\ sent \in [Conns -> 0..2]
  /\ pc \in [Conns -> HandlerAt]
  /\ got \in [Conns -> 0..2]
  /\ held \in [Conns -> Seq(Alarms)]
  /\ told \in [Conns -> SUBSET Alarms]
  /\ lost \in [Conns -> SUBSET Alarms]
  /\ trimmed \subseteq Alarms
  /\ rtype \in [Conns -> Nat]
  /\ finished \subseteq Conns

Init ==
  /\ phase = "up" /\ gen = "wait" /\ made = 0 /\ queue = <<>> /\ sessions = {}
  /\ client = [c \in Conns |-> "new"]
  /\ ask \in [Conns -> UNION {Asks[c] : c \in Conns}]
  /\ \A c \in Conns : ask[c] \in Asks[c]
  /\ sent = [c \in Conns |-> 0]
  /\ pc = [c \in Conns |-> "off"] /\ got = [c \in Conns |-> 0]
  /\ held = [c \in Conns |-> <<>>]
  /\ told = [c \in Conns |-> {}] /\ lost = [c \in Conns |-> {}]
  /\ trimmed = {} /\ rtype = [c \in Conns |-> 0] /\ finished = {}

Elements(s) == {s[k] : k \in 1..Len(s)}

---------------------------------------------------------------------------
(* The clients.                                                            *)

Connect(c) ==
  /\ client[c] = "new"
  /\ client' = [client EXCEPT ![c] = "open"]
  /\ UNCHANGED <<phase, alarmvars, sessions, ask, sent, pc, got, held, told, lost,
                 rtype, finished>>

SendSegment(c) ==
  /\ client[c] = "open" /\ sent[c] < ask[c].parts
  /\ sent' = [sent EXCEPT ![c] = @ + 1]
  /\ UNCHANGED <<phase, alarmvars, sessions, client, ask, pc, got, held, told,
                 lost, rtype, finished>>

Close(c) ==
  /\ client[c] = "open"
  /\ client' = [client EXCEPT ![c] = "closed"]
  /\ UNCHANGED <<phase, alarmvars, sessions, ask, sent, pc, got, held, told, lost,
                 rtype, finished>>

Client(c) == Connect(c) \/ SendSegment(c) \/ Close(c)

---------------------------------------------------------------------------
(* The alarm generator (_alarm_generator) and the main thread.             *)

\* The wait returns when the interval is over or the shutdown event is set, and
\* the event is tested again.
GenWake ==
  /\ phase # "exited" /\ gen = "wait" /\ (made < MaxAlarms \/ phase = "stopping")
  /\ gen' = IF phase = "up" THEN "raise" ELSE "off"
  /\ UNCHANGED <<phase, made, queue, trimmed, sessions, clientvars, pc, got, held,
                 told, lost, rtype, finished>>

Overflow(q) == IF Len(q) > Cap THEN Len(q) - Cap ELSE 0

\* Mutant: the newest alarm goes when too many wait.
GenRaiseKeepOldest ==
  /\ phase # "exited" /\ gen = "raise"
  /\ made' = made + 1
  /\ LET q == Append(queue, made')
     IN  /\ queue' = SubSeq(q, 1, Len(q) - Overflow(q))
         /\ trimmed' = trimmed \cup (Elements(q) \ Elements(queue'))
  /\ gen' = "wait"
  /\ UNCHANGED <<phase, sessions, clientvars, pc, got, held, told, lost, rtype,
                 finished>>

\* Mutant: nothing is trimmed.
GenRaiseNoTrim ==
  /\ phase # "exited" /\ gen = "raise"
  /\ made' = made + 1
  /\ queue' = Append(queue, made')
  /\ gen' = "wait"
  /\ UNCHANGED <<phase, trimmed, sessions, clientvars, pc, got, held, told, lost,
                 rtype, finished>>

\* The event is queued and the oldest are dropped while too many wait.
GenRaise ==
  /\ phase # "exited" /\ gen = "raise"
  /\ made' = made + 1
  /\ LET q == Append(queue, made')
     IN  /\ queue' = SubSeq(q, Overflow(q) + 1, Len(q))
         /\ trimmed' = trimmed \cup {q[k] : k \in 1..Overflow(q)}
  /\ gen' = "wait"
  /\ UNCHANGED <<phase, sessions, clientvars, pc, got, held, told, lost, rtype,
                 finished>>

\* Ctrl+C: nothing more is accepted, the shutdown event is set.
Interrupt ==
  /\ phase = "up"
  /\ phase' = "stopping"
  /\ UNCHANGED <<alarmvars, sessions, clientvars, pc, got, held, told, lost, rtype,
                 finished>>

\* The join has ended or timed out; the daemon threads go with the process.
ProcessExit ==
  /\ phase = "stopping"
  /\ phase' = "exited"
  /\ UNCHANGED <<alarmvars, sessions, clientvars, pc, got, held, told, lost, rtype,
                 finished>>

Main == ProcessExit
Generator == GenWake \/ GenRaise

---------------------------------------------------------------------------
(* The handler of a connection (handle_connection).                        *)

Goto(c, l) == pc' = [pc EXCEPT ![c] = l]

Accept(c) ==
  /\ phase = "up" /\ pc[c] = "off" /\ client[c] # "new"
  /\ Goto(c, "banner")
  /\ UNCHANGED <<phase, alarmvars, sessions, clientvars, got, held, told, lost,
                 rtype, finished>>

Running(c, l) == phase # "exited" /\ pc[c] = l

\* The socket has no timeout yet and an empty buffer: sendall fails only on a
\* connection the client has left, and may succeed there.
Banner(c) ==
  /\ Running(c, "banner")
  /\ \/ Goto(c, "first")
     \/ client[c] = "closed" /\ Goto(c, "done")
  /\ UNCHANGED <<phase, alarmvars, sessions, clientvars, got, held, told, lost,
                 rtype, finished>>

\* recv returns what has come, possibly several segments.
Receive(c) ==
  /\ Running(c, "first") \/ Running(c, "gather")
  /\ sent[c] > got[c]
  /\ \E n \in got[c] + 1..sent[c] : got' = [got EXCEPT ![c] = n]
  /\ Goto(c, "gather")
  /\ UNCHANGED <<phase, alarmvars, sessions, clientvars, held, told, lost, rtype,
                 finished>>

\* Mutant: the first recv waits for ever.
NoRequestWaits(c) ==
  /\ Running(c, "first") /\ client[c] = "closed"
  /\ Goto(c, "done")
  /\ UNCHANGED <<phase, alarmvars, sessions, clientvars, got, held, told, lost,
                 rtype, finished>>

\* Nothing came for 10 s, or the client left: no response.
NoRequest(c) ==
  /\ Running(c, "first")
  /\ Goto(c, "done")
  /\ UNCHANGED <<phase, alarmvars, sessions, clientvars, got, held, told, lost,
                 rtype, finished>>

\* Nothing came for 0.3 s or the client has shut its side down; a reset instead
\* ends the handler.
Gathered(c) ==
  /\ Running(c, "gather")
  /\ \/ Goto(c, "classify")
     \/ client[c] = "closed" /\ Goto(c, "done")
  /\ UNCHANGED <<phase, alarmvars, sessions, clientvars, got, held, told, lost,
                 rtype, finished>>

\* classify_request: a request whose rest has not come yet is not recognised.
classify(c) == IF got[c] < ask[c].parts THEN "UNKNOWN" ELSE ask[c].kind

\* The connections that have polled on handle h.
PolledOn(h) ==
  {d \in Conns : /\ pc[d] \in {"store", "respond", "late", "notify", "done"}
                 /\ classify(d) = "LRES" /\ ask[d].handle = h}

\* Mutant: the poll is answered without its session in the table.
DispatchEarly(c) ==
  /\ Running(c, "classify")
  /\ LET kind == classify(c)
     IN  /\ held' = [held EXCEPT ![c] = IF kind = "LRES" THEN queue ELSE @]
         /\ queue' = IF kind = "LRES" THEN <<>> ELSE queue
         /\ sessions' = IF kind = "LFIN" THEN sessions \ {ask[c].handle} ELSE sessions
         /\ finished' = IF kind = "LFIN" THEN finished \cup PolledOn(ask[c].handle)
                        ELSE finished
  /\ Goto(c, "respond")
  /\ UNCHANGED <<phase, gen, made, trimmed, clientvars, got, told, lost, rtype>>

\* LRES takes the alarms that wait, LFIN removes the session; anything else is
\* answered from the profile.
Dispatch(c) ==
  /\ Running(c, "classify")
  /\ LET kind == classify(c)
     IN  /\ held' = [held EXCEPT ![c] = IF kind = "LRES" THEN queue ELSE @]
         /\ queue' = IF kind = "LRES" THEN <<>> ELSE queue
         /\ sessions' = IF kind = "LFIN" THEN sessions \ {ask[c].handle} ELSE sessions
         /\ finished' = IF kind = "LFIN" THEN finished \cup PolledOn(ask[c].handle)
                        ELSE finished
         /\ Goto(c, IF kind = "LRES" THEN "store" ELSE "respond")
  /\ UNCHANGED <<phase, gen, made, trimmed, clientvars, got, told, lost, rtype>>

\* The session of a poll is stored under the other lock.
Store(c) ==
  /\ Running(c, "store")
  /\ sessions' = sessions \cup {ask[c].handle}
  /\ Goto(c, "respond")
  /\ UNCHANGED <<phase, alarmvars, clientvars, got, held, told, lost, rtype, finished>>

\* The type field each builder packs. LRES_TYPE is bound twice in the module, and
\* build_lres packs the second value; an identification has no type field.
ResponseType(kind) ==
  CASE kind = "LREQ" -> 4
    [] kind = "FMS_READ" -> 32784
    [] kind = "LRES" -> 32772
    [] kind = "LFIN" -> 32773
    [] OTHER -> 1

\* The response goes out, and with that of a poll the alarms it counts.
Respond(c) ==
  /\ Running(c, "respond")
  /\ told' = [told EXCEPT ![c] = @ \cup Elements(held[c])]
  /\ held' = [held EXCEPT ![c] = <<>>]
  /\ rtype' = [rtype EXCEPT ![c] = ResponseType(classify(c))]
  /\ Goto(c, "late")
  /\ UNCHANGED <<phase, alarmvars, sessions, clientvars, got, lost, finished>>

\* Mutant: another handler may take the alarms between the copy and the clear.
TakeLateNoClear(c) ==
  /\ Running(c, "late")
  /\ held' = [held EXCEPT ![c] = queue]
  /\ Goto(c, IF queue = <<>> THEN "done" ELSE "notify")
  /\ UNCHANGED <<phase, alarmvars, sessions, clientvars, got, told, lost, rtype,
                 finished>>

\* Every handler takes the alarms that wait once it has responded.
TakeLate(c) ==
  /\ Running(c, "late")
  /\ held' = [held EXCEPT ![c] = queue]
  /\ queue' = <<>>
  /\ Goto(c, IF queue = <<>> THEN "done" ELSE "notify")
  /\ UNCHANGED <<phase, gen, made, trimmed, sessions, clientvars, got, told, lost,
                 rtype, finished>>

Notify(c) ==
  /\ Running(c, "notify")
  /\ told' = [told EXCEPT ![c] = @ \cup {Head(held[c])}]
  /\ held' = [held EXCEPT ![c] = Tail(@)]
  /\ Goto(c, IF Len(held[c]) = 1 THEN "done" ELSE "notify")
  /\ UNCHANGED <<phase, alarmvars, sessions, clientvars, got, lost, rtype, finished>>

\* Mutant: the loop goes on to the next alarm when one could not be sent.
SendFailsGoesOn(c) ==
  /\ Running(c, "notify")
  /\ lost' = [lost EXCEPT ![c] = @ \cup {Head(held[c])}]
  /\ held' = [held EXCEPT ![c] = Tail(@)]
  /\ Goto(c, IF Len(held[c]) = 1 THEN "done" ELSE "notify")
  /\ UNCHANGED <<phase, alarmvars, sessions, clientvars, got, told, rtype, finished>>

\* A send fails: the client has left, or it does not read, and the 0.3 s that were
\* set for gathering the request are still the socket's timeout. What the handler
\* holds by then is lost.
SendFails(c) ==
  /\ Running(c, "respond") \/ Running(c, "notify")
  /\ lost' = [lost EXCEPT ![c] = @ \cup Elements(held[c])]
  /\ held' = [held EXCEPT ![c] = <<>>]
  /\ Goto(c, "done")
  /\ UNCHANGED <<phase, alarmvars, sessions, clientvars, got, told, rtype, finished>>

Handler(c) ==
  \/ Accept(c) \/ Banner(c) \/ Receive(c) \/ NoRequest(c) \/ Gathered(c)
  \/ Dispatch(c) \/ Store(c) \/ Respond(c) \/ TakeLate(c) \/ Notify(c)
  \/ SendFails(c)

Next ==
  \/ Interrupt \/ Main \/ Generator
  \/ \E c \in Conns : Client(c) \/ Handler(c)

\* Every thread is scheduled, and recv has a timeout wherever it can wait; a
\* client may do nothing for ever, and nobody has to press Ctrl+C.
Spec ==
  /\ Init /\ [][Next]_vars
  /\ WF_vars(Main) /\ WF_vars(Generator)
  /\ \A c \in Conns : WF_vars(Handler(c))
---------------------------------------------------------------------------
(* Properties.                                                             *)

\* Where each alarm is, read off the queue, the handlers and the history.
place ==
  [a \in Alarms |->
     IF a > made THEN [at |-> "unborn", by |-> {}]
     ELSE IF a \in Elements(queue) THEN [at |-> "queued", by |-> {}]
     ELSE IF a \in trimmed THEN [at |-> "trimmed", by |-> {}]
     ELSE LET c == CHOOSE d \in Conns :
                     a \in Elements(held[d]) \cup told[d] \cup lost[d]
          IN  [at |-> IF a \in told[c] THEN "told"
                      ELSE IF a \in lost[c] THEN "lost" ELSE "held",
               by |-> {c}]]

Delivery == INSTANCE AlarmDelivery WITH Alarms <- Alarms, Conns <- Conns, place <- place

\* Every alarm is taken by one connection or trimmed, and told at most once, over
\* all interleavings of handlers that take alarms at two places each.
AlarmsDeliveredOnce == Delivery!Spec

\* The alarms that wait are the newest, in the order they were raised, whatever
\* was taken or trimmed in between.
QueueIsNewest ==
  \A k \in 1..Len(queue) : queue[k] = made - Len(queue) + k

\* A connection tells its alarms in the order they were raised, those of the poll
\* and those taken after it, and loses none before the last it told: a client that
\* misses alarms misses the newest its handler took, and no gap is left among them.
LostAreNewest ==
  \A c \in Conns : \A a \in told[c], b \in lost[c] \cup Elements(held[c]) : a < b

\* A client that has its poll answered finds its session, unless a finish of the
\* handle was processed after the poll: a response never runs ahead of the table.
AnsweredPollHasSession ==
  \A c \in Conns \ finished :
    rtype[c] # 0 /\ classify(c) = "LRES" => ask[c].handle \in sessions

\* No handler stays on a client that sends nothing, sends half a request or
\* leaves. (One that never pauses for 0.3 s keeps its handler, as it should.)
HandlersEnd ==
  \A c \in Conns : pc[c] # "off" ~> (pc[c] = "done" \/ phase = "exited")
===========================================================================
