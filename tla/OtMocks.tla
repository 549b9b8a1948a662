------------------------------- MODULE OtMocks ------------------------------
(***************************************************************************)
(* The legacy emulators and their launcher (sandbox/ot_mock_servers.py).   *)
(* main starts a thread for every server asked for. The thread of an       *)
(* inline server accepts connections until the stop event is set; the      *)
(* thread of a standalone server starts a process, puts it on a list and   *)
(* waits for it. On Ctrl+C main sets the event, joins every thread for two *)
(* seconds at most, and stops what is on the list. All threads are daemon  *)
(* threads: they end with main. The processes do not.                      *)
(***************************************************************************)
EXTENDS Naturals, Sequences

CONSTANTS
  Order,        \* to_start: the names of the servers to start, in order
  MaxAsked,     \* bound: requests the client of each inline server sends
  Interrupts    \* bound: how often Ctrl+C is pressed

\* The inline servers and how many answers the handler of each gives on a connection.
\* (The handler of mms has five, but the second is no hexadecimal and raises.)
Replies == [modbus |-> 1, hartip |-> 4, fox |-> 1, pcworx |-> 3, mms |-> 1]
Datagram == {"profinet"}
LESSER_KNOWN == {"melsecq", "opcua", "proconos", "gesrtp", "redlion", "ffhse"}

Started == {Order[i] : i \in DOMAIN Order}
Inline == Started \cap (DOMAIN Replies \cup Datagram)
Standalone == Started \cap LESSER_KNOWN

ASSUME OrderAssumption ==
  /\ Order \in Seq(DOMAIN Replies \cup Datagram \cup LESSER_KNOWN)
  /\ \A i, j \in DOMAIN Order : Order[i] = Order[j] => i = j

VARIABLES
  main,        \* where main is
  next,        \* the server it starts or joins next, the process it stops next
  stop_event,
  thread,      \* where the thread of each server is
  proc,        \* the process of each standalone server
  subprocesses,  \* _subprocesses, the list
  late,        \* history: servers whose thread was not joined in time
  pressed,     \* how often Ctrl+C was pressed
  conn,        \* the connection to each inline server
  peer,        \* its client, "open" or "closed"
  stage,       \* the answers its handler has given
  got,         \* the requests its handler has received, or begun to receive
  part,        \* whether the last of them is not all there yet
  asked,       \* the requests its client has sent
  answered,    \* the number of the last of them when the last answer was given
  cuts,        \* history: how often a segment ended within a request
  hasty        \* history: whether a request was sent before the last was answered

launcher == <<main, next, stop_event, thread, proc, subprocesses, late, pressed>>
clients == <<conn, peer, stage, got, part, asked, answered, cuts, hasty>>
vars == <<launcher, clients>>

Init ==
  /\ main = "start" /\ next = 1 /\ stop_event = FALSE
  /\ thread = [s \in Started |-> "none"]
  /\ proc = [s \in Standalone |-> "none"]
  /\ subprocesses = <<>> /\ late = {} /\ pressed = 0
  /\ conn = [s \in Inline |-> "none"] /\ peer = [s \in Inline |-> "open"]
  /\ stage = [s \in Inline |-> 0] /\ got = [s \in Inline |-> 0]
  /\ part = [s \in Inline |-> FALSE]
  /\ asked = [s \in Inline |-> 0] /\ answered = [s \in Inline |-> 0]
  /\ cuts = [s \in Inline |-> 0] /\ hasty = [s \in Inline |-> FALSE]

\* The interpreter runs, and the daemon threads with it.
Up == main \notin {"ended", "aborted"}

---------------------------------------------------------------------------
(* main.                                                                   *)

StartThread ==
  /\ main = "start"
  /\ IF next > Len(Order) THEN main' = "running" /\ UNCHANGED <<next, thread>>
     ELSE /\ thread' = [thread EXCEPT ![Order[next]] = "init"]
          /\ next' = next + 1 /\ UNCHANGED main
  /\ UNCHANGED <<stop_event, proc, subprocesses, late, pressed, clients>>

\* Only the loop after the start is guarded: a Ctrl+C during the start, or a second
\* one, ends main where it is.
Interrupt ==
  /\ Up /\ pressed < Interrupts
  /\ pressed' = pressed + 1
  /\ IF main = "running" THEN main' = "join" /\ next' = 1 /\ stop_event' = TRUE
     ELSE main' = "aborted" /\ UNCHANGED <<next, stop_event>>
  /\ UNCHANGED <<thread, proc, subprocesses, late, clients>>

\* join(timeout=2): the thread has ended, or the time is over.
Join ==
  /\ main = "join"
  /\ IF next > Len(Order) THEN main' = "stop" /\ next' = 1 /\ UNCHANGED late
     ELSE /\ late' = IF thread[Order[next]] = "ended" THEN late ELSE late \cup {Order[next]}
          /\ next' = next + 1 /\ UNCHANGED main
  /\ UNCHANGED <<stop_event, thread, proc, subprocesses, pressed, clients>>

Stopping == subprocesses[next]

\* terminate, and wait for three seconds.
Terminate ==
  /\ main = "stop" /\ next <= Len(subprocesses)
  /\ \/ /\ proc' = [proc EXCEPT ![Stopping] = "exited"]
        /\ next' = next + 1 /\ UNCHANGED main
     \/ main' = "kill" /\ UNCHANGED <<proc, next>>
  /\ UNCHANGED <<stop_event, thread, subprocesses, late, pressed, clients>>

\* Mutant: instead of the kill, main waits until the process ends of itself.
KillWaits ==
  /\ main = "kill" /\ proc[Stopping] = "exited"
  /\ next' = next + 1 /\ main' = "stop"
  /\ UNCHANGED <<stop_event, thread, proc, subprocesses, late, pressed, clients>>

\* Mutant: a process that does not end in time is left.
KillOmitted ==
  /\ main = "kill"
  /\ next' = next + 1 /\ main' = "stop"
  /\ UNCHANGED <<stop_event, thread, proc, subprocesses, late, pressed, clients>>

Kill ==
  /\ main = "kill"
  /\ proc' = [proc EXCEPT ![Stopping] = "exited"]
  /\ next' = next + 1 /\ main' = "stop"
  /\ UNCHANGED <<stop_event, thread, subprocesses, late, pressed, clients>>

\* The walk takes what a slow thread appends behind it; once it is over, the list is
\* cleared, in a step of its own, and main ends.
WalkOver ==
  /\ main = "stop" /\ next > Len(subprocesses)
  /\ main' = "clear"
  /\ UNCHANGED <<next, stop_event, thread, proc, subprocesses, late, pressed, clients>>

Clear ==
  /\ main = "clear"
  /\ subprocesses' = <<>> /\ main' = "ended"
  /\ UNCHANGED <<next, stop_event, thread, proc, late, pressed, clients>>

Main == StartThread \/ Join \/ Terminate \/ Kill \/ WalkOver \/ Clear

---------------------------------------------------------------------------
(* The threads of the standalone servers. A process may end by itself, when *)
(* it finds its port taken or the terminal's Ctrl+C reaches it too.         *)

\* The script may not be there.
Launch(s) ==
  /\ Up /\ s \in Standalone /\ thread[s] = "init"
  /\ \/ thread' = [thread EXCEPT ![s] = "ended"] /\ UNCHANGED proc
     \/ thread' = [thread EXCEPT ![s] = "append"] /\ proc' = [proc EXCEPT ![s] = "running"]
  /\ UNCHANGED <<main, next, stop_event, subprocesses, late, pressed, clients>>

Track(s) ==
  /\ Up /\ thread[s] = "append"
  /\ subprocesses' = Append(subprocesses, s)
  /\ thread' = [thread EXCEPT ![s] = "wait"]
  /\ UNCHANGED <<main, next, stop_event, proc, late, pressed, clients>>

WaitOver(s) ==
  /\ Up /\ thread[s] = "wait"
  /\ stop_event \/ proc[s] = "exited"
  /\ thread' = [thread EXCEPT ![s] = "ended"]
  /\ UNCHANGED <<main, next, stop_event, proc, subprocesses, late, pressed, clients>>

ProcExits(s) ==
  /\ s \in Standalone /\ proc[s] = "running"
  /\ proc' = [proc EXCEPT ![s] = "exited"]
  /\ UNCHANGED <<main, next, stop_event, thread, subprocesses, late, pressed, clients>>

---------------------------------------------------------------------------
(* The threads of the inline servers.                                      *)

\* A port that is taken ends the thread.
Bind(s) ==
  /\ Up /\ s \in Inline /\ thread[s] = "init"
  /\ \E r \in {"serve", "ended"} : thread' = [thread EXCEPT ![s] = r]
  /\ UNCHANGED <<main, next, stop_event, proc, subprocesses, late, pressed, clients>>

\* The event is looked at every half second.
ServeOver(s) ==
  /\ Up /\ thread[s] = "serve" /\ stop_event
  /\ thread' = [thread EXCEPT ![s] = "ended"]
  /\ UNCHANGED <<main, next, stop_event, proc, subprocesses, late, pressed, clients>>

Accept(s) ==
  /\ Up /\ thread[s] = "serve" /\ s \notin Datagram /\ conn[s] = "none"
  /\ conn' = [conn EXCEPT ![s] = "open"]
  /\ UNCHANGED <<launcher, peer, stage, got, part, asked, answered, cuts, hasty>>

\* Datagrams are answered one by one, by the server's own thread.
ServeDatagram(s) ==
  /\ Up /\ thread[s] = "serve" /\ s \in Datagram /\ got[s] < asked[s]
  /\ got' = [got EXCEPT ![s] = @ + 1]
  /\ stage' = [stage EXCEPT ![s] = @ + 1]
  /\ answered' = [answered EXCEPT ![s] = got'[s]]
  /\ UNCHANGED <<launcher, conn, peer, part, asked, cuts, hasty>>

---------------------------------------------------------------------------
(* The client of each inline server, and the handler of its connection.    *)

Ask(s) ==
  /\ s \in Inline /\ peer[s] = "open" /\ asked[s] < MaxAsked[s]
  /\ asked' = [asked EXCEPT ![s] = @ + 1]
  /\ hasty' = [hasty EXCEPT ![s] = @ \/ answered[s] < asked[s]]
  /\ UNCHANGED <<launcher, conn, peer, stage, got, part, answered, cuts>>

\* (A client of datagrams has no connection to close.)
Depart(s) ==
  /\ s \in Inline \ Datagram /\ peer[s] = "open"
  /\ peer' = [peer EXCEPT ![s] = "closed"]
  /\ UNCHANGED <<launcher, conn, stage, got, part, asked, answered, cuts, hasty>>

Handling(s) == Up /\ conn[s] = "open"

\* There is something to receive.
Waiting(s) == got[s] < asked[s] \/ part[s]

\* Mutant: the answer goes out before the request is read.
ReplyFirst(s) ==
  /\ Handling(s) /\ stage[s] < Replies[s]
  /\ stage' = [stage EXCEPT ![s] = @ + 1]
  /\ answered' = [answered EXCEPT ![s] = stage'[s]]
  /\ UNCHANGED <<launcher, conn, peer, got, part, asked, cuts, hasty>>

\* Mutant: no recv stands between the first answer and the second.
ReplySkipsRecv(s) ==
  /\ Handling(s) /\ stage[s] < Replies[s]
  /\ IF stage[s] = 1 THEN UNCHANGED <<got, part, cuts>>
     ELSE /\ Waiting(s)
          /\ \E n \in got[s]..asked[s], cut \in BOOLEAN :
               /\ n > got[s] \/ part[s]
               /\ got' = [got EXCEPT ![s] = n] /\ part' = [part EXCEPT ![s] = cut]
               /\ cuts' = [cuts EXCEPT ![s] = IF cut THEN @ + 1 ELSE @]
  /\ stage' = [stage EXCEPT ![s] = @ + 1]
  /\ answered' = [answered EXCEPT ![s] = got'[s]]
  /\ UNCHANGED <<launcher, conn, peer, asked, hasty>>

\* One recv, of several requests or of some of one, is one turn: the next of the
\* answers goes out, whatever was asked. What comes of a request behind its first
\* segment takes a turn of its own, unless it comes with the next request.
Reply(s) ==
  /\ Handling(s) /\ stage[s] < Replies[s]
  /\ Waiting(s)
  /\ \E n \in got[s]..asked[s], cut \in BOOLEAN :
       /\ n > got[s] \/ part[s]
       /\ got' = [got EXCEPT ![s] = n] /\ part' = [part EXCEPT ![s] = cut]
       /\ cuts' = [cuts EXCEPT ![s] = IF cut THEN @ + 1 ELSE @]
  /\ stage' = [stage EXCEPT ![s] = @ + 1]
  /\ answered' = [answered EXCEPT ![s] = got'[s]]
  /\ UNCHANGED <<launcher, conn, peer, asked, hasty>>

\* The handler ends: after the last answer (mms has one more, which raises), when the
\* client has gone, on a Modbus segment under eight bytes, after five seconds (pcworx).
Close(s) ==
  /\ Handling(s)
  /\ \/ stage[s] = Replies[s] /\ (s = "mms" => Waiting(s))
     \/ peer[s] = "closed"
     \/ s = "modbus" /\ Waiting(s)
     \/ s = "pcworx" /\ got[s] = asked[s]
  /\ conn' = [conn EXCEPT ![s] = "done"]
  /\ UNCHANGED <<launcher, peer, stage, got, part, asked, answered, cuts, hasty>>

---------------------------------------------------------------------------
Thread(s) == Launch(s) \/ Track(s) \/ WaitOver(s) \/ Bind(s) \/ ServeOver(s)

Server(s) == Accept(s) \/ ServeDatagram(s)

Handler(s) == Reply(s) \/ Close(s)

Next ==
  \/ Main \/ Interrupt
  \/ \E s \in Started : Thread(s) \/ ProcExits(s)
  \/ \E s \in Inline : Server(s) \/ Ask(s) \/ Depart(s) \/ Handler(s)

\* main and the threads run; nobody need press a key, send or leave.
Spec ==
  /\ Init /\ [][Next]_vars
  /\ WF_vars(Main)
  /\ \A s \in Started : WF_vars(Thread(s))
  /\ \A s \in Inline : WF_vars(Server(s)) /\ WF_vars(Handler(s))

---------------------------------------------------------------------------
(* Properties.                                                             *)

\* When main has gone its whole way, a process still runs only where its thread was so
\* slow that main gave up joining it: a thread that starts or appends one while main
\* walks and clears the list. No process that was started in time is forgotten.
StoppedUnlessLate ==
  main = "ended" => \A s \in Standalone : proc[s] = "running" => s \in late

\* After the first Ctrl+C main ends, whatever the threads, the processes that do not
\* mind SIGTERM and the clients that stay connected do.
EverythingStops == stop_event ~> ~Up

\* A server has yet to close its connection or, for datagrams, its socket.
open ==
  [s \in Inline |-> Up /\ conn[s] # "done" /\ (s \in Datagram => thread[s] # "ended")]

Talk == INSTANCE Dialogue WITH
  Conns <- Inline, Lossless <- FALSE, asked <- asked, answered <- answered, open <- open

\* However requests are cut and joined, and with the launcher ending under them: an
\* inline server answers nothing before it was asked, no request after one that was
\* sent behind it, and nothing once it has closed. (A further answer to the rest of a
\* request it has answered is not counted here but below.)
AnswersInTurn == Talk!Spec

\* The handlers answer by position and not by content. Even so, every answer too many is
\* the work of a segment that ended within a request, and a client that sends no request
\* before the last was answered is not left behind: as long as none of its requests is
\* cut, the answer at each position goes to the request at that position.
InStep ==
  \A s \in Inline :
    /\ stage[s] <= answered[s] + cuts[s]
    /\ hasty[s] \/ answered[s] <= stage[s]
===========================================================================
