--------------------------- MODULE OtMocks_proofs ---------------------------
(***************************************************************************)
(* Proofs about OtMocks, for every list of servers to start and any number *)
(* of requests and of interrupts.                                          *)
(***************************************************************************)
EXTENDS OtMocks, SequenceTheorems, FiniteSetTheorems, TLAPS

---------------------------------------------------------------------------
(* The inductive invariant.                                                *)

Places == {"none", "init", "append", "wait", "serve", "ended"}

\* Every variable has its type.
Types ==
  /\ main \in {"start", "running", "join", "stop", "kill", "clear", "ended", "aborted"}
  /\ next \in Nat \ {0} /\ stop_event \in BOOLEAN
  /\ thread \in [Started -> Places]
  /\ \A s \in Started : thread[s] = "append" => s \in Standalone
  /\ proc \in [Standalone -> {"none", "running", "exited"}]
  /\ subprocesses \in Seq(Standalone)
  /\ late \subseteq Started
  /\ conn \in [Inline -> {"none", "open", "done"}]
  /\ stage \in [Inline -> Nat] /\ got \in [Inline -> Nat]
  /\ asked \in [Inline -> Nat] /\ answered \in [Inline -> Nat]
  /\ part \in [Inline -> BOOLEAN] /\ hasty \in [Inline -> BOOLEAN]
  /\ cuts \in [Inline -> Nat]

\* A process that runs is on the list, until main has cleared it, or its thread is
\* about to put it there.
Listed ==
  \A s \in Standalone : proc[s] = "running" =>
    /\ thread[s] \in {"append", "wait", "ended"}
    /\ \/ thread[s] = "append"
       \/ \E i \in 1..Len(subprocesses) : subprocesses[i] = s
       \/ main \in {"ended", "aborted"}

\* What is on the list was put there by a thread that is past it.
PutThere ==
  \A i \in 1..Len(subprocesses) : thread[subprocesses[i]] \in {"wait", "ended"}

\* A thread main has yet to start does nothing.
Unstarted ==
  main = "start" => \A i \in 1..Len(Order) : i >= next => thread[Order[i]] = "none"

\* A thread main has joined has ended, or is late.
Joined(n) ==
  \A i \in 1..Len(Order) : i < n => thread[Order[i]] = "ended" \/ Order[i] \in late

\* As far as main has walked, the processes have ended; what is appended once the walk
\* is over comes from a late thread.
Walked ==
  /\ main = "join" => Joined(next)
  /\ main \in {"stop", "kill", "clear", "ended"} => Joined(Len(Order) + 1)
  /\ main \in {"stop", "kill"} =>
       /\ next <= Len(subprocesses) + 1
       /\ \A i \in 1..Len(subprocesses) : i < next => proc[subprocesses[i]] = "exited"
  /\ main = "kill" => next <= Len(subprocesses)
  /\ main = "clear" =>
       \A i \in 1..Len(subprocesses) :
         proc[subprocesses[i]] = "exited" \/ subprocesses[i] \in late

\* No handler has received more than was sent, and each has answered as far as it has
\* received. A server of datagrams has no connection.
Behind ==
  \A s \in Inline :
    /\ answered[s] = got[s] /\ got[s] <= asked[s]
    /\ s \in Datagram => conn[s] = "none"

\* The answers given, and the one the rest of a request that is not all there will get,
\* are no more than the requests answered and the cuts; and a client that waits for its
\* answers is at most one request ahead of them.
Paced(s) ==
  /\ stage[s] + (IF part[s] THEN 1 ELSE 0) <= answered[s] + cuts[s]
  /\ ~hasty[s] => answered[s] <= stage[s] /\ asked[s] <= answered[s] + 1

AllPaced == \A s \in Inline : Paced(s)

IInv == Types /\ Listed /\ PutThere /\ Unstarted /\ Walked /\ StoppedUnlessLate /\ Behind
        /\ AllPaced

---------------------------------------------------------------------------
(* The servers that are started.                                           *)

LEMMA OrderType ==
  /\ Len(Order) \in Nat /\ DOMAIN Order = 1..Len(Order)
  /\ \A i \in 1..Len(Order) : Order[i] \in Started
  /\ \A s \in Started : \E i \in 1..Len(Order) : Order[i] = s
  /\ \A i, j \in 1..Len(Order) : Order[i] = Order[j] => i = j
  /\ Inline \subseteq Started /\ Standalone \subseteq Started
<1>1. Len(Order) \in Nat /\ DOMAIN Order = 1..Len(Order)
  BY OrderAssumption, LenProperties
<1> QED BY <1>1, OrderAssumption DEF Started, Inline, Standalone

LEMMA AllJoined ==
  ASSUME Joined(Len(Order) + 1)
  PROVE  \A s \in Started : thread[s] = "ended" \/ s \in late
BY OrderType DEF Joined

LEMMA ListType ==
  ASSUME Types
  PROVE  /\ Len(subprocesses) \in Nat
         /\ \A i \in 1..Len(subprocesses) : subprocesses[i] \in Standalone
BY LenProperties, ElementOfSeq DEF Types

LEMMA InitInv == Init => IInv
<1> SUFFICES ASSUME Init PROVE IInv
  OBVIOUS
<1> USE DEF Init
<1>1. Len(subprocesses) = 0 /\ subprocesses \in Seq(Standalone)
  BY EmptySeq
<1>2. Types
  <2>1. conn \in [Inline -> {"none", "open", "done"}] /\ stage \in [Inline -> Nat]
        /\ got \in [Inline -> Nat] /\ asked \in [Inline -> Nat]
        /\ answered \in [Inline -> Nat]
        /\ part \in [Inline -> BOOLEAN] /\ hasty \in [Inline -> BOOLEAN]
        /\ cuts \in [Inline -> Nat]
    OBVIOUS
  <2>2. /\ thread \in [Started -> Places]
        /\ \A s \in Started : thread[s] = "append" => s \in Standalone
        /\ proc \in [Standalone -> {"none", "running", "exited"}]
    BY DEF Places
  <2>3. stop_event \in BOOLEAN
    OBVIOUS
  <2>4. main = "start" /\ next \in Nat \ {0} /\ late \subseteq Started
    OBVIOUS
  <2> HIDE DEF Init
  <2> QED BY <1>1, <2>1, <2>2, <2>3, <2>4 DEF Types
<1>3. Listed /\ Walked /\ StoppedUnlessLate
  BY DEF Listed, Walked, StoppedUnlessLate
<1>4. PutThere
  BY <1>1 DEF PutThere
<1>5. Behind /\ AllPaced
  BY DEF Behind, AllPaced, Paced
<1>6. Unstarted
  BY OrderType DEF Unstarted
<1> QED BY <1>2, <1>3, <1>4, <1>5, <1>6 DEF IInv

---------------------------------------------------------------------------
(* The steps of main.                                                      *)

LEMMA StartThreadStep ==
  ASSUME IInv, StartThread
  PROVE  IInv'
<1> USE DEF StartThread, clients, IInv
<1>1. CASE next > Len(Order)
  <2>1. main' = "running" /\ UNCHANGED <<next, thread, stop_event, proc, subprocesses, late, clients>>
    BY <1>1
  <2>2. Types'
    BY <2>1 DEF Types
  <2>3. Listed' /\ PutThere' /\ Behind' /\ AllPaced'
    BY <2>1 DEF Listed, PutThere, Behind, AllPaced, Paced
  <2>4. Unstarted' /\ Walked' /\ StoppedUnlessLate'
    BY <2>1 DEF Unstarted, Walked, StoppedUnlessLate
  <2> QED BY <2>2, <2>3, <2>4
<1>2. CASE ~(next > Len(Order))
  <2> DEFINE s == Order[next]
  <2>1. /\ thread' = [thread EXCEPT ![s] = "init"] /\ next' = next + 1 /\ main = "start"
        /\ UNCHANGED <<main, stop_event, proc, subprocesses, late, clients>>
    BY <1>2
  <2>2. next \in 1..Len(Order) /\ s \in Started /\ thread[s] = "none" /\ thread \in [Started -> Places]
    BY <1>2, <2>1, OrderType DEF Types, Unstarted
  <2>3. Types'
    <3>1. thread' \in [Started -> Places] /\ next' \in Nat \ {0}
      BY <2>1, <2>2 DEF Types, Places
    <3> QED BY <2>1, <3>1 DEF Types
  <2>4. Listed'
    BY <2>1, <2>2, OrderType DEF Listed
  <2>5. PutThere'
    BY <2>1, <2>2, ListType, OrderType DEF PutThere
  <2>6. Unstarted'
    BY <2>1, <2>2, OrderType DEF Unstarted, Types
  <2>7. Behind' /\ AllPaced' /\ Walked' /\ StoppedUnlessLate'
    BY <2>1 DEF Behind, AllPaced, Paced, Walked, StoppedUnlessLate
  <2> QED BY <2>3, <2>4, <2>5, <2>6, <2>7
<1> QED BY <1>1, <1>2

LEMMA InterruptStep ==
  ASSUME IInv, Interrupt
  PROVE  IInv'
<1> USE DEF Interrupt, clients, IInv, Up
<1>1. /\ UNCHANGED <<thread, proc, subprocesses, late, clients>>
      /\ \/ main = "running" /\ main' = "join" /\ next' = 1 /\ stop_event' = TRUE
         \/ main' = "aborted" /\ UNCHANGED <<next, stop_event>>
  OBVIOUS
<1>2. Types' /\ Behind' /\ AllPaced' /\ PutThere'
  <2>1. stop_event' \in BOOLEAN
    BY <1>1 DEF Types
  <2>2. next' \in Nat \ {0} /\ main' \in {"join", "aborted"}
    BY <1>1 DEF Types
  <2> HIDE DEF Interrupt
  <2> QED BY <1>1, <2>1, <2>2 DEF Types, Behind, AllPaced, Paced, PutThere
<1>3. Listed' /\ Unstarted' /\ StoppedUnlessLate'
  BY <1>1 DEF Listed, Unstarted, StoppedUnlessLate
<1>4. Walked'
  <2>1. main' = "join" => Joined(next)'
    BY <1>1, OrderType DEF Joined
  <2> QED BY <1>1, <2>1 DEF Walked
<1> QED BY <1>2, <1>3, <1>4

LEMMA JoinStep ==
  ASSUME IInv, Join
  PROVE  IInv'
<1> USE DEF Join, clients, IInv
<1>1. main = "join" /\ Joined(next) /\ UNCHANGED <<stop_event, thread, proc, subprocesses, clients>>
  BY DEF Walked
<1>2. CASE next > Len(Order)
  <2>1. main' = "stop" /\ next' = 1 /\ UNCHANGED late
    BY <1>2
  <2>2. Types' /\ Behind' /\ AllPaced' /\ PutThere' /\ Listed' /\ Unstarted' /\ StoppedUnlessLate'
    BY <1>1, <2>1 DEF Types, Behind, AllPaced, Paced, PutThere, Listed, Unstarted, StoppedUnlessLate
  <2>3. Joined(Len(Order) + 1)'
    BY <1>1, <1>2, <2>1, OrderType DEF Joined, Types
  <2>4. Walked'
    BY <2>1, <2>3, ListType DEF Walked
  <2> QED BY <2>2, <2>4
<1>3. CASE ~(next > Len(Order))
  <2>1. /\ late' = IF thread[Order[next]] = "ended" THEN late ELSE late \cup {Order[next]}
        /\ next' = next + 1 /\ main' = main
    BY <1>3
  <2>2. next \in 1..Len(Order) /\ Order[next] \in Started
    BY <1>3, OrderType DEF Types
  <2>3. Types' /\ Behind' /\ AllPaced' /\ PutThere' /\ Listed' /\ Unstarted' /\ StoppedUnlessLate'
    BY <1>1, <2>1, <2>2 DEF Types, Behind, AllPaced, Paced, PutThere, Listed, Unstarted, StoppedUnlessLate
  <2>4. Joined(next)'
    BY <1>1, <2>1, <2>2, OrderType DEF Joined, Types
  <2>5. Walked'
    BY <1>1, <2>1, <2>4 DEF Walked
  <2> QED BY <2>3, <2>5
<1> QED BY <1>2, <1>3

\* Main stops the process it has come to, with a SIGTERM or a SIGKILL.
LEMMA ExitStep ==
  ASSUME IInv, main \in {"stop", "kill"}, next <= Len(subprocesses),
         proc' = [proc EXCEPT ![Stopping] = "exited"], next' = next + 1, main' = "stop",
         UNCHANGED <<stop_event, thread, subprocesses, late, clients>>
  PROVE  IInv'
<1> USE DEF clients, IInv
<1>1. Stopping \in Standalone /\ proc \in [Standalone -> {"none", "running", "exited"}]
  BY ListType DEF Stopping, Types
<1>2. /\ proc' \in [Standalone -> {"none", "running", "exited"}]
      /\ \A s \in Standalone : proc'[s] = "exited" \/ proc'[s] = proc[s]
      /\ proc'[subprocesses[next]] = "exited"
  BY <1>1 DEF Stopping
<1>3. Types' /\ Behind' /\ AllPaced' /\ PutThere' /\ Unstarted' /\ StoppedUnlessLate'
  BY <1>2 DEF Types, Behind, AllPaced, Paced, PutThere, Unstarted, StoppedUnlessLate
<1>4. Listed'
  BY <1>2 DEF Listed
<1>5. Joined(Len(Order) + 1)'
  BY DEF Walked, Joined
<1>6. \A i \in 1..Len(subprocesses) : i < next' => proc'[subprocesses[i]] = "exited"
  BY <1>2, ListType DEF Walked, Types
<1>7. next' <= Len(subprocesses) + 1
  BY ListType DEF Types
<1>8. Walked'
  BY <1>5, <1>6, <1>7 DEF Walked
<1> QED BY <1>3, <1>4, <1>8

LEMMA TerminateStep ==
  ASSUME IInv, Terminate
  PROVE  IInv'
<1> USE DEF Terminate, IInv
<1>1. CASE main' = "kill" /\ UNCHANGED <<proc, next>>
  <2>1. Types' /\ Behind' /\ AllPaced' /\ PutThere' /\ Listed' /\ Unstarted' /\ StoppedUnlessLate'
    BY <1>1 DEF Types, Behind, AllPaced, Paced, PutThere, Listed, Unstarted, StoppedUnlessLate, clients
  <2>2. Walked'
    BY <1>1 DEF Walked, Joined
  <2> QED BY <2>1, <2>2
<1>2. CASE proc' = [proc EXCEPT ![Stopping] = "exited"] /\ next' = next + 1 /\ UNCHANGED main
  BY <1>2, ExitStep
<1> QED BY <1>1, <1>2

LEMMA KillStep ==
  ASSUME IInv, Kill
  PROVE  IInv'
BY ExitStep DEF Kill, IInv, Walked

LEMMA WalkOverStep ==
  ASSUME IInv, WalkOver
  PROVE  IInv'
<1> USE DEF WalkOver, IInv
<1>1. Types' /\ Behind' /\ AllPaced' /\ PutThere' /\ Listed' /\ Unstarted' /\ StoppedUnlessLate'
  BY DEF Types, Behind, AllPaced, Paced, PutThere, Listed, Unstarted, StoppedUnlessLate, clients
<1>2. \A i \in 1..Len(subprocesses) : proc[subprocesses[i]] = "exited"
  <2>1. \A i \in 1..Len(subprocesses) : i < next
    BY ListType DEF Types
  <2>2. main \in {"stop", "kill"}
    OBVIOUS
  <2> QED BY <2>1, <2>2 DEF Walked
<1>3. Walked'
  BY <1>2 DEF Walked, Joined
<1> QED BY <1>1, <1>3

LEMMA ClearStep ==
  ASSUME IInv, Clear
  PROVE  IInv'
<1> USE DEF Clear, IInv
<1>1. subprocesses' \in Seq(Standalone) /\ Len(subprocesses') = 0
  BY EmptySeq
<1>2. Types' /\ Behind' /\ AllPaced' /\ PutThere' /\ Unstarted'
  <2>1. Types'
    BY <1>1 DEF Types, clients
  <2>2. Behind' /\ AllPaced'
    BY DEF Behind, AllPaced, Paced, clients
  <2>3. PutThere' /\ Unstarted'
    BY <1>1 DEF PutThere, Unstarted
  <2> QED BY <2>1, <2>2, <2>3
<1>3. Listed'
  BY DEF Listed
<1>4. StoppedUnlessLate'
  <2> SUFFICES ASSUME NEW s \in Standalone, proc[s] = "running" PROVE s \in late
    BY DEF StoppedUnlessLate
  <2>1. thread[s] = "append" \/ \E i \in 1..Len(subprocesses) : subprocesses[i] = s
    BY DEF Listed
  <2>2. CASE thread[s] = "append"
    BY <2>2, AllJoined, OrderType DEF Walked
  <2>3. CASE \E i \in 1..Len(subprocesses) : subprocesses[i] = s
    BY <2>3 DEF Walked
  <2> QED BY <2>1, <2>2, <2>3
<1>5. Walked'
  BY DEF Walked, Joined
<1> QED BY <1>2, <1>3, <1>4, <1>5

---------------------------------------------------------------------------
(* The threads of the servers, and the processes.                          *)

\* A thread that main has started moves on, but never from its end, and puts nothing
\* on the list.
LEMMA ThreadMoves ==
  ASSUME IInv, NEW s \in Started, NEW where \in Places,
         \/ (/\ thread[s] \in {"init", "wait", "serve"} /\ where \in {"serve", "ended"}
             /\ (thread[s] = "wait" => where = "ended") /\ UNCHANGED proc)
         \/ (/\ s \in Standalone /\ thread[s] = "init" /\ where = "append"
             /\ proc' = [proc EXCEPT ![s] = "running"]),
         thread' = [thread EXCEPT ![s] = where],
         main \notin {"ended", "aborted"},
         UNCHANGED <<main, next, stop_event, subprocesses, late, clients>>
  PROVE  IInv'
<1> USE DEF clients, IInv
<1>1. /\ thread \in [Started -> Places] /\ proc \in [Standalone -> {"none", "running", "exited"}]
      /\ thread' \in [Started -> Places] /\ proc' \in [Standalone -> {"none", "running", "exited"}]
      /\ \A t \in Started : t # s => thread'[t] = thread[t]
      /\ \A t \in Standalone : t # s => proc'[t] = proc[t]
      /\ thread'[s] = where
  BY DEF Types
<1>2. Types'
  <2>1. \A t \in Started : thread'[t] = "append" => t \in Standalone
    BY <1>1 DEF Types
  <2> QED BY <1>1, <2>1 DEF Types
<1>3. PutThere'
  BY <1>1, ListType, OrderType DEF PutThere
<1>4. \A i \in 1..Len(subprocesses) : proc'[subprocesses[i]] = proc[subprocesses[i]]
  BY <1>1, ListType, OrderType DEF PutThere
<1>5. Listed'
  BY <1>1, OrderType DEF Listed, Places
<1>6. Unstarted'
  BY <1>1, OrderType DEF Unstarted, Types
<1>7. \A t \in Started : thread[t] = "ended" => thread'[t] = "ended"
  BY <1>1
<1>8. Joined(next) => Joined(next)'
  BY <1>7, OrderType DEF Joined
<1>9. Joined(Len(Order) + 1) => Joined(Len(Order) + 1)'
  BY <1>7, OrderType DEF Joined
<1>10. Walked'
  BY <1>4, <1>8, <1>9 DEF Walked
<1>11. Behind' /\ AllPaced' /\ StoppedUnlessLate'
  BY DEF Behind, AllPaced, Paced, StoppedUnlessLate
<1> QED BY <1>2, <1>3, <1>5, <1>6, <1>10, <1>11

LEMMA ThreadStep ==
  ASSUME IInv, NEW s \in Started, Launch(s) \/ WaitOver(s) \/ Bind(s) \/ ServeOver(s)
  PROVE  IInv'
<1>1. CASE Launch(s)
  <2>1. CASE thread' = [thread EXCEPT ![s] = "ended"] /\ UNCHANGED proc
    BY <1>1, <2>1, ThreadMoves DEF Launch, Up, Places
  <2>2. CASE thread' = [thread EXCEPT ![s] = "append"] /\ proc' = [proc EXCEPT ![s] = "running"]
    <3>1. proc[s] # "running" /\ proc' # proc
      BY <1>1, <2>2 DEF Launch, IInv, Types, Listed
    <3> QED BY <1>1, <2>2, <3>1, ThreadMoves DEF Launch, Up, Places
  <2> QED BY <1>1, <2>1, <2>2 DEF Launch
<1>2. CASE WaitOver(s) \/ ServeOver(s)
  BY <1>2, ThreadMoves DEF WaitOver, ServeOver, Up, Places
<1>3. CASE Bind(s)
  <2>1. PICK r \in {"serve", "ended"} : thread' = [thread EXCEPT ![s] = r]
    BY <1>3 DEF Bind
  <2> QED BY <1>3, <2>1, ThreadMoves DEF Bind, Up, Places
<1> QED BY <1>1, <1>2, <1>3

LEMMA TrackStep ==
  ASSUME IInv, NEW s \in Started, Track(s)
  PROVE  IInv'
<1> USE DEF Track, Up, clients, IInv
<1>1. s \in Standalone /\ thread[s] = "append" /\ main \notin {"ended", "aborted"}
  BY DEF Types
<1>2. /\ subprocesses' \in Seq(Standalone) /\ Len(subprocesses') = Len(subprocesses) + 1
      /\ \A i \in 1..Len(subprocesses) : subprocesses'[i] = subprocesses[i]
      /\ subprocesses'[Len(subprocesses) + 1] = s
      /\ Len(subprocesses) \in Nat
  BY <1>1, AppendProperties, LenProperties DEF Types
<1>3. /\ thread' \in [Started -> Places] /\ thread'[s] = "wait"
      /\ \A t \in Started : t # s => thread'[t] = thread[t]
  BY DEF Types, Places
<1>4. Types'
  BY <1>2, <1>3 DEF Types
<1>5. Listed'
  <2> SUFFICES ASSUME NEW t \in Standalone, proc[t] = "running"
               PROVE  /\ thread'[t] \in {"append", "wait", "ended"}
                      /\ \/ thread'[t] = "append"
                         \/ \E i \in 1..Len(subprocesses') : subprocesses'[i] = t
    BY DEF Listed
  <2>1. CASE t = s
    BY <1>2, <1>3, <2>1
  <2>2. CASE t # s /\ thread[t] = "append"
    BY <1>3, <2>2, OrderType
  <2>3. CASE t # s /\ thread[t] # "append"
    <3>1. PICK i \in 1..Len(subprocesses) : subprocesses[i] = t
      BY <1>1, <2>3 DEF Listed
    <3>2. i \in 1..Len(subprocesses') /\ subprocesses'[i] = t
      BY <1>2, <3>1
    <3>3. thread'[t] \in {"append", "wait", "ended"}
      BY <1>3, <2>3, OrderType DEF Listed
    <3> QED BY <3>2, <3>3
  <2> QED BY <2>1, <2>2, <2>3
<1>6. PutThere'
  <2> SUFFICES ASSUME NEW i \in 1..Len(subprocesses')
               PROVE  thread'[subprocesses'[i]] \in {"wait", "ended"}
    BY DEF PutThere
  <2>1. CASE i = Len(subprocesses) + 1
    BY <1>2, <1>3, <2>1
  <2>2. CASE i \in 1..Len(subprocesses)
    <3>1. subprocesses'[i] = subprocesses[i] /\ subprocesses[i] \in Started
          /\ thread[subprocesses[i]] \in {"wait", "ended"}
      BY <1>2, <2>2, ListType, OrderType DEF PutThere
    <3> QED BY <1>3, <3>1
  <2> QED BY <1>2, <2>1, <2>2
<1>7. Unstarted'
  BY <1>3, OrderType DEF Unstarted, Types
<1>8. \A t \in Started : thread[t] = "ended" => thread'[t] = "ended"
  BY <1>1, <1>3
<1>9. Joined(next) => Joined(next)'
  BY <1>8, OrderType DEF Joined
<1>10. Joined(Len(Order) + 1) => Joined(Len(Order) + 1)'
  BY <1>8, OrderType DEF Joined
\* Main has yet to come to what is appended during the walk.
<1>11. main \in {"stop", "kill"} =>
         \A i \in 1..Len(subprocesses') : i < next' => proc'[subprocesses'[i]] = "exited"
  BY <1>2 DEF Walked, Types
<1>12. main = "clear" =>
         \A i \in 1..Len(subprocesses') :
           proc'[subprocesses'[i]] = "exited" \/ subprocesses'[i] \in late'
  BY <1>1, <1>2, AllJoined DEF Walked
<1>13. Walked'
  BY <1>2, <1>9, <1>10, <1>11, <1>12 DEF Walked, Types
<1>14. Behind' /\ AllPaced' /\ StoppedUnlessLate'
  BY DEF Behind, AllPaced, Paced, StoppedUnlessLate
<1> QED BY <1>4, <1>5, <1>6, <1>7, <1>13, <1>14

LEMMA ProcExitsStep ==
  ASSUME IInv, NEW s \in Started, ProcExits(s)
  PROVE  IInv'
<1> USE DEF ProcExits, clients, IInv
<1>1. /\ proc' \in [Standalone -> {"none", "running", "exited"}]
      /\ \A t \in Standalone : proc'[t] = "exited" \/ proc'[t] = proc[t]
  BY DEF Types
<1>2. Types' /\ Behind' /\ AllPaced' /\ PutThere' /\ Unstarted' /\ StoppedUnlessLate' /\ Listed'
  BY <1>1 DEF Types, Behind, AllPaced, Paced, PutThere, Unstarted, StoppedUnlessLate, Listed
<1>3. \A i \in 1..Len(subprocesses) :
        proc[subprocesses[i]] = "exited" => proc'[subprocesses'[i]] = "exited"
  BY <1>1, ListType
<1>4. Walked'
  BY <1>3 DEF Walked, Joined
<1> QED BY <1>2, <1>4

---------------------------------------------------------------------------
(* The clients and their handlers, which change nothing of the launcher.   *)

ClientTypes ==
  /\ conn \in [Inline -> {"none", "open", "done"}] /\ stage \in [Inline -> Nat]
  /\ got \in [Inline -> Nat] /\ asked \in [Inline -> Nat] /\ answered \in [Inline -> Nat]
  /\ part \in [Inline -> BOOLEAN] /\ hasty \in [Inline -> BOOLEAN]
  /\ cuts \in [Inline -> Nat]

LEMMA ClientStep ==
  ASSUME IInv, NEW s \in Inline,
         Accept(s) \/ ServeDatagram(s) \/ Ask(s) \/ Depart(s) \/ Reply(s) \/ Close(s)
  PROVE  IInv'
<1> USE DEF IInv
<1>1. UNCHANGED launcher
  BY DEF Accept, ServeDatagram, Ask, Depart, Reply, Close
<1>2. Listed' /\ PutThere' /\ Unstarted' /\ StoppedUnlessLate'
  BY <1>1 DEF launcher, Listed, PutThere, Unstarted, StoppedUnlessLate
<1>3. Walked'
  BY <1>1 DEF launcher, Walked, Joined
<1>4. /\ conn \in [Inline -> {"none", "open", "done"}] /\ stage \in [Inline -> Nat]
      /\ got \in [Inline -> Nat] /\ asked \in [Inline -> Nat] /\ answered \in [Inline -> Nat]
      /\ part \in [Inline -> BOOLEAN] /\ hasty \in [Inline -> BOOLEAN]
      /\ cuts \in [Inline -> Nat]
  BY DEF Types
<1>5. ASSUME NEW n \in got[s]..asked[s], NEW cut \in BOOLEAN, NEW k \in Nat,
             n > got[s] \/ part[s],
             k = IF cut THEN cuts[s] + 1 ELSE cuts[s],
             got' = [got EXCEPT ![s] = n], answered' = [answered EXCEPT ![s] = n],
             part' = [part EXCEPT ![s] = cut], cuts' = [cuts EXCEPT ![s] = k],
             stage' = [stage EXCEPT ![s] = @ + 1],
             UNCHANGED <<conn, asked, hasty>>
      PROVE  ClientTypes' /\ Behind' /\ AllPaced'
  <2>1. n \in Nat /\ got[s] <= n /\ n <= asked[s] /\ answered[s] = got[s]
    BY <1>4, <1>5 DEF Behind
  <2>2. ClientTypes'
    BY <1>4, <1>5, <2>1 DEF ClientTypes
  <2>3. Behind'
    BY <1>4, <1>5, <2>1 DEF Behind
  <2>4. Paced(s)'
    <3>1. /\ stage'[s] = stage[s] + 1 /\ part'[s] = cut /\ cuts'[s] = k /\ answered'[s] = n
          /\ asked'[s] = asked[s] /\ hasty'[s] = hasty[s]
      BY <1>4, <1>5
    <3>2. Paced(s)
      BY DEF AllPaced
    <3>3. stage[s] + (IF part[s] THEN 1 ELSE 0) <= answered[s] + cuts[s]
      BY <3>2 DEF Paced
    <3>4. ~hasty[s] => answered[s] <= stage[s] /\ asked[s] <= answered[s] + 1
      BY <3>2 DEF Paced
    <3>5. stage[s] \in Nat /\ answered[s] \in Nat /\ cuts[s] \in Nat /\ asked[s] \in Nat
      BY <1>4
    <3>6. stage'[s] + (IF part'[s] THEN 1 ELSE 0) <= answered'[s] + cuts'[s]
      BY <1>5, <2>1, <3>1, <3>3, <3>5
    <3>7. ~hasty'[s] => answered'[s] <= stage'[s] /\ asked'[s] <= answered'[s] + 1
      BY <2>1, <3>1, <3>4, <3>5
    <3> QED BY <3>6, <3>7 DEF Paced
  <2>5. ASSUME NEW t \in Inline, t # s PROVE Paced(t)'
    BY <1>4, <1>5, <2>5 DEF AllPaced, Paced
  <2> QED BY <2>2, <2>3, <2>4, <2>5 DEF AllPaced
<1>6. ClientTypes' /\ Behind' /\ AllPaced'
  <2>1. CASE Accept(s)
    BY <1>4, <2>1 DEF Accept, Behind, AllPaced, Paced, ClientTypes
  <2>2. CASE Ask(s)
    <3>1. /\ asked' = [asked EXCEPT ![s] = @ + 1]
          /\ hasty' = [hasty EXCEPT ![s] = @ \/ answered[s] < asked[s]]
          /\ UNCHANGED <<conn, stage, got, part, answered, cuts>>
      BY <2>2 DEF Ask
    <3>2. asked' \in [Inline -> Nat] /\ hasty' \in [Inline -> BOOLEAN]
      BY <1>4, <3>1
    <3>3. ClientTypes' /\ Behind'
      BY <1>4, <3>1, <3>2 DEF Behind, ClientTypes
    <3>4. ASSUME NEW t \in Inline PROVE Paced(t)'
      <4>1. Paced(t) /\ answered[t] = got[t] /\ got[t] <= asked[t]
        BY DEF AllPaced, Behind
      <4>2. CASE t = s
        <5>1. /\ asked'[s] = asked[s] + 1 /\ hasty'[s] = (hasty[s] \/ answered[s] < asked[s])
              /\ stage'[s] = stage[s] /\ part'[s] = part[s] /\ answered'[s] = answered[s]
              /\ cuts'[s] = cuts[s]
          BY <1>4, <3>1
        <5>2. ~hasty'[s] => ~hasty[s] /\ ~(answered[s] < asked[s])
          BY <5>1
        <5>3. ~hasty[s] => answered[s] <= stage[s]
          BY <4>1, <4>2 DEF Paced
        <5>4. ~hasty'[s] => answered'[s] <= stage'[s] /\ asked'[s] <= answered'[s] + 1
          BY <1>4, <5>1, <5>2, <5>3
        <5>5. stage'[s] + (IF part'[s] THEN 1 ELSE 0) <= answered'[s] + cuts'[s]
          BY <4>1, <4>2, <5>1 DEF Paced
        <5> QED BY <4>2, <5>4, <5>5 DEF Paced
      <4>3. CASE t # s
        BY <1>4, <3>1, <4>1, <4>3 DEF Paced
      <4> QED BY <4>2, <4>3
    <3> QED BY <3>3, <3>4 DEF AllPaced
  <2>3. CASE Depart(s) \/ Close(s)
    <3>1. /\ UNCHANGED <<stage, got, part, asked, answered, cuts, hasty>>
          /\ conn' = conn \/ (conn[s] = "open" /\ conn' = [conn EXCEPT ![s] = "done"])
      BY <2>3 DEF Depart, Close, Handling
    <3> QED BY <1>4, <3>1 DEF Behind, AllPaced, Paced, ClientTypes
  <2>4. CASE ServeDatagram(s)
    <3> DEFINE n == got[s] + 1
    <3>1. /\ got' = [got EXCEPT ![s] = n] /\ got[s] < asked[s]
          /\ answered' = [answered EXCEPT ![s] = got'[s]]
          /\ stage' = [stage EXCEPT ![s] = @ + 1]
          /\ UNCHANGED <<conn, part, asked, cuts, hasty>>
      BY <2>4 DEF ServeDatagram
    <3>2. n \in got[s]..asked[s] /\ n > got[s]
      BY <1>4, <3>1
    <3>3. answered' = [answered EXCEPT ![s] = n]
      BY <1>4, <3>1
    <3>4. /\ ClientTypes' /\ Behind'
      BY <1>4, <3>1, <3>2, <3>3 DEF ClientTypes, Behind
    <3>5. ASSUME NEW t \in Inline PROVE Paced(t)'
      <4>1. Paced(t) /\ answered[t] = got[t] /\ got[t] <= asked[t]
        BY DEF AllPaced, Behind
      <4>2. CASE t = s
        BY <1>4, <3>1, <3>2, <3>3, <4>1, <4>2 DEF Paced
      <4>3. CASE t # s
        BY <1>4, <3>1, <3>3, <4>1, <4>3 DEF Paced
      <4> QED BY <4>2, <4>3
    <3> QED BY <3>4, <3>5 DEF AllPaced
  <2>5. CASE Reply(s)
    <3>1. PICK n \in got[s]..asked[s], cut \in BOOLEAN :
            /\ n > got[s] \/ part[s]
            /\ got' = [got EXCEPT ![s] = n] /\ part' = [part EXCEPT ![s] = cut]
            /\ cuts' = [cuts EXCEPT ![s] = IF cut THEN @ + 1 ELSE @]
      BY <2>5 DEF Reply
    <3>2. /\ answered' = [answered EXCEPT ![s] = got'[s]]
          /\ stage' = [stage EXCEPT ![s] = @ + 1] /\ UNCHANGED <<conn, asked, hasty>>
      BY <2>5 DEF Reply
    <3>3. got'[s] = n
      BY <1>4, <3>1
    <3> DEFINE k == IF cut THEN cuts[s] + 1 ELSE cuts[s]
    <3>4. k \in Nat /\ cuts' = [cuts EXCEPT ![s] = k]
      BY <1>4, <3>1
    <3> HIDE DEF k
    <3>5. k = IF cut THEN cuts[s] + 1 ELSE cuts[s]
      BY DEF k
    <3> QED BY <1>5, <3>1, <3>2, <3>3, <3>4, <3>5
  <2> QED BY <2>1, <2>2, <2>3, <2>4, <2>5
<1>7. Types'
  BY <1>1, <1>6 DEF launcher, Types, ClientTypes
<1> QED BY <1>2, <1>3, <1>6, <1>7

---------------------------------------------------------------------------
(* The results.                                                            *)

LEMMA NextInv ==
  ASSUME IInv, [Next]_vars
  PROVE  IInv'
<1>1. CASE UNCHANGED vars
  BY <1>1 DEF vars, launcher, clients, IInv, Types, Listed, PutThere, Unstarted, Walked, Joined,
              StoppedUnlessLate, Behind, AllPaced, Paced
<1>2. CASE Main
  BY <1>2, StartThreadStep, JoinStep, TerminateStep, KillStep, WalkOverStep, ClearStep DEF Main
<1>3. CASE Interrupt
  BY <1>3, InterruptStep
<1>4. CASE \E s \in Started : Thread(s) \/ ProcExits(s)
  BY <1>4, ThreadStep, TrackStep, ProcExitsStep DEF Thread
<1>5. CASE \E s \in Inline : Server(s) \/ Ask(s) \/ Depart(s) \/ Handler(s)
  BY <1>5, ClientStep DEF Server, Handler
<1> QED BY <1>1, <1>2, <1>3, <1>4, <1>5 DEF Next

\* Main, the threads and the processes keep to the order the proofs below rest on.
THEOREM Inductive == Spec => []IInv
<1>1. IInv /\ [Next]_vars => IInv'
  BY NextInv
<1> QED BY InitInv, <1>1, PTL DEF Spec

\* No list of servers leaves a process running behind a main that went its whole way,
\* but for the threads it gave up joining.
THEOREM StopsWhatItJoined == Spec => []StoppedUnlessLate
<1>1. IInv => StoppedUnlessLate
  BY DEF IInv
<1> QED BY <1>1, Inductive, PTL

---------------------------------------------------------------------------
(* How far main is from its end once Ctrl+C was pressed. While it walks    *)
(* the list, threads that are late append behind it: the walk ends all the *)
(* same, since each thread appends once.                                   *)

N == Len(Order)

Once == \A i, j \in 1..Len(subprocesses) : subprocesses[i] = subprocesses[j] => i = j

Ending ==
  /\ stop_event => main \notin {"start", "running"}
  /\ main = "join" => next <= N + 1

StepsLeft ==
  CASE main = "join" -> 2 * N + 2 + (N + 2 - next)
    [] main = "stop" -> 2 * (N + 1 - next) + 2
    [] main = "kill" -> 2 * (N + 1 - next) + 1
    [] main = "clear" -> 1
    [] OTHER -> 0

\* After the first Ctrl+C every step of main brings it nearer to its end, and no step of a
\* thread, of a process, of a client or of whoever presses Ctrl+C again puts it off
\* (ot_mock_servers.main, from its except to its end).
MainNears == [][stop_event => StepsLeft' <= StepsLeft /\ (Main => StepsLeft' < StepsLeft)]_vars

LEMMA OnceStep ==
  ASSUME IInv, Once, [Next]_vars
  PROVE  Once'
<1>1. ASSUME NEW s \in Started, Track(s)
      PROVE  Once'
  <2>1. /\ Len(subprocesses') = Len(subprocesses) + 1 /\ Len(subprocesses) \in Nat
        /\ \A i \in 1..Len(subprocesses) : subprocesses'[i] = subprocesses[i]
        /\ subprocesses'[Len(subprocesses) + 1] = s
    BY <1>1, AppendProperties, LenProperties DEF Track, IInv, Types
  <2>2. \A i \in 1..Len(subprocesses) : subprocesses[i] # s
    BY <1>1 DEF Track, IInv, PutThere
  <2>3. \A i \in 1..Len(subprocesses') : i \in 1..Len(subprocesses) \/ i = Len(subprocesses) + 1
    BY <2>1
  <2>4. QED
    BY <2>1, <2>2, <2>3 DEF Once
<1>2. CASE Clear
  <2>1. Len(subprocesses') = 0
    BY <1>2 DEF Clear
  <2>2. QED
    BY <2>1 DEF Once
<1>3. CASE UNCHANGED subprocesses
  BY <1>3 DEF Once
<1>4. QED
  <2>1. UNCHANGED vars \/ Interrupt => UNCHANGED subprocesses
    BY DEF vars, launcher, Interrupt
  <2>2. Main => UNCHANGED subprocesses \/ Clear
    BY DEF Main, StartThread, Join, Terminate, Kill, WalkOver
  <2>3. ASSUME NEW s \in Started, Thread(s) \/ ProcExits(s)
        PROVE  UNCHANGED subprocesses \/ Track(s)
    BY <2>3 DEF Thread, Launch, WaitOver, Bind, ServeOver, ProcExits
  <2>4. ASSUME NEW s \in Inline, Server(s) \/ Ask(s) \/ Depart(s) \/ Handler(s)
        PROVE  UNCHANGED subprocesses
    BY <2>4 DEF Server, Handler, Accept, ServeDatagram, Ask, Depart, Reply, Close, launcher
  <2>5. QED
    BY <1>1, <1>2, <1>3, <2>1, <2>2, <2>3, <2>4 DEF Next

\* The list is never longer than the list of servers to start.
LEMMA ListBounded ==
  ASSUME IInv, Once
  PROVE  Len(subprocesses) <= N
<1> DEFINE n == Len(subprocesses)
           place == [i \in 1..n |-> CHOOSE k \in 1..N : Order[k] = subprocesses[i]]
<1>1. n \in Nat /\ N \in Nat
  BY ListType, OrderType DEF IInv, N
<1>2. \A i \in 1..n : place[i] \in 1..N /\ Order[place[i]] = subprocesses[i]
  BY ListType, OrderType DEF IInv, N
<1>3. place \in Injection(1..n, 1..N)
  <2>1. place \in [1..n -> 1..N]
    BY <1>2
  <2> HIDE DEF place
  <2>2. \A i, j \in 1..n : place[i] = place[j] => i = j
    BY <1>2 DEF Once
  <2>3. QED
    BY <2>1, <2>2 DEF Injection, IsInjective
<1>4. IsFiniteSet(1..N) /\ Cardinality(1..N) = N /\ Cardinality(1..n) = n
  <2>1. \A k \in Nat : IsFiniteSet(1..k) /\ Cardinality(1..k) = IF 1 > k THEN 0 ELSE k - 1 + 1
    BY FS_Interval
  <2> HIDE DEF n
  <2>2. \A k \in Nat : IsFiniteSet(1..k) /\ Cardinality(1..k) = k
    BY <2>1
  <2>3. QED
    BY <1>1, <2>2
<1>5. Cardinality(1..n) <= Cardinality(1..N)
  <2> HIDE DEF place, n
  <2>1. QED
    BY <1>3, <1>4, FS_Injection
<1>6. QED
  BY <1>4, <1>5

\* What main does to the measure.
LEMMA MainStep ==
  ASSUME IInv, Once, Ending, stop_event, Main
  PROVE  StepsLeft' < StepsLeft /\ StepsLeft' <= StepsLeft /\ Ending'
<1>1. N \in Nat /\ next \in Nat \ {0} /\ Len(subprocesses) \in Nat /\ Len(subprocesses) <= N
  BY ListBounded, ListType, OrderType DEF IInv, Types, N
<1>2. main \in {"stop", "kill"} => next <= Len(subprocesses) + 1
  BY DEF IInv, Walked
<1>3. main = "kill" => next <= Len(subprocesses)
  BY DEF IInv, Walked
<1>4. CASE Join
  BY <1>1, <1>4 DEF Join, StepsLeft, Ending, N
<1>5. CASE Terminate
  BY <1>1, <1>5 DEF Terminate, StepsLeft, Ending
<1>6. CASE Kill
  BY <1>1, <1>3, <1>6 DEF Kill, StepsLeft, Ending
<1>7. CASE WalkOver
  BY <1>1, <1>2, <1>7 DEF WalkOver, StepsLeft, Ending
<1>8. CASE Clear
  BY <1>8 DEF Clear, StepsLeft, Ending
<1>9. ~StartThread
  BY DEF StartThread, Ending
<1>10. QED
  BY <1>4, <1>5, <1>6, <1>7, <1>8, <1>9 DEF Main

LEMMA MeasureTyped ==
  ASSUME IInv, Once, Ending
  PROVE  StepsLeft \in 0..(3 * N + 3)
<1>1. N \in Nat /\ next \in Nat \ {0} /\ Len(subprocesses) \in Nat /\ Len(subprocesses) <= N
  BY ListBounded, ListType, OrderType DEF IInv, Types, N
<1>2. main \in {"stop", "kill"} => next <= Len(subprocesses) + 1
  BY DEF IInv, Walked
<1>3. QED
  BY <1>1, <1>2 DEF StepsLeft, Ending

LEMMA EndingStep ==
  ASSUME IInv, Once, Ending, [Next]_vars
  PROVE  /\ Ending'
         /\ stop_event => StepsLeft' <= StepsLeft /\ (Main => StepsLeft' < StepsLeft)
<1>1. StepsLeft \in Nat /\ N \in Nat /\ stop_event \in BOOLEAN
  BY MeasureTyped, OrderType DEF N, IInv, Types
<1>2. CASE Main /\ stop_event
  BY <1>2, MainStep
<1>3. CASE Main /\ ~stop_event
  <2>1. ~stop_event'
    BY <1>3 DEF Main, StartThread, Join, Terminate, Kill, WalkOver, Clear
  <2>2. main' = "join" => main = "join" /\ next' <= N + 1
    BY <1>3, OrderType DEF Main, StartThread, Join, Terminate, Kill, WalkOver, Clear, N, IInv, Types
  <2>3. QED
    BY <1>3, <2>1, <2>2 DEF Ending
<1>4. CASE Interrupt
  <2>1. ~Main
    BY <1>4 DEF Interrupt, Main, StartThread, Join, Terminate, Kill, WalkOver, Clear
  <2>2. CASE main = "running"
    BY <1>1, <1>4, <2>2 DEF Interrupt, Ending
  <2>3. CASE main # "running"
    <3>1. StepsLeft' = 0 /\ Ending'
      BY <1>4, <2>3 DEF Interrupt, Ending, StepsLeft
    <3>2. QED
      BY <1>1, <2>1, <3>1
  <2>4. QED
    BY <2>2, <2>3
<1>5. CASE UNCHANGED <<main, next, stop_event>> /\ ~Main
  <2>1. StepsLeft' = StepsLeft /\ Ending'
    BY <1>5 DEF StepsLeft, Ending
  <2>2. QED
    BY <1>1, <1>5, <2>1
<1>6. ~Main /\ ~Interrupt => UNCHANGED <<main, next, stop_event>>
  <2>1. UNCHANGED vars => UNCHANGED <<main, next, stop_event>>
    BY DEF vars, launcher
  <2>2. ASSUME NEW s \in Started, Thread(s) \/ ProcExits(s)
        PROVE  UNCHANGED <<main, next, stop_event>>
    BY <2>2 DEF Thread, Launch, Track, WaitOver, Bind, ServeOver, ProcExits
  <2>3. ASSUME NEW s \in Inline, Server(s) \/ Ask(s) \/ Depart(s) \/ Handler(s)
        PROVE  UNCHANGED <<main, next, stop_event>>
    BY <2>3 DEF Server, Handler, Accept, ServeDatagram, Ask, Depart, Reply, Close, launcher
  <2>4. QED
    BY <2>1, <2>2, <2>3 DEF Next
<1>7. QED
  BY <1>1, <1>2, <1>3, <1>4, <1>5, <1>6

\* Once Ctrl+C was pressed main is at most 3 * Len(Order) + 3 steps of its own from its
\* end, whatever the threads, the processes and the clients do meanwhile.
THEOREM MainShrinks == Spec => [](StepsLeft \in 0..(3 * N + 3)) /\ MainNears
<1>1. Init => Once /\ Ending
  BY OrderType DEF Init, Once, Ending
<1>2. IInv /\ Once /\ Ending => StepsLeft \in 0..(3 * N + 3)
  BY MeasureTyped
<1>3. IInv /\ (Once /\ Ending) /\ [Next]_vars => (Once /\ Ending)'
  BY OnceStep, EndingStep
<1>4. IInv /\ Once /\ Ending /\ [Next]_vars =>
        [stop_event => StepsLeft' <= StepsLeft /\ (Main => StepsLeft' < StepsLeft)]_vars
  BY EndingStep
<1>5. QED
  BY <1>1, <1>2, <1>3, <1>4, Inductive, PTL DEF Spec, MainNears

---------------------------------------------------------------------------
(* The inline servers implement the Dialogue.                              *)

LEMMA TalkInit == Init => Talk!Init
<1>1. \A s \in Inline : Init => open[s] = TRUE
  BY OrderType DEF Init, open, Up
<1>2. Init => open = [s \in Inline |-> TRUE]
  BY <1>1 DEF open
<1> QED BY <1>2 DEF Init, Talk!Init

\* A step of the launcher closes what it ends.
LEMMA TalkClose ==
  ASSUME IInv, IInv', UNCHANGED <<asked, answered>>,
         \A s \in Inline : open'[s] => open[s]
  PROVE  [Talk!Next]_<<asked, answered, open>>
<1>1. open' \in [Inline -> BOOLEAN]
  BY DEF open
<1>2. CASE open' = open
  BY <1>2
<1>3. CASE open' # open
  BY <1>1, <1>3 DEF Talk!Close, Talk!Next
<1> QED BY <1>2, <1>3

LEMMA TalkLauncher ==
  ASSUME IInv, IInv', UNCHANGED clients,
         Main \/ Interrupt \/ \E s \in Started : Thread(s) \/ ProcExits(s)
  PROVE  [Talk!Next]_<<asked, answered, open>>
<1>1. UNCHANGED <<asked, answered, conn>>
  BY DEF clients
<1>2. Up' => Up
  <2>1. CASE Main
    BY <2>1 DEF Main, StartThread, Join, Terminate, Kill, WalkOver, Clear, Up
  <2>2. CASE Interrupt
    BY <2>2 DEF Interrupt
  <2>3. CASE \E s \in Started : Thread(s) \/ ProcExits(s)
    BY <2>3 DEF Thread, Launch, Track, WaitOver, Bind, ServeOver, ProcExits, Up
  <2> QED BY <2>1, <2>2, <2>3
<1>3. \A t \in Started : thread[t] = "ended" => thread'[t] = "ended"
  <2>1. thread \in [Started -> Places]
    BY DEF IInv, Types
  <2>2. CASE Main
    <3>1. CASE StartThread
      <4>1. CASE next > Len(Order)
        BY <3>1, <4>1 DEF StartThread
      <4>2. CASE ~(next > Len(Order))
        <5>1. /\ thread' = [thread EXCEPT ![Order[next]] = "init"] /\ thread[Order[next]] = "none"
          BY <3>1, <4>2, OrderType DEF StartThread, IInv, Types, Unstarted
        <5> QED BY <2>1, <5>1
      <4> QED BY <4>1, <4>2
    <3>2. CASE Join \/ Terminate \/ Kill \/ WalkOver \/ Clear
      BY <3>2 DEF Join, Terminate, Kill, WalkOver, Clear
    <3> QED BY <2>2, <3>1, <3>2 DEF Main
  <2>3. CASE Interrupt
    BY <2>3 DEF Interrupt
  <2>4. CASE \E s \in Started : Thread(s) \/ ProcExits(s)
    BY <2>1, <2>4 DEF Thread, Launch, Track, WaitOver, Bind, ServeOver, ProcExits
  <2> QED BY <2>2, <2>3, <2>4
<1>4. \A s \in Inline : open'[s] => open[s]
  BY <1>1, <1>2, <1>3, OrderType DEF open
<1> QED BY <1>1, <1>4, TalkClose

\* An answer is the answer to a request that was not answered, or a further one.
LEMMA TalkServes ==
  ASSUME IInv, IInv', NEW s \in Inline, ServeDatagram(s) \/ Reply(s)
  PROVE  [Talk!Next]_<<asked, answered, open>>
<1>1. UNCHANGED <<asked, conn, launcher>>
  BY DEF ServeDatagram, Reply
<1>2. open' = open
  BY <1>1 DEF launcher, open, Up
<1>3. open[s]
  BY DEF ServeDatagram, Reply, Handling, open, IInv, Behind
<1>4. answered \in [Inline -> Nat] /\ got[s] \in Nat /\ asked[s] \in Nat /\ answered[s] = got[s]
  BY DEF IInv, Types, Behind
<1>5. answered' = [answered EXCEPT ![s] = got'[s]] /\ got'[s] \in got[s]..asked[s]
  <2>1. CASE ServeDatagram(s)
    BY <2>1 DEF ServeDatagram, IInv, Types
  <2>2. CASE Reply(s)
    BY <2>2 DEF Reply, IInv, Types
  <2> QED BY <2>1, <2>2
<1>6. CASE got'[s] = got[s]
  BY <1>1, <1>2, <1>4, <1>5, <1>6
<1>7. CASE got'[s] # got[s]
  <2>1. got'[s] \in (answered[s] + 1)..asked[s]
    BY <1>4, <1>5, <1>7
  <2>2. Talk!Answer(s)
    BY <1>1, <1>2, <1>3, <1>5, <2>1 DEF Talk!Answer
  <2> QED BY <2>2 DEF Talk!Next
<1> QED BY <1>6, <1>7

LEMMA TalkNext ==
  ASSUME IInv, [Next]_vars
  PROVE  [Talk!Next]_<<asked, answered, open>>
<1>1. IInv'
  BY NextInv
<1>2. CASE UNCHANGED vars
  BY <1>2 DEF vars, launcher, clients, open, Up
<1>3. CASE Main \/ Interrupt \/ \E s \in Started : Thread(s) \/ ProcExits(s)
  <2>1. UNCHANGED clients
    BY <1>3 DEF Main, StartThread, Join, Terminate, Kill, WalkOver, Clear, Interrupt, Thread, Launch,
                Track, WaitOver, Bind, ServeOver, ProcExits
  <2> QED BY <1>1, <1>3, <2>1, TalkLauncher
<1>4. ASSUME NEW s \in Inline, Ask(s) PROVE Talk!Next
  <2>1. Talk!Ask(s)
    BY <1>4 DEF Ask, launcher, Talk!Ask, open, Up
  <2> QED BY <2>1 DEF Talk!Next
<1>5. ASSUME NEW s \in Inline, Accept(s) \/ Depart(s) \/ Close(s)
      PROVE  [Talk!Next]_<<asked, answered, open>>
  <2>1. UNCHANGED <<asked, answered, launcher>>
    BY <1>5 DEF Accept, Depart, Close
  <2>2. \A t \in Inline : conn[t] = "done" => conn'[t] = "done"
    BY <1>5 DEF Accept, Depart, Close, Handling, IInv, Types
  <2>3. \A t \in Inline : open'[t] => open[t]
    BY <2>1, <2>2 DEF launcher, open, Up
  <2> QED BY <1>1, <2>1, <2>3, TalkClose
<1>6. ASSUME NEW s \in Inline, ServeDatagram(s) \/ Reply(s)
      PROVE  [Talk!Next]_<<asked, answered, open>>
  BY <1>1, <1>6, TalkServes
<1> QED BY <1>2, <1>3, <1>4, <1>5, <1>6 DEF Next, Server, Handler

\* For every list of servers, the inline ones implement the Dialogue, however requests are
\* cut and joined and with the launcher starting and ending them as it may; further answers
\* to a request, one for each segment it came in, are bounded by AnswersByPosition.
THEOREM InlineInTurn == Spec => AnswersInTurn
<1>1. Init => Talk!Init
  BY TalkInit
<1>2. IInv /\ [Next]_vars => [Talk!Next]_<<asked, answered, open>>
  BY TalkNext
<1> QED BY <1>1, <1>2, Inductive, PTL DEF Spec, AnswersInTurn, Talk!Spec

\* For every list of servers and however requests are cut and joined: no handler gives more
\* answers than it has received requests and cuts, and to a client that waits for each answer
\* it never gives fewer than it has received requests.
THEOREM AnswersByPosition == Spec => []InStep
<1>1. IInv => InStep
  <2> SUFFICES ASSUME IInv, NEW s \in Inline
               PROVE  /\ stage[s] <= answered[s] + cuts[s]
                      /\ hasty[s] \/ answered[s] <= stage[s]
    BY DEF InStep
  <2>1. /\ Paced(s) /\ stage[s] \in Nat /\ answered[s] \in Nat /\ cuts[s] \in Nat
    BY DEF IInv, AllPaced, Types
  <2>2. CASE part[s]
    BY <2>1, <2>2 DEF Paced
  <2>3. CASE ~part[s]
    BY <2>1, <2>3 DEF Paced
  <2> QED BY <2>2, <2>3
<1> QED BY <1>1, Inductive, PTL
===========================================================================
