------------------------------ MODULE RedLion -------------------------------
(***************************************************************************)
(* The Red Lion Crimson emulator (sandbox/redlion_mock_server.py): a       *)
(* thread per connection; the threads share a table of tags, which no lock *)
(* guards, and three counters, which are changed under one and read        *)
(* without it. What one recv returns is taken for one request: the first   *)
(* of it is answered, whatever follows is dropped, and what is left of a   *)
(* request that was cut is looked at as if a request began there.          *)
(***************************************************************************)
EXTENDS Naturals, Sequences, FiniteSets

CONSTANTS
  Conns,      \* the connections the accept loop has handed to threads
  Tags,       \* the names in the tag database
  TagType,    \* the type of each: "float", "int" or "bool"
  Requests,   \* what each client may send
  Misread,    \* what bytes that do not begin a request may be taken for
  MaxAsked,   \* bound: requests each client sends
  MaxCuts     \* bound: how often the segments of each client cut a request

\* A value is ordinary, so large that 3 % more is no 32-bit float, or no number.
Values == {"plain", "huge", "inf", "nan"}

\* The legacy request, the commands of the handler, and what is no request.
Commands == {"legacy", "info", "config", "version", "challenge", "login", "status",
             "read", "write", "unknown", "junk"}

\* A name that is no tag is "none".
Request == [cmd : Commands, tag : Tags \cup {"none"}, value : Values \cup {"none"}]

ASSUME ConnsAssumption == IsFiniteSet(Conns)
ASSUME TagTypeAssumption == TagType \in [Tags -> {"float", "int", "bool"}]
ASSUME RequestsAssumption ==
  /\ Requests \in [Conns -> SUBSET Request] /\ Misread \in [Conns -> SUBSET Request]
  /\ \A c \in Conns : \A r \in Requests[c] \cup Misread[c] :
       r.cmd = "write" => r.value \in Values

VARIABLES
  connection_count, active_sessions, error_count,   \* the shared counters
  tags,      \* the value of each tag
  strained,  \* history: tags that ever held a huge value
  pc,        \* where each handler is
  peer,      \* the client: "open", "closed", or "reset"
  wire,      \* what it sent and the handler has not received
  cur,       \* the request being answered
  cid,       \* the number the handler drew
  told,      \* the counters the last status answer names
  asked,     \* requests the client has sent
  answered,  \* the number of the last one that was answered
  cuts,      \* history: how often a request of each client was cut before its ETX
  strays     \* history: answers to what is left of a request that was cut

shared == <<connection_count, active_sessions, error_count, tags, strained>>
vars == <<shared, pc, peer, wire, cur, cid, told, asked, answered, cuts, strays>>

\* Bytes that are no request: an ETX alone, or a request that is not there whole.
Junk == [cmd |-> "junk", tag |-> "none", value |-> "none", no |-> 0]

\* What is left of a request whose beginning went in an earlier recv.
Rest == [Junk EXCEPT !.cmd = "rest"]

Init ==
  /\ connection_count = 0 /\ active_sessions = 0 /\ error_count = 0
  /\ tags = [t \in Tags |-> "plain"] /\ strained = {}
  /\ pc = [c \in Conns |-> "start"]
  /\ peer = [c \in Conns |-> "open"]
  /\ wire = [c \in Conns |-> <<>>]
  /\ cur = [c \in Conns |-> Junk]
  /\ cid = [c \in Conns |-> 0]
  /\ told = [c \in Conns |-> [conns |-> 0, active |-> 0]]
  /\ asked = [c \in Conns |-> 0]
  /\ answered = [c \in Conns |-> 0]
  /\ cuts = [c \in Conns |-> 0] /\ strays = [c \in Conns |-> 0]

---------------------------------------------------------------------------
(* Clients.                                                                *)

Send(c) ==
  /\ peer[c] = "open" /\ asked[c] < MaxAsked[c]
  /\ \E r \in Requests[c] :
       wire' = [wire EXCEPT ![c] =
         Append(@, [cmd |-> r.cmd, tag |-> r.tag, value |-> r.value, no |-> asked[c] + 1])]
  /\ asked' = [asked EXCEPT ![c] = @ + 1]
  /\ UNCHANGED <<shared, pc, peer, cur, cid, told, answered, cuts, strays>>

Leave(c) ==
  /\ peer[c] = "open"
  /\ \E how \in {"closed", "reset"} : peer' = [peer EXCEPT ![c] = how]
  /\ UNCHANGED <<shared, pc, wire, cur, cid, told, asked, answered, cuts, strays>>

---------------------------------------------------------------------------
(* The counters change under _global_lock; only the first section under it *)
(* is longer than one step.                                                *)

At(c, where) == pc[c] = where
Goto(c, where) == pc' = [pc EXCEPT ![c] = where]
LockFree == \A c \in Conns : ~At(c, "enter")

Enter(c) ==
  /\ At(c, "start") /\ LockFree
  /\ connection_count' = connection_count + 1
  /\ Goto(c, "enter")
  /\ UNCHANGED <<active_sessions, error_count, tags, strained,
                 peer, wire, cur, cid, told, asked, answered, cuts, strays>>

EnterSession(c) ==
  /\ At(c, "enter")
  /\ active_sessions' = active_sessions + 1
  /\ cid' = [cid EXCEPT ![c] = connection_count]
  /\ Goto(c, "recv")
  /\ UNCHANGED <<connection_count, error_count, tags, strained,
                 peer, wire, cur, told, asked, answered, cuts, strays>>

\* Mutant: without finally, a handler that raised keeps its session.
CountErrorAndClose(c) ==
  /\ At(c, "error") \/ At(c, "failed")
  /\ LockFree
  /\ error_count' = error_count + 1
  /\ Goto(c, IF At(c, "error") THEN "recv" ELSE "close")
  /\ UNCHANGED <<connection_count, active_sessions, tags, strained,
                 peer, wire, cur, cid, told, asked, answered, cuts, strays>>

\* An error is counted, and the handler goes on or, if it raised, ends.
CountError(c) ==
  /\ At(c, "error") \/ At(c, "failed")
  /\ LockFree
  /\ error_count' = error_count + 1
  /\ Goto(c, IF At(c, "error") THEN "recv" ELSE "leave")
  /\ UNCHANGED <<connection_count, active_sessions, tags, strained,
                 peer, wire, cur, cid, told, asked, answered, cuts, strays>>

\* finally: the session is given back, then the socket is closed.
LeaveSession(c) ==
  /\ At(c, "leave") /\ LockFree
  /\ active_sessions' = active_sessions - 1
  /\ Goto(c, "close")
  /\ UNCHANGED <<connection_count, error_count, tags, strained,
                 peer, wire, cur, cid, told, asked, answered, cuts, strays>>

CloseSocket(c) ==
  /\ At(c, "close") /\ Goto(c, "done")
  /\ UNCHANGED <<shared, peer, wire, cur, cid, told, asked, answered, cuts, strays>>

---------------------------------------------------------------------------
(* recv.                                                                   *)

Numbered(r, n) == [cmd |-> r.cmd, tag |-> r.tag, value |-> r.value, no |-> n]

\* What the handler takes for the request: k whole ones came, and the next is cut
\* nowhere, early, or before its ETX, without which it is answered all the same. What
\* is left of a request may happen to read as another one (it begins with an STX, or
\* with 16 zeros), and so may what is no request when more follows it.
First(c, k, cut) ==
  LET head == Head(wire[c])
      misread == {Numbered(r, head.no) : r \in Misread[c]}
      more == k > 1 \/ (k = 1 /\ cut # "none")
  IN CASE head.cmd = "rest" -> {Junk} \cup misread
       [] head.cmd = "junk" /\ head # Junk /\ more -> {head} \cup misread
       [] OTHER -> IF k > 0 \/ cut = "etx" THEN {head} ELSE {Junk}

\* What stays behind the segment: the ETX, or the rest of the request that was cut.
Left(c, k, cut) ==
  CASE cut = "none" -> SubSeq(wire[c], k + 1, Len(wire[c]))
    [] cut = "early" -> <<Rest>> \o SubSeq(wire[c], k + 2, Len(wire[c]))
    [] cut = "etx" -> <<Junk>> \o SubSeq(wire[c], k + 2, Len(wire[c]))

\* A request may be cut early and, unless it was the legacy one, before its ETX.
MayCut(c, k, cut) ==
  IF cut = "none" THEN k > 0
  ELSE /\ k < Len(wire[c]) /\ wire[c][k + 1] # Junk
       /\ IF cut = "early" THEN cuts[c] < MaxCuts[c]
          ELSE wire[c][k + 1].cmd \notin {"legacy", "junk", "rest"}

\* Mutant: requests are queued, and the newest is taken first.
RecvNewest(c) ==
  /\ At(c, "recv") /\ wire[c] # <<>>
  /\ cur' = [cur EXCEPT ![c] = wire[c][Len(wire[c])]]
  /\ wire' = [wire EXCEPT ![c] = SubSeq(@, 1, Len(@) - 1)]
  /\ Goto(c, IF cur'[c].cmd = "junk" THEN "error" ELSE "delay")
  /\ UNCHANGED <<shared, peer, cid, told, asked, answered, cuts, strays>>

\* Mutant: what was left of a request stays in a buffer after it was looked at.
RecvKeepsRest(c) ==
  /\ At(c, "recv") /\ wire[c] # <<>>
  /\ \E k \in 0..Len(wire[c]), cut \in {"none", "early", "etx"} :
       /\ MayCut(c, k, cut)
       /\ \E r \in First(c, k, cut) : cur' = [cur EXCEPT ![c] = r]
       /\ wire' = [wire EXCEPT ![c] =
                     IF Head(@) = Rest THEN <<Rest>> \o Left(c, k, cut) ELSE Left(c, k, cut)]
       /\ cuts' = [cuts EXCEPT ![c] = IF cut = "early" THEN @ + 1 ELSE @]
  /\ Goto(c, IF cur'[c].cmd = "junk" THEN "error" ELSE "delay")
  /\ UNCHANGED <<shared, peer, cid, told, asked, answered, strays>>

\* A segment is any number of requests and perhaps some of the next; an
\* unparseable one is an error, whatever is behind the first is dropped.
Recv(c) ==
  /\ At(c, "recv") /\ wire[c] # <<>>
  /\ \E k \in 0..Len(wire[c]), cut \in {"none", "early", "etx"} :
       /\ MayCut(c, k, cut)
       /\ \E r \in First(c, k, cut) : cur' = [cur EXCEPT ![c] = r]
       /\ wire' = [wire EXCEPT ![c] = Left(c, k, cut)]
       /\ cuts' = [cuts EXCEPT ![c] = IF cut = "early" THEN @ + 1 ELSE @]
  /\ Goto(c, IF cur'[c].cmd = "junk" THEN "error" ELSE "delay")
  /\ UNCHANGED <<shared, peer, cid, told, asked, answered, strays>>

RecvEnds(c) ==
  /\ At(c, "recv")
  /\ peer[c] = "reset" \/ (peer[c] = "closed" /\ wire[c] = <<>>)
  /\ Goto(c, "leave")
  /\ UNCHANGED <<shared, peer, wire, cur, cid, told, asked, answered, cuts, strays>>

---------------------------------------------------------------------------
(* Answers, after the scan delay. The first data sent to a client that has *)
(* closed is lost; then a send raises, as a reset, which is no error, or   *)
(* as a broken pipe, which is counted as one.                              *)

Sent(c, next) ==
  IF peer[c] = "reset"
  THEN /\ Goto(c, "leave") \/ Goto(c, "failed")
       /\ UNCHANGED <<peer, answered, strays>>
  ELSE /\ peer' = [peer EXCEPT ![c] = IF @ = "open" THEN "open" ELSE "reset"]
       /\ IF cur[c].no = 0
          THEN strays' = [strays EXCEPT ![c] = @ + 1] /\ UNCHANGED answered
          ELSE answered' = [answered EXCEPT ![c] = cur[c].no] /\ UNCHANGED strays
       /\ Goto(c, next)

Asked(c, cmds) == At(c, "delay") /\ cur[c].cmd \in cmds

\* Answers made of the profile and the random bytes, which change nothing.
cmd_device_info == {"legacy", "info"}
cmd_config == {"config"}
cmd_protocol_version == {"version"}
cmd_login == {"challenge", "login"}

ServeProfile(c) ==
  /\ Asked(c, cmd_device_info \cup cmd_config \cup cmd_protocol_version \cup cmd_login)
  /\ Sent(c, "recv")
  /\ UNCHANGED <<shared, wire, cur, cid, told, asked, cuts>>

\* An unknown command is answered and then counted.
ServeUnknown(c) ==
  /\ Asked(c, {"unknown"}) /\ Sent(c, "error")
  /\ UNCHANGED <<shared, wire, cur, cid, told, asked, cuts>>

\* The counters are read one after the other, without the lock.
StatusConnections(c) ==
  /\ Asked(c, {"status"})
  /\ told' = [told EXCEPT ![c].conns = connection_count, ![c].active = 0]
  /\ Goto(c, "status")
  /\ UNCHANGED <<shared, peer, wire, cur, cid, asked, answered, cuts, strays>>

StatusSessions(c) ==
  /\ At(c, "status")
  /\ told' = [told EXCEPT ![c].active = active_sessions]
  /\ Sent(c, "recv")
  /\ UNCHANGED <<shared, wire, cur, cid, asked, cuts>>

\* TagDatabase.read: the jitter may carry a huge value over what can be packed.
ReadMayFail(tag) == tag \in Tags /\ tags[tag] = "huge"

ServeRead(c) ==
  /\ Asked(c, {"read"})
  /\ \/ Sent(c, "recv")
     \/ ReadMayFail(cur[c].tag) /\ Goto(c, "failed") /\ UNCHANGED <<peer, answered, strays>>
  /\ UNCHANGED <<shared, wire, cur, cid, told, asked, cuts>>

\* TagDatabase.write: round() raises on what is no number; a bool is 0 or 1.
WriteFails(r) == TagType[r.tag] = "int" /\ r.value \in {"nan", "inf"}
Cast(r) == IF TagType[r.tag] = "bool" THEN "plain" ELSE r.value

\* Mutant: the value is stored as it came.
ServeWriteUncast(c) ==
  /\ Asked(c, {"write"})
  /\ IF cur[c].tag \in Tags
     THEN /\ tags' = [tags EXCEPT ![cur[c].tag] = cur[c].value]
          /\ strained' = strained \cup {t \in Tags : tags'[t] = "huge"}
     ELSE UNCHANGED <<tags, strained>>
  /\ Sent(c, "recv")
  /\ UNCHANGED <<connection_count, active_sessions, error_count, wire, cur, cid, told, asked,
                 cuts>>

\* Mutant: a write to a tag that does not exist raises.
ServeWriteMustExist(c) ==
  /\ Asked(c, {"write"})
  /\ IF cur[c].tag \notin Tags \/ WriteFails(cur[c])
     THEN Goto(c, "failed") /\ UNCHANGED <<tags, strained, peer, answered, strays>>
     ELSE /\ tags' = [tags EXCEPT ![cur[c].tag] = Cast(cur[c])]
          /\ strained' = strained \cup {t \in Tags : tags'[t] = "huge"}
          /\ Sent(c, "recv")
  /\ UNCHANGED <<connection_count, active_sessions, error_count, wire, cur, cid, told, asked,
                 cuts>>

\* A malformed write, like one of an unknown tag, is answered with 0x01.
ServeWrite(c) ==
  /\ Asked(c, {"write"})
  /\ CASE cur[c].tag \notin Tags ->
            UNCHANGED <<tags, strained>> /\ Sent(c, "recv")
       [] cur[c].tag \in Tags /\ WriteFails(cur[c]) ->
            Goto(c, "failed") /\ UNCHANGED <<tags, strained, peer, answered, strays>>
       [] OTHER ->
            /\ tags' = [tags EXCEPT ![cur[c].tag] = Cast(cur[c])]
            /\ strained' = strained \cup {t \in Tags : tags'[t] = "huge"}
            /\ Sent(c, "recv")
  /\ UNCHANGED <<connection_count, active_sessions, error_count, wire, cur, cid, told, asked,
                 cuts>>

---------------------------------------------------------------------------
Handler(c) ==
  \/ Enter(c) \/ EnterSession(c) \/ CountError(c) \/ LeaveSession(c) \/ CloseSocket(c)
  \/ Recv(c) \/ RecvEnds(c)
  \/ ServeProfile(c) \/ ServeUnknown(c) \/ StatusConnections(c) \/ StatusSessions(c)
  \/ ServeRead(c) \/ ServeWrite(c)

Next == \E c \in Conns : Send(c) \/ Leave(c) \/ Handler(c)

\* Every handler is a thread; clients may do nothing.
Spec == Init /\ [][Next]_vars /\ \A c \in Conns : WF_vars(Handler(c))

---------------------------------------------------------------------------
(* Properties.                                                             *)

Item ==
  [cmd : Commands \cup {"rest"}, tag : Tags \cup {"none"}, value : Values \cup {"none"}, no : Nat]

\* Every variable has its type, and every tag a value of its own: an integer tag
\* never holds what is no number, a bool only 0 or 1.
TypeOK ==
  /\ connection_count \in Nat /\ active_sessions \in Nat /\ error_count \in Nat
  /\ tags \in [Tags -> Values] /\ strained \subseteq Tags
  /\ \A t \in Tags :
       /\ TagType[t] = "int" => tags[t] \in {"plain", "huge"}
       /\ TagType[t] = "bool" => tags[t] = "plain"
  /\ pc \in [Conns -> {"start", "enter", "recv", "delay", "status", "error", "failed",
                       "leave", "close", "done"}]
  /\ peer \in [Conns -> {"open", "closed", "reset"}]
  /\ wire \in [Conns -> Seq(Item)] /\ cur \in [Conns -> Item]
  /\ cid \in [Conns -> Nat] /\ told \in [Conns -> [conns : Nat, active : Nat]]
  /\ asked \in [Conns -> Nat] /\ answered \in [Conns -> Nat]
  /\ cuts \in [Conns -> Nat] /\ strays \in [Conns -> Nat]

Inside == {c \in Conns : pc[c] \notin {"start", "enter", "close", "done"}}

\* However a handler ends, the counters are those of the handlers inside and of
\* the connections ever made, no two drew one number, and a status answer, though
\* read without the lock, counts at least the session that asked and no connection
\* that was not made.
CountersExact ==
  /\ active_sessions = Cardinality(Inside)
  /\ connection_count = Cardinality({c \in Conns : pc[c] # "start"})
  /\ \A c, d \in Conns : c # d /\ cid[c] = cid[d] => cid[c] = 0
  /\ \A c \in Conns : told[c].conns # 0 /\ ~At(c, "status") =>
       told[c].active >= 1 /\ told[c].conns \in cid[c]..connection_count

\* A client that is still there is cut off for two things only: it wrote what is no
\* number to an integer tag, or it read a tag into which a client, perhaps another,
\* had written a value too large to be told.
CutOffOnlyForValues ==
  \A c \in Conns : peer[c] = "open" /\ pc[c] \in {"failed", "leave", "close", "done"} =>
    \/ cur[c].cmd = "write" /\ cur[c].tag \in Tags /\ WriteFails(cur[c])
    \/ cur[c].cmd = "read" /\ cur[c].tag \in strained

\* What a client is told beyond the answers to its requests, it is told because a
\* request was cut: one answer a cut at most, though what is left may be cut again,
\* joined with what follows it, or read as any command.
StraysFromCuts == \A c \in Conns : strays[c] <= cuts[c]

\* The handler has yet to close the socket.
open == [c \in Conns |-> pc[c] # "done"]

Talk == INSTANCE Dialogue WITH
  Conns <- Conns, Lossless <- FALSE, asked <- asked, answered <- answered, open <- open

\* However requests are cut and joined into segments, and whatever their rests are
\* taken for: no request is answered twice, or after one that was sent behind it.
\* (What is dropped is dropped for good; what a rest is told is not counted here.)
AnswersInTurn == Talk!Spec

\* The sandbox's README (line 154) says all servers handle TCP fragmentation, with
\* loops that assemble partial reads: what a handler takes for a request, or for an
\* error, is then never a part of one.
FragmentsAssemble ==
  \A c \in Conns : pc[c] \in {"delay", "error"} => cur[c].no # 0
===========================================================================
