-------------------------- MODULE Proconos_proofs ---------------------------
(***************************************************************************)
(* Proofs about Proconos, for every finite set of connections and of push  *)
(* loops, any requests, quotas and windows, and an audit trail of any      *)
(* length that is at least the number of connections.                      *)
(***************************************************************************)
EXTENDS Proconos, FiniteSetTheorems, SequenceTheorems, TLAPS

---------------------------------------------------------------------------
(* The inductive invariant.                                                *)

Alive(c, i) == loop[c][i] # "off"

\* Between a start and the spawn of its loop.
Acked(c) == pc[c] = "spawn" \/ (pc[c] = "reply" /\ reply[c] = "ack_start")
Starting(c) == pc[c] = "reset" \/ Acked(c)

\* Since a start that found no loop there is one loop at most, and none before its spawn.
OneLoop ==
  \A c \in Clients : alone[c] =>
    /\ \A i, j \in Loops : Alive(c, i) /\ Alive(c, j) => i = j
    /\ Starting(c) => \A i \in Loops : ~Alive(c, i)

\* Until a stop is acknowledged, a start that is accepted is the first.
FirstStart ==
  \A c \in Clients : ~stopped[c] =>
    /\ alone[c]
    /\ ~ev[c] /\ pc[c] # "done" => ~Starting(c) /\ \A i \in Loops : ~Alive(c, i)

\* The loop that is alone counts on from the number of the last frame.
InStep ==
  \A c \in Clients : alone[c] =>
    /\ Acked(c) => seq[c] = 0 /\ last[c] = 0
    /\ \A i \in Loops :
         /\ loop[c][i] \in {"top", "inc"} => seq[c] = last[c]
         /\ loop[c][i] = "build" => seq[c] = (last[c] + 1) % SeqMod
         /\ loop[c][i] \in {"send", "send_timed"} =>
              seq[c] = (last[c] + 1) % SeqMod /\ number[c][i] = (last[c] + 1) % SeqMod

Popping == {c \in Clients : pc[c] = "pop"}
Trimming == {c \in Clients : pc[c] \in {"trim", "pop"}}

\* Nothing was ever dropped, or there is enough left for every pop that is coming.
Enough ==
  \/ Len(writes) = logged /\ Popping = {}
  \/ Len(writes) - Cardinality(Popping) >= MaxLen + 1 - Cardinality(Clients)

Numbered ==
  /\ Len(writes) <= logged
  /\ \A k \in 1..Len(writes) : writes[k] = logged - Len(writes) + k

Bounded == Len(writes) <= MaxLen + Cardinality(Trimming)

IInv ==
  /\ TypeOK /\ CurrentExact
  /\ OneLoop /\ FirstStart /\ InStep
  /\ Enough /\ Numbered /\ Bounded

---------------------------------------------------------------------------
(* Lemmas.                                                                 *)

Inside == {c \in Clients : pc[c] \notin {"off", "done"}}

LEMMA Finite ==
  /\ IsFiniteSet(Inside) /\ IsFiniteSet(Popping) /\ IsFiniteSet(Trimming)
  /\ Cardinality(Clients) \in Nat /\ Cardinality(Clients) <= MaxLen
  /\ Cardinality(Popping) \in Nat /\ Cardinality(Popping) <= Cardinality(Clients)
  /\ Cardinality(Trimming) \in Nat
<1>1. Inside \in SUBSET Clients /\ Popping \in SUBSET Clients /\ Trimming \in SUBSET Clients
  BY DEF Inside, Popping, Trimming
<1>2. IsFiniteSet(Clients) /\ Cardinality(Clients) <= MaxLen
  BY ClientsAssumption
<1>3. IsFiniteSet(Inside) /\ IsFiniteSet(Popping) /\ IsFiniteSet(Trimming)
  BY <1>1, <1>2, FS_Subset
<1>4. Cardinality(Popping) <= Cardinality(Clients)
  BY <1>1, <1>2, FS_Subset
<1> QED BY <1>2, <1>3, <1>4, FS_CardinalityType

\* A handler that is inside is counted.
LEMMA InsideCounted ==
  ASSUME CurrentExact, NEW c \in Clients, pc[c] \notin {"off", "done"}
  PROVE  current \in Nat /\ current >= 1
<1>1. c \in Inside /\ current = Cardinality(Inside)
  BY DEF Inside, CurrentExact
<1>2. Cardinality(Inside) \in Nat /\ Cardinality(Inside) # 0
  BY <1>1, Finite, FS_CardinalityType, FS_EmptySet
<1> QED BY <1>1, <1>2

\* The next request of a connection.
LEMMA RxType ==
  ASSUME TypeOK, NEW c \in Clients, rx[c] # <<>>
  PROVE  Head(rx[c]) \in Requests /\ Tail(rx[c]) \in Seq(Requests)
<1>1. rx[c] \in Seq(Requests)
  BY DEF TypeOK
<1> QED BY <1>1, HeadTailProperties

LEMMA WritesType ==
  ASSUME TypeOK
  PROVE  Len(writes) \in Nat /\ writes \in Seq(Nat) /\ logged \in Nat
BY LenProperties DEF TypeOK

LEMMA SimpleType ==
  /\ DOMAIN Simple = {"read", "status", "unknown"}
  /\ \A r \in DOMAIN Simple : Simple[r] \in {"value", "status", "unknown"}
BY DEF Simple

---------------------------------------------------------------------------
(* Types.                                                                  *)

LEMMA GotoType ==
  ASSUME TypeOK, NEW c \in Clients, NEW l \in HandlerAt, Goto(c, l)
  PROVE  pc' \in [Clients -> HandlerAt]
BY DEF TypeOK, Goto

LEMMA AnswerType ==
  ASSUME TypeOK, NEW c \in Clients, NEW r \in Replies, Answer(c, r)
  PROVE  pc' \in [Clients -> HandlerAt] /\ reply' \in [Clients -> Replies]
BY DEF TypeOK, Goto, Answer, HandlerAt

LEMMA AtType ==
  ASSUME TypeOK, NEW c \in Clients, NEW i \in Loops,
         NEW l \in {"off", "top", "inc", "build", "send", "send_timed"}, At(c, i, l)
  PROVE  loop' \in [Clients -> [Loops -> {"off", "top", "inc", "build", "send", "send_timed"}]]
BY DEF TypeOK, At

LEMMA SendsType ==
  ASSUME TypeOK, NEW c \in Clients, Sends(c)
  PROVE  unread' \in [Clients -> 0..Window]
<1>1. unread \in [Clients -> 0..Window] /\ Window \in Nat
  BY BoundsAssumption DEF TypeOK
<1>2. unread[c] < Window => unread[c] + 1 \in 0..Window
  BY <1>1
<1> QED BY <1>1, <1>2 DEF Sends

LEMMA ClientTypes ==
  ASSUME TypeOK, NEW c \in Clients, Client(c)
  PROVE  TypeOK'
<1>1. CASE Connect(c) \/ Close(c)
  <2>1. client' \in [Clients -> {"new", "open", "closed"}]
    BY <1>1 DEF Connect, Close, TypeOK
  <2> QED BY <1>1, <2>1 DEF Connect, Close, TypeOK, cyclic, audit, history
<1>2. CASE Send(c)
  <2>1. PICK r \in Asks[c] : rx' = [rx EXCEPT ![c] = Append(@, r)]
    BY <1>2 DEF Send
  <2>2. r \in Requests /\ Quota[c] \in Nat
    BY AsksAssumption, BoundsAssumption
  <2>3. rx' \in [Clients -> Seq(Requests)]
    BY <2>1, <2>2, AppendProperties DEF TypeOK
  <2>4. asked' \in [Clients -> Nat] /\ \A d \in Clients : asked'[d] <= Quota[d]
    <3>1. asked[c] + 1 \in Nat /\ asked[c] + 1 <= Quota[c]
      BY <1>2, <2>2 DEF Send, TypeOK
    <3>2. asked \in [Clients -> Nat] /\ \A d \in Clients : asked[d] <= Quota[d]
      BY DEF TypeOK
    <3>3. asked' = [asked EXCEPT ![c] = asked[c] + 1]
      BY <1>2 DEF Send
    <3> QED BY <3>1, <3>2, <3>3
  <2> QED BY <1>2, <2>3, <2>4 DEF Send, TypeOK, cyclic, audit, history
<1>3. CASE Read(c)
  <2>1. unread' \in [Clients -> 0..Window]
    BY <1>3, BoundsAssumption DEF Read, TypeOK
  <2> QED BY <1>3, <2>1 DEF Read, TypeOK, cyclic, audit, history
<1> QED BY <1>1, <1>2, <1>3 DEF Client

\* The steps of a handler that change neither the audit trail nor the loops.
LEMMA PlainTypes ==
  ASSUME TypeOK, UNCHANGED <<client, asked, loop, number, writes, logged>>,
         rx' \in [Clients -> Seq(Requests)], unread' \in [Clients -> 0..Window],
         pc' \in [Clients -> HandlerAt], reply' \in [Clients -> Replies],
         ev' \in [Clients -> BOOLEAN], seq' \in [Clients -> 0..SeqMod - 1], current' \in Nat,
         last' \in [Clients -> 0..SeqMod - 1],
         alone' \in [Clients -> BOOLEAN], stopped' \in [Clients -> BOOLEAN]
  PROVE  TypeOK'
BY DEF TypeOK

LEMMA TakesType ==
  ASSUME TypeOK, NEW c \in Clients, NEW kinds, Takes(c, kinds)
  PROVE  /\ rx' \in [Clients -> Seq(Requests)] /\ Head(rx[c]) \in kinds
         /\ unread' \in [Clients -> 0..Window] /\ current' \in Nat
         /\ UNCHANGED <<client, asked, writes, logged>>
BY RxType DEF Takes, TypeOK, audit

\* The trail is never empty where a handler pops.
LEMMA PopsSomething ==
  ASSUME TypeOK, Enough, NEW c \in Clients, pc[c] = "pop"
  PROVE  writes # <<>>
<1>1. c \in Popping
  BY DEF Popping
<1>2. Cardinality(Popping) # 0 /\ Popping # {}
  BY <1>1, Finite, FS_EmptySet
<1>3. Len(writes) >= 1
  BY <1>2, Finite, WritesType, BoundsAssumption DEF Enough
<1> QED BY <1>3, EmptySeq

LEMMA HandlerTypes ==
  ASSUME TypeOK, CurrentExact, Enough, NEW c \in Clients, Handler(c)
  PROVE  TypeOK'
<1>1. /\ rx \in [Clients -> Seq(Requests)] /\ unread \in [Clients -> 0..Window]
      /\ pc \in [Clients -> HandlerAt] /\ reply \in [Clients -> Replies]
      /\ ev \in [Clients -> BOOLEAN] /\ seq \in [Clients -> 0..SeqMod - 1] /\ current \in Nat
      /\ last \in [Clients -> 0..SeqMod - 1]
      /\ alone \in [Clients -> BOOLEAN] /\ stopped \in [Clients -> BOOLEAN]
      /\ 0 \in 0..SeqMod - 1
  BY BoundsAssumption DEF TypeOK
<1>2. CASE Accept(c) \/ Leave(c) \/ Cleanup(c) \/ Drain(c)
  <2>1. pc' \in [Clients -> HandlerAt]
    BY <1>1, <1>2 DEF Accept, Leave, Cleanup, Drain, Goto, HandlerAt
  <2>2. current' \in Nat
    <3>1. CASE Cleanup(c)
      <4>1. current \in Nat /\ current >= 1
        BY <3>1, InsideCounted DEF Cleanup
      <4> QED BY <3>1, <4>1 DEF Cleanup
    <3> QED BY <1>1, <1>2, <3>1 DEF Accept, Leave, Drain
  <2>3. ev' \in [Clients -> BOOLEAN]
    BY <1>1, <1>2 DEF Accept, Leave, Cleanup, Drain, cyclic
  <2>4. rx' \in [Clients -> Seq(Requests)]
    <3>1. <<>> \in Seq(Requests)
      BY EmptySeq
    <3>2. rx' = rx \/ rx' = [rx EXCEPT ![c] = <<>>]
      BY <1>2 DEF Accept, Leave, Cleanup, Drain, sock
    <3> QED BY <1>1, <3>1, <3>2
  <2>5. UNCHANGED <<client, asked, loop, number, writes, logged, unread, reply, seq, last, alone,
                    stopped>>
    BY <1>2 DEF Accept, Leave, Cleanup, Drain, sock, cyclic, audit, history
  <2> QED BY <1>1, <2>1, <2>2, <2>3, <2>4, <2>5, PlainTypes
<1>3. CASE TakeSimple(c)
  <2>1. Simple[Head(rx[c])] \in Replies
    BY <1>3, TakesType, SimpleType DEF TakeSimple, Replies
  <2>2. pc' \in [Clients -> HandlerAt] /\ reply' \in [Clients -> Replies]
    BY <1>3, <2>1, AnswerType DEF TakeSimple
  <2>3. UNCHANGED <<loop, number, ev, seq, last, alone, stopped>>
    BY <1>3 DEF TakeSimple, cyclic, history
  <2> QED BY <1>1, <1>3, <2>2, <2>3, TakesType, PlainTypes DEF TakeSimple
<1>4. CASE TakeProbe(c) \/ TakeWrite(c)
  <2>1. PICK kinds : Takes(c, kinds)
    BY <1>4 DEF TakeProbe, TakeWrite
  <2>2. pc' \in [Clients -> HandlerAt]
    BY <1>1, <1>4 DEF TakeProbe, TakeWrite, Goto, HandlerAt
  <2>3. UNCHANGED <<reply, loop, number, ev, seq, last, alone, stopped>>
    BY <1>4 DEF TakeProbe, TakeWrite, cyclic, history
  <2> QED BY <1>1, <2>1, <2>2, <2>3, TakesType, PlainTypes
<1>5. CASE TakeStart(c)
  <2>1. pc' \in [Clients -> HandlerAt] /\ reply' \in [Clients -> Replies]
    BY <1>1, <1>5 DEF TakeStart, Answer, Goto, HandlerAt, Replies
  <2>2. ev' \in [Clients -> BOOLEAN]
    BY <1>1, <1>5 DEF TakeStart
  <2>3. alone' \in [Clients -> BOOLEAN]
    <3>1. alone' = alone \/ alone' = [alone EXCEPT ![c] = Off(c)]
      BY <1>5 DEF TakeStart
    <3>2. Off(c) \in BOOLEAN
      BY DEF Off
    <3> QED BY <1>1, <3>1, <3>2
  <2>4. UNCHANGED <<loop, number, seq, last, stopped>>
    BY <1>5 DEF TakeStart
  <2> QED BY <1>1, <1>5, <2>1, <2>2, <2>3, <2>4, TakesType, PlainTypes DEF TakeStart
<1>6. CASE TakeStop(c)
  <2>1. pc' \in [Clients -> HandlerAt] /\ reply' \in [Clients -> Replies]
    BY <1>1, <1>6 DEF TakeStop, Answer, Goto, HandlerAt, Replies
  <2>2. ev' \in [Clients -> BOOLEAN] /\ stopped' \in [Clients -> BOOLEAN]
    BY <1>1, <1>6 DEF TakeStop
  <2>3. UNCHANGED <<loop, number, seq, last, alone>>
    BY <1>6 DEF TakeStop
  <2> QED BY <1>1, <1>6, <2>1, <2>2, <2>3, TakesType, PlainTypes DEF TakeStop
<1>7. CASE ResetSeq(c)
  <2>1. pc' \in [Clients -> HandlerAt] /\ reply' \in [Clients -> Replies]
    BY <1>7, AnswerType DEF ResetSeq, Replies
  <2>2. seq' \in [Clients -> 0..SeqMod - 1] /\ last' \in [Clients -> 0..SeqMod - 1]
    BY <1>1, <1>7 DEF ResetSeq
  <2>3. UNCHANGED <<client, asked, rx, unread, ev, loop, number, writes, logged, current, alone, stopped>>
    BY <1>7 DEF ResetSeq, sock, audit
  <2> QED BY <1>1, <2>1, <2>2, <2>3, PlainTypes
<1>8. CASE Drained(c) \/ TrimTest(c)
  <2>1. pc' \in [Clients -> HandlerAt] /\ reply' \in [Clients -> Replies]
    BY <1>1, <1>8 DEF Drained, TrimTest, Answer, Goto, HandlerAt, Replies
  <2>2. UNCHANGED <<client, asked, rx, unread, ev, seq, loop, number, writes, logged, current, last,
                    alone, stopped>>
    BY <1>8 DEF Drained, TrimTest, sock, cyclic, audit, history
  <2> QED BY <1>1, <2>1, <2>2, PlainTypes
<1>9. CASE Log(c) \/ TrimPop(c)
  <2>1. pc' \in [Clients -> HandlerAt]
    BY <1>1, <1>9 DEF Log, TrimPop, Goto, HandlerAt
  <2>2. logged' \in Nat
    BY <1>9 DEF Log, TrimPop, TypeOK
  <2>3. writes' \in Seq(Nat)
    <3>1. CASE Log(c)
      BY <3>1, AppendProperties DEF Log, TypeOK
    <3>2. CASE TrimPop(c)
      <4>1. writes # <<>>
        BY <3>2, PopsSomething DEF TrimPop
      <4> QED BY <3>2, <4>1, HeadTailProperties, WritesType DEF TrimPop
    <3> QED BY <1>9, <3>1, <3>2
  <2>4. UNCHANGED <<sock, reply, cyclic, current, history>>
    BY <1>9 DEF Log, TrimPop
  <2> QED BY <2>1, <2>2, <2>3, <2>4 DEF TypeOK, sock, cyclic, history
<1>10. CASE SendReply(c)
  <2>1. unread' \in [Clients -> 0..Window]
    BY <1>10, SendsType DEF SendReply
  <2>2. pc' \in [Clients -> HandlerAt] /\ reply' \in [Clients -> Replies]
    BY <1>1, <1>10 DEF SendReply, Goto, HandlerAt, Replies
  <2>3. UNCHANGED <<client, asked, rx, ev, seq, loop, number, writes, logged, current, last,
                    alone, stopped>>
    BY <1>10 DEF SendReply, cyclic, audit, history
  <2> QED BY <1>1, <2>1, <2>2, <2>3, PlainTypes
<1>11. CASE Spawn(c)
  <2>1. PICK i \in Loops : loop' = [loop EXCEPT ![c][i] = "top"]
    BY <1>11 DEF Spawn
  <2>2. loop' \in [Clients -> [Loops -> {"off", "top", "inc", "build", "send", "send_timed"}]]
    BY <2>1, AtType DEF At
  <2>3. pc' \in [Clients -> HandlerAt]
    BY <1>1, <1>11 DEF Spawn, Goto, HandlerAt
  <2>4. UNCHANGED <<sock, reply, ev, seq, number, audit, current, history>>
    BY <1>11 DEF Spawn
  <2> QED BY <2>2, <2>3, <2>4 DEF TypeOK, sock, audit, history
<1> QED BY <1>2, <1>3, <1>4, <1>5, <1>6, <1>7, <1>8, <1>9, <1>10, <1>11 DEF Handler

LEMMA PusherTypes ==
  ASSUME TypeOK, NEW c \in Clients, NEW i \in Loops, Pusher(c, i)
  PROVE  TypeOK'
<1> DEFINE Spots == {"off", "top", "inc", "build", "send", "send_timed"}
<1>1. loop' \in [Clients -> [Loops -> Spots]]
  <2>1. PICK l \in Spots : At(c, i, l)
    BY DEF Pusher, LoopTest, LoopInc, LoopBuild, LoopSend, LoopBreak
  <2> QED BY <2>1, AtType
<1>2. SeqMod \in Nat /\ SeqMod >= 2 /\ 0 \in 0..SeqMod - 1
  BY BoundsAssumption
<1>3. seq' \in [Clients -> 0..SeqMod - 1]
  <2>1. CASE LoopInc(c, i)
    <3>1. seq[c] \in Nat /\ seq \in [Clients -> 0..SeqMod - 1]
      BY <1>2 DEF TypeOK
    <3>2. (seq[c] + 1) % SeqMod \in 0..SeqMod - 1
      BY <1>2, <3>1
    <3> QED BY <2>1, <3>1, <3>2 DEF LoopInc
  <2>2. CASE seq' = seq
    BY <2>2 DEF TypeOK
  <2> QED BY <2>1, <2>2 DEF Pusher, LoopTest, LoopBuild, LoopSend, LoopBreak
<1>4. number' \in [Clients -> [Loops -> 0..SeqMod - 1]] /\ last' \in [Clients -> 0..SeqMod - 1]
  <2>1. /\ number \in [Clients -> [Loops -> 0..SeqMod - 1]] /\ last \in [Clients -> 0..SeqMod - 1]
        /\ seq \in [Clients -> 0..SeqMod - 1]
    BY DEF TypeOK
  <2>2. CASE LoopBuild(c, i)
    BY <2>1, <2>2 DEF LoopBuild, history
  <2>3. CASE LoopSend(c, i)
    BY <1>2, <2>1, <2>3 DEF LoopSend
  <2>4. CASE LoopBreak(c, i)
    BY <1>2, <2>1, <2>4 DEF LoopBreak, history
  <2>5. CASE LoopTest(c, i) \/ LoopInc(c, i)
    BY <2>1, <2>5 DEF LoopTest, LoopInc, history
  <2> QED BY <2>2, <2>3, <2>4, <2>5 DEF Pusher
<1>5. unread' \in [Clients -> 0..Window]
  <2>1. CASE LoopSend(c, i)
    BY <2>1, SendsType DEF LoopSend
  <2>2. CASE unread' = unread
    BY <2>2 DEF TypeOK
  <2> QED BY <2>1, <2>2 DEF Pusher, LoopTest, LoopInc, LoopBuild, LoopBreak, sock
<1>6. UNCHANGED <<client, asked, rx, pc, reply, ev, writes, logged, current, alone, stopped>>
  BY DEF Pusher, LoopTest, LoopInc, LoopBuild, LoopSend, LoopBreak, sock, audit, history
<1> QED BY <1>1, <1>3, <1>4, <1>5, <1>6 DEF TypeOK

---------------------------------------------------------------------------
(* The connections counted in.                                             *)

LEMMA HandlerCounted ==
  ASSUME TypeOK, CurrentExact, NEW c \in Clients, Handler(c)
  PROVE  CurrentExact'
<1>1. CurrentExact <=> current = Cardinality(Inside)
  BY DEF CurrentExact, Inside
<1>2. CurrentExact' <=> current' = Cardinality(Inside')
  BY DEF CurrentExact, Inside
<1>3. CASE Accept(c)
  <2>1. Inside' = Inside \cup {c} /\ c \notin Inside /\ current' = current + 1
    BY <1>3 DEF Accept, Goto, Inside, TypeOK
  <2> QED BY <1>1, <1>2, <2>1, Finite, FS_AddElement
<1>4. CASE Cleanup(c)
  <2>1. Inside' = Inside \ {c} /\ c \in Inside /\ current' = current - 1
    BY <1>4 DEF Cleanup, Goto, Inside, TypeOK
  <2> QED BY <1>1, <1>2, <2>1, Finite, FS_RemoveElement
<1>5. ASSUME NEW l \in HandlerAt \ {"off", "done"}, Goto(c, l), pc[c] \notin {"off", "done"},
             current' = current
      PROVE  CurrentExact'
  <2>1. Inside' = Inside
    BY <1>5 DEF Goto, Inside, TypeOK
  <2> QED BY <1>1, <1>2, <1>5, <2>1
<1>6. CASE TakeSimple(c) \/ TakeProbe(c) \/ TakeWrite(c) \/ TakeStart(c) \/ TakeStop(c)
  <2>1. pc[c] = "recv" /\ current' = current
    BY <1>6 DEF TakeSimple, TakeProbe, TakeWrite, TakeStart, TakeStop, Takes
  <2>2. \E l \in {"reply", "drain", "log", "cleanup", "reset"} : Goto(c, l)
    BY <1>6 DEF TakeSimple, TakeProbe, TakeWrite, TakeStart, TakeStop, Answer
  <2> QED BY <1>5, <2>1, <2>2 DEF HandlerAt
<1>7. CASE Drain(c)
  BY <1>7 DEF Drain, CurrentExact
<1>8. CASE ResetSeq(c) \/ Drained(c) \/ Log(c) \/ TrimTest(c) \/ TrimPop(c) \/ SendReply(c)
             \/ Spawn(c) \/ Leave(c)
  <2>1. /\ pc[c] \in {"reset", "drain", "log", "trim", "pop", "reply", "spawn", "recv"}
        /\ current' = current
    BY <1>8 DEF ResetSeq, Drained, Log, TrimTest, TrimPop, SendReply, Spawn, Leave
  <2>2. \E l \in {"reply", "trim", "pop", "spawn", "recv", "cleanup"} : Goto(c, l)
    BY <1>8 DEF ResetSeq, Drained, Log, TrimTest, TrimPop, SendReply, Spawn, Leave, Answer
  <2> QED BY <1>5, <2>1, <2>2 DEF HandlerAt
<1> QED BY <1>3, <1>4, <1>6, <1>7, <1>8 DEF Handler

---------------------------------------------------------------------------
(* The audit trail.                                                        *)

Audit == Enough /\ Numbered /\ Bounded

LEMMA AuditKept ==
  ASSUME Audit, UNCHANGED <<audit, Popping, Trimming>>
  PROVE  Audit'
BY DEF Audit, audit, Enough, Numbered, Bounded

LEMMA LogAudit ==
  ASSUME TypeOK, Audit, NEW c \in Clients, Log(c)
  PROVE  Audit'
<1>1. Popping' = Popping /\ Trimming' = Trimming \cup {c} /\ c \notin Trimming
  BY DEF Log, Goto, Popping, Trimming, TypeOK
<1>2. Cardinality(Trimming') = Cardinality(Trimming) + 1
  BY <1>1, Finite, FS_AddElement
<1>3. /\ Len(writes') = Len(writes) + 1 /\ logged' = logged + 1
      /\ writes'[Len(writes) + 1] = logged + 1
      /\ \A k \in 1..Len(writes) : writes'[k] = writes[k]
  BY AppendProperties, WritesType DEF Log
<1>4. Numbered'
  <2> SUFFICES ASSUME NEW k \in 1..Len(writes')
               PROVE  writes'[k] = logged' - Len(writes') + k
    BY <1>3, WritesType DEF Audit, Numbered
  <2>1. CASE k \in 1..Len(writes)
    BY <1>3, <2>1, WritesType DEF Audit, Numbered
  <2>2. CASE k = Len(writes) + 1
    BY <1>3, <2>2, WritesType
  <2> QED BY <1>3, <2>1, <2>2, WritesType
<1>5. Enough'
  BY <1>1, <1>3, WritesType, Finite, BoundsAssumption DEF Audit, Enough
<1>6. Bounded'
  BY <1>2, <1>3, WritesType, Finite, BoundsAssumption DEF Audit, Bounded
<1> QED BY <1>4, <1>5, <1>6 DEF Audit

LEMMA TrimTestAudit ==
  ASSUME TypeOK, Audit, NEW c \in Clients, TrimTest(c)
  PROVE  Audit'
<1>1. UNCHANGED <<writes, logged>> /\ pc[c] = "trim"
  BY DEF TrimTest, audit
<1>2. Numbered'
  BY <1>1 DEF Audit, Numbered
<1>3. CASE Len(writes) > MaxLen
  <2>1. Goto(c, "pop")
    BY <1>3 DEF TrimTest
  <2>2. Popping' = Popping \cup {c} /\ c \notin Popping /\ Trimming' = Trimming
    BY <1>1, <2>1 DEF Goto, Popping, Trimming, TypeOK
  <2>3. /\ Cardinality(Popping') = Cardinality(Popping) + 1
        /\ Cardinality(Popping') <= Cardinality(Clients) /\ Cardinality(Popping') \in Nat
    <3>1. Popping' \in SUBSET Clients
      BY DEF Popping
    <3>2. IsFiniteSet(Clients) /\ IsFiniteSet(Popping)
      BY ClientsAssumption, Finite
    <3>3. Cardinality(Popping') = Cardinality(Popping) + 1
      BY <2>2, <3>2, FS_AddElement
    <3>4. Cardinality(Popping') <= Cardinality(Clients)
      BY <3>1, <3>2, FS_Subset
    <3> QED BY <3>3, <3>4, Finite
  <2>4. Enough'
    BY <1>1, <1>3, <2>3, WritesType, Finite, BoundsAssumption DEF Enough
  <2>5. Bounded'
    BY <1>1, <2>2 DEF Audit, Bounded
  <2> QED BY <1>2, <2>4, <2>5 DEF Audit
<1>4. CASE ~(Len(writes) > MaxLen)
  <2>1. Goto(c, "reply")
    BY <1>4 DEF TrimTest, Answer
  <2>2. Popping' = Popping
    BY <1>1, <2>1 DEF Goto, Popping, TypeOK
  <2>3. Enough'
    BY <1>1, <2>2 DEF Audit, Enough
  <2>4. Cardinality(Trimming') \in Nat
    <3>1. Trimming' \in SUBSET Clients
      BY DEF Trimming
    <3> QED BY <3>1, ClientsAssumption, FS_Subset, FS_CardinalityType
  <2>5. Bounded'
    BY <1>1, <1>4, <2>4, WritesType, BoundsAssumption DEF Bounded
  <2> QED BY <1>2, <2>3, <2>5 DEF Audit
<1> QED BY <1>3, <1>4

LEMMA TrimPopAudit ==
  ASSUME TypeOK, Audit, NEW c \in Clients, TrimPop(c)
  PROVE  Audit'
<1>1. pc[c] = "pop" /\ writes' = Tail(writes) /\ logged' = logged /\ Goto(c, "trim")
  BY DEF TrimPop
<1>2. Popping' = Popping \ {c} /\ c \in Popping /\ Trimming' = Trimming
  BY <1>1 DEF Goto, Popping, Trimming, TypeOK
<1>3. /\ Cardinality(Popping') = Cardinality(Popping) - 1 /\ Popping # {}
  BY <1>2, Finite, FS_RemoveElement
<1>4. Len(writes) - Cardinality(Popping) >= MaxLen + 1 - Cardinality(Clients)
  BY <1>3 DEF Audit, Enough
<1>5. Len(writes) >= 1
  BY <1>4, Finite, WritesType, BoundsAssumption
<1>6. /\ writes # <<>> /\ Len(writes') = Len(writes) - 1
      /\ \A k \in 1..Len(writes') : writes'[k] = writes[k + 1]
  BY <1>1, <1>5, EmptySeq, HeadTailProperties, WritesType
<1>7. Enough'
  BY <1>1, <1>3, <1>4, <1>6, Finite, WritesType, BoundsAssumption DEF Enough
<1>8. Bounded'
  BY <1>2, <1>6, Finite, WritesType, BoundsAssumption DEF Audit, Bounded
<1>9. Numbered'
  <2> SUFFICES ASSUME NEW k \in 1..Len(writes')
               PROVE  writes'[k] = logged' - Len(writes') + k
    BY <1>1, <1>6, WritesType DEF Audit, Numbered
  <2>1. k + 1 \in 1..Len(writes)
    BY <1>6, WritesType
  <2>2. writes[k + 1] = logged - Len(writes) + (k + 1)
    BY <2>1 DEF Audit, Numbered
  <2>3. /\ writes'[k] = writes[k + 1] /\ k \in Int /\ Len(writes) \in Int /\ logged \in Int
        /\ logged' = logged /\ Len(writes') = Len(writes) - 1
    BY <1>1, <1>6, WritesType
  <2> QED BY <2>2, <2>3
<1> QED BY <1>7, <1>8, <1>9 DEF Audit

LEMMA HandlerAudit ==
  ASSUME TypeOK, Audit, NEW c \in Clients, Handler(c)
  PROVE  Audit'
<1>1. ASSUME UNCHANGED audit, NEW l \in HandlerAt \ {"trim", "pop"}, Goto(c, l),
             pc[c] \notin {"trim", "pop"}
      PROVE  Audit'
  <2>1. Popping' = Popping /\ Trimming' = Trimming
    BY <1>1 DEF Goto, Popping, Trimming, TypeOK
  <2> QED BY <1>1, <2>1, AuditKept
<1>2. CASE Drain(c)
  BY <1>2, AuditKept DEF Drain, Popping, Trimming
<1>3. CASE Accept(c) \/ TakeSimple(c) \/ TakeProbe(c) \/ TakeWrite(c) \/ TakeStart(c)
             \/ TakeStop(c) \/ ResetSeq(c) \/ Drained(c) \/ SendReply(c) \/ Spawn(c)
             \/ Leave(c) \/ Cleanup(c)
  <2>1. /\ pc[c] \notin {"trim", "pop"} /\ UNCHANGED audit
        /\ \E l \in {"recv", "reply", "drain", "log", "cleanup", "reset", "spawn", "done"} : Goto(c, l)
    <3>1. CASE TakeSimple(c) \/ TakeProbe(c) \/ TakeWrite(c) \/ TakeStart(c) \/ TakeStop(c)
      BY <3>1 DEF TakeSimple, TakeProbe, TakeWrite, TakeStart, TakeStop, Takes, Answer, audit
    <3>2. CASE Accept(c) \/ ResetSeq(c) \/ Drained(c) \/ SendReply(c) \/ Spawn(c) \/ Leave(c)
                 \/ Cleanup(c)
      BY <3>2 DEF Accept, ResetSeq, Drained, SendReply, Spawn, Leave, Cleanup, Answer
    <3> QED BY <1>3, <3>1, <3>2
  <2> QED BY <1>1, <2>1 DEF HandlerAt
<1> QED BY <1>2, <1>3, LogAudit, TrimTestAudit, TrimPopAudit DEF Handler

---------------------------------------------------------------------------
(* The push loops of a connection.                                         *)

\* OneLoop, FirstStart and InStep for one connection.
Loop(c) ==
  /\ alone[c] =>
       /\ \A i, j \in Loops : Alive(c, i) /\ Alive(c, j) => i = j
       /\ Starting(c) => \A i \in Loops : ~Alive(c, i)
       /\ Acked(c) => seq[c] = 0 /\ last[c] = 0
       /\ \A i \in Loops :
            /\ loop[c][i] \in {"top", "inc"} => seq[c] = last[c]
            /\ loop[c][i] = "build" => seq[c] = (last[c] + 1) % SeqMod
            /\ loop[c][i] \in {"send", "send_timed"} =>
                 seq[c] = (last[c] + 1) % SeqMod /\ number[c][i] = (last[c] + 1) % SeqMod
  /\ ~stopped[c] =>
       /\ alone[c]
       /\ ~ev[c] /\ pc[c] # "done" => ~Starting(c) /\ \A i \in Loops : ~Alive(c, i)

LEMMA LoopIs == (\A c \in Clients : Loop(c)) <=> OneLoop /\ FirstStart /\ InStep
BY DEF Loop, OneLoop, FirstStart, InStep

LEMMA LoopKept ==
  ASSUME NEW c \in Clients, Loop(c),
         UNCHANGED <<ev[c], seq[c], loop[c], number[c], last[c], alone[c], stopped[c]>>,
         Starting(c)' => Starting(c), Acked(c)' => Acked(c), pc[c] = "done" => pc'[c] = "done"
  PROVE  Loop(c)'
BY DEF Loop, Alive

\* A step of one connection leaves the others alone.
LEMMA OthersKept ==
  ASSUME \A d \in Clients : Loop(d), NEW c \in Clients, Loop(c)',
         \A d \in Clients : d # c =>
           UNCHANGED <<pc[d], reply[d], ev[d], seq[d], loop[d], number[d], last[d], alone[d], stopped[d]>>
  PROVE  (\A d \in Clients : Loop(d))'
<1>1. ASSUME NEW d \in Clients, d # c PROVE Loop(d)'
  BY <1>1, LoopKept DEF Starting, Acked
<1> QED BY <1>1

LEMMA ClientLoop ==
  ASSUME \A d \in Clients : Loop(d), NEW c \in Clients, Client(c)
  PROVE  (\A d \in Clients : Loop(d))'
<1>1. UNCHANGED <<pc, reply, cyclic, history>>
  BY DEF Client, Connect, Send, Read, Close
<1> QED BY <1>1, LoopKept DEF cyclic, history, Starting, Acked

\* A handler step that has nothing to do with the loops.
LEMMA QuietLoop ==
  ASSUME TypeOK, \A d \in Clients : Loop(d), NEW c \in Clients, UNCHANGED <<cyclic, history>>,
         NEW l, Goto(c, l), pc[c] # "done",
         \A d \in Clients : d # c => reply'[d] = reply[d],
         Acked(c)' => Acked(c), l # "reset"
  PROVE  (\A d \in Clients : Loop(d))'
<1>1. pc'[c] = l /\ \A d \in Clients : d # c => pc'[d] = pc[d]
  BY DEF Goto, TypeOK
<1>2. Loop(c)'
  BY <1>1, LoopKept DEF cyclic, history, Starting
<1> QED BY <1>1, <1>2, OthersKept DEF cyclic, history

LEMMA StartLoop ==
  ASSUME TypeOK, \A d \in Clients : Loop(d), NEW c \in Clients, TakeStart(c)
  PROVE  (\A d \in Clients : Loop(d))'
<1>1. pc[c] = "recv" /\ UNCHANGED <<seq, loop, number, last, stopped>>
  BY DEF TakeStart, Takes
<1>2. CASE ev[c]
  <2>1. Answer(c, "dup_start") /\ UNCHANGED <<ev, alone>>
    BY <1>2 DEF TakeStart
  <2>2. /\ pc'[c] = "reply" /\ reply'[c] = "dup_start"
        /\ \A d \in Clients : d # c => pc'[d] = pc[d] /\ reply'[d] = reply[d]
    BY <2>1 DEF Answer, Goto, TypeOK
  <2>3. Loop(c)'
    BY <1>1, <2>1, <2>2, LoopKept DEF Starting, Acked
  <2> QED BY <1>1, <2>1, <2>2, <2>3, OthersKept
<1>3. CASE ~ev[c]
  <2>1. /\ ev' = [ev EXCEPT ![c] = TRUE] /\ Goto(c, "reset") /\ reply' = reply
        /\ alone' = [alone EXCEPT ![c] = Off(c)]
    BY <1>3 DEF TakeStart
  <2>2. /\ pc'[c] = "reset" /\ ev'[c] /\ (alone'[c] <=> Off(c))
        /\ \A d \in Clients : d # c => pc'[d] = pc[d] /\ ev'[d] = ev[d] /\ alone'[d] = alone[d]
    BY <2>1 DEF Goto, TypeOK
  <2>3. ~stopped[c] => Off(c)
    BY <1>1, <1>3 DEF Loop, Off, Alive
  <2>4. Loop(c)'
    BY <1>1, <2>2, <2>3 DEF Loop, Off, Alive, Starting, Acked
  <2> QED BY <1>1, <2>1, <2>2, <2>4, OthersKept
<1> QED BY <1>2, <1>3

LEMMA StopLoop ==
  ASSUME TypeOK, \A d \in Clients : Loop(d), NEW c \in Clients, TakeStop(c)
  PROVE  (\A d \in Clients : Loop(d))'
<1>1. pc[c] = "recv" /\ UNCHANGED <<seq, loop, number, last, alone>>
  BY DEF TakeStop, Takes
<1>2. /\ pc'[c] = "reply" /\ reply'[c] \in {"ack_stop", "not_active"}
      /\ \A d \in Clients : d # c => pc'[d] = pc[d] /\ reply'[d] = reply[d]
  BY DEF TakeStop, Answer, Goto, TypeOK
<1>3. CASE UNCHANGED <<ev, stopped>>
  <2>1. Loop(c)'
    BY <1>1, <1>2, <1>3, LoopKept DEF Starting, Acked
  <2> QED BY <1>1, <1>2, <1>3, <2>1, OthersKept
<1>4. CASE ev' = [ev EXCEPT ![c] = FALSE] /\ stopped' = [stopped EXCEPT ![c] = TRUE]
  <2>1. stopped'[c] /\ \A d \in Clients : d # c => ev'[d] = ev[d] /\ stopped'[d] = stopped[d]
    BY <1>4 DEF TypeOK
  <2>2. Loop(c)'
    BY <1>1, <1>2, <2>1 DEF Loop, Alive, Starting, Acked
  <2> QED BY <1>1, <1>2, <2>1, <2>2, OthersKept
<1> QED BY <1>3, <1>4 DEF TakeStop

LEMMA ResetLoop ==
  ASSUME TypeOK, \A d \in Clients : Loop(d), NEW c \in Clients, ResetSeq(c)
  PROVE  (\A d \in Clients : Loop(d))'
<1>1. /\ pc[c] = "reset" /\ UNCHANGED <<ev, loop, number, alone, stopped>>
      /\ pc'[c] = "reply" /\ seq'[c] = 0 /\ last'[c] = 0
      /\ \A d \in Clients : d # c => /\ pc'[d] = pc[d] /\ reply'[d] = reply[d]
                                    /\ seq'[d] = seq[d] /\ last'[d] = last[d]
  BY DEF ResetSeq, Answer, Goto, TypeOK
<1>2. Loop(c)'
  BY <1>1 DEF Loop, Alive, Starting, Acked
<1> QED BY <1>1, <1>2, OthersKept

LEMMA SpawnLoop ==
  ASSUME TypeOK, \A d \in Clients : Loop(d), NEW c \in Clients, Spawn(c)
  PROVE  (\A d \in Clients : Loop(d))'
<1>1. PICK i \in Loops : loop' = [loop EXCEPT ![c][i] = "top"]
  BY DEF Spawn
<1>2. /\ pc[c] = "spawn" /\ pc'[c] = "recv" /\ UNCHANGED <<reply, ev, seq, number, last, alone, stopped>>
      /\ loop'[c][i] = "top" /\ \A j \in Loops : j # i => loop'[c][j] = loop[c][j]
      /\ \A d \in Clients : d # c => pc'[d] = pc[d] /\ loop'[d] = loop[d]
  BY <1>1 DEF Spawn, Goto, TypeOK, history
<1>3. Loop(c)'
  BY <1>2 DEF Loop, Alive, Starting, Acked
<1> QED BY <1>2, <1>3, OthersKept

\* The handler is over: the Event is cleared, and nothing starts any more.
LEMMA CleanupLoop ==
  ASSUME TypeOK, \A d \in Clients : Loop(d), NEW c \in Clients, Cleanup(c)
  PROVE  (\A d \in Clients : Loop(d))'
<1>1. /\ pc'[c] = "done" /\ UNCHANGED <<reply, seq, loop, number, last, alone, stopped>>
      /\ \A d \in Clients : d # c => pc'[d] = pc[d] /\ ev'[d] = ev[d]
  BY DEF Cleanup, Goto, TypeOK, history
<1>2. Loop(c)'
  BY <1>1 DEF Loop, Alive, Starting, Acked
<1> QED BY <1>1, <1>2, OthersKept

LEMMA HandlerLoop ==
  ASSUME TypeOK, \A d \in Clients : Loop(d), NEW c \in Clients, Handler(c)
  PROVE  (\A d \in Clients : Loop(d))'
<1>1. CASE Drain(c)
  <2>1. UNCHANGED <<pc, reply, cyclic, history>>
    BY <1>1 DEF Drain
  <2> QED BY <2>1, LoopKept DEF cyclic, history, Starting, Acked
<1>2. CASE Accept(c) \/ TakeProbe(c) \/ TakeWrite(c) \/ Log(c) \/ TrimPop(c) \/ Leave(c)
  <2>1. /\ pc[c] # "done" /\ UNCHANGED <<reply, cyclic, history>>
        /\ \E l \in {"recv", "drain", "log", "trim", "cleanup"} : Goto(c, l)
    BY <1>2 DEF Accept, TakeProbe, TakeWrite, Log, TrimPop, Leave, Takes
  <2>2. PICK l \in {"recv", "drain", "log", "trim", "cleanup"} : Goto(c, l)
    BY <2>1
  <2>3. ~Acked(c)'
    BY <2>2 DEF Goto, TypeOK, Acked
  <2> QED BY <2>1, <2>2, <2>3, QuietLoop
<1>3. CASE TakeSimple(c) \/ Drained(c) \/ TrimTest(c)
  <2>1. UNCHANGED <<cyclic, history>> /\ pc[c] # "done"
    BY <1>3 DEF TakeSimple, Takes, Drained, TrimTest
  <2>2. \/ \E r \in {"value", "status", "unknown", "ident", "ack_write"} : Answer(c, r)
        \/ Goto(c, "pop") /\ UNCHANGED reply
    <3>1. CASE TakeSimple(c)
      <4>1. Simple[Head(rx[c])] \in {"value", "status", "unknown"}
        BY <3>1, SimpleType DEF TakeSimple, Takes
      <4> QED BY <3>1, <4>1 DEF TakeSimple
    <3>2. CASE Drained(c) \/ TrimTest(c)
      BY <3>2 DEF Drained, TrimTest
    <3> QED BY <1>3, <3>1, <3>2
  <2>3. CASE Goto(c, "pop") /\ UNCHANGED reply
    <3>1. ~Acked(c)'
      BY <2>3 DEF Goto, TypeOK, Acked
    <3> QED BY <2>1, <2>3, <3>1, QuietLoop
  <2>4. CASE \E r \in {"value", "status", "unknown", "ident", "ack_write"} : Answer(c, r)
    <3>1. PICK r \in {"value", "status", "unknown", "ident", "ack_write"} : Answer(c, r)
      BY <2>4
    <3>2. Goto(c, "reply") /\ reply'[c] = r /\ \A d \in Clients : d # c => reply'[d] = reply[d]
      BY <3>1 DEF Answer, TypeOK
    <3>3. ~Acked(c)'
      BY <3>2 DEF Goto, TypeOK, Acked
    <3> QED BY <2>1, <3>2, <3>3, QuietLoop
  <2> QED BY <2>2, <2>3, <2>4
<1>4. CASE SendReply(c)
  <2>1. /\ pc[c] = "reply" /\ UNCHANGED <<cyclic, history>>
        /\ \A d \in Clients : d # c => reply'[d] = reply[d]
    BY <1>4 DEF SendReply, TypeOK
  <2>2. PICK l \in {"spawn", "recv"} :
          Goto(c, l) /\ (l = "spawn" <=> reply[c] = "ack_start")
    BY <1>4 DEF SendReply
  <2>3. Acked(c)' => Acked(c)
    BY <2>1, <2>2 DEF Goto, TypeOK, Acked
  <2> QED BY <2>1, <2>2, <2>3, QuietLoop
<1> QED BY <1>1, <1>2, <1>3, <1>4, StartLoop, StopLoop, ResetLoop, SpawnLoop, CleanupLoop DEF Handler

LEMMA PusherLoop ==
  ASSUME TypeOK, \A d \in Clients : Loop(d), NEW c \in Clients, NEW i \in Loops, Pusher(c, i)
  PROVE  (\A d \in Clients : Loop(d))'
<1> DEFINE Spots == {"off", "top", "inc", "build", "send", "send_timed"}
<1>1. /\ UNCHANGED <<pc, reply, ev, alone, stopped>>
      /\ \A d \in Clients : d # c =>
           seq'[d] = seq[d] /\ loop'[d] = loop[d] /\ number'[d] = number[d] /\ last'[d] = last[d]
      /\ \A j \in Loops : j # i => loop'[c][j] = loop[c][j] /\ number'[c][j] = number[c][j]
      /\ Alive(c, i)
  <2>1. CASE LoopTest(c, i) \/ LoopInc(c, i)
    BY <2>1 DEF LoopTest, LoopInc, At, Alive, TypeOK, history
  <2>2. CASE LoopBuild(c, i)
    BY <2>2 DEF LoopBuild, At, Alive, TypeOK, history
  <2>3. CASE LoopSend(c, i)
    BY <2>3 DEF LoopSend, At, Alive, TypeOK
  <2>4. CASE LoopBreak(c, i)
    BY <2>4 DEF LoopBreak, At, Alive, TypeOK, history
  <2> QED BY <2>1, <2>2, <2>3, <2>4 DEF Pusher
\* A loop that is alone finds its numbers as it left them.
<1>2. ASSUME alone[c]
      PROVE  \/ loop'[c][i] = "off" /\ UNCHANGED <<seq[c], last[c]>>
             \/ loop'[c][i] \in {"top", "inc"} /\ seq'[c] = last'[c]
             \/ loop'[c][i] = "build" /\ seq'[c] = (last'[c] + 1) % SeqMod
             \/ /\ loop'[c][i] \in {"send", "send_timed"} /\ seq'[c] = (last'[c] + 1) % SeqMod
                /\ number'[c][i] = (last'[c] + 1) % SeqMod
  <2>1. /\ loop[c][i] \in {"top", "inc"} => seq[c] = last[c]
        /\ loop[c][i] = "build" => seq[c] = (last[c] + 1) % SeqMod
        /\ loop[c][i] \in {"send", "send_timed"} =>
             seq[c] = (last[c] + 1) % SeqMod /\ number[c][i] = (last[c] + 1) % SeqMod
    BY <1>2 DEF Loop
  <2>2. CASE LoopTest(c, i)
    BY <2>1, <2>2 DEF LoopTest, At, TypeOK, history
  <2>3. CASE LoopInc(c, i)
    BY <2>1, <2>3 DEF LoopInc, At, TypeOK, history
  <2>4. CASE LoopBuild(c, i)
    BY <2>1, <2>4 DEF LoopBuild, At, TypeOK, history
  <2>5. CASE LoopSend(c, i)
    BY <2>1, <2>5 DEF LoopSend, At, TypeOK
  <2>6. CASE LoopBreak(c, i)
    BY <2>1, <2>6 DEF LoopBreak, At, TypeOK, history
  <2> QED BY <2>2, <2>3, <2>4, <2>5, <2>6 DEF Pusher
<1>3. \A j \in Loops : Alive(c, j)' => Alive(c, j)
  BY <1>1 DEF Alive
<1>4. /\ Starting(c)' <=> Starting(c)
      /\ Acked(c)' <=> Acked(c)
  BY <1>1 DEF Starting, Acked
<1>5. ASSUME alone[c]
      PROVE  /\ ~Starting(c) /\ ~Acked(c)
             /\ \A j \in Loops : j # i => loop'[c][j] = "off"
  BY <1>1, <1>5 DEF Loop, Alive, Starting
<1>6. Loop(c)'
  <2>1. alone'[c] => \A j, k \in Loops : Alive(c, j)' /\ Alive(c, k)' => j = k
    BY <1>1, <1>3 DEF Loop
  <2>2. ~stopped'[c] => alone'[c]
    BY <1>1 DEF Loop
  <2>3. ~stopped'[c] /\ ~ev'[c] /\ pc'[c] # "done" =>
          ~Starting(c)' /\ \A j \in Loops : ~Alive(c, j)'
    BY <1>1, <1>3, <1>4 DEF Loop
  <2>4. ASSUME alone'[c], NEW j \in Loops
        PROVE  /\ loop'[c][j] \in {"top", "inc"} => seq'[c] = last'[c]
               /\ loop'[c][j] = "build" => seq'[c] = (last'[c] + 1) % SeqMod
               /\ loop'[c][j] \in {"send", "send_timed"} =>
                    /\ seq'[c] = (last'[c] + 1) % SeqMod
                    /\ number'[c][j] = (last'[c] + 1) % SeqMod
    <3>1. CASE j = i
      BY <1>1, <1>2, <2>4, <3>1
    <3>2. CASE j # i
      BY <1>1, <1>5, <2>4, <3>2
    <3> QED BY <3>1, <3>2
  <2>5. alone'[c] => ~Starting(c)' /\ ~Acked(c)'
    BY <1>1, <1>4, <1>5
  <2> QED BY <2>1, <2>2, <2>3, <2>4, <2>5 DEF Loop
<1> QED BY <1>1, <1>6, OthersKept

---------------------------------------------------------------------------
(* The results.                                                            *)

LEMMA InitInv == Init => IInv
<1> SUFFICES ASSUME Init PROVE IInv
  OBVIOUS
<1>1. <<>> \in Seq(Requests) /\ <<>> \in Seq(Nat) /\ Len(writes) = 0
  BY EmptySeq DEF Init
<1>2. 0 \in 0..Window /\ 0 \in 0..SeqMod - 1 /\ \A c \in Clients : Quota[c] \in Nat
  BY BoundsAssumption
<1>3. TypeOK
  BY <1>1, <1>2, SpentAssumption DEF Init, TypeOK, HandlerAt, Replies
<1>4. Inside = {} /\ Popping = {} /\ Trimming = {}
  BY DEF Init, Inside, Popping, Trimming
<1>5. CurrentExact
  BY <1>4, FS_EmptySet DEF Init, CurrentExact, Inside
<1>6. OneLoop /\ FirstStart /\ InStep
  BY DEF Init, OneLoop, FirstStart, InStep, Alive, Starting, Acked
<1>7. Enough /\ Numbered /\ Bounded
  <2>1. Enough /\ Numbered
    BY <1>1, <1>4 DEF Init, Enough, Numbered
  <2>2. Bounded
    BY <1>1, Finite, BoundsAssumption DEF Bounded
  <2> QED BY <2>1, <2>2
<1> QED BY <1>3, <1>5, <1>6, <1>7 DEF IInv

LEMMA NextInv ==
  ASSUME IInv, [Next]_vars
  PROVE  IInv'
<1>1. CASE UNCHANGED vars
  <2>1. TypeOK' /\ CurrentExact'
    BY <1>1 DEF vars, sock, cyclic, audit, history, IInv, TypeOK, CurrentExact
  <2>2. OneLoop' /\ FirstStart' /\ InStep'
    BY <1>1 DEF vars, cyclic, history, IInv, OneLoop, FirstStart, InStep, Alive, Starting, Acked
  <2>3. Enough' /\ Numbered' /\ Bounded'
    BY <1>1 DEF vars, audit, IInv, Enough, Numbered, Bounded, Popping, Trimming
  <2> QED BY <2>1, <2>2, <2>3 DEF IInv
<1>2. \A d \in Clients : Loop(d)
  BY LoopIs DEF IInv
<1>3. (\A d \in Clients : Loop(d))' => OneLoop' /\ FirstStart' /\ InStep'
  BY DEF Loop, OneLoop, FirstStart, InStep
<1>4. ASSUME NEW c \in Clients, Client(c) PROVE IInv'
  <2>1. TypeOK'
    BY <1>4, ClientTypes DEF IInv
  <2>2. UNCHANGED <<pc, reply, cyclic, audit, current, history>>
    BY <1>4 DEF Client, Connect, Send, Read, Close
  <2>3. CurrentExact' /\ Enough' /\ Numbered' /\ Bounded'
    BY <2>2 DEF IInv, CurrentExact, audit, Enough, Numbered, Bounded, Popping, Trimming
  <2> QED BY <1>2, <1>3, <1>4, <2>1, <2>3, ClientLoop DEF IInv
<1>5. ASSUME NEW c \in Clients, Handler(c) PROVE IInv'
  <2>1. TypeOK' /\ CurrentExact'
    BY <1>5, HandlerTypes, HandlerCounted DEF IInv
  <2>2. Enough' /\ Numbered' /\ Bounded'
    BY <1>5, HandlerAudit DEF IInv, Audit
  <2> QED BY <1>2, <1>3, <1>5, <2>1, <2>2, HandlerLoop DEF IInv
<1>6. ASSUME NEW c \in Clients, NEW i \in Loops, Pusher(c, i) PROVE IInv'
  <2>1. TypeOK'
    BY <1>6, PusherTypes DEF IInv
  <2>2. UNCHANGED <<pc, current, audit>>
    BY <1>6 DEF Pusher, LoopTest, LoopInc, LoopBuild, LoopSend, LoopBreak
  <2>3. CurrentExact' /\ Enough' /\ Numbered' /\ Bounded'
    BY <2>2 DEF IInv, CurrentExact, audit, Enough, Numbered, Bounded, Popping, Trimming
  <2> QED BY <1>2, <1>3, <1>6, <2>1, <2>3, PusherLoop DEF IInv
<1> QED BY <1>1, <1>4, <1>5, <1>6 DEF Next

\* What the results below rest on, for any number of connections and loops.
THEOREM Inductive == Spec => []IInv
<1>1. IInv /\ [Next]_vars => IInv'
  BY NextInv
<1> QED BY InitInv, <1>1, PTL DEF Spec

\* The handlers, the loops and what they share keep their types: the counter of the
\* connections, for one, never falls below zero.
THEOREM TypeCorrect == Spec => []TypeOK
<1>1. IInv => TypeOK
  BY DEF IInv
<1> QED BY <1>1, Inductive, PTL

\* Whatever ends a handler, the connections counted are those inside.
THEOREM ConnectionsCounted == Spec => []CurrentExact
<1>1. IInv => CurrentExact
  BY DEF IInv
<1> QED BY <1>1, Inductive, PTL

\* However many handlers trim together, the trail is the newest writes in order, and no
\* shorter than MaxLen by more than the handlers.
THEOREM AuditTrail == Spec => []AuditKeepsNewest
<1>1. IInv => AuditKeepsNewest
  <2> SUFFICES ASSUME IInv PROVE AuditKeepsNewest
    OBVIOUS
  <2>1. TypeOK /\ Enough /\ Numbered /\ Bounded
    BY DEF IInv
  <2>2. Len(writes) >= logged \/ Len(writes) >= MaxLen + 1 - Cardinality(Clients)
    BY <2>1, Finite, WritesType, BoundsAssumption DEF Enough
  <2> QED BY <2>1, <2>2 DEF AuditKeepsNewest, Numbered, Bounded, Trimming
<1> QED BY <1>1, Inductive, PTL

\* However a client pipelines its starts, a connection has one loop until it is stopped.
THEOREM OneLoopPerStart == Spec => []OneLoopUntilStop
<1>1. IInv => OneLoopUntilStop
  <2> SUFFICES ASSUME IInv, NEW c \in Clients, ~stopped[c]
               PROVE  Cardinality({i \in Loops : loop[c][i] # "off"}) <= 1
    BY DEF OneLoopUntilStop
  <2> DEFINE L == {i \in Loops : loop[c][i] # "off"}
  <2>1. \A i, j \in L : i = j
    BY DEF IInv, OneLoop, FirstStart, Alive
  <2>2. CASE L = {}
    BY <2>2, FS_EmptySet
  <2>3. CASE L # {}
    <3>1. PICK i \in L : TRUE
      BY <2>3
    <3>2. L = {i}
      BY <2>1, <3>1
    <3>3. Cardinality({i}) = 1
      BY FS_Singleton
    <3> HIDE DEF L
    <3>4. Cardinality(L) = 1
      BY <3>2, <3>3
    <3>5. Cardinality(L) <= 1
      BY <3>4
    <3> QED BY <3>5 DEF L
  <2> QED BY <2>2, <2>3
<1> QED BY <1>1, Inductive, PTL

\* Frames since a start that found no older loop are numbered without a gap, for any
\* modulus, whatever the other connections and their loops do.
THEOREM FramesNumbered == Spec => NumbersConsecutive
<1>1. IInv /\ [Next]_vars =>
        [\A c \in Clients, i \in Loops :
           LoopSend(c, i) /\ alone[c] => number[c][i] = (last[c] + 1) % SeqMod]_vars
  BY DEF IInv, InStep, LoopSend
<1> QED BY <1>1, Inductive, PTL DEF Spec, NumbersConsecutive
---------------------------------------------------------------------------
(* Progress: the safety half of StopEndsPush and CleanedUp.                *)

\* Steps to its end of a push loop at l, once the Event is cleared.
StepsFrom(l) ==
  CASE l = "off" -> 0
    [] l = "top" -> 1
    [] l \in {"send", "send_timed"} -> 2
    [] l = "build" -> 3
    [] l = "inc" -> 4

PushLeft(c, i) == StepsFrom(loop[c][i])

\* While the Event is cleared every step of a push loop brings its end nearer, and no
\* step of another thread takes it further away but the spawn of a start. Where the
\* handler is over there is no such start: the Event stays cleared and no loop begins.
PushesEnd ==
  [][\A c \in Clients, i \in Loops :
       /\ ~ev[c] /\ Pusher(c, i) => PushLeft(c, i)' < PushLeft(c, i)
       /\ ~Pusher(c, i) /\ ~Spawn(c) => PushLeft(c, i)' = PushLeft(c, i)
       /\ pc[c] = "done" =>
            pc'[c] = "done" /\ ~ev'[c] /\ PushLeft(c, i)' <= PushLeft(c, i)]_vars

\* The finally block leaves the Event cleared.
Quiet == \A c \in Clients : pc[c] = "done" => ~ev[c]

LEMMA StepsAt ==
  /\ StepsFrom("off") = 0 /\ StepsFrom("top") = 1 /\ StepsFrom("send") = 2
  /\ StepsFrom("send_timed") = 2 /\ StepsFrom("build") = 3 /\ StepsFrom("inc") = 4
BY DEF StepsFrom

LEMMA StepsAre ==
  ASSUME NEW c \in Clients, NEW i \in Loops
  PROVE  PushLeft(c, i) = StepsFrom(loop[c][i]) /\ PushLeft(c, i)' = StepsFrom(loop'[c][i])
BY DEF PushLeft, StepsFrom

LEMMA PushNear ==
  ASSUME TypeOK, NEW c \in Clients, NEW i \in Loops, ~ev[c], Pusher(c, i)
  PROVE  PushLeft(c, i)' < PushLeft(c, i)
<1>1. \A l : At(c, i, l) => loop'[c][i] = l
  BY DEF At, TypeOK
<1>2. <<loop[c][i], loop'[c][i]>> \in
        {<<"top", "off">>, <<"inc", "build">>, <<"build", "send">>, <<"build", "send_timed">>,
         <<"send", "top">>, <<"send_timed", "top">>, <<"send", "off">>, <<"send_timed", "off">>}
  BY <1>1 DEF Pusher, LoopTest, LoopInc, LoopBuild, LoopSend, LoopBreak
<1> QED BY <1>2, StepsAt, StepsAre

\* Only a loop itself and the spawn of a start change where a loop is.
LEMMA PushKept ==
  ASSUME TypeOK, [Next]_vars, NEW c \in Clients, NEW i \in Loops, ~Pusher(c, i), ~Spawn(c)
  PROVE  loop'[c][i] = loop[c][i]
<1>1. ASSUME NEW d \in Clients, Client(d) PROVE loop' = loop
  BY <1>1 DEF Client, Connect, Send, Read, Close, cyclic
<1>2. ASSUME NEW d \in Clients, Handler(d), ~Spawn(d) PROVE loop' = loop
  BY <1>2 DEF Handler, Accept, TakeSimple, TakeProbe, TakeWrite, TakeStart, ResetSeq, TakeStop,
              Drain, Drained, Log, TrimTest, TrimPop, SendReply, Leave, Cleanup, Takes, Sends,
              cyclic
<1>3. ASSUME NEW d \in Clients, Spawn(d) PROVE loop'[c][i] = loop[c][i]
  <2>1. d # c
    BY <1>3
  <2>2. \E j \in Loops : loop' = [loop EXCEPT ![d][j] = "top"]
    BY <1>3 DEF Spawn
  <2> QED BY <2>1, <2>2 DEF TypeOK
<1>4. ASSUME NEW d \in Clients, NEW j \in Loops, Pusher(d, j) PROVE loop'[c][i] = loop[c][i]
  <2>1. d # c \/ j # i
    BY <1>4
  <2>2. \E l : loop' = [loop EXCEPT ![d][j] = l]
    BY <1>4 DEF Pusher, LoopTest, LoopInc, LoopBuild, LoopSend, LoopBreak, At
  <2> QED BY <2>1, <2>2 DEF TypeOK
<1>5. CASE UNCHANGED vars
  BY <1>5 DEF vars, cyclic
<1> QED BY <1>1, <1>2, <1>3, <1>4, <1>5 DEF Next

\* A handler that is over stays so, and nobody else sets its Event.
LEMMA DoneStays ==
  ASSUME TypeOK, [Next]_vars, NEW c \in Clients, pc[c] = "done", ~ev[c]
  PROVE  pc'[c] = "done" /\ ~ev'[c] /\ ~Spawn(c)
<1>1. ~Handler(c) /\ ~Spawn(c)
  BY DEF Handler, Accept, TakeSimple, TakeProbe, TakeWrite, TakeStart, ResetSeq, TakeStop,
         Drain, Drained, Log, TrimTest, TrimPop, SendReply, Spawn, Leave, Cleanup, Takes
<1>2. ASSUME NEW d \in Clients, Client(d) PROVE UNCHANGED <<pc, ev>>
  BY <1>2 DEF Client, Connect, Send, Read, Close, cyclic
<1>3. ASSUME NEW d \in Clients, Handler(d) PROVE pc'[c] = pc[c] /\ ev'[c] = ev[c]
  <2>1. d # c
    BY <1>1, <1>3
  <2>2. \E l : pc' = [pc EXCEPT ![d] = l] \/ pc' = pc
    BY <1>3 DEF Handler, Accept, TakeSimple, TakeProbe, TakeWrite, TakeStart, ResetSeq, TakeStop,
                Drain, Drained, Log, TrimTest, TrimPop, SendReply, Spawn, Leave, Cleanup, Goto,
                Answer
  <2>3. ev' = ev \/ \E b : ev' = [ev EXCEPT ![d] = b]
    BY <1>3 DEF Handler, Accept, TakeSimple, TakeProbe, TakeWrite, TakeStart, ResetSeq, TakeStop,
                Drain, Drained, Log, TrimTest, TrimPop, SendReply, Spawn, Leave, Cleanup, cyclic
  <2> QED BY <2>1, <2>2, <2>3 DEF TypeOK
<1>4. ASSUME NEW d \in Clients, NEW j \in Loops, Pusher(d, j) PROVE UNCHANGED <<pc, ev>>
  BY <1>4 DEF Pusher, LoopTest, LoopInc, LoopBuild, LoopSend, LoopBreak
<1>5. CASE UNCHANGED vars
  BY <1>1, <1>5 DEF vars, cyclic
<1> QED BY <1>1, <1>2, <1>3, <1>4, <1>5 DEF Next

LEMMA QuietKept ==
  ASSUME TypeOK, [Next]_vars, Quiet
  PROVE  Quiet'
<1> SUFFICES ASSUME NEW c \in Clients, pc'[c] = "done" PROVE ~ev'[c]
  BY DEF Quiet
<1>1. CASE pc[c] = "done"
  BY <1>1, DoneStays DEF Quiet
<1>2. CASE pc[c] # "done"
  <2>1. ASSUME NEW d \in Clients, Client(d) PROVE UNCHANGED pc
    BY <2>1 DEF Client, Connect, Send, Read, Close
  <2>2. ASSUME NEW d \in Clients, NEW j \in Loops, Pusher(d, j) PROVE UNCHANGED pc
    BY <2>2 DEF Pusher, LoopTest, LoopInc, LoopBuild, LoopSend, LoopBreak
  <2>3. UNCHANGED vars => UNCHANGED pc
    BY DEF vars
  <2>4. PICK d \in Clients : Handler(d)
    BY <1>2, <2>1, <2>2, <2>3 DEF Next
  <2>5. CASE Cleanup(d)
    <3>1. pc' = [pc EXCEPT ![d] = "done"] /\ ev' = [ev EXCEPT ![d] = FALSE]
      BY <2>5 DEF Cleanup, Goto
    <3>2. d = c
      BY <1>2, <3>1 DEF TypeOK
    <3> QED BY <3>1, <3>2 DEF TypeOK
  <2>6. CASE ~Cleanup(d)
    <3>1. ASSUME NEW l, Goto(d, l), l # "done" PROVE pc'[c] # "done"
      BY <1>2, <3>1 DEF Goto, TypeOK
    <3>2. ASSUME NEW r, Answer(d, r) PROVE pc'[c] # "done"
      BY <3>1, <3>2 DEF Answer
    <3>3. CASE Accept(d) \/ TakeProbe(d) \/ Log(d) \/ TrimPop(d) \/ Spawn(d) \/ Leave(d)
      BY <3>1, <3>3 DEF Accept, TakeProbe, Log, TrimPop, Spawn, Leave
    <3>4. CASE TakeSimple(d) \/ TakeStop(d) \/ ResetSeq(d) \/ Drained(d)
      BY <3>2, <3>4 DEF TakeSimple, TakeStop, ResetSeq, Drained
    <3>5. CASE TakeStart(d) \/ TrimTest(d)
      BY <3>1, <3>2, <3>5 DEF TakeStart, TrimTest
    <3>6. CASE TakeWrite(d) \/ SendReply(d)
      <4>1. \E l \in {"log", "cleanup", "spawn", "recv"} : Goto(d, l)
        BY <3>6 DEF TakeWrite, SendReply
      <4> QED BY <3>1, <4>1
    <3>7. CASE Drain(d)
      BY <1>2, <3>7 DEF Drain
    <3> QED BY <2>4, <2>6, <3>3, <3>4, <3>5, <3>6, <3>7 DEF Handler
  <2> QED BY <2>5, <2>6
<1> QED BY <1>1, <1>2

LEMMA PushStep ==
  ASSUME TypeOK, Quiet, [Next]_vars, NEW c \in Clients, NEW i \in Loops
  PROVE  /\ ~ev[c] /\ Pusher(c, i) => PushLeft(c, i)' < PushLeft(c, i)
         /\ ~Pusher(c, i) /\ ~Spawn(c) => PushLeft(c, i)' = PushLeft(c, i)
         /\ pc[c] = "done" =>
              pc'[c] = "done" /\ ~ev'[c] /\ PushLeft(c, i)' <= PushLeft(c, i)
<1>1. ~Pusher(c, i) /\ ~Spawn(c) => PushLeft(c, i)' = PushLeft(c, i)
  BY PushKept, StepsAre
<1>2. ~ev[c] /\ Pusher(c, i) => PushLeft(c, i)' < PushLeft(c, i)
  BY PushNear
<1>3. PushLeft(c, i) \in 0..4
  <2>1. loop[c][i] \in {"off", "top", "inc", "build", "send", "send_timed"}
    BY DEF TypeOK
  <2> QED BY <2>1, StepsAt, StepsAre
<1>4. ASSUME pc[c] = "done"
      PROVE  pc'[c] = "done" /\ ~ev'[c] /\ PushLeft(c, i)' <= PushLeft(c, i)
  <2>1. ~ev[c]
    BY <1>4 DEF Quiet
  <2>2. pc'[c] = "done" /\ ~ev'[c] /\ ~Spawn(c)
    BY <1>4, <2>1, DoneStays
  <2>3. CASE Pusher(c, i)
    <3>1. PushLeft(c, i)' < PushLeft(c, i) /\ PushLeft(c, i)' \in Int
      <4>1. loop'[c][i] \in {"off", "top", "build", "send", "send_timed"}
        BY <2>3, <2>1 DEF Pusher, LoopTest, LoopInc, LoopBuild, LoopSend, LoopBreak, At, TypeOK
      <4> QED BY <1>2, <2>1, <2>3, <4>1, StepsAt, StepsAre
    <3> QED BY <1>3, <2>2, <3>1
  <2>4. CASE ~Pusher(c, i)
    BY <1>1, <1>3, <2>2, <2>4
  <2> QED BY <2>3, <2>4
<1> QED BY <1>1, <1>2, <1>4

\* A push loop has four steps left at most, whatever the pushes meet; a stop lets it take
\* no other and only a new start renews them. Once the handler is over nothing does.
THEOREM PushesShrink ==
  Spec => [](\A c \in Clients, i \in Loops : PushLeft(c, i) \in 0..4) /\ PushesEnd
<1>1. TypeOK => \A c \in Clients, i \in Loops : PushLeft(c, i) \in 0..4
  <2> SUFFICES ASSUME TypeOK, NEW c \in Clients, NEW i \in Loops PROVE PushLeft(c, i) \in 0..4
    OBVIOUS
  <2>1. loop[c][i] \in {"off", "top", "inc", "build", "send", "send_timed"}
    BY DEF TypeOK
  <2> QED BY <2>1, StepsAt, StepsAre
<1>2. Init => Quiet
  BY DEF Init, Quiet
<1>3. TypeOK /\ Quiet /\ [Next]_vars => Quiet'
  BY QuietKept
<1>4. TypeOK /\ Quiet /\ [Next]_vars =>
        [\A c \in Clients, i \in Loops :
           /\ ~ev[c] /\ Pusher(c, i) => PushLeft(c, i)' < PushLeft(c, i)
           /\ ~Pusher(c, i) /\ ~Spawn(c) => PushLeft(c, i)' = PushLeft(c, i)
           /\ pc[c] = "done" =>
                pc'[c] = "done" /\ ~ev'[c] /\ PushLeft(c, i)' <= PushLeft(c, i)]_vars
  BY PushStep
<1> QED BY <1>1, <1>2, <1>3, <1>4, TypeCorrect, PTL DEF Spec, PushesEnd

---------------------------------------------------------------------------
(* Progress of the handlers: the other half of CleanedUp.                  *)

\* How far a handler is from its end, five for every request that waits and the rest for
\* its place: to trim the audit trail it goes to and fro between "trim" and "pop".
Ahead == [off |-> 3, log |-> 6, reset |-> 5, drain |-> 5, trim |-> 5, pop |-> 5, reply |-> 4,
          spawn |-> 3, recv |-> 2, cleanup |-> 1, done |-> 0]
HandlerLeft(c) == Ahead[pc[c]] + 5 * Len(rx[c])

\* How far the trail is from being trimmed.
Testing == [l \in HandlerAt |-> IF l = "trim" THEN 1 ELSE 0]
TrailLeft(c) == 2 * Len(writes) + Testing[pc[c]]

\* Every step of a handler brings its end nearer, or the end of its trimming; only a
\* request of its client takes the first further away, and only a write that another
\* handler logs meanwhile the second.
HandlersNear ==
  [][\A c \in Clients :
       /\ Handler(c) =>
            \/ HandlerLeft(c)' < HandlerLeft(c)
            \/ HandlerLeft(c)' = HandlerLeft(c) /\ TrailLeft(c)' < TrailLeft(c)
       /\ ~Handler(c) /\ ~Send(c) => HandlerLeft(c)' = HandlerLeft(c)
       /\ ~Handler(c) /\ (\A d \in Clients : ~Log(d)) => TrailLeft(c)' <= TrailLeft(c)]_vars

LEMMA LeftAre ==
  ASSUME NEW c \in Clients
  PROVE  /\ HandlerLeft(c) = Ahead[pc[c]] + 5 * Len(rx[c])
         /\ HandlerLeft(c)' = Ahead[pc'[c]] + 5 * Len(rx'[c])
         /\ TrailLeft(c) = 2 * Len(writes) + Testing[pc[c]]
         /\ TrailLeft(c)' = 2 * Len(writes') + Testing[pc'[c]]
BY DEF HandlerLeft, TrailLeft, Ahead, Testing, HandlerAt

LEMMA AheadOf ==
  /\ \A l \in HandlerAt : Ahead[l] \in 0..6 /\ Testing[l] \in {0, 1}
  /\ Ahead["off"] = 3 /\ Ahead["log"] = 6 /\ Ahead["reset"] = 5 /\ Ahead["drain"] = 5
  /\ Ahead["trim"] = 5 /\ Ahead["pop"] = 5 /\ Ahead["reply"] = 4 /\ Ahead["spawn"] = 3
  /\ Ahead["recv"] = 2 /\ Ahead["cleanup"] = 1 /\ Ahead["done"] = 0
  /\ Testing["trim"] = 1 /\ Testing["pop"] = 0
BY DEF Ahead, Testing, HandlerAt

LEMMA LeftTyped ==
  ASSUME TypeOK, NEW c \in Clients
  PROVE  /\ pc[c] \in HandlerAt /\ Ahead[pc[c]] \in 0..6 /\ Testing[pc[c]] \in {0, 1}
         /\ Len(rx[c]) \in Nat /\ Len(writes) \in Nat
         /\ HandlerLeft(c) \in Nat /\ TrailLeft(c) \in Nat
<1>1. pc[c] \in HandlerAt /\ rx[c] \in Seq(Requests) /\ writes \in Seq(Nat)
  BY DEF TypeOK
<1>2. /\ Ahead[pc[c]] \in 0..6 /\ Testing[pc[c]] \in {0, 1}
      /\ Len(rx[c]) \in Nat /\ Len(writes) \in Nat
  BY <1>1, AheadOf, LenProperties
<1>3. Ahead[pc[c]] + 5 * Len(rx[c]) \in Nat /\ 2 * Len(writes) + Testing[pc[c]] \in Nat
  BY <1>2
<1>4. /\ HandlerLeft(c) = Ahead[pc[c]] + 5 * Len(rx[c])
      /\ TrailLeft(c) = 2 * Len(writes) + Testing[pc[c]]
  BY LeftAre
<1> QED BY <1>1, <1>2, <1>3, <1>4

LEMMA Fewer ==
  ASSUME NEW x \in 0..6, NEW y \in 0..6, NEW n \in Nat, NEW m \in Nat
  PROVE  /\ x < y => x + 5 * n < y + 5 * n
         /\ m < n /\ x <= y + 4 => x + 5 * m < y + 5 * n
OBVIOUS

\* A step to a place nearer the end that takes no request.
LEMMA GoesNear ==
  ASSUME TypeOK, NEW c \in Clients, NEW l \in HandlerAt, Goto(c, l), UNCHANGED rx,
         Ahead[l] < Ahead[pc[c]]
  PROVE  HandlerLeft(c)' < HandlerLeft(c)
<1>1. pc'[c] = l /\ rx'[c] = rx[c]
  BY DEF Goto, TypeOK
<1>2. Ahead[l] \in 0..6 /\ Ahead[pc[c]] \in 0..6 /\ Len(rx[c]) \in Nat
  BY AheadOf, LeftTyped
<1>3. Ahead[l] + 5 * Len(rx[c]) < Ahead[pc[c]] + 5 * Len(rx[c])
  BY <1>2, Fewer
<1> QED BY <1>1, <1>3, LeftAre

\* A request that is taken pays for what it makes the handler do.
LEMMA TakesNear ==
  ASSUME TypeOK, NEW c \in Clients, NEW kinds, Takes(c, kinds), NEW l \in HandlerAt, Goto(c, l)
  PROVE  HandlerLeft(c)' < HandlerLeft(c)
<1>1. pc[c] = "recv" /\ rx[c] # <<>> /\ rx' = [rx EXCEPT ![c] = Tail(@)]
  BY DEF Takes
<1>2. rx \in [Clients -> Seq(Requests)] /\ rx[c] \in Seq(Requests) /\ pc \in [Clients -> HandlerAt]
  BY DEF TypeOK
<1>3. pc'[c] = l /\ rx'[c] = Tail(rx[c])
  BY <1>1, <1>2 DEF Goto
<1>4. /\ Tail(rx[c]) \in Seq(Requests) /\ Len(Tail(rx[c])) = Len(rx[c]) - 1
      /\ Len(rx[c]) \in Nat /\ Len(Tail(rx[c])) \in Nat
  <2>1. Tail(rx[c]) \in Seq(Requests) /\ Len(Tail(rx[c])) = Len(rx[c]) - 1
    BY <1>1, <1>2, HeadTailProperties
  <2> QED BY <1>2, <2>1, LenProperties
<1>5. Len(Tail(rx[c])) < Len(rx[c])
  BY <1>4
<1>6. Ahead[l] \in 0..6 /\ Ahead[pc[c]] = 2
  BY <1>1, AheadOf
<1>7. Ahead[l] + 5 * Len(Tail(rx[c])) < Ahead[pc[c]] + 5 * Len(rx[c])
  BY <1>4, <1>5, <1>6, Fewer
<1> QED BY <1>3, <1>7, LeftAre

LEMMA HandlerNear ==
  ASSUME TypeOK, Enough, NEW c \in Clients, Handler(c)
  PROVE  \/ HandlerLeft(c)' < HandlerLeft(c)
         \/ HandlerLeft(c)' = HandlerLeft(c) /\ TrailLeft(c)' < TrailLeft(c)
<1>1. /\ pc \in [Clients -> HandlerAt] /\ rx \in [Clients -> Seq(Requests)]
      /\ pc[c] \in HandlerAt
  BY DEF TypeOK
<1>2. CASE TakeSimple(c) \/ TakeProbe(c) \/ TakeWrite(c) \/ TakeStart(c) \/ TakeStop(c)
  <2>1. \E kinds : Takes(c, kinds)
    BY <1>2 DEF TakeSimple, TakeProbe, TakeWrite, TakeStart, TakeStop
  <2>2. \E l \in {"reply", "drain", "log", "cleanup", "reset"} : Goto(c, l)
    BY <1>2 DEF TakeSimple, TakeProbe, TakeWrite, TakeStart, TakeStop, Answer
  <2> QED BY <2>1, <2>2, TakesNear DEF HandlerAt
<1>3. CASE \/ Accept(c) \/ ResetSeq(c) \/ Drained(c) \/ Log(c) \/ SendReply(c) \/ Spawn(c)
           \/ Leave(c) \/ Cleanup(c)
  <2>1. UNCHANGED rx
    BY <1>3 DEF Accept, ResetSeq, Drained, Log, SendReply, Spawn, Leave, Cleanup, sock
  <2>2. \E w \in {<<"off", "recv">>, <<"reset", "reply">>, <<"drain", "reply">>, <<"log", "trim">>,
                  <<"reply", "spawn">>, <<"reply", "recv">>, <<"spawn", "recv">>,
                  <<"recv", "cleanup">>, <<"reply", "cleanup">>, <<"cleanup", "done">>} :
          pc[c] = w[1] /\ Goto(c, w[2])
    BY <1>3 DEF Accept, ResetSeq, Drained, Log, SendReply, Spawn, Leave, Cleanup, Answer
  <2>3. \E l \in HandlerAt : Goto(c, l) /\ Ahead[l] < Ahead[pc[c]]
    BY <2>2, AheadOf DEF HandlerAt
  <2> QED BY <2>1, <2>3, GoesNear
<1>4. CASE Drain(c)
  <2>1. rx[c] # <<>> /\ rx'[c] = <<>> /\ pc'[c] = pc[c] /\ rx[c] \in Seq(Requests)
    BY <1>1, <1>4 DEF Drain
  <2>2. Len(rx[c]) \in Nat /\ Len(rx[c]) # 0 /\ Len(rx'[c]) = 0
    BY <2>1, LenProperties, EmptySeq
  <2>3. Ahead[pc[c]] \in 0..6
    BY LeftTyped
  <2>4. Ahead[pc[c]] + 5 * Len(rx'[c]) < Ahead[pc[c]] + 5 * Len(rx[c])
    BY <2>2, <2>3
  <2> QED BY <2>1, <2>4, LeftAre
<1>5. CASE TrimTest(c) /\ ~(Len(writes) > MaxLen)
  <2>1. UNCHANGED rx /\ pc[c] = "trim" /\ Goto(c, "reply")
    BY <1>5 DEF TrimTest, Answer, sock
  <2> QED BY <2>1, AheadOf, GoesNear DEF HandlerAt
<1>6. CASE TrimTest(c) /\ Len(writes) > MaxLen
  <2>1. UNCHANGED <<rx, writes>> /\ pc[c] = "trim" /\ pc'[c] = "pop"
    BY <1>1, <1>6 DEF TrimTest, Goto, sock, audit
  <2>2. HandlerLeft(c)' = HandlerLeft(c)
    BY <2>1, AheadOf, LeftAre
  <2>3. Len(writes) \in Nat
    BY LeftTyped
  <2>4. TrailLeft(c)' < TrailLeft(c)
    BY <2>1, <2>3, AheadOf, LeftAre
  <2> QED BY <2>2, <2>4
<1>7. CASE TrimPop(c)
  <2>1. UNCHANGED rx /\ pc[c] = "pop" /\ pc'[c] = "trim" /\ writes' = Tail(writes)
    BY <1>1, <1>7 DEF TrimPop, Goto, sock
  <2>2. HandlerLeft(c)' = HandlerLeft(c)
    BY <2>1, AheadOf, LeftAre
  <2>3. writes # <<>>
    BY <2>1, PopsSomething
  <2>4. Len(Tail(writes)) = Len(writes) - 1 /\ Len(writes) \in Nat
    BY <2>3, WritesType, HeadTailProperties
  <2>5. TrailLeft(c)' < TrailLeft(c)
    <3>1. TrailLeft(c) = 2 * Len(writes) + 0 /\ TrailLeft(c)' = 2 * Len(Tail(writes)) + 1
      BY <2>1, AheadOf, LeftAre
    <3> QED BY <2>4, <3>1
  <2> QED BY <2>2, <2>5
<1> QED BY <1>2, <1>3, <1>4, <1>5, <1>6, <1>7 DEF Handler

\* The others leave a handler where it is.
LEMMA HandlerKept ==
  ASSUME TypeOK, [Next]_vars, NEW c \in Clients, ~Handler(c)
  PROVE  pc'[c] = pc[c] /\ (~Send(c) => rx'[c] = rx[c])
<1>1. ASSUME NEW d \in Clients, Client(d)
      PROVE  pc'[c] = pc[c] /\ (~Send(c) => rx'[c] = rx[c])
  <2>1. CASE Send(d)
    <3>1. UNCHANGED pc /\ \E r : rx' = [rx EXCEPT ![d] = r]
      BY <2>1 DEF Send
    <3> QED BY <2>1, <3>1 DEF TypeOK
  <2>2. CASE ~Send(d)
    BY <1>1, <2>2 DEF Client, Connect, Read, Close
  <2> QED BY <2>1, <2>2
<1>2. ASSUME NEW d \in Clients, Handler(d) PROVE pc'[c] = pc[c] /\ rx'[c] = rx[c]
  <2>1. d # c
    BY <1>2
  <2>2. \E l : pc' = [pc EXCEPT ![d] = l] \/ pc' = pc
    BY <1>2 DEF Handler, Accept, TakeSimple, TakeProbe, TakeWrite, TakeStart, ResetSeq, TakeStop,
                Drain, Drained, Log, TrimTest, TrimPop, SendReply, Spawn, Leave, Cleanup, Goto,
                Answer
  <2>3. rx' = rx \/ \E r : rx' = [rx EXCEPT ![d] = r]
    BY <1>2 DEF Handler, Accept, TakeSimple, TakeProbe, TakeWrite, TakeStart, ResetSeq, TakeStop,
                Drain, Drained, Log, TrimTest, TrimPop, SendReply, Spawn, Leave, Cleanup, Takes,
                sock
  <2> QED BY <2>1, <2>2, <2>3 DEF TypeOK
<1>3. ASSUME NEW d \in Clients, NEW j \in Loops, Pusher(d, j) PROVE UNCHANGED <<pc, rx>>
  BY <1>3 DEF Pusher, LoopTest, LoopInc, LoopBuild, LoopSend, LoopBreak, sock
<1>4. CASE UNCHANGED vars
  BY <1>4 DEF vars, sock
<1> QED BY <1>1, <1>2, <1>3, <1>4 DEF Next

\* Nothing but a write that is logged makes the trail longer.
LEMMA TrailKept ==
  ASSUME TypeOK, Enough, [Next]_vars, \A d \in Clients : ~Log(d)
  PROVE  Len(writes') <= Len(writes)
<1>1. Len(writes) \in Nat
  BY WritesType
<1>2. ASSUME NEW d \in Clients, Client(d) PROVE UNCHANGED writes
  BY <1>2 DEF Client, Connect, Send, Read, Close, audit
<1>3. ASSUME NEW d \in Clients, Handler(d), ~TrimPop(d) PROVE UNCHANGED writes
  BY <1>3 DEF Handler, Accept, TakeSimple, TakeProbe, TakeWrite, TakeStart, ResetSeq, TakeStop,
              Drain, Drained, TrimTest, SendReply, Spawn, Leave, Cleanup, Takes, audit
<1>4. ASSUME NEW d \in Clients, TrimPop(d) PROVE Len(writes') <= Len(writes)
  <2>1. pc[d] = "pop" /\ writes' = Tail(writes)
    BY <1>4 DEF TrimPop
  <2>2. Len(Tail(writes)) = Len(writes) - 1
    BY <2>1, PopsSomething, WritesType, HeadTailProperties
  <2> QED BY <1>1, <2>1, <2>2
<1>5. ASSUME NEW d \in Clients, NEW j \in Loops, Pusher(d, j) PROVE UNCHANGED writes
  BY <1>5 DEF Pusher, LoopTest, LoopInc, LoopBuild, LoopSend, LoopBreak, audit
<1>6. CASE UNCHANGED vars
  BY <1>1, <1>6 DEF vars, audit
<1> QED BY <1>1, <1>2, <1>3, <1>4, <1>5, <1>6 DEF Next

LEMMA HandlerStep ==
  ASSUME IInv, [Next]_vars, NEW c \in Clients
  PROVE  /\ Handler(c) =>
              \/ HandlerLeft(c)' < HandlerLeft(c)
              \/ HandlerLeft(c)' = HandlerLeft(c) /\ TrailLeft(c)' < TrailLeft(c)
         /\ ~Handler(c) /\ ~Send(c) => HandlerLeft(c)' = HandlerLeft(c)
         /\ ~Handler(c) /\ (\A d \in Clients : ~Log(d)) => TrailLeft(c)' <= TrailLeft(c)
<1>1. TypeOK /\ Enough /\ TypeOK'
  BY NextInv DEF IInv
<1>2. ~Handler(c) /\ ~Send(c) => HandlerLeft(c)' = HandlerLeft(c)
  BY <1>1, HandlerKept, LeftAre
<1>3. ASSUME ~Handler(c), \A d \in Clients : ~Log(d) PROVE TrailLeft(c)' <= TrailLeft(c)
  <2>1. TrailLeft(c)' = 2 * Len(writes') + Testing[pc[c]]
    BY <1>1, <1>3, HandlerKept, LeftAre
  <2>2. Len(writes') <= Len(writes)
    BY <1>1, <1>3, TrailKept
  <2>3. Len(writes') \in Nat
    BY <1>1, LenProperties DEF TypeOK
  <2>4. Len(writes) \in Nat /\ Testing[pc[c]] \in {0, 1}
    BY <1>1, LeftTyped
  <2>5. TrailLeft(c) = 2 * Len(writes) + Testing[pc[c]]
    BY LeftAre
  <2> QED BY <2>1, <2>2, <2>3, <2>4, <2>5
<1> QED BY <1>1, <1>2, <1>3, HandlerNear

\* What is left of a handler and of its trimming are natural numbers, so a handler whose
\* client sends no more ends, unless other handlers keep filling the audit trail while it
\* trims: WriteTracker.log has no lock and no other bound.
THEOREM HandlersShrink ==
  Spec => [](\A c \in Clients : HandlerLeft(c) \in Nat /\ TrailLeft(c) \in Nat) /\ HandlersNear
<1>1. IInv => \A c \in Clients : HandlerLeft(c) \in Nat /\ TrailLeft(c) \in Nat
  BY LeftTyped DEF IInv
<1>2. IInv /\ [Next]_vars =>
        [\A c \in Clients :
           /\ Handler(c) =>
                \/ HandlerLeft(c)' < HandlerLeft(c)
                \/ HandlerLeft(c)' = HandlerLeft(c) /\ TrailLeft(c)' < TrailLeft(c)
           /\ ~Handler(c) /\ ~Send(c) => HandlerLeft(c)' = HandlerLeft(c)
           /\ ~Handler(c) /\ (\A d \in Clients : ~Log(d)) => TrailLeft(c)' <= TrailLeft(c)]_vars
  BY HandlerStep
<1> QED BY <1>1, <1>2, Inductive, PTL DEF Spec, HandlersNear
===========================================================================
