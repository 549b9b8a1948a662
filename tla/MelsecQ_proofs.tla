--------------------------- MODULE MelsecQ_proofs ---------------------------
(***************************************************************************)
(* Proofs about MelsecQ, for every set of connections, every set of frames *)
(* a client may send and any number of them.                               *)
(***************************************************************************)
EXTENDS MelsecQ, SequenceTheorems, TLAPS

---------------------------------------------------------------------------
(* The inductive invariant.                                                *)

\* While the handler goes on, what it has answered is all it has read.
InStep ==
  \A c \in Conns :
    /\ Len(wire[c]) <= asked[c]
    /\ pc[c] \in {"run", "pause"} => answered[c] = asked[c] - Len(wire[c])

IInv == TypeOK /\ NoSilentReplay /\ InStep

Entry == [src : 0..U16, flagged : BOOLEAN]

---------------------------------------------------------------------------
(* Lemmas.                                                                 *)

LEMMA U16Type == U16 \in Nat
BY DEF U16

\* The frame at the front of what was sent, when there is one.
LEMMA FrontType ==
  ASSUME TypeOK, NEW c \in Conns, wire[c] # <<>>
  PROVE  /\ Front(c) \in Frame /\ Front(c).src \in 0..U16
         /\ Tail(wire[c]) \in Seq(Frame) /\ Len(Tail(wire[c])) = Len(wire[c]) - 1
         /\ Len(wire[c]) \in Nat /\ Len(wire[c]) >= 1
<1>1. wire[c] \in Seq(Frame)
  BY DEF TypeOK
<1>2. Front(c) \in Frame /\ Tail(wire[c]) \in Seq(Frame) /\ Len(Tail(wire[c])) = Len(wire[c]) - 1
  BY <1>1, HeadTailProperties DEF Front
<1>3. Len(wire[c]) \in Nat /\ Len(wire[c]) >= 1
  BY <1>1, EmptySeq, LenProperties
<1>4. Front(c).src \in 0..U16
  BY <1>2 DEF Frame
<1> QED BY <1>2, <1>3, <1>4

\* The test for replays keeps its promise when a number is added: a number is flagged
\* when it is not above the last, and one not above an earlier number is either not
\* above the last, or the last itself fell at or below the earlier one and a flag is
\* already between them.
LEMMA FlagKept ==
  ASSUME NEW s \in Seq(Entry), NEW e \in Entry,
         NEW last \in Int, last = IF s = <<>> THEN -1 ELSE s[Len(s)].src,
         e.flagged = (e.src <= last),
         \A j \in DOMAIN s : \A i \in 1..(j - 1) :
           s[j].src <= s[i].src => \E k \in (i + 1)..j : s[k].flagged
  PROVE  LET t == Append(s, e)
         IN  \A j \in DOMAIN t : \A i \in 1..(j - 1) :
               t[j].src <= t[i].src => \E k \in (i + 1)..j : t[k].flagged
<1> DEFINE t == Append(s, e)
<1> DEFINE n == Len(s)
<1>1. /\ t \in Seq(Entry) /\ Len(t) = n + 1 /\ n \in Nat
      /\ \A i \in 1..n : t[i] = s[i]
      /\ t[n + 1] = e
  BY AppendProperties, LenProperties
<1>2. DOMAIN s = 1..n /\ DOMAIN t = 1..(n + 1)
  BY <1>1, LenProperties
<1>3. \A i \in 1..n : s[i].src \in Int
  <2> TAKE i \in 1..n
  <2>1. s[i] \in Entry
    BY <1>2, ElementOfSeq
  <2> QED BY <2>1, U16Type DEF Entry
<1>4. e.src \in Int
  BY U16Type DEF Entry
<1> SUFFICES ASSUME NEW j \in DOMAIN t, NEW i \in 1..(j - 1), t[j].src <= t[i].src
             PROVE  \E k \in (i + 1)..j : t[k].flagged
  OBVIOUS
<1>5. CASE j \in 1..n
  <2>1. i \in 1..n /\ t[j] = s[j] /\ t[i] = s[i]
    BY <1>1, <1>5
  <2>2. PICK k \in (i + 1)..j : s[k].flagged
    BY <2>1, <1>2, <1>5
  <2>3. k \in 1..n
    BY <1>1, <1>5
  <2> QED BY <1>1, <2>2, <2>3
<1>6. CASE j = n + 1
  <2>1. i \in 1..n /\ n >= 1 /\ n \in 1..n
    BY <1>1, <1>6
  <2>2. t[j] = e /\ t[i] = s[i] /\ e.src <= s[i].src
    BY <1>1, <1>6, <2>1
  <2>3. last = s[n].src
    BY <1>1, <2>1, EmptySeq
  <2>4. CASE e.src <= last
    <3>1. t[n + 1].flagged
      BY <1>1, <2>4
    <3> QED BY <3>1, <1>6, <2>1, <1>1
  <2>5. CASE ~(e.src <= last)
    <3>1. s[n].src <= s[i].src /\ i # n
      BY <1>3, <1>4, <2>1, <2>2, <2>3, <2>5
    <3>2. i \in 1..(n - 1)
      BY <3>1, <2>1, <1>1
    <3>3. PICK k \in (i + 1)..n : s[k].flagged
      BY <3>1, <3>2, <2>1, <1>2
    <3>4. k \in 1..n /\ k \in (i + 1)..j
      BY <1>1, <1>6, <2>1
    <3> QED BY <3>3, <3>4, <1>1
  <2> QED BY <2>4, <2>5
<1> QED BY <1>1, <1>2, <1>5, <1>6

---------------------------------------------------------------------------
(* Every action keeps the invariant.                                       *)

LEMMA InitInv == Init => IInv
<1> SUFFICES ASSUME Init PROVE IInv
  OBVIOUS
<1>1. TypeOK
  BY EmptySeq, U16Type DEF Init, TypeOK
<1>2. NoSilentReplay
  BY EmptySeq DEF Init, NoSilentReplay
<1>3. InStep
  <2> SUFFICES ASSUME NEW c \in Conns
               PROVE  Len(wire[c]) <= asked[c] /\ answered[c] = asked[c] - Len(wire[c])
    BY DEF InStep
  <2>1. wire[c] = <<>> /\ asked[c] = 0 /\ answered[c] = 0
    BY DEF Init
  <2>2. Len(wire[c]) = 0
    BY <2>1, EmptySeq
  <2>3. 0 <= 0 /\ 0 = 0 - 0
    OBVIOUS
  <2> QED BY <2>1, <2>2, <2>3
<1> QED BY <1>1, <1>2, <1>3 DEF IInv

\* What every step that handles no number leaves to show.
LEMMA NothingServed ==
  ASSUME IInv, UNCHANGED <<served, last_seq>>,
         pc' \in [Conns -> {"run", "pause", "close", "done"}],
         peer' \in [Conns -> {"open", "closed", "reset"}],
         wire' \in [Conns -> Seq(Frame)],
         asked' \in [Conns -> Nat] /\ answered' \in [Conns -> Nat],
         InStep'
  PROVE  IInv'
<1>1. TypeOK'
  BY DEF IInv, TypeOK
<1>2. NoSilentReplay'
  BY DEF IInv, NoSilentReplay
<1> QED BY <1>1, <1>2 DEF IInv

LEMMA SendInv ==
  ASSUME IInv, NEW c \in Conns, Send(c)
  PROVE  IInv'
<1> USE DEF IInv
<1>1. PICK f \in Frames : wire' = [wire EXCEPT ![c] = Append(@, f)]
  BY DEF Send
<1>2. f \in Frame
  BY FramesAssumption
<1>3. /\ Append(wire[c], f) \in Seq(Frame)
      /\ Len(Append(wire[c], f)) = Len(wire[c]) + 1
      /\ Len(wire[c]) \in Nat
  BY <1>2, AppendProperties, LenProperties DEF TypeOK
<1>4. /\ wire' \in [Conns -> Seq(Frame)]
      /\ asked' \in [Conns -> Nat] /\ asked' = [asked EXCEPT ![c] = @ + 1]
      /\ UNCHANGED <<pc, peer, last_seq, served, answered>>
  BY <1>1, <1>3 DEF Send, TypeOK
<1>5. ASSUME NEW d \in Conns
      PROVE  /\ Len(wire'[d]) <= asked'[d]
             /\ pc'[d] \in {"run", "pause"} => answered'[d] = asked'[d] - Len(wire'[d])
  <2>1. /\ Len(wire[d]) <= asked[d] /\ asked[d] \in Nat /\ Len(wire[d]) \in Nat
        /\ pc[d] \in {"run", "pause"} => answered[d] = asked[d] - Len(wire[d])
    BY LenProperties DEF InStep, TypeOK
  <2>2. \/ d = c /\ Len(wire'[d]) = Len(wire[d]) + 1 /\ asked'[d] = asked[d] + 1
        \/ wire'[d] = wire[d] /\ asked'[d] = asked[d]
    BY <1>1, <1>3, <1>4 DEF TypeOK
  <2> QED BY <2>1, <2>2, <1>4
<1>6. InStep'
  BY <1>5 DEF InStep
<1> QED BY <1>4, <1>6, NothingServed DEF TypeOK

\* A step that leaves the frames alone and does not send the handler on.
LEMMA IdleInv ==
  ASSUME IInv, NEW c \in Conns,
         UNCHANGED <<wire, last_seq, served, asked, answered>>,
         peer' \in [Conns -> {"open", "closed", "reset"}],
         \/ UNCHANGED pc
         \/ pc' = [pc EXCEPT ![c] = "close"] \/ pc' = [pc EXCEPT ![c] = "done"]
         \/ pc[c] = "pause" /\ pc' = [pc EXCEPT ![c] = "run"]
  PROVE  IInv'
<1> USE DEF IInv
<1>1. pc' \in [Conns -> {"run", "pause", "close", "done"}]
  BY DEF TypeOK
<1>2. InStep'
  BY DEF InStep, TypeOK
<1> QED BY <1>1, <1>2, NothingServed DEF TypeOK

\* A frame that is read is answered, or the handler ends.
LEMMA ReadInStep ==
  ASSUME IInv, NEW c \in Conns, Read(c), UNCHANGED asked,
         \/ Sent(c)
         \/ pc' = [pc EXCEPT ![c] = "close"] /\ UNCHANGED <<peer, answered>>
  PROVE  /\ pc' \in [Conns -> {"run", "pause", "close", "done"}]
         /\ peer' \in [Conns -> {"open", "closed", "reset"}]
         /\ wire' \in [Conns -> Seq(Frame)]
         /\ asked' \in [Conns -> Nat] /\ answered' \in [Conns -> Nat]
         /\ InStep'
         /\ Number(c) = answered[c] + 1 /\ Number(c) <= asked[c]
<1> USE DEF IInv
<1>1. /\ wire[c] # <<>> /\ pc[c] = "run"
      /\ wire' = [wire EXCEPT ![c] = Tail(@)]
  BY DEF Read, Running, Arrived
<1>2. /\ Tail(wire[c]) \in Seq(Frame) /\ Len(Tail(wire[c])) = Len(wire[c]) - 1
      /\ Len(wire[c]) \in Nat /\ Len(wire[c]) >= 1
  BY <1>1, FrontType
<1>3. Len(wire[c]) <= asked[c] /\ asked[c] \in Nat /\ answered[c] = asked[c] - Len(wire[c])
  BY <1>1 DEF InStep, TypeOK
<1>4. Number(c) = answered[c] + 1 /\ Number(c) <= asked[c] /\ Number(c) \in Nat
  BY <1>2, <1>3 DEF Number
<1>5. wire' \in [Conns -> Seq(Frame)] /\ asked' \in [Conns -> Nat]
  BY <1>1, <1>2 DEF TypeOK
<1>6. \/ pc' = [pc EXCEPT ![c] = "close"] /\ answered' = answered
      \/ pc' = [pc EXCEPT ![c] = "pause"] /\ answered' = [answered EXCEPT ![c] = Number(c)]
  BY DEF Sent
<1>7. peer' \in [Conns -> {"open", "closed", "reset"}]
  BY DEF Sent, TypeOK
<1>8. pc' \in [Conns -> {"run", "pause", "close", "done"}] /\ answered' \in [Conns -> Nat]
  <2>1. pc \in [Conns -> {"run", "pause", "close", "done"}] /\ answered \in [Conns -> Nat]
    BY DEF TypeOK
  <2>2. pc' \in [Conns -> {"run", "pause", "close", "done"}]
    BY <2>1, <1>6
  <2>3. answered' \in [Conns -> Nat]
    BY <2>1, <1>4, <1>6
  <2> QED BY <2>2, <2>3
<1>9. ASSUME NEW d \in Conns
      PROVE  /\ Len(wire'[d]) <= asked'[d]
             /\ pc'[d] \in {"run", "pause"} => answered'[d] = asked'[d] - Len(wire'[d])
  <2>1. CASE d = c
    <3>1. Len(wire'[c]) = Len(wire[c]) - 1 /\ asked'[c] = asked[c]
      BY <1>1, <1>2 DEF TypeOK
    <3>2. pc'[c] = "close" \/ answered'[c] = Number(c)
      BY <1>6 DEF TypeOK
    <3> QED BY <3>1, <3>2, <1>2, <1>3, <1>4, <2>1
  <2>2. CASE d # c
    <3>1. wire'[d] = wire[d] /\ asked'[d] = asked[d] /\ pc'[d] = pc[d] /\ answered'[d] = answered[d]
      BY <1>1, <1>6, <2>2 DEF TypeOK
    <3> QED BY <3>1 DEF InStep
  <2> QED BY <2>1, <2>2
<1>10. InStep'
  BY <1>9 DEF InStep
<1> QED BY <1>4, <1>5, <1>7, <1>8, <1>10

LEMMA ServeExtendedInv ==
  ASSUME IInv, NEW c \in Conns, ServeExtended(c)
  PROVE  IInv'
<1> USE DEF IInv
<1> DEFINE e == [src |-> Front(c).src, flagged |-> Replayed(c)]
<1>1. Read(c) /\ UNCHANGED asked
      /\ (Sent(c) \/ (pc' = [pc EXCEPT ![c] = "close"] /\ UNCHANGED <<peer, answered>>))
  BY DEF ServeExtended
<1>2. /\ pc' \in [Conns -> {"run", "pause", "close", "done"}]
      /\ peer' \in [Conns -> {"open", "closed", "reset"}]
      /\ wire' \in [Conns -> Seq(Frame)]
      /\ asked' \in [Conns -> Nat] /\ answered' \in [Conns -> Nat]
      /\ InStep'
  BY <1>1, ReadInStep
<1>3. Front(c).src \in 0..U16
  BY <1>1, FrontType DEF Read, Arrived
<1>4. /\ served \in [Conns -> Seq(Entry)] /\ last_seq \in [Conns -> -1..U16]
      /\ served[c] \in Seq(Entry) /\ last_seq[c] \in Int
      /\ last_seq[c] = IF served[c] = <<>> THEN -1 ELSE served[c][Len(served[c])].src
  <2>1. served \in [Conns -> Seq(Entry)] /\ last_seq \in [Conns -> -1..U16]
    BY DEF TypeOK, Entry
  <2>2. last_seq[c] = IF served[c] = <<>> THEN -1 ELSE served[c][Len(served[c])].src
    BY DEF TypeOK
  <2>3. served[c] \in Seq(Entry) /\ last_seq[c] \in Int
    BY <2>1, U16Type
  <2> QED BY <2>1, <2>2, <2>3
<1>5. e \in Entry /\ e.src = Front(c).src /\ e.flagged = (e.src <= last_seq[c])
  BY <1>3, <1>4 DEF Entry, Replayed
<1>6. /\ served' = [served EXCEPT ![c] = Append(@, e)]
      /\ last_seq' = [last_seq EXCEPT ![c] = e.src]
  BY DEF ServeExtended
<1>7. /\ Append(served[c], e) \in Seq(Entry) /\ Append(served[c], e) # <<>>
      /\ Append(served[c], e)[Len(Append(served[c], e))] = e
  BY <1>4, <1>5, AppendProperties
<1> HIDE DEF e
<1>8. TypeOK'
  <2>1. served' \in [Conns -> Seq(Entry)]
    BY <1>4, <1>6, <1>7
  <2>2. last_seq' \in [Conns -> -1..U16]
    BY <1>3, <1>4, <1>5, <1>6, U16Type
  <2>3. ASSUME NEW d \in Conns
        PROVE  last_seq'[d] = IF served'[d] = <<>> THEN -1 ELSE served'[d][Len(served'[d])].src
    <3>1. CASE d = c
      <4>1. last_seq'[c] = e.src /\ served'[c] = Append(served[c], e)
        BY <1>4, <1>6
      <4> QED BY <3>1, <4>1, <1>7
    <3>2. CASE d # c
      <4>1. last_seq'[d] = last_seq[d] /\ served'[d] = served[d]
        BY <3>2, <1>4, <1>6
      <4> QED BY <4>1 DEF TypeOK
    <3> QED BY <3>1, <3>2
  <2> QED BY <1>2, <2>1, <2>2, <2>3 DEF TypeOK, Entry
<1>9. NoSilentReplay'
  <2> SUFFICES ASSUME NEW d \in Conns
               PROVE  \A j \in DOMAIN served'[d] : \A i \in 1..(j - 1) :
                        served'[d][j].src <= served'[d][i].src =>
                          \E k \in (i + 1)..j : served'[d][k].flagged
    BY DEF NoSilentReplay
  <2>1. CASE d = c
    <3>1. served'[c] = Append(served[c], e)
      BY <1>4, <1>6
    <3>2. \A j \in DOMAIN served[c] : \A i \in 1..(j - 1) :
            served[c][j].src <= served[c][i].src => \E k \in (i + 1)..j : served[c][k].flagged
      BY DEF NoSilentReplay
    <3> QED BY <2>1, <3>1, <3>2, <1>4, <1>5, FlagKept
  <2>2. CASE d # c
    <3>1. served'[d] = served[d]
      BY <2>2, <1>4, <1>6
    <3> QED BY <3>1 DEF NoSilentReplay
  <2> QED BY <2>1, <2>2
<1> QED BY <1>2, <1>8, <1>9

LEMMA StutterInv ==
  ASSUME IInv, UNCHANGED vars
  PROVE  IInv'
BY DEF IInv, vars, TypeOK, NoSilentReplay, InStep

LEMMA NextInv ==
  ASSUME IInv, [Next]_vars
  PROVE  IInv'
<1>1. CASE UNCHANGED vars
  BY <1>1, StutterInv
<1>2. ASSUME NEW c \in Conns, Send(c) PROVE IInv'
  BY <1>2, SendInv
<1>3. ASSUME NEW c \in Conns, Leave(c) PROVE IInv'
  <2>1. peer' \in [Conns -> {"open", "closed", "reset"}]
    BY <1>3 DEF Leave, IInv, TypeOK
  <2> QED BY <1>3, <2>1, IdleInv DEF Leave
<1>4. ASSUME NEW c \in Conns, RecvNothing(c) \/ Resume(c) \/ CloseSocket(c) PROVE IInv'
  <2>1. peer' \in [Conns -> {"open", "closed", "reset"}]
    BY <1>4 DEF RecvNothing, Resume, CloseSocket, IInv, TypeOK
  <2> QED BY <1>4, <2>1, IdleInv DEF RecvNothing, Resume, CloseSocket
<1>5. ASSUME NEW c \in Conns, Reject(c) \/ Serve5000(c) PROVE IInv'
  <2>1. /\ Read(c) /\ UNCHANGED <<asked, served, last_seq>>
        /\ (Sent(c) \/ (pc' = [pc EXCEPT ![c] = "close"] /\ UNCHANGED <<peer, answered>>))
    BY <1>5 DEF Reject, Serve5000
  <2> QED BY <2>1, ReadInStep, NothingServed
<1>6. ASSUME NEW c \in Conns, ServeExtended(c) PROVE IInv'
  BY <1>6, ServeExtendedInv
<1> QED BY <1>1, <1>2, <1>3, <1>4, <1>5, <1>6 DEF Next, Handler

\* The types, the promise of the replay test, and answers in step with frames read,
\* are together an inductive invariant of the emulator.
THEOREM Inductive == Spec => []IInv
<1>1. Init => IInv
  BY InitInv
<1>2. IInv /\ [Next]_vars => IInv'
  BY NextInv
<1> QED BY <1>1, <1>2, PTL DEF Spec

\* The handler keeps its types, and last_seq is the number handled last.
THEOREM TypeCorrect == Spec => []TypeOK
<1>1. IInv => TypeOK
  BY DEF IInv
<1> QED BY <1>1, Inductive, PTL

\* However long a client goes on and whatever numbers it sends, no replay goes by
\* without a flag at it or between it and the number it repeats.
THEOREM ReplaysFlagged == Spec => []NoSilentReplay
<1>1. IInv => NoSilentReplay
  BY DEF IInv
<1> QED BY <1>1, Inductive, PTL

---------------------------------------------------------------------------
(* The emulator implements the lossless Dialogue.                          *)

LEMMA TalkInit == Init => Talk!Init
<1> SUFFICES ASSUME Init PROVE Talk!Init
  OBVIOUS
<1>1. \A c \in Conns : pc[c] # "done"
  BY DEF Init
<1> QED BY <1>1 DEF Init, Talk!Init, open

\* A frame that is read is the next to be answered; while it is, nothing is closed.
LEMMA TalkRead ==
  ASSUME IInv, NEW c \in Conns, Read(c), UNCHANGED asked,
         \/ Sent(c)
         \/ pc' = [pc EXCEPT ![c] = "close"] /\ UNCHANGED <<peer, answered>>
  PROVE  [Talk!Next]_<<asked, answered, open>>
<1>1. pc[c] = "run" /\ pc \in [Conns -> {"run", "pause", "close", "done"}]
      /\ answered \in [Conns -> Nat] /\ asked \in [Conns -> Nat]
  BY DEF Read, Running, IInv, TypeOK
<1>2. Number(c) = answered[c] + 1 /\ Number(c) <= asked[c]
  BY ReadInStep
<1>3. \/ pc' = [pc EXCEPT ![c] = "close"] /\ answered' = answered
      \/ pc' = [pc EXCEPT ![c] = "pause"] /\ answered' = [answered EXCEPT ![c] = Number(c)]
  BY DEF Sent
<1>4. open' = open
  <2>1. \A d \in Conns : (pc'[d] # "done") = (pc[d] # "done")
    BY <1>1, <1>3
  <2> QED BY <2>1 DEF open
<1>5. CASE answered' = answered
  BY <1>4, <1>5
<1>6. CASE answered' = [answered EXCEPT ![c] = Number(c)]
  <2>1. Number(c) \in (answered[c] + 1)..asked[c]
    BY <1>1, <1>2
  <2>2. open[c]
    BY <1>1 DEF open
  <2>3. Talk!Answer(c)
    BY <1>2, <1>4, <1>6, <2>1, <2>2 DEF Talk!Answer
  <2> QED BY <2>3 DEF Talk!Next
<1> QED BY <1>3, <1>5, <1>6

LEMMA TalkClose ==
  ASSUME IInv, NEW c \in Conns, CloseSocket(c)
  PROVE  Talk!Next
<1>1. /\ pc[c] = "close" /\ pc' = [pc EXCEPT ![c] = "done"]
      /\ pc \in [Conns -> {"run", "pause", "close", "done"}]
      /\ UNCHANGED <<asked, answered>>
  BY DEF CloseSocket, IInv, TypeOK
<1>2. open' # open
  <2>1. open[c] /\ ~open'[c]
    BY <1>1 DEF open
  <2> QED BY <2>1
<1>3. open' \in [Conns -> BOOLEAN] /\ \A d \in Conns : open'[d] => open[d]
  BY <1>1 DEF open
<1>4. Talk!Close
  BY <1>1, <1>2, <1>3 DEF Talk!Close
<1> QED BY <1>4 DEF Talk!Next

\* Every step is a step of the dialogue, or none.
LEMMA TalkNext ==
  ASSUME IInv, [Next]_vars
  PROVE  [Talk!Next]_<<asked, answered, open>>
<1>1. ASSUME UNCHANGED <<asked, answered, pc>>
      PROVE  UNCHANGED <<asked, answered, open>>
  BY <1>1 DEF open
<1>2. CASE UNCHANGED vars
  BY <1>1, <1>2 DEF vars
<1>3. ASSUME NEW c \in Conns, Send(c) PROVE Talk!Next
  <2>1. Talk!Ask(c)
    BY <1>3 DEF Send, Talk!Ask, open
  <2> QED BY <2>1 DEF Talk!Next
<1>4. ASSUME NEW c \in Conns, Leave(c)
      PROVE  UNCHANGED <<asked, answered, open>>
  BY <1>1, <1>4 DEF Leave
<1>5. ASSUME NEW c \in Conns, RecvNothing(c) \/ Resume(c)
      PROVE  UNCHANGED <<asked, answered, open>>
  <2>1. \/ pc[c] = "run" /\ pc' = [pc EXCEPT ![c] = "close"]
        \/ pc[c] = "pause" /\ pc' = [pc EXCEPT ![c] = "run"]
    BY <1>5 DEF RecvNothing, Running, Resume
  <2>2. \A d \in Conns : (pc'[d] # "done") = (pc[d] # "done")
    BY <2>1 DEF IInv, TypeOK
  <2>3. UNCHANGED <<asked, answered>>
    BY <1>5 DEF RecvNothing, Resume
  <2> QED BY <2>2, <2>3 DEF open
<1>6. ASSUME NEW c \in Conns, Reject(c) \/ Serve5000(c) \/ ServeExtended(c)
      PROVE  [Talk!Next]_<<asked, answered, open>>
  <2>1. /\ Read(c) /\ UNCHANGED asked
        /\ (Sent(c) \/ (pc' = [pc EXCEPT ![c] = "close"] /\ UNCHANGED <<peer, answered>>))
    BY <1>6 DEF Reject, Serve5000, ServeExtended
  <2> QED BY <2>1, TalkRead
<1>7. ASSUME NEW c \in Conns, CloseSocket(c) PROVE Talk!Next
  BY <1>7, TalkClose
<1> QED BY <1>2, <1>3, <1>4, <1>5, <1>6, <1>7 DEF Next, Handler

\* The emulator implements the lossless Dialogue: for every connection, frames are
\* answered in turn and none is passed over, until its handler ends.
THEOREM FramesInTurn == Spec => EveryFrameInTurn
<1>1. Init => Talk!Init
  BY TalkInit
<1>2. IInv /\ [Next]_vars => [Talk!Next]_<<asked, answered, open>>
  BY TalkNext
<1> QED BY <1>1, <1>2, Inductive, PTL DEF Spec, EveryFrameInTurn, Talk!Spec
===========================================================================
