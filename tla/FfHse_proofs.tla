---------------------------- MODULE FfHse_proofs ----------------------------
(***************************************************************************)
(* Proofs about FfHse, for every set of connections, requests and handles, *)
(* every number of alarms and every capacity of the queue.                 *)
(***************************************************************************)
EXTENDS FfHse, SequenceTheorems, TLAPS

---------------------------------------------------------------------------
(* The inductive invariant.                                                *)

\* The generator raises an alarm only while the bound allows one.
Raising == gen = "raise" => made < MaxAlarms

\* A handler holds alarms only between taking and sending them, it has responded
\* only when it is past the response, and it ends with the first failed send.
Holding ==
  \A c \in Conns :
    /\ held[c] # <<>> => pc[c] \in {"store", "respond", "notify"}
    /\ pc[c] = "notify" => held[c] # <<>>
    /\ rtype[c] # 0 => pc[c] \in {"late", "notify", "done"}
    /\ pc[c] = "store" => classify(c) = "LRES"
    /\ lost[c] # {} => pc[c] = "done"

Sorted(s) == \A j, k \in 1..Len(s) : j < k => s[j] < s[k]

Held(c) == Elements(held[c])
Mine(c) == Held(c) \cup told[c] \cup lost[c]

\* Every alarm raised is in one place: the queue, the trimmed ones, or one of
\* three with one connection.
Covered ==
  \A a \in 1..made : a \in Elements(queue) \cup trimmed \/ \E c \in Conns : a \in Mine(c)

Separate ==
  /\ trimmed \cap Elements(queue) = {}
  /\ trimmed \subseteq 1..made
  /\ \A c \in Conns :
       /\ Mine(c) \subseteq 1..made
       /\ Mine(c) \cap (Elements(queue) \cup trimmed) = {}
       /\ Held(c) \cap (told[c] \cup lost[c]) = {} /\ told[c] \cap lost[c] = {}
       /\ Sorted(held[c])
  /\ \A c, d \in Conns : c # d => Mine(c) \cap Mine(d) = {}

\* A poll that is about to be answered, or was, has its session, unless it was
\* finished after the poll.
Opened ==
  \A c \in Conns \ finished :
    (pc[c] = "respond" \/ rtype[c] # 0) /\ classify(c) = "LRES" =>
      ask[c].handle \in sessions

IInv == /\ TypeOK /\ Raising /\ Holding /\ QueueIsNewest /\ Covered /\ Separate
        /\ LostAreNewest /\ Opened

---------------------------------------------------------------------------
(* Lemmas about sequences of alarms.                                       *)

\* What leaves a sequence with its head: the head, and nothing else.
LEMMA TailElements ==
  ASSUME NEW S \in SUBSET Int, NEW s \in Seq(S), s # <<>>, Sorted(s)
  PROVE  /\ Head(s) \in S /\ Tail(s) \in Seq(S)
         /\ Head(s) \in Elements(s)
         /\ Elements(Tail(s)) = Elements(s) \ {Head(s)}
         /\ \A a \in Elements(Tail(s)) : Head(s) < a
         /\ Sorted(Tail(s))
         /\ Tail(s) = <<>> <=> Len(s) = 1
<1>1. Len(s) \in Nat /\ Len(s) > 0 /\ \A k \in 1..Len(s) : s[k] \in S
  OBVIOUS
<1>2. /\ Head(s) = s[1] /\ Tail(s) \in Seq(S) /\ Len(Tail(s)) = Len(s) - 1
      /\ \A k \in 1..Len(s) - 1 : Tail(s)[k] = s[k + 1]
  OBVIOUS
<1>3. Head(s) \in S /\ Head(s) \in Elements(s)
  BY <1>1, <1>2 DEF Elements
<1>4. Elements(Tail(s)) \subseteq Elements(s) \ {Head(s)} /\ \A a \in Elements(Tail(s)) : Head(s) < a
  <2>. SUFFICES ASSUME NEW k \in 1..Len(s) - 1
                PROVE  Tail(s)[k] \in Elements(s) \ {Head(s)} /\ Head(s) < Tail(s)[k]
    BY <1>2 DEF Elements
  <2>1. k + 1 \in 1..Len(s) /\ 1 < k + 1 /\ 1 \in 1..Len(s)
    BY <1>1
  <2>2. s[1] < s[k + 1] /\ s[1] \in Int /\ s[k + 1] \in Int
    BY <1>1, <2>1 DEF Sorted
  <2>. QED  BY <2>1, <2>2, <1>2 DEF Elements
<1>5. Elements(s) \ {Head(s)} \subseteq Elements(Tail(s))
  <2>. SUFFICES ASSUME NEW k \in 1..Len(s), k # 1
                PROVE  s[k] \in Elements(Tail(s))
    BY <1>2 DEF Elements
  <2>1. k - 1 \in 1..Len(Tail(s)) /\ Tail(s)[k - 1] = s[k]
    BY <1>1, <1>2
  <2>. QED  BY <2>1 DEF Elements
<1>6. Sorted(Tail(s))
  <2>. SUFFICES ASSUME NEW j \in 1..Len(s) - 1, NEW k \in 1..Len(s) - 1,
                       j < k
                PROVE  Tail(s)[j] < Tail(s)[k]
    BY <1>2 DEF Sorted
  <2>1. j + 1 \in 1..Len(s) /\ k + 1 \in 1..Len(s) /\ j + 1 < k + 1
    BY <1>1
  <2>. QED  BY <2>1, <1>2 DEF Sorted
<1>7. Tail(s) = <<>> <=> Len(s) = 1
  <2>1. \A t \in Seq(S) : t = <<>> <=> Len(t) = 0
    BY EmptySeq
  <2>2. Tail(s) = <<>> <=> Len(Tail(s)) = 0
    BY <1>2, <2>1
  <2>. QED  BY <1>1, <1>2, <2>2
<1>8. Elements(Tail(s)) = Elements(s) \ {Head(s)}
  BY <1>4, <1>5
<1>9. Tail(s) \in Seq(S)
  BY <1>2
<1>. QED  BY <1>3, <1>4, <1>6, <1>7, <1>8, <1>9, Zenon

LEMMA NoElements == Elements(<<>>) = {} /\ Sorted(<<>>)
BY DEF Elements, Sorted

\* The alarms that wait are a range that ends with the last one raised.
LEMMA QueueElements ==
  ASSUME TypeOK, QueueIsNewest
  PROVE  /\ Elements(queue) = made - Len(queue) + 1..made
         /\ Len(queue) \in 0..Cap /\ Len(queue) <= made
         /\ Sorted(queue)
<1>1. Len(queue) \in Nat /\ made \in Nat /\ Len(queue) <= Cap /\ Cap \in Nat
  BY CapAssumption DEF TypeOK, Alarms
<1>2. \A k \in 1..Len(queue) : queue[k] \in Alarms
  BY DEF TypeOK
<1>3. Len(queue) <= made
  <2>1. CASE Len(queue) = 0
    BY <1>1, <2>1
  <2>2. CASE Len(queue) > 0
    <3>1. 1 \in 1..Len(queue) /\ queue[1] = made - Len(queue) + 1
      BY <1>1, <2>2 DEF QueueIsNewest
    <3>2. queue[1] \in Nat /\ queue[1] >= 1
      BY <1>2, <3>1, CapAssumption DEF Alarms
    <3>. QED  BY <1>1, <3>1, <3>2
  <2>. QED  BY <1>1, <2>1, <2>2
<1>4. Elements(queue) \subseteq made - Len(queue) + 1..made
  BY <1>1 DEF Elements, QueueIsNewest
<1>5. made - Len(queue) + 1..made \subseteq Elements(queue)
  <2>. SUFFICES ASSUME NEW a \in made - Len(queue) + 1..made
                PROVE  a \in Elements(queue)
    OBVIOUS
  <2>1. a - made + Len(queue) \in 1..Len(queue)
    BY <1>1
  <2>2. queue[a - made + Len(queue)] = a
    BY <1>1, <2>1 DEF QueueIsNewest
  <2>. QED  BY <2>1, <2>2 DEF Elements
<1>6. Sorted(queue)
  BY <1>1 DEF Sorted, QueueIsNewest
<1>7. Elements(queue) = made - Len(queue) + 1..made
  BY <1>4, <1>5
<1>8. Len(queue) \in 0..Cap
  BY <1>1
<1>. QED  BY <1>3, <1>6, <1>7, <1>8

\* What one round of the generator does to the queue: one alarm in, and the
\* oldest out when Cap wait already.
LEMMA RaiseQueue ==
  ASSUME IInv, GenRaise
  PROVE  /\ made' = made + 1 /\ made' \in Alarms
         /\ queue' \in Seq(Alarms) /\ Len(queue') <= Cap
         /\ QueueIsNewest'
         /\ \E out \in SUBSET Elements(queue) :
              /\ trimmed' = trimmed \cup out
              /\ Elements(queue') = (Elements(queue) \ out) \cup {made + 1}
<1>. DEFINE q == Append(queue, made + 1)
            n == Len(queue)
<1>1. /\ n \in Nat /\ made \in Nat /\ Cap \in Nat \ {0} /\ n <= Cap /\ n <= made
      /\ made < MaxAlarms /\ MaxAlarms \in Nat
  BY QueueElements, CapAssumption DEF IInv, TypeOK, Raising, GenRaise, Alarms
<1>2. made' = made + 1 /\ made + 1 \in Alarms
  BY <1>1 DEF GenRaise, Alarms
<1>3. /\ q \in Seq(Alarms) /\ Len(q) = n + 1
      /\ \A k \in 1..n + 1 : q[k] = made - n + k /\ q[k] \in Alarms
  <2>1. queue \in Seq(Alarms) /\ \A k \in 1..n : queue[k] = made - n + k
    BY DEF IInv, TypeOK, QueueIsNewest
  <2>2. q \in Seq(Alarms) /\ Len(q) = n + 1
    BY <1>2, <2>1
  <2>3. \A k \in 1..n : q[k] = queue[k]
    BY <1>2, <2>1
  <2>4. q[n + 1] = made + 1
    BY <1>2, <2>1
  <2>5. \A k \in 1..n + 1 : q[k] = made - n + k
    <3>. SUFFICES ASSUME NEW k \in 1..n + 1 PROVE q[k] = made - n + k
      OBVIOUS
    <3>1. CASE k \in 1..n
      BY <2>1, <2>3, <3>1
    <3>2. CASE k = n + 1
      BY <2>4, <3>2, <1>1
    <3>. QED  BY <3>1, <3>2, <1>1
  <2>6. \A k \in 1..n + 1 : q[k] \in Alarms
    BY <1>1, <2>5 DEF Alarms
  <2>. QED  BY <2>2, <2>5, <2>6
<1>4. /\ queue' = SubSeq(q, Overflow(q) + 1, Len(q))
      /\ trimmed' = trimmed \cup {q[k] : k \in 1..Overflow(q)}
  BY <1>2 DEF GenRaise
<1>. DEFINE o == Overflow(q)
<1>5. o = (IF n + 1 > Cap THEN 1 ELSE 0) /\ o \in 0..1 /\ n + 1 - o <= Cap /\ o <= n
  BY <1>1, <1>3 DEF Overflow
<1>. HIDE DEF q, o
<1>6. /\ queue' \in Seq(Alarms) /\ Len(queue') = n + 1 - o
      /\ \A k \in 1..n + 1 - o : queue'[k] = q[k + o]
  <2>1. queue' = SubSeq(q, o + 1, n + 1)
    BY <1>3, <1>4 DEF o
  <2>2. \A k \in o + 1..n + 1 : q[k] \in Alarms
    BY <1>1, <1>3, <1>5
  <2>3. o + 1 \in Int /\ n + 1 \in Int
    BY <1>1, <1>5
  <2>4. /\ SubSeq(q, o + 1, n + 1) \in Seq(Alarms)
        /\ Len(SubSeq(q, o + 1, n + 1)) = IF o + 1 <= n + 1 THEN n + 1 - (o + 1) + 1 ELSE 0
        /\ \A k \in 1..n + 1 - (o + 1) + 1 : SubSeq(q, o + 1, n + 1)[k] = q[o + 1 + k - 1]
    BY <2>2, <2>3, SubSeqProperties
  <2>5. o + 1 <= n + 1 /\ n + 1 - (o + 1) + 1 = n + 1 - o
    BY <1>1, <1>5
  <2>6. \A k \in 1..n + 1 - o : o + 1 + k - 1 = k + o
    BY <1>1, <1>5
  <2>. QED  BY <2>1, <2>4, <2>5, <2>6
<1>7. QueueIsNewest'
  <2>. SUFFICES ASSUME NEW k \in 1..n + 1 - o
                PROVE  queue'[k] = made' - Len(queue') + k
    BY <1>6 DEF QueueIsNewest
  <2>1. k + o \in 1..n + 1
    BY <1>1, <1>5
  <2>2. queue'[k] = made - n + (k + o)
    BY <1>3, <1>6, <2>1
  <2>. QED  BY <1>1, <1>2, <1>5, <1>6, <2>2
<1>. DEFINE out == {q[k] : k \in 1..o}
<1>8. Elements(queue) = made - n + 1..made
  BY QueueElements DEF IInv
<1>9. Elements(queue') = made - n + o + 1..made + 1
  <2>1. \A k \in 1..n + 1 - o : queue'[k] = made - n + o + k
    <3>. SUFFICES ASSUME NEW k \in 1..n + 1 - o PROVE queue'[k] = made - n + o + k
      OBVIOUS
    <3>1. k + o \in 1..n + 1
      BY <1>1, <1>5
    <3>. QED  BY <1>1, <1>3, <1>5, <1>6, <3>1
  <2>2. Elements(queue') \subseteq made - n + o + 1..made + 1
    BY <1>1, <1>5, <1>6, <2>1 DEF Elements
  <2>3. made - n + o + 1..made + 1 \subseteq Elements(queue')
    <3>. SUFFICES ASSUME NEW a \in made - n + o + 1..made + 1
                  PROVE  a \in Elements(queue')
      OBVIOUS
    <3>. DEFINE k == a - made + n - o
    <3>1. k \in 1..n + 1 - o /\ made - n + o + k = a
      BY <1>1, <1>5
    <3>. HIDE DEF k
    <3>. QED  BY <1>6, <2>1, <3>1 DEF Elements
  <2>. QED  BY <2>2, <2>3
<1>10. out = made - n + 1..made - n + o
  <2>1. CASE o = 0
    BY <1>1, <2>1
  <2>2. CASE o = 1
    <3>1. out = {q[1]}
      BY <2>2
    <3>2. q[1] = made - n + 1
      BY <1>1, <1>3
    <3>. QED  BY <1>1, <2>2, <3>1, <3>2
  <2>. QED  BY <1>5, <2>1, <2>2
<1>11. out \subseteq Elements(queue) /\ Elements(queue') = (Elements(queue) \ out) \cup {made + 1}
  <2>. HIDE DEF out
  <2>1. made - n + 1..made - n + o \subseteq made - n + 1..made
    BY <1>1, <1>5
  <2>2. made - n + o + 1..made + 1
          = ((made - n + 1..made) \ (made - n + 1..made - n + o)) \cup {made + 1}
    BY <1>1, <1>5
  <2>. QED  BY <1>8, <1>9, <1>10, <2>1, <2>2
<1>12. trimmed' = trimmed \cup out
  BY <1>4 DEF o
<1>. QED  BY <1>2, <1>5, <1>6, <1>7, <1>11, <1>12

---------------------------------------------------------------------------
(* Where the alarms are, step by step.                                     *)

AlarmVars == <<made, queue, trimmed, held, told, lost>>
AlarmInv == QueueIsNewest /\ Covered /\ Separate /\ LostAreNewest

LEMMA AlarmsUnchanged ==
  ASSUME IInv, UNCHANGED AlarmVars
  PROVE  AlarmInv'
<1>1. /\ Elements(queue)' = Elements(queue)
      /\ \A c \in Conns : Mine(c)' = Mine(c) /\ Held(c)' = Held(c)
  BY DEF AlarmVars, Mine, Held, Elements
<1>2. QueueIsNewest'
  BY DEF IInv, AlarmVars, QueueIsNewest
<1>3. Covered'
  BY <1>1 DEF IInv, AlarmVars, Covered
<1>4. Separate'
  BY <1>1 DEF IInv, AlarmVars, Separate, Sorted
<1>5. LostAreNewest'
  BY <1>1 DEF IInv, AlarmVars, LostAreNewest, Held
<1>. QED  BY <1>2, <1>3, <1>4, <1>5 DEF AlarmInv

\* A handler that holds nothing takes the queue.
LEMMA AlarmsTaken ==
  ASSUME IInv, NEW c \in Conns, held[c] = <<>>,
         held' = [held EXCEPT ![c] = queue], queue' = <<>>,
         UNCHANGED <<made, trimmed, told, lost>>
  PROVE  /\ Held(c)' = Elements(queue) /\ Elements(queue)' = {} /\ Held(c) = {}
         /\ \A d \in Conns : d # c => Held(d)' = Held(d)
         /\ AlarmInv'
<1>1. held[c]' = queue /\ \A d \in Conns : d # c => held[d]' = held[d]
  BY DEF IInv, TypeOK
<1>2. /\ Held(c)' = Elements(queue) /\ Elements(queue)' = {} /\ Held(c) = {}
      /\ \A d \in Conns : d # c => Held(d)' = Held(d)
  BY <1>1, NoElements DEF Held, Elements
<1>3. QueueIsNewest'
  BY DEF QueueIsNewest
<1>4. /\ Elements(queue) \subseteq 1..made /\ Sorted(queue)
      /\ \A a \in (1..made) \ Elements(queue), b \in Elements(queue) : a < b
  <2>1. /\ Elements(queue) = made - Len(queue) + 1..made
        /\ Len(queue) \in Nat /\ Len(queue) <= made /\ made \in Nat
    BY QueueElements, CapAssumption DEF IInv, TypeOK, Alarms
  <2>2. Elements(queue) \subseteq 1..made
    BY <2>1
  <2>3. \A a \in (1..made) \ Elements(queue), b \in Elements(queue) : a < b
    BY <2>1
  <2>. QED  BY <2>2, <2>3, QueueElements DEF IInv
<1>5. /\ Mine(c)' = Elements(queue) \cup Mine(c)
      /\ \A d \in Conns : d # c => Mine(d)' = Mine(d)
  BY <1>2 DEF Mine
<1>6. Covered'
  <2>. SUFFICES ASSUME NEW a \in 1..made
                PROVE  a \in trimmed \/ \E d \in Conns : a \in Mine(d)'
    BY <1>2 DEF Covered
  <2>1. a \in Elements(queue) \cup trimmed \/ \E d \in Conns : a \in Mine(d)
    BY DEF IInv, Covered
  <2>. QED  BY <2>1, <1>5
<1>7. Separate'
  <2>1. trimmed \subseteq 1..made /\ trimmed \cap Elements(queue) = {}
    BY DEF IInv, Separate
  <2>2. \A d \in Conns : Mine(d)' \subseteq 1..made /\ Mine(d)' \cap trimmed = {}
    BY <2>1, <1>4, <1>5 DEF IInv, Separate
  <2>3. \A d \in Conns : /\ Held(d)' \cap (told[d] \cup lost[d]) = {}
                          /\ told[d] \cap lost[d] = {}
    <3>1. Mine(c) \cap Elements(queue) = {}
      BY DEF IInv, Separate
    <3>2. Held(c)' \cap (told[c] \cup lost[c]) = {}
      BY <3>1, <1>2 DEF Mine
    <3>. QED  BY <3>2, <1>2 DEF IInv, Separate
  <2>4. \A d \in Conns : Sorted(held[d])'
    BY <1>1, <1>4 DEF IInv, Separate, Sorted
  <2>5. \A d, e \in Conns : d # e => Mine(d)' \cap Mine(e)' = {}
    <3>. SUFFICES ASSUME NEW d \in Conns, NEW e \in Conns, d # e
                  PROVE  Mine(d)' \cap Mine(e)' = {}
      OBVIOUS
    <3>1. /\ Mine(d) \cap Mine(e) = {}
          /\ Mine(d) \cap Elements(queue) = {} /\ Mine(e) \cap Elements(queue) = {}
      BY DEF IInv, Separate
    <3>. QED  BY <3>1, <1>5
  <2>. QED  BY <1>2, <2>1, <2>2, <2>3, <2>4, <2>5 DEF Separate
<1>8. LostAreNewest'
  <2>. SUFFICES ASSUME NEW d \in Conns, NEW a \in told[d], NEW b \in lost[d] \cup Held(d)'
                PROVE  a < b
    BY DEF LostAreNewest, Held
  <2>1. CASE b \in lost[d] \cup Held(d)
    BY <2>1 DEF IInv, LostAreNewest, Held
  <2>2. CASE d = c /\ b \in Elements(queue)
    <3>1. a \in (1..made) \ Elements(queue)
      BY DEF IInv, Separate, Mine
    <3>. QED  BY <3>1, <2>2, <1>4
  <2>. QED  BY <1>2, <2>1, <2>2
<1>. QED  BY <1>2, <1>3, <1>6, <1>7, <1>8 DEF AlarmInv

\* A handler tells its client the oldest alarms it holds (T) or loses some (L).
LetGo(c, T, L) ==
  /\ Held(c)' = Held(c) \ (T \cup L)
  /\ told[c]' = told[c] \cup T /\ lost[c]' = lost[c] \cup L
  /\ \A d \in Conns : d # c => Held(d)' = Held(d) /\ told[d]' = told[d]
                                /\ lost[d]' = lost[d]
  /\ Elements(queue)' = Elements(queue) /\ UNCHANGED <<made, trimmed>>

LEMMA AlarmsLetGo ==
  ASSUME IInv, NEW c \in Conns, NEW T, NEW L, NEW h,
         T \cup L \subseteq Held(c), T \cap L = {},
         Elements(h) = Held(c) \ (T \cup L), Sorted(h),
         lost[c] = {}, \A a \in T, b \in Held(c) \ T : a < b,
         held' = [held EXCEPT ![c] = h],
         told' = [told EXCEPT ![c] = @ \cup T],
         lost' = [lost EXCEPT ![c] = @ \cup L],
         UNCHANGED <<made, queue, trimmed>>
  PROVE  LetGo(c, T, L) /\ AlarmInv'
<1>1. /\ held[c]' = h /\ \A d \in Conns : d # c => held[d]' = held[d]
      /\ told[c]' = told[c] \cup T /\ \A d \in Conns : d # c => told[d]' = told[d]
      /\ lost[c]' = lost[c] \cup L /\ \A d \in Conns : d # c => lost[d]' = lost[d]
  BY DEF IInv, TypeOK
<1>2. Held(c)' = Held(c) \ (T \cup L)
  BY <1>1 DEF Held, Elements
<1>3. \A d \in Conns : d # c => Held(d)' = Held(d)
  BY <1>1 DEF Held, Elements
<1>4. Elements(queue)' = Elements(queue)
  BY DEF Elements
<1>5. \A d \in Conns : Mine(d)' = Mine(d)
  <2>1. Mine(c)' = Mine(c)
    BY <1>1, <1>2 DEF Mine
  <2>2. \A d \in Conns : d # c => Mine(d)' = Mine(d)
    BY <1>1, <1>3 DEF Mine
  <2>. QED  BY <2>1, <2>2
<1>6. QueueIsNewest'
  BY DEF IInv, QueueIsNewest
<1>7. Covered'
  BY <1>4, <1>5 DEF IInv, Covered
<1>8. Separate'
  <2>1. \A d \in Conns : /\ Held(d)' \cap (told[d]' \cup lost[d]') = {}
                          /\ told[d]' \cap lost[d]' = {}
    <3>1. Held(c) \cap (told[c] \cup lost[c]) = {} /\ told[c] \cap lost[c] = {}
      BY DEF IInv, Separate
    <3>2. Held(c)' \cap (told[c]' \cup lost[c]') = {}
      BY <3>1, <1>1, <1>2
    <3>3. told[c]' \cap lost[c]' = {}
      BY <3>1, <1>1
    <3>. QED  BY <3>2, <3>3, <1>1, <1>3 DEF IInv, Separate
  <2>2. \A d \in Conns : Sorted(held[d])'
    BY <1>1 DEF IInv, Separate, Sorted
  <2>. QED  BY <1>4, <1>5, <2>1, <2>2 DEF IInv, Separate
<1>9. LostAreNewest'
  <2>. SUFFICES ASSUME NEW d \in Conns, NEW a \in told[d]', NEW b \in lost[d]' \cup Held(d)'
                PROVE  a < b
    BY DEF LostAreNewest, Held
  <2>1. CASE d # c
    BY <1>1, <1>3, <2>1 DEF IInv, LostAreNewest, Held
  <2>2. CASE d = c
    <3>1. b \in Held(c) \ T
      BY <1>1, <1>2, <2>2
    <3>2. CASE a \in T
      BY <3>1, <3>2
    <3>3. CASE a \in told[c]
      BY <3>1, <3>3 DEF IInv, LostAreNewest, Held
    <3>. QED  BY <1>1, <2>2, <3>2, <3>3
  <2>. QED  BY <2>1, <2>2
<1>. QED  BY <1>1, <1>2, <1>3, <1>4, <1>6, <1>7, <1>8, <1>9 DEF AlarmInv, LetGo

\* The generator adds an alarm and may trim old ones.
LEMMA AlarmsRaised ==
  ASSUME IInv, GenRaise
  PROVE  AlarmInv'
<1>1. PICK out \in SUBSET Elements(queue) :
        /\ trimmed' = trimmed \cup out
        /\ Elements(queue') = (Elements(queue) \ out) \cup {made + 1}
  BY RaiseQueue
<1>2. made' = made + 1 /\ made \in Nat /\ QueueIsNewest'
  BY RaiseQueue, CapAssumption DEF IInv, TypeOK, Alarms
<1>3. Elements(queue) \subseteq 1..made
  <2>1. /\ Elements(queue) = made - Len(queue) + 1..made
        /\ Len(queue) \in Nat /\ Len(queue) <= made
    BY QueueElements, CapAssumption DEF IInv
  <2>. QED  BY <1>2, <2>1
<1>4. Elements(queue)' = Elements(queue')
  BY DEF Elements
<1>5. \A c \in Conns : Mine(c)' = Mine(c) /\ Held(c)' = Held(c)
  BY DEF GenRaise, Mine, Held, Elements
<1>6. Covered'
  <2>. SUFFICES ASSUME NEW a \in 1..made + 1
                PROVE  \/ a \in Elements(queue') \cup trimmed'
                       \/ \E c \in Conns : a \in Mine(c)'
    BY <1>2, <1>4 DEF Covered
  <2>1. CASE a = made + 1
    BY <2>1, <1>1
  <2>2. CASE a \in 1..made
    <3>1. a \in Elements(queue) \cup trimmed \/ \E c \in Conns : a \in Mine(c)
      BY <2>2 DEF IInv, Covered
    <3>. QED  BY <3>1, <1>1, <1>5
  <2>. QED  BY <1>2, <2>1, <2>2
<1>7. Separate'
  <2>1. made + 1 \notin 1..made /\ 1..made \subseteq 1..made + 1
    BY <1>2
  <2>2. trimmed \subseteq 1..made /\ trimmed \cap Elements(queue) = {}
    BY DEF IInv, Separate
  <2>3. trimmed' \cap Elements(queue') = {}
    BY <1>1, <1>3, <2>1, <2>2
  <2>4. trimmed' \subseteq 1..made + 1
    BY <1>1, <1>3, <2>1, <2>2
  <2>5. \A c \in Conns : /\ Mine(c)' \subseteq 1..made + 1
                          /\ Mine(c)' \cap (Elements(queue') \cup trimmed') = {}
    <3>. SUFFICES ASSUME NEW c \in Conns
                  PROVE  /\ Mine(c) \subseteq 1..made + 1
                         /\ Mine(c) \cap (Elements(queue') \cup trimmed') = {}
      BY <1>5
    <3>1. Mine(c) \subseteq 1..made /\ Mine(c) \cap (Elements(queue) \cup trimmed) = {}
      BY DEF IInv, Separate
    <3>. QED  BY <3>1, <2>1, <1>1
  <2>6. UNCHANGED <<held, told, lost>>
    BY DEF GenRaise
  <2>7. \A c \in Conns : /\ Held(c)' \cap (told[c]' \cup lost[c]') = {}
                          /\ told[c]' \cap lost[c]' = {} /\ Sorted(held[c])'
    BY <1>5, <2>6 DEF IInv, Separate, Sorted
  <2>8. \A c, d \in Conns : c # d => Mine(c)' \cap Mine(d)' = {}
    BY <1>5 DEF IInv, Separate
  <2>. QED  BY <1>2, <1>4, <2>3, <2>4, <2>5, <2>7, <2>8 DEF Separate
<1>8. LostAreNewest'
  BY <1>5 DEF IInv, LostAreNewest, Held, GenRaise
<1>. QED  BY <1>2, <1>6, <1>7, <1>8 DEF AlarmInv

\* The request of a connection names a handle and comes in one or two segments.
LEMMA AskTyped ==
  ASSUME TypeOK, NEW c \in Conns
  PROVE  ask[c].handle \in Handles /\ ask[c].parts \in 1..2
<1>1. ask[c] \in Request
  BY AsksAssumption DEF TypeOK
<1>. QED  BY <1>1 DEF Request, Kinds, Tagged

---------------------------------------------------------------------------
(* Every action keeps the invariant: first those that move no alarm.       *)

\* A client comes.
LEMMA ConnectInv ==
  ASSUME IInv, NEW c \in Conns, Connect(c)
  PROVE  IInv'
<1>. USE DEF Connect, alarmvars
<1>1. TypeOK'
  BY DEF IInv, TypeOK, HandlerAt
<1>2. Raising'
  BY DEF IInv, Raising
<1>3. Holding'
  BY DEF IInv, TypeOK, Holding, classify
<1>4. AlarmInv'
  BY AlarmsUnchanged DEF AlarmVars
<1>6. Opened'
  BY DEF IInv, TypeOK, Holding, Opened, classify
<1>. QED  BY <1>1, <1>2, <1>3, <1>4, <1>6 DEF IInv, AlarmInv

\* A client sends: sent[c] stays within the parts of the request.
LEMMA SendSegmentInv ==
  ASSUME IInv, NEW c \in Conns, SendSegment(c)
  PROVE  IInv'
<1>. USE DEF SendSegment, alarmvars
<1>1. TypeOK'
  <2>1. sent[c] \in 0..2 /\ ask[c].parts \in 1..2
    BY AskTyped DEF IInv, TypeOK
  <2>2. sent[c] + 1 \in 0..2
    BY <2>1
  <2>. QED  BY <2>2 DEF IInv, TypeOK, HandlerAt
<1>2. Raising'
  BY DEF IInv, Raising
<1>3. Holding'
  BY DEF IInv, TypeOK, Holding, classify
<1>4. AlarmInv'
  BY AlarmsUnchanged DEF AlarmVars
<1>6. Opened'
  BY DEF IInv, TypeOK, Holding, Opened, classify
<1>. QED  BY <1>1, <1>2, <1>3, <1>4, <1>6 DEF IInv, AlarmInv

\* A client leaves.
LEMMA CloseInv ==
  ASSUME IInv, NEW c \in Conns, Close(c)
  PROVE  IInv'
<1>. USE DEF Close, alarmvars
<1>1. TypeOK'
  BY DEF IInv, TypeOK, HandlerAt
<1>2. Raising'
  BY DEF IInv, Raising
<1>3. Holding'
  BY DEF IInv, TypeOK, Holding, classify
<1>4. AlarmInv'
  BY AlarmsUnchanged DEF AlarmVars
<1>6. Opened'
  BY DEF IInv, TypeOK, Holding, Opened, classify
<1>. QED  BY <1>1, <1>2, <1>3, <1>4, <1>6 DEF IInv, AlarmInv

\* The generator goes on to raise only below the bound.
LEMMA GenWakeInv ==
  ASSUME IInv, GenWake
  PROVE  IInv'
<1>. USE DEF GenWake, clientvars
<1>1. TypeOK'
  BY DEF IInv, TypeOK, HandlerAt
<1>2. Raising'
  BY DEF IInv, Raising
<1>3. Holding'
  BY DEF IInv, TypeOK, Holding, classify
<1>4. AlarmInv'
  BY AlarmsUnchanged DEF AlarmVars
<1>6. Opened'
  BY DEF IInv, TypeOK, Holding, Opened, classify
<1>. QED  BY <1>1, <1>2, <1>3, <1>4, <1>6 DEF IInv, AlarmInv

\* Ctrl+C.
LEMMA InterruptInv ==
  ASSUME IInv, Interrupt
  PROVE  IInv'
<1>. USE DEF Interrupt, alarmvars, clientvars
<1>1. TypeOK'
  BY DEF IInv, TypeOK, HandlerAt
<1>2. Raising'
  BY DEF IInv, Raising
<1>3. Holding'
  BY DEF IInv, TypeOK, Holding, classify
<1>4. AlarmInv'
  BY AlarmsUnchanged DEF AlarmVars
<1>6. Opened'
  BY DEF IInv, TypeOK, Holding, Opened, classify
<1>. QED  BY <1>1, <1>2, <1>3, <1>4, <1>6 DEF IInv, AlarmInv

\* The process ends.
LEMMA ProcessExitInv ==
  ASSUME IInv, ProcessExit
  PROVE  IInv'
<1>. USE DEF ProcessExit, alarmvars, clientvars
<1>1. TypeOK'
  BY DEF IInv, TypeOK, HandlerAt
<1>2. Raising'
  BY DEF IInv, Raising
<1>3. Holding'
  BY DEF IInv, TypeOK, Holding, classify
<1>4. AlarmInv'
  BY AlarmsUnchanged DEF AlarmVars
<1>6. Opened'
  BY DEF IInv, TypeOK, Holding, Opened, classify
<1>. QED  BY <1>1, <1>2, <1>3, <1>4, <1>6 DEF IInv, AlarmInv

\* A handler starts.
LEMMA AcceptInv ==
  ASSUME IInv, NEW c \in Conns, Accept(c)
  PROVE  IInv'
<1>. USE DEF Accept, alarmvars, clientvars, Goto
<1>1. TypeOK'
  BY DEF IInv, TypeOK, HandlerAt
<1>2. Raising'
  BY DEF IInv, Raising
<1>3. Holding'
  BY DEF IInv, TypeOK, Holding, classify
<1>4. AlarmInv'
  BY AlarmsUnchanged DEF AlarmVars
<1>6. Opened'
  BY DEF IInv, TypeOK, Holding, Opened, classify
<1>. QED  BY <1>1, <1>2, <1>3, <1>4, <1>6 DEF IInv, AlarmInv

\* The banner goes out or fails.
LEMMA BannerInv ==
  ASSUME IInv, NEW c \in Conns, Banner(c)
  PROVE  IInv'
<1>. USE DEF Banner, alarmvars, clientvars, Goto, Running
<1>1. TypeOK'
  BY DEF IInv, TypeOK, HandlerAt
<1>2. Raising'
  BY DEF IInv, Raising
<1>3. Holding'
  BY DEF IInv, TypeOK, Holding, classify
<1>4. AlarmInv'
  BY AlarmsUnchanged DEF AlarmVars
<1>6. Opened'
  BY DEF IInv, TypeOK, Holding, Opened, classify
<1>. QED  BY <1>1, <1>2, <1>3, <1>4, <1>6 DEF IInv, AlarmInv

\* Segments come in: got[c] changes only before the request is classified.
LEMMA ReceiveInv ==
  ASSUME IInv, NEW c \in Conns, Receive(c)
  PROVE  IInv'
<1>. USE DEF Receive, alarmvars, clientvars, Goto, Running
<1>1. TypeOK'
  <2>1. got[c] \in 0..2 /\ sent[c] \in 0..2
    BY DEF IInv, TypeOK
  <2>2. \A n \in got[c] + 1..sent[c] : n \in 0..2
    BY <2>1
  <2>3. got' \in [Conns -> 0..2]
    BY <2>2 DEF IInv, TypeOK
  <2>4. pc' \in [Conns -> HandlerAt]
    BY DEF IInv, TypeOK, HandlerAt
  <2>. QED  BY <2>3, <2>4 DEF IInv, TypeOK
<1>2. Raising'
  BY DEF IInv, Raising
<1>3. Holding'
  BY DEF IInv, TypeOK, Holding, classify
<1>4. AlarmInv'
  BY AlarmsUnchanged DEF AlarmVars
<1>6. Opened'
  BY DEF IInv, TypeOK, Holding, Opened, classify
<1>. QED  BY <1>1, <1>2, <1>3, <1>4, <1>6 DEF IInv, AlarmInv

\* No request comes.
LEMMA NoRequestInv ==
  ASSUME IInv, NEW c \in Conns, NoRequest(c)
  PROVE  IInv'
<1>. USE DEF NoRequest, alarmvars, clientvars, Goto, Running
<1>1. TypeOK'
  BY DEF IInv, TypeOK, HandlerAt
<1>2. Raising'
  BY DEF IInv, Raising
<1>3. Holding'
  BY DEF IInv, TypeOK, Holding, classify
<1>4. AlarmInv'
  BY AlarmsUnchanged DEF AlarmVars
<1>6. Opened'
  BY DEF IInv, TypeOK, Holding, Opened, classify
<1>. QED  BY <1>1, <1>2, <1>3, <1>4, <1>6 DEF IInv, AlarmInv

\* The request is over or its handler ends.
LEMMA GatheredInv ==
  ASSUME IInv, NEW c \in Conns, Gathered(c)
  PROVE  IInv'
<1>. USE DEF Gathered, alarmvars, clientvars, Goto, Running
<1>1. TypeOK'
  BY DEF IInv, TypeOK, HandlerAt
<1>2. Raising'
  BY DEF IInv, Raising
<1>3. Holding'
  BY DEF IInv, TypeOK, Holding, classify
<1>4. AlarmInv'
  BY AlarmsUnchanged DEF AlarmVars
<1>6. Opened'
  BY DEF IInv, TypeOK, Holding, Opened, classify
<1>. QED  BY <1>1, <1>2, <1>3, <1>4, <1>6 DEF IInv, AlarmInv

\* The session of a poll is stored.
LEMMA StoreInv ==
  ASSUME IInv, NEW c \in Conns, Store(c)
  PROVE  IInv'
<1>. USE DEF Store, alarmvars, clientvars, Goto, Running
<1>1. TypeOK'
  <2>1. sessions' \subseteq Handles
    BY AskTyped DEF IInv, TypeOK
  <2>. QED  BY <2>1 DEF IInv, TypeOK, HandlerAt
<1>2. Raising'
  BY DEF IInv, Raising
<1>3. Holding'
  BY DEF IInv, TypeOK, Holding, classify
<1>4. AlarmInv'
  BY AlarmsUnchanged DEF AlarmVars
<1>6. Opened'
  BY DEF IInv, TypeOK, Holding, Opened, classify
<1>. QED  BY <1>1, <1>2, <1>3, <1>4, <1>6 DEF IInv, AlarmInv

---------------------------------------------------------------------------
(* Then those that do.                                                     *)

LEMMA GenRaiseInv ==
  ASSUME IInv, GenRaise
  PROVE  IInv'
<1>. USE DEF clientvars
<1>1. TypeOK'
  <2>1. made' \in Alarms /\ queue' \in Seq(Alarms) /\ Len(queue') <= Cap
    BY RaiseQueue
  <2>2. made' \in 0..MaxAlarms
    BY <2>1, CapAssumption DEF Alarms
  <2>3. trimmed' \subseteq Alarms
    <3>1. PICK out \in SUBSET Elements(queue) : trimmed' = trimmed \cup out
      BY RaiseQueue
    <3>2. Elements(queue) \subseteq Alarms
      BY DEF IInv, TypeOK, Elements
    <3>. QED  BY <3>1, <3>2 DEF IInv, TypeOK
  <2>. QED  BY <2>1, <2>2, <2>3 DEF IInv, TypeOK, GenRaise
<1>2. Raising'
  BY DEF Raising, GenRaise
<1>3. Holding'
  BY DEF IInv, Holding, classify, GenRaise
<1>4. AlarmInv'
  BY AlarmsRaised
<1>6. Opened'
  BY DEF IInv, Opened, classify, GenRaise
<1>. QED  BY <1>1, <1>2, <1>3, <1>4, <1>6 DEF IInv, AlarmInv

\* A poll takes the queue, and a finish excuses the polls on its handle.
LEMMA DispatchInv ==
  ASSUME IInv, NEW c \in Conns, Dispatch(c)
  PROVE  IInv'
<1>. USE DEF Dispatch, clientvars, Goto, Running
<1>1. TypeOK'
  <2>1. held' \in [Conns -> Seq(Alarms)]
    BY DEF IInv, TypeOK
  <2>2. queue' \in Seq(Alarms) /\ Len(queue') <= Cap
    BY CapAssumption DEF IInv, TypeOK
  <2>3. finished' \subseteq Conns /\ sessions' \subseteq Handles
    BY DEF IInv, TypeOK, PolledOn
  <2>4. pc' \in [Conns -> HandlerAt]
    BY DEF IInv, TypeOK, HandlerAt
  <2>. QED  BY <2>1, <2>2, <2>3, <2>4 DEF IInv, TypeOK
<1>2. Raising'
  BY DEF IInv, Raising
<1>3. held[c] = <<>>
  BY DEF IInv, Holding
<1>4. \A d \in Conns : classify(d)' = classify(d)
  BY DEF classify
<1>5. Holding'
  <2>1. held[c]' # <<>> => pc[c]' = "store"
    BY <1>3 DEF IInv, TypeOK
  <2>. QED  BY <1>4, <2>1 DEF IInv, TypeOK, Holding
<1>6. AlarmInv'
  <2>1. CASE classify(c) = "LRES"
    BY <1>3, <2>1, AlarmsTaken
  <2>2. CASE classify(c) # "LRES"
    BY <2>2, AlarmsUnchanged DEF AlarmVars, IInv, TypeOK
  <2>. QED  BY <2>1, <2>2
<1>8. Opened'
  <2>. SUFFICES ASSUME NEW d \in Conns, d \notin finished',
                       pc[d]' = "respond" \/ rtype[d] # 0, classify(d) = "LRES"
                PROVE  ask[d].handle \in sessions'
    BY <1>4 DEF Opened
  <2>1. d # c
    BY DEF IInv, TypeOK, Holding
  <2>2. pc[d]' = pc[d] /\ (pc[d] = "respond" \/ rtype[d] # 0) /\ d \notin finished
    BY <2>1 DEF IInv, TypeOK
  <2>3. ask[d].handle \in sessions
    BY <2>2 DEF IInv, Opened
  <2>4. classify(c) = "LFIN" => ask[d].handle # ask[c].handle
    BY <2>2 DEF PolledOn, IInv, Holding
  <2>. QED  BY <2>3, <2>4
<1>. QED  BY <1>1, <1>2, <1>5, <1>6, <1>8 DEF IInv, AlarmInv

\* What a response tells is all the handler holds.
LEMMA RespondInv ==
  ASSUME IInv, NEW c \in Conns, Respond(c)
  PROVE  IInv'
<1>. USE DEF Respond, alarmvars, clientvars, Goto, Running
<1>1. Held(c) \subseteq Alarms
  BY DEF IInv, TypeOK, Held, Elements
<1>2. TypeOK'
  <2>1. told' \in [Conns -> SUBSET Alarms]
    BY <1>1 DEF IInv, TypeOK, Held
  <2>2. held' \in [Conns -> Seq(Alarms)]
    BY DEF IInv, TypeOK
  <2>3. rtype' \in [Conns -> Nat]
    BY DEF IInv, TypeOK, ResponseType
  <2>4. pc' \in [Conns -> HandlerAt]
    BY DEF IInv, TypeOK, HandlerAt
  <2>. QED  BY <2>1, <2>2, <2>3, <2>4 DEF IInv, TypeOK
<1>3. Raising'
  BY DEF IInv, Raising
<1>4. \A d \in Conns : classify(d)' = classify(d)
  BY DEF classify
<1>5. Holding'
  BY <1>4 DEF IInv, TypeOK, Holding
<1>6. AlarmInv'
  <2>1. lost' = [lost EXCEPT ![c] = @ \cup {}]
    BY DEF IInv, TypeOK
  <2>2. told' = [told EXCEPT ![c] = @ \cup Held(c)] /\ held' = [held EXCEPT ![c] = <<>>]
    BY DEF Held
  <2>3. /\ Held(c) \cup {} \subseteq Held(c) /\ Held(c) \cap {} = {}
        /\ Elements(<<>>) = Held(c) \ (Held(c) \cup {}) /\ Sorted(<<>>)
        /\ \A a \in Held(c), b \in Held(c) \ Held(c) : a < b
    BY NoElements
  <2>4. UNCHANGED <<made, queue, trimmed>> /\ lost[c] = {}
    BY DEF IInv, Holding
  <2>. HIDE DEF Respond
  <2>. QED  BY <2>1, <2>2, <2>3, <2>4, AlarmsLetGo
<1>8. Opened'
  BY <1>4 DEF IInv, TypeOK, Opened
<1>. QED  BY <1>2, <1>3, <1>5, <1>6, <1>8 DEF IInv, AlarmInv

LEMMA TakeLateInv ==
  ASSUME IInv, NEW c \in Conns, TakeLate(c)
  PROVE  IInv'
<1>. USE DEF TakeLate, clientvars, Goto, Running
<1>1. TypeOK'
  <2>1. held' \in [Conns -> Seq(Alarms)] /\ queue' \in Seq(Alarms) /\ Len(queue') <= Cap
    BY CapAssumption DEF IInv, TypeOK
  <2>2. pc' \in [Conns -> HandlerAt]
    BY DEF IInv, TypeOK, HandlerAt
  <2>. QED  BY <2>1, <2>2 DEF IInv, TypeOK
<1>2. Raising'
  BY DEF IInv, Raising
<1>3. Holding'
  BY DEF IInv, TypeOK, Holding, classify
<1>4. AlarmInv'
  BY AlarmsTaken DEF IInv, Holding
<1>6. Opened'
  BY DEF IInv, TypeOK, Opened, classify
<1>. QED  BY <1>1, <1>2, <1>3, <1>4, <1>6 DEF IInv, AlarmInv

\* What Notify lets go is the head of what the handler holds.
LEMMA HeldHead ==
  ASSUME IInv, NEW c \in Conns, pc[c] = "notify"
  PROVE  /\ held[c] \in Seq(Alarms) /\ held[c] # <<>>
         /\ Head(held[c]) \in Alarms /\ Head(held[c]) \in Held(c)
         /\ Tail(held[c]) \in Seq(Alarms)
         /\ Elements(Tail(held[c])) = Held(c) \ {Head(held[c])}
         /\ \A b \in Held(c) \ {Head(held[c])} : Head(held[c]) < b
         /\ Sorted(Tail(held[c]))
         /\ Tail(held[c]) = <<>> <=> Len(held[c]) = 1
<1>1. held[c] \in Seq(Alarms) /\ held[c] # <<>> /\ Sorted(held[c])
  BY DEF IInv, TypeOK, Holding, Separate
<1>2. Alarms \in SUBSET Int
  BY CapAssumption DEF Alarms
<1>. QED  BY <1>1, <1>2, TailElements DEF Held

LEMMA NotifyInv ==
  ASSUME IInv, NEW c \in Conns, Notify(c)
  PROVE  IInv'
<1>. USE DEF Notify, alarmvars, clientvars, Goto, Running
<1>1. TypeOK'
  <2>1. held' \in [Conns -> Seq(Alarms)]
    BY HeldHead DEF IInv, TypeOK
  <2>2. told' \in [Conns -> SUBSET Alarms]
    BY HeldHead DEF IInv, TypeOK
  <2>3. pc' \in [Conns -> HandlerAt]
    BY DEF IInv, TypeOK, HandlerAt
  <2>. QED  BY <2>1, <2>2, <2>3 DEF IInv, TypeOK
<1>2. Raising'
  BY DEF IInv, Raising
<1>3. Holding'
  BY HeldHead DEF IInv, TypeOK, Holding, classify
<1>4. AlarmInv'
  <2>1. lost' = [lost EXCEPT ![c] = @ \cup {}]
    BY DEF IInv, TypeOK
  <2>2. told' = [told EXCEPT ![c] = @ \cup {Head(held[c])}]
        /\ held' = [held EXCEPT ![c] = Tail(held[c])]
    BY DEF IInv, TypeOK
  <2>3. /\ {Head(held[c])} \cup {} \subseteq Held(c) /\ {Head(held[c])} \cap {} = {}
        /\ Elements(Tail(held[c])) = Held(c) \ ({Head(held[c])} \cup {})
        /\ Sorted(Tail(held[c]))
        /\ \A a \in {Head(held[c])}, b \in Held(c) \ {Head(held[c])} : a < b
    BY HeldHead
  <2>4. UNCHANGED <<made, queue, trimmed>> /\ lost[c] = {}
    BY DEF IInv, Holding
  <2>. HIDE DEF Notify
  <2>. QED  BY <2>1, <2>2, <2>3, <2>4, AlarmsLetGo
<1>6. Opened'
  BY DEF IInv, TypeOK, Opened, Holding, classify
<1>. QED  BY <1>1, <1>2, <1>3, <1>4, <1>6 DEF IInv, AlarmInv

LEMMA SendFailsInv ==
  ASSUME IInv, NEW c \in Conns, SendFails(c)
  PROVE  IInv'
<1>. USE DEF SendFails, alarmvars, clientvars, Goto, Running
<1>1. Held(c) \subseteq Alarms
  BY DEF IInv, TypeOK, Held, Elements
<1>2. TypeOK'
  <2>1. lost' \in [Conns -> SUBSET Alarms]
    BY <1>1 DEF IInv, TypeOK, Held
  <2>2. held' \in [Conns -> Seq(Alarms)]
    BY DEF IInv, TypeOK
  <2>3. pc' \in [Conns -> HandlerAt]
    BY DEF IInv, TypeOK, HandlerAt
  <2>. QED  BY <2>1, <2>2, <2>3 DEF IInv, TypeOK
<1>3. Raising'
  BY DEF IInv, Raising
<1>4. Holding'
  BY DEF IInv, TypeOK, Holding, classify
<1>5. AlarmInv'
  <2>1. told' = [told EXCEPT ![c] = @ \cup {}]
    BY DEF IInv, TypeOK
  <2>2. lost' = [lost EXCEPT ![c] = @ \cup Held(c)] /\ held' = [held EXCEPT ![c] = <<>>]
    BY DEF Held
  <2>3. /\ {} \cup Held(c) \subseteq Held(c) /\ {} \cap Held(c) = {}
        /\ Elements(<<>>) = Held(c) \ ({} \cup Held(c)) /\ Sorted(<<>>)
        /\ \A a \in {}, b \in Held(c) \ {} : a < b
    BY NoElements
  <2>4. UNCHANGED <<made, queue, trimmed>> /\ lost[c] = {}
    BY DEF IInv, Holding
  <2>. HIDE DEF SendFails
  <2>. QED  BY <2>1, <2>2, <2>3, <2>4, AlarmsLetGo
<1>7. Opened'
  BY DEF IInv, TypeOK, Opened, Holding, classify
<1>. QED  BY <1>2, <1>3, <1>4, <1>5, <1>7 DEF IInv, AlarmInv

---------------------------------------------------------------------------
(* The theorems.                                                           *)

LEMMA InitInv == Init => IInv
<1>. SUFFICES ASSUME Init PROVE IInv
  OBVIOUS
<1>1. TypeOK
  BY CapAssumption DEF Init, TypeOK, HandlerAt
<1>2. \A c \in Conns : Held(c) = {} /\ Mine(c) = {} /\ Sorted(held[c])
  BY NoElements DEF Init, Held, Mine
<1>3. QueueIsNewest /\ Elements(queue) = {}
  BY NoElements DEF Init, QueueIsNewest
<1>4. Covered
  BY DEF Init, Covered
<1>5. Separate
  BY <1>2, <1>3 DEF Init, Separate
<1>6. Raising /\ Holding /\ LostAreNewest /\ Opened
  BY DEF Init, Raising, Holding, LostAreNewest, Opened
<1>. QED  BY <1>1, <1>3, <1>4, <1>5, <1>6 DEF IInv

LEMMA StutterInv == IInv /\ UNCHANGED vars => IInv'
<1>. SUFFICES ASSUME IInv, UNCHANGED vars PROVE IInv'
  OBVIOUS
<1>. USE DEF vars, alarmvars, clientvars
<1>1. AlarmInv'
  BY AlarmsUnchanged DEF AlarmVars
<1>2. TypeOK' /\ Raising'
  BY DEF IInv, TypeOK, Raising
<1>3. Holding' /\ Opened'
  BY DEF IInv, Holding, Opened, classify
<1>. QED  BY <1>1, <1>2, <1>3 DEF IInv, AlarmInv

LEMMA StepInv == IInv /\ [Next]_vars => IInv'
<1>. SUFFICES ASSUME IInv, [Next]_vars PROVE IInv'
  OBVIOUS
<1>1. CASE Interrupt \/ Main \/ Generator
  BY <1>1, InterruptInv, ProcessExitInv, GenWakeInv, GenRaiseInv DEF Main, Generator
<1>2. ASSUME NEW c \in Conns, Client(c) PROVE IInv'
  BY <1>2, ConnectInv, SendSegmentInv, CloseInv DEF Client
<1>3. ASSUME NEW c \in Conns, Handler(c) PROVE IInv'
  BY <1>3, AcceptInv, BannerInv, ReceiveInv, NoRequestInv, GatheredInv, DispatchInv,
     StoreInv, RespondInv, TakeLateInv, NotifyInv, SendFailsInv DEF Handler
<1>4. CASE UNCHANGED vars
  BY <1>4, StutterInv
<1>. QED  BY <1>1, <1>2, <1>3, <1>4 DEF Next

\* The inductive invariant holds in every behaviour of the emulator.
THEOREM Inductive == Spec => []IInv
<1>1. Init => IInv
  BY InitInv
<1>2. IInv /\ [Next]_vars => IInv'
  BY StepInv
<1>. QED  BY <1>1, <1>2, PTL DEF Spec

\* The emulator keeps its types, and the queue its bound (_alarm_generator).
THEOREM TypeCorrect == Spec => []TypeOK
<1>1. IInv => TypeOK
  BY DEF IInv
<1>. QED  BY <1>1, Inductive, PTL

\* Whatever handlers take and the generator trims, what waits is the newest.
THEOREM QueueNewest == Spec => []QueueIsNewest
<1>1. IInv => QueueIsNewest
  BY DEF IInv
<1>. QED  BY <1>1, Inductive, PTL

\* Whatever other handlers take in between, a client is told its alarms in order
\* and misses at most the newest of them (handle_connection).
THEOREM LostNewest == Spec => []LostAreNewest
<1>1. IInv => LostAreNewest
  BY DEF IInv
<1>. QED  BY <1>1, Inductive, PTL

\* A poll that was answered has its session, unless it was finished since.
THEOREM PollsOpened == Spec => []AnsweredPollHasSession
<1>1. IInv => AnsweredPollHasSession
  BY DEF IInv, Opened, AnsweredPollHasSession
<1>. QED  BY <1>1, Inductive, PTL

---------------------------------------------------------------------------
(* FfHse implements AlarmDelivery under the mapping place.                 *)

\* What place says of an alarm, read off the state.
PlaceFacts ==
  /\ place \in [Alarms -> Delivery!Places]
  /\ \A a \in Alarms :
       /\ a > made => place[a] = Delivery!Free("unborn")
       /\ a \in Elements(queue) => place[a] = Delivery!Free("queued")
       /\ a \in trimmed => place[a] = Delivery!Free("trimmed")
       /\ \A c \in Conns :
            /\ a \in Held(c) => place[a] = Delivery!With("held", c)
            /\ a \in told[c] => place[a] = Delivery!With("told", c)
            /\ a \in lost[c] => place[a] = Delivery!With("lost", c)

Located(a) ==
  \/ a > made \/ a \in Elements(queue) \/ a \in trimmed
  \/ \E c \in Conns : a \in Held(c) \/ a \in told[c] \/ a \in lost[c]

LEMMA AllLocated ==
  ASSUME IInv, NEW a \in Alarms
  PROVE  Located(a)
<1>1. made \in Nat /\ a \in Nat /\ a >= 1
  BY CapAssumption DEF IInv, TypeOK, Alarms
<1>2. CASE a > made
  BY <1>2 DEF Located
<1>3. CASE a \in 1..made
  BY <1>3 DEF IInv, Covered, Located, Mine
<1>. QED  BY <1>1, <1>2, <1>3

LEMMA PlacesFound == IInv => PlaceFacts
<1>. SUFFICES ASSUME IInv PROVE PlaceFacts
  OBVIOUS
<1>. USE DEF Delivery!Free, Delivery!With
<1>1. made \in Nat /\ Elements(queue) \subseteq 1..made /\ trimmed \subseteq 1..made
  <2>1. /\ Elements(queue) = made - Len(queue) + 1..made /\ made \in Nat
        /\ Len(queue) \in Nat /\ Len(queue) <= made
    BY QueueElements, CapAssumption DEF IInv, TypeOK, Alarms
  <2>2. Elements(queue) \subseteq 1..made
    BY <2>1
  <2>. QED  BY <2>1, <2>2 DEF IInv, Separate
<1>2. ASSUME NEW a \in Alarms, a > made
      PROVE  /\ place[a] = Delivery!Free("unborn")
             /\ a \notin Elements(queue) \cup trimmed
             /\ \A c \in Conns : a \notin Mine(c)
  <2>1. a \notin 1..made
    BY <1>1, <1>2
  <2>. QED  BY <1>1, <1>2, <2>1 DEF place, IInv, Separate
<1>3. ASSUME NEW a \in Alarms, ~(a > made), a \in Elements(queue)
      PROVE  place[a] = Delivery!Free("queued")
  BY <1>3 DEF place
<1>4. ASSUME NEW a \in Alarms, ~(a > made), a \in trimmed
      PROVE  place[a] = Delivery!Free("trimmed")
  <2>1. a \notin Elements(queue)
    BY <1>4 DEF IInv, Separate
  <2>. QED  BY <1>4, <2>1 DEF place
<1>5. ASSUME NEW a \in Alarms, ~(a > made), NEW c \in Conns, a \in Mine(c)
      PROVE  place[a] = Delivery!With(IF a \in told[c] THEN "told"
                                      ELSE IF a \in lost[c] THEN "lost" ELSE "held", c)
  <2>1. a \notin Elements(queue) /\ a \notin trimmed
    BY <1>5 DEF IInv, Separate
  <2>2. \A d \in Conns : a \in Mine(d) <=> d = c
    BY <1>5 DEF IInv, Separate
  <2>. DEFINE e == CHOOSE d \in Conns : a \in Elements(held[d]) \cup told[d] \cup lost[d]
  <2>3. e = c
    <3>1. e = CHOOSE d \in Conns : a \in Mine(d)
      BY DEF Mine, Held
    <3>. QED  BY <3>1, <2>2
  <2>4. place[a] = [at |-> IF a \in told[e] THEN "told"
                           ELSE IF a \in lost[e] THEN "lost" ELSE "held",
                    by |-> {e}]
    BY <1>5, <2>1 DEF place
  <2>. QED  BY <2>3, <2>4
<1>6. ASSUME NEW a \in Alarms, NEW c \in Conns
      PROVE  /\ a \in Held(c) => place[a] = Delivery!With("held", c)
             /\ a \in told[c] => place[a] = Delivery!With("told", c)
             /\ a \in lost[c] => place[a] = Delivery!With("lost", c)
  <2>1. a \in Mine(c) => ~(a > made)
    BY <1>2
  <2>2. Held(c) \cap (told[c] \cup lost[c]) = {} /\ told[c] \cap lost[c] = {}
    BY DEF IInv, Separate
  <2>. QED  BY <1>5, <2>1, <2>2 DEF Mine
<1>7. ASSUME NEW a \in Alarms
      PROVE  /\ a > made => place[a] = Delivery!Free("unborn")
             /\ a \in Elements(queue) => place[a] = Delivery!Free("queued")
             /\ a \in trimmed => place[a] = Delivery!Free("trimmed")
  BY <1>2, <1>3, <1>4
<1>8. ASSUME NEW a \in Alarms PROVE place[a] \in Delivery!Places
  <2>. HIDE DEF Delivery!Free, Delivery!With
  <2>1. CASE a > made \/ a \in Elements(queue) \/ a \in trimmed
    <3>1. place[a] \in {Delivery!Free("unborn"), Delivery!Free("queued"),
                        Delivery!Free("trimmed")}
      BY <1>7, <2>1
    <3>2. {Delivery!Free("unborn"), Delivery!Free("queued"), Delivery!Free("trimmed")}
            \subseteq Delivery!Places
      BY DEF Delivery!Places
    <3>. QED  BY <3>1, <3>2
  <2>2. CASE \E c \in Conns : a \in Held(c) \/ a \in told[c] \/ a \in lost[c]
    <3>1. \E c \in Conns : place[a] \in {Delivery!With("held", c), Delivery!With("told", c),
                                         Delivery!With("lost", c)}
      BY <1>6, <2>2
    <3>2. \A c \in Conns : {Delivery!With("held", c), Delivery!With("told", c),
                            Delivery!With("lost", c)} \subseteq Delivery!Places
      BY DEF Delivery!Places
    <3>. QED  BY <3>1, <3>2
  <2>. QED  BY <2>1, <2>2, AllLocated DEF Located
<1>9. place \in [Alarms -> Delivery!Places]
  <2>1. place = [a \in Alarms |-> place[a]]
    BY DEF place
  <2>. QED  BY <1>8, <2>1
<1>. QED  BY <1>6, <1>7, <1>9 DEF PlaceFacts

\* An alarm stays or goes where AlarmDelivery lets it go.
Moved(a) == place'[a] = place[a] \/ Delivery!Onward(place[a], place'[a])

LEMMA TakenMoves ==
  ASSUME IInv, PlaceFacts, PlaceFacts', NEW c \in Conns, held[c] = <<>>,
         held' = [held EXCEPT ![c] = queue], queue' = <<>>,
         UNCHANGED <<made, trimmed, told, lost>>,
         NEW a \in Alarms
  PROVE  Moved(a)
<1>1. /\ Held(c)' = Elements(queue) /\ Held(c) = {}
      /\ \A d \in Conns : d # c => Held(d)' = Held(d)
  BY AlarmsTaken
<1>2. CASE a \in Elements(queue)
  <2>1. place[a] = Delivery!Free("queued") /\ place'[a] = Delivery!With("held", c)
    BY <1>1, <1>2 DEF PlaceFacts
  <2>. QED  BY <2>1 DEF Moved, Delivery!Onward
<1>3. CASE a \notin Elements(queue)
  <2>1. place'[a] = place[a]
    BY <1>1, <1>3, AllLocated DEF Located, PlaceFacts
  <2>. QED  BY <2>1 DEF Moved
<1>. QED  BY <1>2, <1>3

LEMMA LetGoMoves ==
  ASSUME IInv, PlaceFacts, PlaceFacts', NEW c \in Conns, NEW T, NEW L,
         T \cup L \subseteq Held(c), T \cap L = {},
         LetGo(c, T, L), NEW a \in Alarms
  PROVE  Moved(a)
<1>. USE DEF LetGo
<1>1. CASE a \in T
  <2>1. place[a] = Delivery!With("held", c) /\ place'[a] = Delivery!With("told", c)
    BY <1>1 DEF PlaceFacts
  <2>. QED  BY <2>1 DEF Moved, Delivery!Onward
<1>2. CASE a \in L
  <2>1. place[a] = Delivery!With("held", c) /\ place'[a] = Delivery!With("lost", c)
    BY <1>2 DEF PlaceFacts
  <2>. QED  BY <2>1 DEF Moved, Delivery!Onward
<1>3. CASE a \notin T \cup L
  <2>1. place'[a] = place[a]
    <3>1. CASE \E d \in Conns : a \in Held(d) \/ a \in told[d] \/ a \in lost[d]
      <4>1. PICK d \in Conns : a \in Held(d) \/ a \in told[d] \/ a \in lost[d]
        BY <3>1
      <4>. QED  BY <4>1, <1>3 DEF PlaceFacts
    <3>2. CASE a > made \/ a \in Elements(queue) \/ a \in trimmed
      BY <3>2 DEF PlaceFacts
    <3>. QED  BY <3>1, <3>2, AllLocated DEF Located
  <2>. QED  BY <2>1 DEF Moved
<1>. QED  BY <1>1, <1>2, <1>3

LEMMA RaisedMoves ==
  ASSUME IInv, PlaceFacts, PlaceFacts', GenRaise, NEW a \in Alarms
  PROVE  Moved(a)
<1>1. PICK out \in SUBSET Elements(queue) :
        /\ trimmed' = trimmed \cup out
        /\ Elements(queue') = (Elements(queue) \ out) \cup {made + 1}
  BY RaiseQueue
<1>2. /\ made' = made + 1 /\ made \in Nat /\ a \in Nat
      /\ Elements(queue)' = Elements(queue')
      /\ UNCHANGED <<told, lost>> /\ \A c \in Conns : Held(c)' = Held(c)
  BY RaiseQueue, CapAssumption
     DEF IInv, TypeOK, Alarms, GenRaise, Elements, Held
<1>3. CASE a = made + 1
  <2>1. a > made /\ a \in Elements(queue)'
    BY <1>1, <1>2, <1>3
  <2>2. place[a] = Delivery!Free("unborn") /\ place'[a] = Delivery!Free("queued")
    BY <2>1 DEF PlaceFacts
  <2>. QED  BY <2>2 DEF Moved, Delivery!Onward
<1>4. CASE a \in out
  <2>1. place[a] = Delivery!Free("queued") /\ place'[a] = Delivery!Free("trimmed")
    BY <1>1, <1>4 DEF PlaceFacts
  <2>. QED  BY <2>1 DEF Moved, Delivery!Onward
<1>5. CASE a # made + 1 /\ a \notin out
  <2>1. CASE a > made
    <3>1. a > made'
      BY <1>2, <1>5, <2>1
    <3>. QED  BY <2>1, <3>1 DEF PlaceFacts, Moved
  <2>2. CASE a \in Elements(queue)
    BY <1>1, <1>2, <1>5, <2>2 DEF PlaceFacts, Moved
  <2>3. CASE a \in trimmed
    BY <1>1, <2>3 DEF PlaceFacts, Moved
  <2>4. CASE \E c \in Conns : a \in Held(c) \/ a \in told[c] \/ a \in lost[c]
    BY <1>2, <2>4 DEF PlaceFacts, Moved
  <2>. QED  BY <2>1, <2>2, <2>3, <2>4, AllLocated DEF Located
<1>. QED  BY <1>3, <1>4, <1>5

\* Steps that leave every alarm where it is.
LEMMA UnchangedMoves ==
  ASSUME UNCHANGED AlarmVars
  PROVE  place' = place
BY DEF AlarmVars, place, Elements

LEMMA RespondMoves ==
  ASSUME IInv, PlaceFacts, PlaceFacts', NEW c \in Conns, Respond(c), NEW a \in Alarms
  PROVE  Moved(a)
<1>1. /\ told' = [told EXCEPT ![c] = @ \cup Held(c)] /\ held' = [held EXCEPT ![c] = <<>>]
      /\ lost' = [lost EXCEPT ![c] = @ \cup {}] /\ UNCHANGED <<made, queue, trimmed>>
  BY DEF Respond, alarmvars, Held, IInv, TypeOK
<1>2. /\ Held(c) \cup {} \subseteq Held(c) /\ Held(c) \cap {} = {}
      /\ Elements(<<>>) = Held(c) \ (Held(c) \cup {}) /\ Sorted(<<>>)
      /\ lost[c] = {} /\ \A b1 \in Held(c), b2 \in Held(c) \ Held(c) : b1 < b2
  BY NoElements DEF IInv, Holding, Respond, Running
<1>3. LetGo(c, Held(c), {})
  BY <1>1, <1>2, AlarmsLetGo
<1>. QED  BY <1>2, <1>3, LetGoMoves

LEMMA NotifyMoves ==
  ASSUME IInv, PlaceFacts, PlaceFacts', NEW c \in Conns, Notify(c), NEW a \in Alarms
  PROVE  Moved(a)
<1>. DEFINE x == Head(held[c])
<1>1. /\ told' = [told EXCEPT ![c] = @ \cup {x}] /\ held' = [held EXCEPT ![c] = Tail(held[c])]
      /\ lost' = [lost EXCEPT ![c] = @ \cup {}] /\ UNCHANGED <<made, queue, trimmed>>
  BY DEF Notify, alarmvars, IInv, TypeOK
<1>2. /\ {x} \cup {} \subseteq Held(c) /\ {x} \cap {} = {}
      /\ Elements(Tail(held[c])) = Held(c) \ ({x} \cup {}) /\ Sorted(Tail(held[c]))
      /\ lost[c] = {} /\ \A b1 \in {x}, b2 \in Held(c) \ {x} : b1 < b2
  BY HeldHead DEF Notify, Running, IInv, Holding
<1>. HIDE DEF x
<1>3. LetGo(c, {x}, {})
  BY <1>1, <1>2, AlarmsLetGo
<1>. QED  BY <1>2, <1>3, LetGoMoves

LEMMA SendFailsMoves ==
  ASSUME IInv, PlaceFacts, PlaceFacts', NEW c \in Conns, SendFails(c), NEW a \in Alarms
  PROVE  Moved(a)
<1>1. PICK T, L : T = {} /\ L = Held(c)
  OBVIOUS
<1>2. /\ lost' = [lost EXCEPT ![c] = @ \cup L] /\ held' = [held EXCEPT ![c] = <<>>]
      /\ told' = [told EXCEPT ![c] = @ \cup T] /\ UNCHANGED <<made, queue, trimmed>>
  BY <1>1 DEF SendFails, alarmvars, Held, IInv, TypeOK
<1>3. /\ T \cup L \subseteq Held(c) /\ T \cap L = {}
      /\ Elements(<<>>) = Held(c) \ (T \cup L) /\ Sorted(<<>>)
      /\ lost[c] = {} /\ \A b1 \in T, b2 \in Held(c) \ T : b1 < b2
  BY <1>1, NoElements DEF IInv, Holding, SendFails, Running
<1>4. LetGo(c, T, L)
  BY <1>2, <1>3, AlarmsLetGo
<1>. QED  BY <1>3, <1>4, LetGoMoves

\* A poll and the push after a response take the queue from a handler that holds
\* nothing.
LEMMA DispatchMoves ==
  ASSUME IInv, PlaceFacts, PlaceFacts', NEW c \in Conns, Dispatch(c), NEW a \in Alarms
  PROVE  Moved(a)
<1>1. CASE classify(c) = "LRES"
  <2>1. held[c] = <<>>
    BY DEF IInv, Holding, Dispatch, Running
  <2>2. /\ held' = [held EXCEPT ![c] = queue] /\ queue' = <<>>
        /\ UNCHANGED <<made, trimmed, told, lost>>
    BY <1>1 DEF Dispatch
  <2>. QED  BY <2>1, <2>2, TakenMoves
<1>2. CASE classify(c) # "LRES"
  <2>1. UNCHANGED AlarmVars
    BY <1>2 DEF Dispatch, AlarmVars, IInv, TypeOK
  <2>. QED  BY <2>1, UnchangedMoves DEF Moved
<1>. QED  BY <1>1, <1>2

LEMMA TakeLateMoves ==
  ASSUME IInv, PlaceFacts, PlaceFacts', NEW c \in Conns, TakeLate(c), NEW a \in Alarms
  PROVE  Moved(a)
<1>1. held[c] = <<>>
  BY DEF IInv, Holding, TakeLate, Running
<1>2. /\ held' = [held EXCEPT ![c] = queue] /\ queue' = <<>>
      /\ UNCHANGED <<made, trimmed, told, lost>>
  BY DEF TakeLate
<1>. QED  BY <1>1, <1>2, TakenMoves

LEMMA StepMoves ==
  ASSUME IInv, PlaceFacts, PlaceFacts', [Next]_vars
  PROVE  [Delivery!Move]_place
<1>. SUFFICES ASSUME NEW a \in Alarms PROVE Moved(a)
  BY DEF PlaceFacts, Moved, Delivery!Move
<1>. USE DEF vars, alarmvars, clientvars
<1>1. ASSUME UNCHANGED AlarmVars PROVE Moved(a)
  BY <1>1, UnchangedMoves DEF Moved
<1>2. CASE Interrupt \/ Main \/ Generator
  <2>1. CASE GenRaise
    BY <2>1, RaisedMoves
  <2>2. CASE Interrupt \/ ProcessExit \/ GenWake
    <3>1. UNCHANGED AlarmVars
      BY <2>2 DEF AlarmVars, Interrupt, ProcessExit, GenWake
    <3>. QED  BY <3>1, <1>1
  <2>. QED  BY <1>2, <2>1, <2>2 DEF Main, Generator
<1>3. ASSUME NEW c \in Conns, Client(c) PROVE Moved(a)
  <2>1. UNCHANGED AlarmVars
    BY <1>3 DEF AlarmVars, Client, Connect, SendSegment, Close
  <2>. QED  BY <2>1, <1>1
<1>4. ASSUME NEW c \in Conns, Handler(c) PROVE Moved(a)
  <2>1. CASE Accept(c) \/ Banner(c) \/ Receive(c) \/ NoRequest(c) \/ Gathered(c) \/ Store(c)
    <3>1. UNCHANGED AlarmVars
      BY <2>1 DEF AlarmVars, Accept, Banner, Receive, NoRequest, Gathered, Store
    <3>. QED  BY <3>1, <1>1
  <2>2. CASE \/ Dispatch(c) \/ Respond(c) \/ TakeLate(c) \/ Notify(c) \/ SendFails(c)
    BY <2>2, DispatchMoves, RespondMoves, TakeLateMoves, NotifyMoves, SendFailsMoves
  <2>. QED  BY <1>4, <2>1, <2>2 DEF Handler
<1>5. CASE UNCHANGED vars
  <2>1. UNCHANGED AlarmVars
    BY <1>5 DEF AlarmVars
  <2>. QED  BY <2>1, <1>1
<1>. QED  BY <1>2, <1>3, <1>4, <1>5 DEF Next

LEMMA InitPlaces == Init => Delivery!Init
<1>. SUFFICES ASSUME Init PROVE Delivery!Init
  OBVIOUS
<1>1. \A a \in Alarms : a > made
  BY DEF Init, Alarms
<1>. QED  BY <1>1 DEF place, Delivery!Init, Delivery!Free

\* FfHse implements AlarmDelivery: no alarm is taken by two connections, told
\* twice or brought back, however handlers, polls and the generator interleave.
THEOREM AlarmsDelivered == Spec => AlarmsDeliveredOnce
<1>1. Init => Delivery!Init
  BY InitPlaces
<1>2. IInv /\ PlaceFacts /\ PlaceFacts' /\ [Next]_vars => [Delivery!Move]_place
  BY StepMoves
<1>3. IInv => PlaceFacts
  BY PlacesFound
<1>. QED  BY <1>1, <1>2, <1>3, Inductive, PTL
          DEF Spec, AlarmsDeliveredOnce, Delivery!Spec
---------------------------------------------------------------------------
(* Progress: the safety half of HandlersEnd.                               *)

\* Steps to the end of a handler at l that has gathered g segments and holds the alarms
\* h: Cap alarms may wait where it takes the last ones.
StepsFrom(l, g, h) ==
  CASE l = "off" -> Cap + 9
    [] l = "banner" -> Cap + 8
    [] l = "first" -> Cap + 7
    [] l = "gather" -> Cap + 5 + (2 - g)
    [] l = "classify" -> Cap + 4
    [] l = "store" -> Cap + 3
    [] l = "respond" -> Cap + 2
    [] l = "late" -> Cap + 1
    [] l = "notify" -> Len(h)
    [] l = "done" -> 0

StepsLeft(c) == StepsFrom(pc[c], got[c], held[c])

\* Every step of a handler brings its end nearer, and no step of another thread or of a
\* client takes it further away.
HandlersNear ==
  [][\A c \in Conns :
       IF Handler(c) THEN StepsLeft(c)' < StepsLeft(c) ELSE StepsLeft(c)' = StepsLeft(c)]_vars

LEMMA StepsAt ==
  ASSUME NEW g, NEW h
  PROVE  /\ StepsFrom("off", g, h) = Cap + 9 /\ StepsFrom("banner", g, h) = Cap + 8
         /\ StepsFrom("first", g, h) = Cap + 7
         /\ StepsFrom("gather", g, h) = Cap + 5 + (2 - g)
         /\ StepsFrom("classify", g, h) = Cap + 4 /\ StepsFrom("store", g, h) = Cap + 3
         /\ StepsFrom("respond", g, h) = Cap + 2 /\ StepsFrom("late", g, h) = Cap + 1
         /\ StepsFrom("notify", g, h) = Len(h) /\ StepsFrom("done", g, h) = 0
BY DEF StepsFrom

LEMMA StepsAre ==
  ASSUME NEW c \in Conns
  PROVE  /\ StepsLeft(c) = StepsFrom(pc[c], got[c], held[c])
         /\ StepsLeft(c)' = StepsFrom(pc'[c], got'[c], held'[c])
BY DEF StepsLeft, StepsFrom

LEMMA CapNat == Cap \in Nat /\ Cap > 0
BY CapAssumption

\* A handler holds no more than the queue may.
LEMMA HeldBound ==
  ASSUME TypeOK, NEW c \in Conns
  PROVE  Len(held[c]) \in Nat /\ Len(queue) \in 0..Cap /\ got[c] \in 0..2 /\ sent[c] \in 0..2
<1>1. held[c] \in Seq(Alarms) /\ queue \in Seq(Alarms)
  BY DEF TypeOK
<1>2. Len(held[c]) \in Nat /\ Len(queue) \in Nat
  BY <1>1, LenProperties
<1> QED BY <1>2, CapNat DEF TypeOK

LEMMA StepsTyped ==
  ASSUME TypeOK, NEW c \in Conns
  PROVE  StepsLeft(c) \in Nat
<1>1. pc[c] \in HandlerAt
  BY DEF TypeOK
<1> QED BY <1>1, HeldBound, CapNat, StepsAre, StepsAt DEF HandlerAt

\* The steps of a handler that end it, or go on without segments and alarms.
LEMMA MovesNear ==
  ASSUME TypeOK, NEW c \in Conns,
         \/ Accept(c) \/ Banner(c) \/ NoRequest(c) \/ Gathered(c) \/ Dispatch(c) \/ Store(c)
         \/ Respond(c)
  PROVE  StepsLeft(c)' < StepsLeft(c)
<1>1. PICK there \in HandlerAt :
        /\ pc'[c] = there
        /\ <<pc[c], there>> \in {<<"off", "banner">>, <<"banner", "first">>, <<"banner", "done">>,
             <<"first", "done">>, <<"gather", "classify">>, <<"gather", "done">>,
             <<"classify", "store">>, <<"classify", "respond">>, <<"store", "respond">>,
             <<"respond", "late">>}
  BY DEF Accept, Banner, NoRequest, Gathered, Dispatch, Store, Respond, Goto, Running, HandlerAt,
         TypeOK
<1>2. StepsLeft(c) = StepsFrom(pc[c], got[c], held[c])
  BY StepsAre
<1>3. StepsLeft(c)' = StepsFrom(there, got'[c], held'[c])
  BY <1>1, StepsAre
<1>4. got[c] \in 0..2
  BY HeldBound
<1> QED BY <1>1, <1>2, <1>3, <1>4, StepsAt, CapNat

LEMMA ReceiveNear ==
  ASSUME TypeOK, NEW c \in Conns, Receive(c)
  PROVE  StepsLeft(c)' < StepsLeft(c)
<1>1. pc'[c] = "gather" /\ pc[c] \in {"first", "gather"}
  BY DEF Receive, Goto, Running, TypeOK
<1>2. got[c] \in 0..2 /\ sent[c] \in 0..2
  BY HeldBound
<1>3. PICK n \in got[c] + 1..sent[c] : got'[c] = n
  BY DEF Receive, TypeOK
<1>4. n \in 1..2 /\ n > got[c]
  BY <1>2, <1>3
<1>5. StepsLeft(c)' = Cap + 5 + (2 - n)
  BY <1>1, <1>3, StepsAre, StepsAt
<1>6. StepsLeft(c) = Cap + 7 \/ StepsLeft(c) = Cap + 5 + (2 - got[c])
  BY <1>1, StepsAre, StepsAt
<1> QED BY <1>2, <1>4, <1>5, <1>6, CapNat

LEMMA TakeLateNear ==
  ASSUME TypeOK, NEW c \in Conns, TakeLate(c)
  PROVE  StepsLeft(c)' < StepsLeft(c)
<1>1. pc[c] = "late" /\ pc'[c] \in {"notify", "done"} /\ held'[c] = queue
  BY DEF TakeLate, Goto, Running, TypeOK
<1>2. StepsLeft(c) = Cap + 1
  BY <1>1, StepsAre, StepsAt
<1>3. StepsLeft(c)' = Len(queue) \/ StepsLeft(c)' = 0
  BY <1>1, StepsAre, StepsAt
<1> QED BY <1>2, <1>3, HeldBound, CapNat

LEMMA NotifyNear ==
  ASSUME IInv, NEW c \in Conns, Notify(c)
  PROVE  StepsLeft(c)' < StepsLeft(c)
<1>1. /\ pc[c] = "notify" /\ pc'[c] = (IF Len(held[c]) = 1 THEN "done" ELSE "notify")
      /\ held'[c] = Tail(held[c])
  BY DEF Notify, Goto, Running, IInv, TypeOK
<1>2. held[c] # <<>> /\ held[c] \in Seq(Alarms)
  BY <1>1 DEF IInv, Holding, TypeOK
<1>3. Len(held[c]) \in Nat \ {0} /\ Len(Tail(held[c])) = Len(held[c]) - 1
  BY <1>2, EmptySeq, HeadTailProperties
<1>4. StepsLeft(c) = Len(held[c])
  BY <1>1, StepsAre, StepsAt
<1>5. StepsLeft(c)' = StepsFrom(pc'[c], got'[c], Tail(held[c]))
  BY <1>1, StepsAre
<1>6. CASE pc'[c] = "done"
  <2>1. StepsLeft(c)' = 0
    BY <1>5, <1>6, StepsAt
  <2> QED BY <1>3, <1>4, <2>1
<1>7. CASE pc'[c] = "notify"
  <2>1. StepsLeft(c)' = Len(Tail(held[c]))
    BY <1>5, <1>7, StepsAt
  <2> QED BY <1>3, <1>4, <2>1
<1> QED BY <1>1, <1>6, <1>7

LEMMA SendFailsNear ==
  ASSUME IInv, NEW c \in Conns, SendFails(c)
  PROVE  StepsLeft(c)' < StepsLeft(c)
<1>1. pc[c] \in {"respond", "notify"} /\ pc'[c] = "done"
  BY DEF SendFails, Goto, Running, IInv, TypeOK
<1>2. StepsLeft(c)' = 0
  BY <1>1, StepsAre, StepsAt
<1>3. CASE pc[c] = "respond"
  BY <1>2, <1>3, StepsAre, StepsAt, CapNat
<1>4. CASE pc[c] = "notify"
  <2>1. held[c] # <<>> /\ held[c] \in Seq(Alarms)
    BY <1>4 DEF IInv, Holding, TypeOK
  <2>2. Len(held[c]) \in Nat \ {0}
    BY <2>1, EmptySeq, LenProperties
  <2>3. StepsLeft(c) = Len(held[c])
    BY <1>4, StepsAre, StepsAt
  <2> QED BY <1>2, <2>2, <2>3
<1> QED BY <1>1, <1>3, <1>4

LEMMA HandlerNear ==
  ASSUME IInv, NEW c \in Conns, Handler(c)
  PROVE  StepsLeft(c)' < StepsLeft(c)
<1>1. TypeOK
  BY DEF IInv
<1> QED BY <1>1, MovesNear, ReceiveNear, TakeLateNear, NotifyNear, SendFailsNear DEF Handler

\* What a handler does is nothing to the others.
LEMMA HandlerAlone ==
  ASSUME TypeOK, NEW c \in Conns, NEW d \in Conns, c # d, Handler(d)
  PROVE  pc'[c] = pc[c] /\ got'[c] = got[c] /\ held'[c] = held[c]
<1>1. \E there : pc' = [pc EXCEPT ![d] = there]
  BY DEF Handler, Accept, Banner, Receive, NoRequest, Gathered, Dispatch, Store, Respond, TakeLate,
         Notify, SendFails, Goto
<1>2. got' = got \/ \E n : got' = [got EXCEPT ![d] = n]
  BY DEF Handler, Accept, Banner, Receive, NoRequest, Gathered, Dispatch, Store, Respond, TakeLate,
         Notify, SendFails
<1>3. held' = held \/ \E h : held' = [held EXCEPT ![d] = h]
  BY DEF Handler, Accept, Banner, Receive, NoRequest, Gathered, Dispatch, Store, Respond, TakeLate,
         Notify, SendFails
<1> QED BY <1>1, <1>2, <1>3 DEF TypeOK

LEMMA OthersKeep ==
  ASSUME TypeOK, [Next]_vars, NEW c \in Conns, ~Handler(c)
  PROVE  StepsLeft(c)' = StepsLeft(c)
<1>1. pc'[c] = pc[c] /\ got'[c] = got[c] /\ held'[c] = held[c]
  <2>1. CASE Interrupt \/ Main \/ Generator \/ UNCHANGED vars
    BY <2>1 DEF Interrupt, Main, ProcessExit, Generator, GenWake, GenRaise, vars
  <2>2. ASSUME NEW d \in Conns, Client(d) PROVE UNCHANGED <<pc, got, held>>
    BY <2>2 DEF Client, Connect, SendSegment, Close
  <2>3. ASSUME NEW d \in Conns, Handler(d)
        PROVE  pc'[c] = pc[c] /\ got'[c] = got[c] /\ held'[c] = held[c]
    BY <2>3, HandlerAlone
  <2> QED BY <2>1, <2>2, <2>3 DEF Next
<1> QED BY <1>1, StepsAre

Bounded == \A c \in Conns : StepsLeft(c) \in 0..(Cap + 9)

LEMMA BoundedKept ==
  ASSUME IInv, [Next]_vars, Bounded
  PROVE  Bounded'
<1> SUFFICES ASSUME NEW c \in Conns PROVE StepsLeft(c)' \in 0..(Cap + 9)
  BY CapNat DEF Bounded
<1>1. StepsLeft(c) \in 0..(Cap + 9)
  BY DEF Bounded
<1>2. StepsLeft(c)' \in Nat
  <2>1. TypeOK'
    BY StepInv DEF IInv
  <2>2. pc'[c] \in HandlerAt /\ got'[c] \in 0..2 /\ held'[c] \in Seq(Alarms)
    BY <2>1 DEF TypeOK
  <2>3. Len(held'[c]) \in Nat
    BY <2>2, LenProperties
  <2>4. StepsLeft(c)' = StepsFrom(pc'[c], got'[c], held'[c])
    BY StepsAre
  <2> QED BY <2>2, <2>3, <2>4, StepsAt, CapNat DEF HandlerAt
<1>3. StepsLeft(c)' < StepsLeft(c) \/ StepsLeft(c)' = StepsLeft(c)
  BY HandlerNear, OthersKeep DEF IInv
<1> QED BY <1>1, <1>2, <1>3, CapNat

\* A handler ends after at most Cap + 9 steps of its own, whatever its client sends and
\* however many alarms are raised meanwhile: none can be kept busy for ever.
THEOREM HandlersShrink == Spec => []Bounded /\ HandlersNear
<1>1. Init => Bounded
  <2> SUFFICES ASSUME Init, NEW c \in Conns PROVE StepsLeft(c) \in 0..(Cap + 9)
    BY DEF Bounded
  <2>1. StepsLeft(c) = Cap + 9
    BY StepsAre, StepsAt DEF Init
  <2> QED BY <2>1, CapNat
<1>2. IInv /\ Bounded /\ [Next]_vars => Bounded'
  BY BoundedKept
<1>3. IInv /\ [Next]_vars =>
        [\A c \in Conns :
           IF Handler(c) THEN StepsLeft(c)' < StepsLeft(c)
           ELSE StepsLeft(c)' = StepsLeft(c)]_vars
  BY OthersKeep, HandlerNear DEF IInv
<1> QED BY <1>1, <1>2, <1>3, Inductive, PTL DEF Spec, HandlersNear
===========================================================================
