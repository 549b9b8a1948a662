---------------------------- MODULE OpcUa_proofs ----------------------------
(***************************************************************************)
(* Proofs about OpcUa, for every set of connections, every set of messages *)
(* a client may send and any number of them.                               *)
(***************************************************************************)
EXTENDS OpcUa, SequenceTheorems, TLAPS

---------------------------------------------------------------------------
(* The inductive invariant.                                                *)

\* What may be in the buffer or on its way to it.
Wired ==
  {m \in [type : {"HEL", "OPN", "CLO", "MSG", "JUNK"},
          length : {"exact", "long", "short", "zero", "bad"},
          service : Services, channel : Nat, no : Nat] :
     m.type = "JUNK" \/ m.length \in Lengths(m.type)}

TypeOK ==
  /\ pc \in [Conns -> {"run", "close", "done"}]
  /\ peer \in [Conns -> {"open", "closed", "reset"}]
  /\ wire \in [Conns -> Seq(Wired)]
  /\ part \in [Conns -> Parts]
  /\ buf \in [Conns -> Seq(Wired)]
  /\ channel \in [Conns -> Nat]
  /\ handshake_done \in [Conns -> BOOLEAN]
  /\ asked \in [Conns -> Nat]
  /\ answered \in [Conns -> Nat]
  /\ again \in [Conns -> BOOLEAN]
  /\ told \in [Conns -> SUBSET Nat]
  /\ refused \in [Conns -> Nat]

\* A message of which some has come is on the wire.
Cut == \A c \in Conns : part[c] # "none" => wire[c] # <<>>

EmptyHel(m) == m.type = "HEL" /\ m.length = "zero"

\* Messages numbered upwards to at most n, all above a but perhaps the first, which may
\* be a rest or an empty HEL that was answered.
InOrder(q, n, a) ==
  /\ \A i \in 1..Len(q) : q[i].no <= n
  /\ \A i, j \in 1..Len(q) : i < j => q[i].no < q[j].no
  /\ \A i \in 2..Len(q) : a < q[i].no
  /\ q # <<>> => \/ q[1].type = "JUNK" \/ a < q[1].no
                 \/ EmptyHel(q[1]) /\ q[1].no = a

Queue(c) == buf[c] \o wire[c]

Ordered ==
  \A c \in Conns : answered[c] <= asked[c] /\ InOrder(Queue(c), asked[c], answered[c])

\* The client is told one channel, and a handler that refused another is over.
OneChannel ==
  \A c \in Conns :
    /\ channel[c] \in {0, 1} /\ told[c] \subseteq {channel[c]}
    /\ ~handshake_done[c] => channel[c] = 0 /\ told[c] = {}
    /\ refused[c] # None => pc[c] # "run" /\ refused[c] # channel[c]

IInv == TypeOK /\ Cut /\ Ordered /\ OnlyEmptyHelRepeats /\ OneChannel

---------------------------------------------------------------------------
(* Sequences in order.                                                     *)

LEMMA JunkType == Junk \in Wired
BY DEF Junk, Wired, Services

LEMMA SplitSeq ==
  ASSUME NEW w \in Seq(Wired), NEW k \in 0..Len(w)
  PROVE  /\ SubSeq(w, 1, k) \in Seq(Wired) /\ SubSeq(w, k + 1, Len(w)) \in Seq(Wired)
         /\ SubSeq(w, 1, k) \o SubSeq(w, k + 1, Len(w)) = w
         /\ k # Len(w) => SubSeq(w, k + 1, Len(w)) # <<>>
<1> DEFINE f == SubSeq(w, 1, k)
<1> DEFINE r == SubSeq(w, k + 1, Len(w))
<1>1. Len(w) \in Nat /\ k \in Nat /\ k <= Len(w)
  BY LenProperties
<1>2. /\ f \in Seq(Wired) /\ Len(f) = k
      /\ \A i \in 1..k : f[i] = w[i]
  BY <1>1, SubSeqProperties
<1>3. /\ r \in Seq(Wired) /\ Len(r) = Len(w) - k
      /\ \A i \in 1..(Len(w) - k) : r[i] = w[k + i]
  BY <1>1, SubSeqProperties
<1> HIDE DEF f, r
<1>4. k # Len(w) => r # <<>>
  BY <1>1, <1>3
<1>5. f \o r \in Seq(Wired) /\ Len(f \o r) = Len(w)
  <2>1. f \o r \in Seq(Wired) /\ Len(f \o r) = Len(f) + Len(r)
    BY <1>2, <1>3, ConcatProperties
  <2>2. Len(f) + Len(r) = Len(w)
    BY <1>1, <1>2, <1>3
  <2> QED BY <2>1, <2>2
<1>6. ASSUME NEW i \in 1..Len(f \o r) PROVE (f \o r)[i] = w[i]
  <2>1. i \in 1..Len(w)
    BY <1>5
  <2>2. (f \o r)[i] = IF i <= k THEN f[i] ELSE r[i - k]
    BY <1>1, <1>2, <1>3, <2>1, ConcatProperties
  <2>3. CASE i <= k
    BY <1>1, <1>2, <2>1, <2>2, <2>3
  <2>4. CASE ~(i <= k)
    <3>1. i - k \in 1..(Len(w) - k) /\ k + (i - k) = i
      BY <1>1, <2>1, <2>4
    <3> QED BY <1>3, <2>2, <2>4, <3>1
  <2> QED BY <2>3, <2>4
<1>7. f \o r = w
  BY <1>5, <1>6, SeqEqual
<1> QED BY <1>2, <1>3, <1>4, <1>7 DEF f, r

LEMMA ConcatThree ==
  ASSUME NEW b \in Seq(Wired), NEW f \in Seq(Wired), NEW r \in Seq(Wired)
  PROVE  (b \o f) \o r = b \o (f \o r)
BY ConcatAssociative

LEMMA AppendBehind ==
  ASSUME NEW b \in Seq(Wired), NEW w \in Seq(Wired), NEW m \in Wired
  PROVE  /\ b \o Append(w, m) = Append(b \o w, m)
         /\ Append(w, m) \in Seq(Wired) /\ Append(w, m) # <<>>
<1>1. b \o w \in Seq(Wired)
  BY ConcatProperties
<1>2. Append(w, m) = w \o <<m>>
  BY AppendIsConcat
<1>3. Append(b \o w, m) = (b \o w) \o <<m>>
  BY <1>1, AppendIsConcat
<1>4. <<m>> \in Seq(Wired)
  OBVIOUS
<1>5. (b \o w) \o <<m>> = b \o (w \o <<m>>)
  <2> DEFINE l == <<m>>
  <2>1. l \in Seq(Wired)
    BY <1>4
  <2> HIDE DEF l
  <2>2. (b \o w) \o l = b \o (w \o l)
    BY <2>1, ConcatThree
  <2> QED BY <2>2 DEF l
<1>6. Append(w, m) \in Seq(Wired) /\ Append(w, m) # <<>>
  BY AppendProperties
<1> QED BY <1>2, <1>3, <1>5, <1>6

LEMMA MaxOfTwo ==
  ASSUME NEW a \in Nat, NEW b \in Nat, a <= b
  PROVE  Max({a, b}) = b
<1>1. \A x \in {a, b} : b >= x
  OBVIOUS
<1>2. \A y \in {a, b} : (\A x \in {a, b} : y >= x) => y = b
  OBVIOUS
<1> QED BY <1>1, <1>2 DEF Max

LEMMA ConcatElements ==
  ASSUME NEW s \in Seq(Wired), NEW t \in Seq(Wired)
  PROVE  /\ s \o t \in Seq(Wired)
         /\ Len(s) \in Nat /\ Len(t) \in Nat /\ Len(s \o t) = Len(s) + Len(t)
         /\ \A i \in 1..Len(s) : (s \o t)[i] = s[i]
         /\ \A i \in 1..Len(t) : (s \o t)[Len(s) + i] = t[i]
<1>1. /\ s \o t \in Seq(Wired) /\ Len(s \o t) = Len(s) + Len(t)
      /\ Len(s) \in Nat /\ Len(t) \in Nat
      /\ \A i \in 1..(Len(s) + Len(t)) :
           (s \o t)[i] = IF i <= Len(s) THEN s[i] ELSE t[i - Len(s)]
  BY ConcatProperties, LenProperties
<1>2. ASSUME NEW i \in 1..Len(t) PROVE (s \o t)[Len(s) + i] = t[i]
  <2>1. Len(s) + i \in 1..(Len(s) + Len(t)) /\ ~(Len(s) + i <= Len(s))
        /\ (Len(s) + i) - Len(s) = i
    BY <1>1
  <2> QED BY <1>1, <2>1
<1> QED BY <1>1, <1>2

LEMMA TailElements ==
  ASSUME NEW q \in Seq(Wired), q # <<>>
  PROVE  /\ Tail(q) \in Seq(Wired) /\ Len(q) \in Nat /\ Len(q) >= 1
         /\ Len(Tail(q)) = Len(q) - 1 /\ Head(q) = q[1] /\ q[1] \in Wired
         /\ \A i \in 1..(Len(q) - 1) : Tail(q)[i] = q[i + 1]
<1>1. Len(q) \in Nat /\ Len(q) >= 1
  BY LenProperties, EmptySeq
<1> QED BY <1>1, HeadTailProperties, ElementOfSeq

LEMMA WiredNo ==
  ASSUME NEW q \in Seq(Wired)
  PROVE  Len(q) \in Nat /\ \A i \in 1..Len(q) : q[i].no \in Nat
<1>1. \A i \in 1..Len(q) : q[i] \in Wired
  BY ElementOfSeq
<1> QED BY <1>1, LenProperties DEF Wired

\* The messages behind the first stay in order, whether the first was answered or not.
LEMMA RestInOrder ==
  ASSUME NEW q \in Seq(Wired), q # <<>>, NEW n \in Nat, NEW a \in Nat, NEW b \in Nat,
         InOrder(q, n, a), b = a \/ b = q[1].no
  PROVE  InOrder(Tail(q), n, b)
<1>1. /\ Len(q) \in Nat /\ Len(q) >= 1 /\ Len(Tail(q)) = Len(q) - 1
      /\ \A i \in 1..(Len(q) - 1) : Tail(q)[i] = q[i + 1]
  BY TailElements
<1>2. \A i \in 1..(Len(q) - 1) : b < q[i + 1].no /\ q[i + 1].no <= n
  <2>1. ASSUME NEW i \in 1..(Len(q) - 1) PROVE b < q[i + 1].no /\ q[i + 1].no <= n
    <3>1. i + 1 \in 2..Len(q) /\ i + 1 \in 1..Len(q) /\ 1 \in 1..Len(q) /\ 1 < i + 1
      BY <1>1
    <3>2. a < q[i + 1].no /\ q[1].no < q[i + 1].no /\ q[i + 1].no <= n
      BY <3>1 DEF InOrder
    <3> QED BY <3>2
  <2> QED BY <2>1
<1>3. \A i, j \in 1..(Len(q) - 1) : i < j => Tail(q)[i].no < Tail(q)[j].no
  <2>1. ASSUME NEW i \in 1..(Len(q) - 1), NEW j \in 1..(Len(q) - 1), i < j
        PROVE  q[i + 1].no < q[j + 1].no
    BY <1>1, <2>1 DEF InOrder
  <2> QED BY <1>1, <2>1
<1>4. \A i \in 1..Len(Tail(q)) : b < Tail(q)[i].no /\ Tail(q)[i].no <= n
  BY <1>1, <1>2
<1>5. Tail(q) # <<>> => b < Tail(q)[1].no
  <2>1. Tail(q) # <<>> => 1 \in 1..Len(Tail(q))
    BY TailElements, EmptySeq, LenProperties
  <2> QED BY <1>4, <2>1
<1>6. \A i \in 2..Len(Tail(q)) : b < Tail(q)[i].no
  BY <1>1, <1>4
<1>7. \A i, j \in 1..Len(Tail(q)) : i < j => Tail(q)[i].no < Tail(q)[j].no
  BY <1>1, <1>3
<1> QED BY <1>4, <1>5, <1>6, <1>7 DEF InOrder

\* So they do behind what is left of the first.
LEMMA JunkInOrder ==
  ASSUME NEW q \in Seq(Wired), q # <<>>, NEW n \in Nat, NEW a \in Nat, NEW b \in Nat,
         InOrder(q, n, a), b = a \/ b = q[1].no
  PROVE  InOrder(<<Junk>> \o Tail(q), n, b)
<1> DEFINE r == <<Junk>> \o Tail(q)
<1>1. /\ Tail(q) \in Seq(Wired) /\ Len(q) \in Nat /\ Len(q) >= 1
      /\ Len(Tail(q)) = Len(q) - 1
      /\ \A i \in 1..(Len(q) - 1) : Tail(q)[i] = q[i + 1]
  BY TailElements
<1>2. <<Junk>> \in Seq(Wired) /\ Len(<<Junk>>) = 1 /\ <<Junk>>[1] = Junk
  BY JunkType
<1>3. /\ Len(r) = Len(q) /\ r[1] = Junk
      /\ \A i \in 1..(Len(q) - 1) : r[1 + i] = q[i + 1]
  BY <1>1, <1>2, ConcatElements
<1>4. \A i \in 2..Len(q) : r[i] = q[i]
  <2>1. ASSUME NEW i \in 2..Len(q) PROVE r[i] = q[i]
    <3>1. i - 1 \in 1..(Len(q) - 1) /\ 1 + (i - 1) = i /\ (i - 1) + 1 = i
      BY <1>1
    <3> QED BY <1>3, <3>1
  <2> QED BY <2>1
<1>5. \A i \in 2..Len(q) : q[i].no \in Nat /\ q[i].no > 0 /\ q[i].no > b /\ q[i].no <= n
  <2>1. ASSUME NEW i \in 2..Len(q)
        PROVE  q[i].no \in Nat /\ q[i].no > 0 /\ q[i].no > b /\ q[i].no <= n
    <3>1. i \in 1..Len(q) /\ 1 \in 1..Len(q) /\ 1 < i
      BY <1>1
    <3>2. q[1].no \in Nat /\ q[i].no \in Nat
      BY <3>1, WiredNo
    <3>3. a < q[i].no /\ q[1].no < q[i].no /\ q[i].no <= n
      BY <3>1 DEF InOrder
    <3> QED BY <3>2, <3>3
  <2> QED BY <2>1
<1>6. Junk.no = 0 /\ Junk.type = "JUNK"
  BY DEF Junk
<1> HIDE DEF r
<1>7. \A i \in 1..Len(r) : r[i].no <= n
  <2>1. ASSUME NEW i \in 1..Len(r) PROVE r[i].no <= n
    <3>1. CASE i = 1
      BY <1>3, <1>6, <3>1
    <3>2. CASE i # 1
      <4>1. i \in 2..Len(q)
        BY <1>1, <1>3, <3>2
      <4> QED BY <1>4, <1>5, <4>1
    <3> QED BY <3>1, <3>2
  <2> QED BY <2>1
<1>8. \A i, j \in 1..Len(r) : i < j => r[i].no < r[j].no
  <2>1. ASSUME NEW i \in 1..Len(r), NEW j \in 1..Len(r), i < j PROVE r[i].no < r[j].no
    <3>1. j \in 2..Len(q) /\ r[j] = q[j]
      BY <1>1, <1>3, <1>4, <2>1
    <3>2. CASE i = 1
      BY <1>3, <1>5, <1>6, <3>1, <3>2
    <3>3. CASE i # 1
      <4>1. i \in 2..Len(q) /\ i \in 1..Len(q) /\ j \in 1..Len(q)
        BY <1>1, <1>3, <3>3
      <4>2. q[i].no < q[j].no
        BY <2>1, <4>1 DEF InOrder
      <4> QED BY <1>4, <3>1, <4>1, <4>2
    <3> QED BY <3>2, <3>3
  <2> QED BY <2>1
<1>9. \A i \in 2..Len(r) : b < r[i].no
  <2>1. ASSUME NEW i \in 2..Len(r) PROVE b < r[i].no
    <3>1. i \in 2..Len(q)
      BY <1>3
    <3> QED BY <1>4, <1>5, <3>1
  <2> QED BY <2>1
<1>10. r[1].type = "JUNK"
  BY <1>3, <1>6
<1>11. InOrder(r, n, b)
  BY <1>7, <1>8, <1>9, <1>10 DEF InOrder
<1> QED BY <1>11 DEF r

\* What comes behind others in order is in order, and all of it is to be answered.
LEMMA BehindInOrder ==
  ASSUME NEW p \in Seq(Wired), p # <<>>, NEW s \in Seq(Wired), NEW n \in Nat, NEW a \in Nat,
         InOrder(p \o s, n, a)
  PROVE  InOrder(s, n, a)
<1> DEFINE q == p \o s
<1>1. /\ Len(p) \in Nat /\ Len(s) \in Nat /\ Len(q) = Len(p) + Len(s)
      /\ \A i \in 1..Len(s) : q[Len(p) + i] = s[i]
  BY ConcatElements
<1>2. Len(p) >= 1
  BY <1>1, EmptySeq
<1>3. InOrder(q, n, a)
  OBVIOUS
<1> HIDE DEF q
<1>4. \A i \in 1..Len(s) : a < s[i].no /\ s[i].no <= n
  <2>1. ASSUME NEW i \in 1..Len(s) PROVE a < s[i].no /\ s[i].no <= n
    <3>1. Len(p) + i \in 2..Len(q) /\ Len(p) + i \in 1..Len(q)
      BY <1>1, <1>2
    <3> QED BY <1>1, <1>3, <3>1 DEF InOrder
  <2> QED BY <2>1
<1>5. \A i, j \in 1..Len(s) : i < j => s[i].no < s[j].no
  <2>1. ASSUME NEW i \in 1..Len(s), NEW j \in 1..Len(s), i < j PROVE s[i].no < s[j].no
    <3>1. Len(p) + i \in 1..Len(q) /\ Len(p) + j \in 1..Len(q) /\ Len(p) + i < Len(p) + j
      BY <1>1, <2>1
    <3>2. q[Len(p) + i].no < q[Len(p) + j].no
      BY <1>3, <3>1 DEF InOrder
    <3> QED BY <1>1, <3>2
  <2> QED BY <2>1
<1>6. \A i \in 2..Len(s) : a < s[i].no
  BY <1>1, <1>4
<1>7. s # <<>> => a < s[1].no
  <2>1. s # <<>> => 1 \in 1..Len(s)
    BY <1>1, EmptySeq
  <2> QED BY <1>4, <2>1
<1> QED BY <1>4, <1>5, <1>6, <1>7 DEF InOrder

\* A message that is sent goes to the end.
LEMMA SentInOrder ==
  ASSUME NEW q \in Seq(Wired), NEW m \in Wired, NEW n \in Nat, NEW a \in Nat, a <= n,
         InOrder(q, n, a), m.no = n + 1
  PROVE  InOrder(Append(q, m), n + 1, a)
<1> DEFINE r == Append(q, m)
<1>1. /\ Len(q) \in Nat /\ Len(r) = Len(q) + 1 /\ r[Len(q) + 1] = m
      /\ \A i \in 1..Len(q) : r[i] = q[i]
  BY AppendProperties, LenProperties
<1>2. \A i \in 1..Len(q) : q[i].no \in Nat /\ q[i].no <= n
  BY WiredNo DEF InOrder
<1> HIDE DEF r
<1>3. \A i \in 1..Len(r) : i \in 1..Len(q) \/ i = Len(q) + 1
  BY <1>1
<1>4. \A i \in 1..Len(r) : r[i].no <= n + 1
  BY <1>1, <1>2, <1>3
<1>5. \A i, j \in 1..Len(r) : i < j => r[i].no < r[j].no
  <2>1. ASSUME NEW i \in 1..Len(r), NEW j \in 1..Len(r), i < j PROVE r[i].no < r[j].no
    <3>1. i \in 1..Len(q)
      BY <1>1, <2>1
    <3>2. CASE j \in 1..Len(q)
      BY <1>1, <2>1, <3>1, <3>2 DEF InOrder
    <3>3. CASE j = Len(q) + 1
      BY <1>1, <1>2, <3>1, <3>3
    <3> QED BY <1>3, <3>2, <3>3
  <2> QED BY <2>1
<1>6. \A i \in 2..Len(r) : a < r[i].no
  <2>1. ASSUME NEW i \in 2..Len(r) PROVE a < r[i].no
    <3>1. CASE i \in 2..Len(q)
      BY <1>1, <3>1 DEF InOrder
    <3>2. CASE i = Len(q) + 1
      BY <1>1, <3>2
    <3> QED BY <1>1, <3>1, <3>2
  <2> QED BY <2>1
<1>7. r[1].type = "JUNK" \/ a < r[1].no \/ (EmptyHel(r[1]) /\ r[1].no = a)
  <2>1. CASE q = <<>>
    <3>1. Len(q) + 1 = 1
      BY <2>1
    <3>2. r[1] = m
      BY <1>1, <3>1
    <3> QED BY <3>2
  <2>2. CASE q # <<>>
    <3>1. r[1] = q[1]
      BY <1>1, <2>2, EmptySeq
    <3> QED BY <2>2, <3>1 DEF InOrder
  <2> QED BY <2>1, <2>2
<1>8. InOrder(r, n + 1, a)
  BY <1>4, <1>5, <1>6, <1>7 DEF InOrder
<1> QED BY <1>8 DEF r

---------------------------------------------------------------------------
(* The buffer and the wire.                                                *)

LEMMA QueueType ==
  ASSUME TypeOK, NEW c \in Conns
  PROVE  /\ buf[c] \in Seq(Wired) /\ wire[c] \in Seq(Wired) /\ Queue(c) \in Seq(Wired)
         /\ buf[c] = <<>> => Queue(c) = wire[c]
         /\ asked[c] \in Nat /\ answered[c] \in Nat
<1>1. buf[c] \in Seq(Wired) /\ wire[c] \in Seq(Wired)
  BY DEF TypeOK
<1>2. Queue(c) \in Seq(Wired)
  BY <1>1, ConcatElements DEF Queue
<1>3. buf[c] = <<>> => Queue(c) = wire[c]
  BY <1>1 DEF Queue
<1> QED BY <1>1, <1>2, <1>3 DEF TypeOK

LEMMA TailOfQueue ==
  ASSUME NEW b \in Seq(Wired), b # <<>>, NEW w \in Seq(Wired)
  PROVE  Tail(b) \o w = Tail(b \o w) /\ b \o w # <<>>
<1>1. /\ Tail(b) \in Seq(Wired) /\ Len(b) \in Nat /\ Len(b) >= 1
      /\ Len(Tail(b)) = Len(b) - 1
      /\ \A i \in 1..(Len(b) - 1) : Tail(b)[i] = b[i + 1]
  BY TailElements
<1>2. /\ b \o w \in Seq(Wired) /\ Len(w) \in Nat /\ Len(b \o w) = Len(b) + Len(w)
      /\ \A i \in 1..(Len(b) + Len(w)) : (b \o w)[i] = IF i <= Len(b) THEN b[i] ELSE w[i - Len(b)]
  BY ConcatProperties, LenProperties
<1>3. /\ Tail(b) \o w \in Seq(Wired) /\ Len(Tail(b) \o w) = (Len(b) - 1) + Len(w)
      /\ \A i \in 1..((Len(b) - 1) + Len(w)) :
           (Tail(b) \o w)[i] = IF i <= Len(b) - 1 THEN Tail(b)[i] ELSE w[i - (Len(b) - 1)]
  BY <1>1, ConcatProperties, LenProperties
<1>4. b \o w # <<>>
  BY <1>1, <1>2, EmptySeq
<1>5. /\ Tail(b \o w) \in Seq(Wired) /\ Len(Tail(b \o w)) = (Len(b) + Len(w)) - 1
      /\ \A i \in 1..((Len(b) + Len(w)) - 1) : Tail(b \o w)[i] = (b \o w)[i + 1]
  BY <1>2, <1>4, TailElements
<1>6. ASSUME NEW i \in 1..((Len(b) - 1) + Len(w))
      PROVE  (Tail(b) \o w)[i] = Tail(b \o w)[i]
  <2>1. i \in 1..((Len(b) + Len(w)) - 1) /\ i + 1 \in 1..(Len(b) + Len(w))
    BY <1>1, <1>2
  <2>2. Tail(b \o w)[i] = (b \o w)[i + 1]
    BY <1>5, <2>1
  <2>3. CASE i <= Len(b) - 1
    <3>1. i \in 1..(Len(b) - 1) /\ i + 1 <= Len(b)
      BY <1>1, <2>3
    <3> QED BY <1>1, <1>2, <1>3, <2>1, <2>2, <2>3, <3>1
  <2>4. CASE ~(i <= Len(b) - 1)
    <3>1. ~(i + 1 <= Len(b)) /\ (i + 1) - Len(b) = i - (Len(b) - 1)
      BY <1>1, <2>4
    <3> QED BY <1>2, <1>3, <2>1, <2>2, <2>4, <3>1
  <2> QED BY <2>3, <2>4
<1>7. Len(Tail(b) \o w) = Len(Tail(b \o w)) /\ Len(Tail(b) \o w) = (Len(b) - 1) + Len(w)
  BY <1>1, <1>2, <1>3, <1>5
<1>8. Tail(b) \o w = Tail(b \o w)
  BY <1>3, <1>5, <1>6, <1>7, SeqEqual
<1> QED BY <1>4, <1>8

LEMMA TailNotEmpty ==
  ASSUME NEW b \in Seq(Wired), Len(b) >= 2
  PROVE  b # <<>> /\ Tail(b) \in Seq(Wired) /\ Tail(b) # <<>>
<1>1. b # <<>>
  OBVIOUS
<1>2. Tail(b) \in Seq(Wired) /\ Len(b) \in Nat /\ Len(Tail(b)) = Len(b) - 1
  BY <1>1, TailElements
<1>3. Len(Tail(b)) # 0
  BY <1>2
<1> QED BY <1>1, <1>2, <1>3, EmptySeq

LEMMA JunkOfQueue ==
  ASSUME NEW b \in Seq(Wired), b # <<>>, NEW w \in Seq(Wired)
  PROVE  (<<Junk>> \o Tail(b)) \o w = <<Junk>> \o Tail(b \o w)
<1>1. <<Junk>> \in Seq(Wired) /\ Tail(b) \in Seq(Wired)
  BY JunkType, TailElements
<1> DEFINE j == <<Junk>>
<1> DEFINE t == Tail(b)
<1>2. j \in Seq(Wired) /\ t \in Seq(Wired)
  BY <1>1
<1> HIDE DEF j, t
<1>3. (j \o t) \o w = j \o (t \o w)
  BY <1>2, ConcatAssociative
<1>4. t \o w = Tail(b \o w)
  BY TailOfQueue DEF t
<1> QED BY <1>3, <1>4 DEF j, t

\* The front is the first in the queue.
LEMMA FrontIsFirst ==
  ASSUME TypeOK, Cut, NEW c \in Conns, Known(c)
  PROVE  /\ Queue(c) # <<>> /\ Front(c) = Queue(c)[1] /\ Front(c) \in Wired
         /\ buf[c] = <<>> => wire[c] # <<>> /\ part[c] = "body"
         /\ Front(c).no \in Nat
<1>1. /\ buf[c] \in Seq(Wired) /\ wire[c] \in Seq(Wired) /\ Queue(c) \in Seq(Wired)
      /\ buf[c] = <<>> => Queue(c) = wire[c]
  BY QueueType
<1>2. buf[c] = <<>> => wire[c] # <<>> /\ part[c] = "body"
  BY DEF Known, Cut
<1>3. CASE buf[c] = <<>>
  <2>1. Queue(c) = wire[c] /\ wire[c] # <<>> /\ Front(c) = Head(wire[c])
    BY <1>1, <1>2, <1>3 DEF Front
  <2>2. Head(wire[c]) = wire[c][1] /\ wire[c][1] \in Wired
    BY <1>1, <2>1, TailElements
  <2> QED BY <1>2, <2>1, <2>2 DEF Wired
<1>4. CASE buf[c] # <<>>
  <2>1. Front(c) = Head(buf[c]) /\ Head(buf[c]) = buf[c][1] /\ buf[c][1] \in Wired
        /\ Len(buf[c]) >= 1 /\ Len(buf[c]) \in Nat
    BY <1>1, <1>4, TailElements DEF Front
  <2>2. /\ \A i \in 1..Len(buf[c]) : Queue(c)[i] = buf[c][i]
        /\ Len(Queue(c)) = Len(buf[c]) + Len(wire[c]) /\ Len(wire[c]) \in Nat
    BY <1>1, ConcatElements DEF Queue
  <2>3. 1 \in 1..Len(buf[c])
    BY <2>1
  <2>4. Queue(c)[1] = buf[c][1]
    BY <2>2, <2>3
  <2>5. Queue(c) # <<>>
    BY <1>1, <1>4, TailOfQueue DEF Queue
  <2> QED BY <1>4, <2>1, <2>4, <2>5 DEF Wired
<1> QED BY <1>3, <1>4

---------------------------------------------------------------------------
(* What handling a message does to the queue.                              *)

\* What the other connections keep.
Others(c) ==
  \A d \in Conns : d # c => buf'[d] = buf[d] /\ wire'[d] = wire[d] /\ part'[d] = part[d]

Typed ==
  /\ buf' \in [Conns -> Seq(Wired)] /\ wire' \in [Conns -> Seq(Wired)]
  /\ part' \in [Conns -> Parts] /\ Cut'

\* An empty HEL stays where it is; any other message goes, in part or with the next, and
\* what is left is in order, whether the message was answered or not.
LEMMA ConsumeLeaves ==
  ASSUME IInv, NEW c \in Conns, Known(c), Complete(c), Front(c).type # "JUNK",
         Front(c).length # "bad", Consume(c)
  PROVE  /\ Typed /\ Others(c)
         /\ EmptyHel(Front(c)) => UNCHANGED <<buf, wire, part>>
         /\ ~EmptyHel(Front(c)) =>
              \A a \in {answered[c], Front(c).no} :
                InOrder(buf'[c] \o wire'[c], asked[c], a)
<1>1. TypeOK /\ Cut /\ InOrder(Queue(c), asked[c], answered[c])
  BY DEF IInv, Ordered
<1>2. /\ buf[c] \in Seq(Wired) /\ wire[c] \in Seq(Wired) /\ Queue(c) \in Seq(Wired)
      /\ buf[c] = <<>> => Queue(c) = wire[c]
      /\ asked[c] \in Nat /\ answered[c] \in Nat
  BY <1>1, QueueType
<1>3. /\ Queue(c) # <<>> /\ Front(c) = Queue(c)[1] /\ Front(c) \in Wired
      /\ buf[c] = <<>> => wire[c] # <<>> /\ part[c] = "body"
      /\ Front(c).no \in Nat
  BY <1>1, FrontIsFirst
<1>4. /\ buf \in [Conns -> Seq(Wired)] /\ wire \in [Conns -> Seq(Wired)]
      /\ part \in [Conns -> Parts]
  BY <1>1 DEF TypeOK
<1>5. Front(c).length \in {"exact", "long", "short", "zero"}
      /\ (Front(c).length \in {"short", "zero"} => Front(c).type = "HEL")
  BY <1>3 DEF Wired, Lengths
<1>6. ASSUME NEW a \in {answered[c], Front(c).no}
      PROVE  /\ InOrder(Tail(Queue(c)), asked[c], a)
             /\ InOrder(<<Junk>> \o Tail(Queue(c)), asked[c], a)
  <2>1. a \in Nat /\ (a = answered[c] \/ a = Queue(c)[1].no)
    BY <1>2, <1>3
  <2> QED BY <1>1, <1>2, <1>3, <2>1, RestInOrder, JunkInOrder
<1>7. CASE Front(c).length = "zero"
  <2>1. UNCHANGED <<buf, wire, part>>
    BY <1>7 DEF Consume
  <2>2. EmptyHel(Front(c))
    BY <1>5, <1>7 DEF EmptyHel
  <2> QED BY <1>1, <1>4, <2>1, <2>2 DEF Typed, Others, Cut
<1>8. CASE Front(c).length = "short" /\ buf[c] # <<>>
  <2>1. buf' = [buf EXCEPT ![c] = <<Junk>> \o Tail(@)] /\ UNCHANGED <<wire, part>>
    BY <1>8 DEF Consume
  <2>2. Tail(buf[c]) \in Seq(Wired) /\ <<Junk>> \in Seq(Wired)
    BY <1>2, <1>8, TailElements, JunkType
  <2>3. <<Junk>> \o Tail(buf[c]) \in Seq(Wired)
    BY <2>2, ConcatElements
  <2>4. buf' \in [Conns -> Seq(Wired)]
    BY <1>4, <2>1, <2>3
  <2>5. buf'[c] \o wire'[c] = <<Junk>> \o Tail(Queue(c))
    <3>1. (<<Junk>> \o Tail(buf[c])) \o wire[c] = <<Junk>> \o Tail(Queue(c))
      BY <1>2, <1>8, JunkOfQueue DEF Queue
    <3>2. buf'[c] = <<Junk>> \o Tail(buf[c]) /\ wire'[c] = wire[c]
      BY <1>4, <2>1
    <3> QED BY <3>1, <3>2
  <2>6. Others(c)
    BY <1>4, <2>1 DEF Others
  <2>7. Typed
    BY <1>1, <1>4, <2>1, <2>4 DEF Typed, Cut
  <2>8. ~EmptyHel(Front(c))
    BY <1>8 DEF EmptyHel
  <2> QED BY <1>6, <2>5, <2>6, <2>7, <2>8
<1>9. CASE Front(c).length = "short" /\ buf[c] = <<>>
  <2>1. /\ wire' = [wire EXCEPT ![c] = <<Junk>> \o Tail(@)]
        /\ part' = [part EXCEPT ![c] = "none"] /\ buf' = buf
    BY <1>9 DEF Consume
  <2>2. Tail(wire[c]) \in Seq(Wired) /\ <<Junk>> \in Seq(Wired)
    BY <1>2, <1>3, <1>9, TailElements, JunkType
  <2>3. <<Junk>> \o Tail(wire[c]) \in Seq(Wired)
    BY <2>2, ConcatElements
  <2>4. wire' \in [Conns -> Seq(Wired)] /\ wire'[c] = <<Junk>> \o Tail(wire[c])
    BY <1>4, <2>1, <2>3
  <2>5. part' \in [Conns -> Parts] /\ part'[c] = "none"
    BY <1>4, <2>1 DEF Parts
  <2>6. buf'[c] \o wire'[c] = <<Junk>> \o Tail(Queue(c))
    <3>1. <<>> \o (<<Junk>> \o Tail(wire[c])) = <<Junk>> \o Tail(wire[c])
      BY <2>3, ConcatEmptySeq
    <3> QED BY <1>2, <1>9, <2>1, <2>4, <3>1
  <2>7. Others(c)
    BY <1>4, <2>1 DEF Others
  <2>8. Cut'
    BY <1>1, <1>4, <2>1, <2>5 DEF Cut
  <2>9. Typed
    BY <1>4, <2>1, <2>4, <2>5, <2>8 DEF Typed
  <2>10. ~EmptyHel(Front(c))
    BY <1>9 DEF EmptyHel
  <2> QED BY <1>6, <2>6, <2>7, <2>9, <2>10
<1>10. CASE Front(c).length = "long"
  <2>1. /\ buf' = [buf EXCEPT ![c] = Tail(Tail(@))] /\ UNCHANGED <<wire, part>>
        /\ Len(buf[c]) >= 2
    BY <1>10 DEF Consume, Complete
  <2>2. buf[c] # <<>> /\ Tail(buf[c]) \in Seq(Wired) /\ Tail(buf[c]) # <<>>
    BY <1>2, <2>1, TailNotEmpty
  <2>3. Tail(Tail(buf[c])) \in Seq(Wired)
    BY <2>2, TailElements
  <2>4. buf' \in [Conns -> Seq(Wired)] /\ buf'[c] = Tail(Tail(buf[c])) /\ wire'[c] = wire[c]
    BY <1>4, <2>1, <2>3
  <2>5. Tail(buf[c]) \o wire[c] = Tail(Queue(c))
    BY <1>2, <2>2, TailOfQueue DEF Queue
  <2>6. Tail(Tail(buf[c])) \o wire[c] = Tail(Tail(Queue(c))) /\ Tail(Queue(c)) # <<>>
    BY <1>2, <2>2, <2>5, TailOfQueue
  <2>7. Tail(Queue(c)) \in Seq(Wired)
    BY <1>2, <1>3, TailElements
  <2>8. ASSUME NEW a \in {answered[c], Front(c).no}
        PROVE  InOrder(Tail(Tail(Queue(c))), asked[c], a)
    <3>1. a \in Nat
      BY <1>2, <1>3
    <3>2. InOrder(Tail(Queue(c)), asked[c], a)
      BY <1>6
    <3> QED BY <1>2, <2>6, <2>7, <3>1, <3>2, RestInOrder
  <2>9. Others(c)
    BY <1>4, <2>1 DEF Others
  <2>10. Typed
    BY <1>1, <1>4, <2>1, <2>4 DEF Typed, Cut
  <2>11. ~EmptyHel(Front(c))
    BY <1>10 DEF EmptyHel
  <2> QED BY <2>4, <2>6, <2>8, <2>9, <2>10, <2>11
<1>11. CASE Front(c).length = "exact"
  <2>1. buf' = [buf EXCEPT ![c] = Tail(@)] /\ UNCHANGED <<wire, part>>
    BY <1>11 DEF Consume
  <2>2. buf[c] # <<>>
    BY <1>11 DEF Complete
  <2>3. Tail(buf[c]) \in Seq(Wired)
    BY <1>2, <2>2, TailElements
  <2>4. buf' \in [Conns -> Seq(Wired)] /\ buf'[c] = Tail(buf[c]) /\ wire'[c] = wire[c]
    BY <1>4, <2>1, <2>3
  <2>5. buf'[c] \o wire'[c] = Tail(Queue(c))
    BY <1>2, <2>2, <2>4, TailOfQueue DEF Queue
  <2>6. Others(c)
    BY <1>4, <2>1 DEF Others
  <2>7. Typed
    BY <1>1, <1>4, <2>1, <2>4 DEF Typed, Cut
  <2>8. ~EmptyHel(Front(c))
    BY <1>11 DEF EmptyHel
  <2> QED BY <1>6, <2>5, <2>6, <2>7, <2>8
<1> QED BY <1>5, <1>7, <1>8, <1>9, <1>10, <1>11

---------------------------------------------------------------------------
(* Every step keeps the invariant.                                         *)

Answered(c) ==
  /\ answered' \in [Conns -> Nat]
  /\ again' \in [Conns -> BOOLEAN]
  /\ pc' \in [Conns -> {"run", "close", "done"}]
  /\ \A d \in Conns : d # c =>
       answered'[d] = answered[d] /\ again'[d] = again[d] /\ pc'[d] = pc[d]
  /\ pc'[c] \in {pc[c], "close"}
  /\ answered'[c] \in {answered[c], Front(c).no} /\ answered'[c] <= asked[c]
  /\ again'[c] => again[c] \/ EmptyHel(Front(c))
  /\ EmptyHel(Front(c)) => InOrder(Queue(c), asked[c], answered'[c])

\* What the front says of the numbers.
LEMMA FrontNumber ==
  ASSUME IInv, NEW c \in Conns, Known(c), Front(c).type # "JUNK"
  PROVE  /\ Front(c).no \in Nat /\ answered[c] \in Nat /\ asked[c] \in Nat
         /\ answered[c] <= asked[c] /\ Front(c).no <= asked[c]
         /\ answered[c] < Front(c).no \/ (EmptyHel(Front(c)) /\ Front(c).no = answered[c])
         /\ Max({answered[c], Front(c).no}) = Front(c).no
<1>1. TypeOK /\ Cut /\ InOrder(Queue(c), asked[c], answered[c]) /\ answered[c] <= asked[c]
  BY DEF IInv, Ordered
<1>2. /\ Queue(c) # <<>> /\ Front(c) = Queue(c)[1] /\ Front(c).no \in Nat
      /\ Queue(c) \in Seq(Wired) /\ asked[c] \in Nat /\ answered[c] \in Nat
  BY <1>1, FrontIsFirst, QueueType
<1>3. 1 \in 1..Len(Queue(c))
  BY <1>2, TailElements
<1>4. Front(c).no <= asked[c]
      /\ (answered[c] < Front(c).no \/ (EmptyHel(Front(c)) /\ Front(c).no = answered[c]))
  BY <1>1, <1>2, <1>3 DEF InOrder
<1>5. answered[c] <= Front(c).no
  BY <1>2, <1>4
<1> QED BY <1>1, <1>2, <1>4, <1>5, MaxOfTwo

\* An empty HEL that is answered again is the first in order all the same.
LEMMA AgainInOrder ==
  ASSUME IInv, NEW c \in Conns, Known(c), EmptyHel(Front(c))
  PROVE  InOrder(Queue(c), asked[c], Front(c).no)
<1>1. TypeOK /\ Cut /\ InOrder(Queue(c), asked[c], answered[c])
  BY DEF IInv, Ordered
<1>2. /\ Queue(c) # <<>> /\ Front(c) = Queue(c)[1] /\ Queue(c) \in Seq(Wired)
  BY <1>1, FrontIsFirst, QueueType
<1>3. Len(Queue(c)) \in Nat /\ Len(Queue(c)) >= 1
  BY <1>2, TailElements
<1>4. \A i \in 2..Len(Queue(c)) : Front(c).no < Queue(c)[i].no
  <2>1. ASSUME NEW i \in 2..Len(Queue(c)) PROVE Front(c).no < Queue(c)[i].no
    <3>1. 1 \in 1..Len(Queue(c)) /\ i \in 1..Len(Queue(c)) /\ 1 < i
      BY <1>3
    <3> QED BY <1>1, <1>2, <3>1 DEF InOrder
  <2> QED BY <2>1
<1> QED BY <1>1, <1>2, <1>4 DEF InOrder

LEMMA SentAnswers ==
  ASSUME IInv, NEW c \in Conns, Known(c), Front(c).type # "JUNK", NEW caught, Sent(c, caught)
  PROVE  Answered(c) /\ peer' \in [Conns -> {"open", "closed", "reset"}]
<1>1. /\ pc \in [Conns -> {"run", "close", "done"}] /\ answered \in [Conns -> Nat]
      /\ again \in [Conns -> BOOLEAN]
      /\ peer \in [Conns -> {"open", "closed", "reset"}]
      /\ InOrder(Queue(c), asked[c], answered[c])
  BY DEF IInv, TypeOK, Ordered
<1>2. /\ Front(c).no \in Nat /\ answered[c] \in Nat /\ asked[c] \in Nat
      /\ answered[c] <= asked[c] /\ Front(c).no <= asked[c]
      /\ answered[c] < Front(c).no \/ (EmptyHel(Front(c)) /\ Front(c).no = answered[c])
      /\ Max({answered[c], Front(c).no}) = Front(c).no
  BY FrontNumber
<1>3. peer' \in [Conns -> {"open", "closed", "reset"}]
  BY <1>1 DEF Sent
<1>4. CASE pc' = [pc EXCEPT ![c] = "close"] /\ UNCHANGED <<answered, again>>
  <2>1. Answered(c)
    BY <1>1, <1>2, <1>4 DEF Answered
  <2> QED BY <1>3, <2>1
<1>5. CASE /\ answered' = [answered EXCEPT ![c] = Max({@, Front(c).no})]
           /\ again' = [again EXCEPT ![c] = @ \/ Front(c).no <= answered[c]]
           /\ UNCHANGED pc
  <2>1. answered' = [answered EXCEPT ![c] = Front(c).no]
    BY <1>1, <1>2, <1>5
  <2>2. answered' \in [Conns -> Nat] /\ answered'[c] = Front(c).no
        /\ \A d \in Conns : d # c => answered'[d] = answered[d]
    BY <1>1, <1>2, <2>1
  <2>3. again' \in [Conns -> BOOLEAN]
        /\ \A d \in Conns : d # c => again'[d] = again[d]
    BY <1>1, <1>5
  <2>4. again'[c] => again[c] \/ Front(c).no <= answered[c]
    BY <1>1, <1>5
  <2>5. again'[c] => again[c] \/ EmptyHel(Front(c))
    BY <1>2, <2>4
  <2>6. EmptyHel(Front(c)) => InOrder(Queue(c), asked[c], answered'[c])
    BY <2>2, AgainInOrder
  <2>7. Answered(c)
    BY <1>1, <1>2, <1>5, <2>2, <2>3, <2>5, <2>6 DEF Answered
  <2> QED BY <1>3, <2>7
<1> QED BY <1>4, <1>5 DEF Sent, Ends

\* The queue of one connection changes, the others are as they were.
LEMMA OrderedAfter ==
  ASSUME IInv, NEW c \in Conns, Others(c),
         \A d \in Conns : d # c => asked'[d] = asked[d] /\ answered'[d] = answered[d],
         answered'[c] <= asked'[c],
         InOrder(buf'[c] \o wire'[c], asked'[c], answered'[c])
  PROVE  Ordered'
<1>1. ASSUME NEW d \in Conns, d # c
      PROVE  /\ answered'[d] <= asked'[d]
             /\ InOrder(buf'[d] \o wire'[d], asked'[d], answered'[d])
  <2>1. buf'[d] = buf[d] /\ wire'[d] = wire[d] /\ asked'[d] = asked[d]
        /\ answered'[d] = answered[d]
    BY <1>1 DEF Others
  <2>2. answered[d] <= asked[d] /\ InOrder(buf[d] \o wire[d], asked[d], answered[d])
    BY DEF IInv, Ordered, Queue
  <2> QED BY <2>1, <2>2
<1>2. \A d \in Conns : /\ answered'[d] <= asked'[d]
                       /\ InOrder(buf'[d] \o wire'[d], asked'[d], answered'[d])
  BY <1>1
<1> QED BY <1>2 DEF Ordered, Queue, InOrder, EmptyHel

\* What spins goes on to spin while its own connection stands still.
LEMMA SpinningKept ==
  ASSUME NEW d \in Conns, buf'[d] = buf[d], wire'[d] = wire[d], part'[d] = part[d],
         pc'[d] = pc[d], Spinning(d)
  PROVE  Spinning(d)'
BY DEF Spinning, Running, Known, Front

\* A message that is handled is answered or not, and goes unless it is an empty HEL.
LEMMA Handled ==
  ASSUME IInv, NEW c \in Conns, Running(c), Known(c), Complete(c),
         Front(c).type # "JUNK", Front(c).length # "bad",
         Consume(c), Answered(c), asked' = asked
  PROVE  Typed /\ Ordered' /\ OnlyEmptyHelRepeats'
<1>1. /\ Typed /\ Others(c)
      /\ EmptyHel(Front(c)) => UNCHANGED <<buf, wire, part>>
      /\ ~EmptyHel(Front(c)) =>
           \A a \in {answered[c], Front(c).no} :
             InOrder(buf'[c] \o wire'[c], asked[c], a)
  BY ConsumeLeaves
<1>2. /\ \A d \in Conns : d # c =>
           answered'[d] = answered[d] /\ again'[d] = again[d] /\ pc'[d] = pc[d]
      /\ pc'[c] \in {pc[c], "close"}
      /\ answered'[c] \in {answered[c], Front(c).no} /\ answered'[c] <= asked[c]
      /\ again'[c] => again[c] \/ EmptyHel(Front(c))
      /\ EmptyHel(Front(c)) => InOrder(Queue(c), asked[c], answered'[c])
  BY DEF Answered
<1>3. InOrder(buf'[c] \o wire'[c], asked[c], answered'[c])
  <2>1. CASE EmptyHel(Front(c))
    <3>1. buf' = buf /\ wire' = wire
      BY <1>1, <2>1
    <3> QED BY <1>2, <2>1, <3>1 DEF Queue
  <2>2. CASE ~EmptyHel(Front(c))
    BY <1>1, <1>2, <2>2
  <2> QED BY <2>1, <2>2
<1>4. Ordered'
  BY <1>1, <1>2, <1>3, OrderedAfter
<1>5. ASSUME NEW d \in Conns, again'[d], Running(d)' PROVE Spinning(d)'
  <2>1. CASE d # c
    <3>1. again[d] /\ Running(d) /\ pc'[d] = pc[d]
      BY <1>2, <1>5, <2>1 DEF Running
    <3>2. Spinning(d)
      BY <3>1 DEF IInv, OnlyEmptyHelRepeats
    <3> QED BY <1>1, <2>1, <3>1, <3>2, SpinningKept DEF Others
  <2>2. CASE d = c
    <3>1. pc'[c] = pc[c]
      BY <1>2, <1>5, <2>2 DEF Running
    <3>2. EmptyHel(Front(c))
      <4>1. again[c] => Spinning(c)
        BY DEF IInv, OnlyEmptyHelRepeats
      <4> QED BY <1>2, <1>5, <2>2, <4>1 DEF Spinning, EmptyHel
    <3>3. Spinning(c)
      BY <3>2 DEF Spinning, EmptyHel
    <3>4. buf' = buf /\ wire' = wire /\ part' = part
      BY <1>1, <3>2
    <3> QED BY <2>2, <3>1, <3>3, <3>4, SpinningKept
  <2> QED BY <2>1, <2>2
<1>6. OnlyEmptyHelRepeats'
  BY <1>5 DEF OnlyEmptyHelRepeats
<1> QED BY <1>1, <1>4, <1>6

LEMMA InitInv == Init => IInv
<1> SUFFICES ASSUME Init PROVE IInv
  OBVIOUS
<1>1. TypeOK /\ Cut
  BY DEF Init, TypeOK, Cut, Parts, None
<1>2. OnlyEmptyHelRepeats /\ OneChannel
  BY DEF Init, OnlyEmptyHelRepeats, OneChannel
<1>3. ASSUME NEW c \in Conns
      PROVE  answered[c] <= asked[c] /\ InOrder(Queue(c), asked[c], answered[c])
  <2>1. Queue(c) = <<>> /\ asked[c] = 0 /\ answered[c] = 0
    BY DEF Init, Queue
  <2>2. InOrder(<<>>, 0, 0)
    BY DEF InOrder
  <2> QED BY <2>1, <2>2
<1> QED BY <1>1, <1>2, <1>3 DEF IInv, Ordered

\* Steps that leave the queues and the numbers alone.
LEMMA StillInv ==
  ASSUME IInv, UNCHANGED <<wire, part, buf, channel, handshake_done, asked, answered,
                           again, told, refused>>,
         peer' \in [Conns -> {"open", "closed", "reset"}],
         pc' \in [Conns -> {"run", "close", "done"}],
         \A c \in Conns : pc'[c] = "run" => pc[c] = "run"
  PROVE  IInv'
<1>1. TypeOK' /\ Cut'
  BY DEF IInv, TypeOK, Cut
<1>2. Ordered'
  BY DEF IInv, Ordered, Queue
<1>3. ASSUME NEW c \in Conns, again'[c], Running(c)' PROVE Spinning(c)'
  <2>1. Spinning(c) /\ pc'[c] = pc[c]
    BY <1>3 DEF IInv, OnlyEmptyHelRepeats, Running
  <2> QED BY <2>1, SpinningKept
<1>4. OnlyEmptyHelRepeats'
  BY <1>3 DEF OnlyEmptyHelRepeats
<1>5. OneChannel'
  BY DEF IInv, OneChannel
<1> QED BY <1>1, <1>2, <1>4, <1>5 DEF IInv

LEMMA SendInv ==
  ASSUME IInv, NEW c \in Conns, Send(c)
  PROVE  IInv'
<1>1. TypeOK /\ Cut /\ InOrder(Queue(c), asked[c], answered[c]) /\ answered[c] <= asked[c]
  BY DEF IInv, Ordered
<1>2. /\ buf[c] \in Seq(Wired) /\ wire[c] \in Seq(Wired) /\ Queue(c) \in Seq(Wired)
      /\ asked[c] \in Nat /\ answered[c] \in Nat
  BY <1>1, QueueType
<1>3. PICK m \in Messages, ch \in told[c] \cup {0, Foreign} :
        wire' = [wire EXCEPT ![c] = Append(@,
            [type |-> m.type, length |-> m.length, service |-> m.service,
             channel |-> ch, no |-> asked[c] + 1])]
  BY DEF Send
<1> DEFINE w == [type |-> m.type, length |-> m.length, service |-> m.service,
                 channel |-> ch, no |-> asked[c] + 1]
<1>4. w \in Wired /\ w.no = asked[c] + 1
  <2>1. /\ m.type \in {"HEL", "OPN", "CLO", "MSG"}
        /\ m.length \in Lengths(m.type) /\ m.service \in Services
    BY MessagesAssumption
  <2>2. ch \in Nat /\ asked[c] + 1 \in Nat
    BY <1>1, <1>2 DEF TypeOK, Foreign
  <2>3. m.length \in {"exact", "long", "short", "zero", "bad"}
    BY <2>1 DEF Lengths
  <2>4. w.type = m.type /\ w.length = m.length
    OBVIOUS
  <2> QED BY <2>1, <2>2, <2>3, <2>4 DEF Wired
<1>5. wire' = [wire EXCEPT ![c] = Append(@, w)]
  BY <1>3
<1> HIDE DEF w
<1>6. /\ asked' = [asked EXCEPT ![c] = @ + 1]
      /\ UNCHANGED <<pc, peer, part, buf, channel, handshake_done, answered, again, told, refused>>
  BY DEF Send
<1>7. Append(wire[c], w) \in Seq(Wired) /\ Append(wire[c], w) # <<>>
      /\ buf[c] \o Append(wire[c], w) = Append(Queue(c), w)
  BY <1>2, <1>4, AppendBehind DEF Queue
<1>8. /\ wire' \in [Conns -> Seq(Wired)] /\ wire'[c] = Append(wire[c], w)
      /\ \A d \in Conns : d # c => wire'[d] = wire[d]
  BY <1>1, <1>5, <1>7 DEF TypeOK
<1>9. /\ asked' \in [Conns -> Nat] /\ asked'[c] = asked[c] + 1
      /\ \A d \in Conns : d # c => asked'[d] = asked[d]
  BY <1>1, <1>6 DEF TypeOK
<1>10. TypeOK' /\ Cut'
  BY <1>1, <1>6, <1>7, <1>8, <1>9 DEF TypeOK, Cut
<1>11. Ordered'
  <2>1. Others(c)
    BY <1>6, <1>8 DEF Others
  <2>2. InOrder(Append(Queue(c), w), asked[c] + 1, answered[c])
    BY <1>1, <1>2, <1>4, SentInOrder
  <2>3. InOrder(buf'[c] \o wire'[c], asked'[c], answered'[c])
    BY <1>6, <1>7, <1>8, <1>9, <2>2
  <2>4. answered'[c] <= asked'[c]
    BY <1>1, <1>2, <1>6, <1>9
  <2> QED BY <1>6, <1>9, <2>1, <2>3, <2>4, OrderedAfter
<1>12. ASSUME NEW d \in Conns, again'[d], Running(d)' PROVE Spinning(d)'
  <2>1. Spinning(d)
    BY <1>6, <1>12 DEF IInv, OnlyEmptyHelRepeats, Running
  <2>2. CASE d # c
    BY <1>6, <1>8, <2>1, <2>2, SpinningKept
  <2>3. CASE d = c
    <3>1. Known(c)' = Known(c)
      BY <1>6 DEF Known
    <3>2. Front(c)' = Front(c)
      <4>1. CASE buf[c] # <<>>
        BY <1>6, <4>1 DEF Front
      <4>2. CASE buf[c] = <<>>
        <5>1. wire[c] # <<>>
          BY <1>1, <2>1, <2>3, <4>2 DEF Spinning, Known, Cut
        <5>2. Head(Append(wire[c], w)) = Head(wire[c])
          BY <1>2, <1>4, <5>1, AppendProperties, HeadTailProperties, TailElements
        <5> QED BY <1>6, <1>8, <4>2, <5>2 DEF Front
      <4> QED BY <4>1, <4>2
    <3> QED BY <1>6, <2>1, <2>3, <3>1, <3>2 DEF Spinning, Running
  <2> QED BY <2>2, <2>3
<1>13. OnlyEmptyHelRepeats'
  BY <1>12 DEF OnlyEmptyHelRepeats
<1>14. OneChannel'
  BY <1>6 DEF IInv, OneChannel
<1> QED BY <1>10, <1>11, <1>13, <1>14 DEF IInv

\* What is received goes from the wire to the buffer: the queue stays the same.
LEMMA RecvInv ==
  ASSUME IInv, NEW c \in Conns, Recv(c)
  PROVE  IInv'
<1>1. TypeOK /\ Cut /\ InOrder(Queue(c), asked[c], answered[c]) /\ answered[c] <= asked[c]
  BY DEF IInv, Ordered
<1>2. buf[c] \in Seq(Wired) /\ wire[c] \in Seq(Wired) /\ Len(wire[c]) \in Nat
  BY <1>1, QueueType, LenProperties
<1>3. PICK k \in 0..Len(wire[c]), p \in Parts :
       /\ k = Len(wire[c]) => p = "none"
       /\ buf' = [buf EXCEPT ![c] = @ \o SubSeq(wire[c], 1, k)]
       /\ wire' = [wire EXCEPT ![c] = SubSeq(@, k + 1, Len(@))]
       /\ part' = [part EXCEPT ![c] = p]
  BY DEF Recv
<1>4. /\ Running(c) /\ NeedsMore(c)
      /\ UNCHANGED <<pc, peer, channel, handshake_done, asked, answered, again, told, refused>>
  BY DEF Recv
<1> DEFINE f == SubSeq(wire[c], 1, k)
<1> DEFINE r == SubSeq(wire[c], k + 1, Len(wire[c]))
<1>5. f \in Seq(Wired) /\ r \in Seq(Wired) /\ f \o r = wire[c]
      /\ (k # Len(wire[c]) => r # <<>>)
  BY <1>2, SplitSeq
<1>6. buf[c] \o f \in Seq(Wired) /\ (buf[c] \o f) \o r = Queue(c)
  <2>1. buf[c] \o f \in Seq(Wired)
    BY <1>2, <1>5, ConcatElements
  <2> HIDE DEF f, r
  <2>2. (buf[c] \o f) \o r = buf[c] \o (f \o r)
    BY <1>2, <1>5, ConcatThree
  <2> QED BY <1>5, <2>1, <2>2 DEF Queue
<1>7. /\ buf' = [buf EXCEPT ![c] = @ \o f] /\ wire' = [wire EXCEPT ![c] = r]
      /\ part' = [part EXCEPT ![c] = p]
  BY <1>3
<1> HIDE DEF f, r
<1>8. /\ buf' \in [Conns -> Seq(Wired)] /\ wire' \in [Conns -> Seq(Wired)]
      /\ part' \in [Conns -> Parts]
      /\ buf'[c] = buf[c] \o f /\ wire'[c] = r /\ part'[c] = p
      /\ Others(c)
  BY <1>1, <1>5, <1>6, <1>7 DEF TypeOK, Others
<1>9. TypeOK' /\ Cut'
  <2>1. Cut'
    BY <1>1, <1>3, <1>5, <1>8 DEF Cut, Others
  <2> QED BY <1>1, <1>4, <1>8, <2>1 DEF TypeOK
<1>10. Ordered'
  <2>1. InOrder(buf'[c] \o wire'[c], asked'[c], answered'[c])
    BY <1>1, <1>4, <1>6, <1>8
  <2> QED BY <1>1, <1>4, <1>8, <2>1, OrderedAfter
<1>11. ASSUME NEW d \in Conns, again'[d], Running(d)' PROVE Spinning(d)'
  <2>1. Spinning(d)
    BY <1>4, <1>11 DEF IInv, OnlyEmptyHelRepeats, Running
  <2>2. d # c
    BY <1>4, <2>1 DEF Spinning, NeedsMore, Complete
  <2> QED BY <1>4, <1>8, <2>1, <2>2, SpinningKept DEF Others
<1>12. OnlyEmptyHelRepeats'
  BY <1>11 DEF OnlyEmptyHelRepeats
<1>13. OneChannel'
  BY <1>4 DEF IInv, OneChannel
<1> QED BY <1>9, <1>10, <1>12, <1>13 DEF IInv

\* A buffer that is thrown away leaves what is still to come in order.
LEMMA ThrowAwayInv ==
  ASSUME IInv, NEW c \in Conns, ThrowAway(c)
  PROVE  IInv'
<1>1. TypeOK /\ Cut /\ InOrder(Queue(c), asked[c], answered[c]) /\ answered[c] <= asked[c]
  BY DEF IInv, Ordered
<1>2. /\ buf[c] \in Seq(Wired) /\ wire[c] \in Seq(Wired)
      /\ asked[c] \in Nat /\ answered[c] \in Nat
      /\ buf[c] = <<>> => Queue(c) = wire[c]
  BY <1>1, QueueType
<1>3. /\ Running(c) /\ Known(c)
      /\ (Front(c).type = "JUNK" \/ Front(c).length = "bad")
      /\ UNCHANGED <<pc, peer, channel, handshake_done, asked, answered, again, told, refused>>
      /\ Clear(c)
  BY DEF ThrowAway
<1>4. buf[c] = <<>> => wire[c] # <<>> /\ part[c] = "body"
  BY <1>1, <1>3, FrontIsFirst
<1> DEFINE rest == IF part[c] = "none" THEN wire[c]
                   ELSE (IF Head(wire[c]).type = "JUNK" THEN <<>> ELSE <<Junk>>) \o Tail(wire[c])
<1>5. \/ rest = wire[c] /\ part[c] = "none"
      \/ wire[c] # <<>> /\ rest = Tail(wire[c])
      \/ wire[c] # <<>> /\ rest = <<Junk>> \o Tail(wire[c])
  <2>1. part[c] # "none" => wire[c] # <<>>
    BY <1>1 DEF Cut
  <2>2. ASSUME wire[c] # <<>> PROVE <<>> \o Tail(wire[c]) = Tail(wire[c])
    BY <1>2, <2>2, TailElements, ConcatEmptySeq
  <2> QED BY <2>1, <2>2
<1>6. rest \in Seq(Wired)
  <2>1. wire[c] # <<>> => Tail(wire[c]) \in Seq(Wired)
    BY <1>2, TailElements
  <2>2. <<Junk>> \in Seq(Wired)
    BY JunkType
  <2>3. wire[c] # <<>> => <<Junk>> \o Tail(wire[c]) \in Seq(Wired)
    BY <2>1, <2>2, ConcatElements
  <2> HIDE DEF rest
  <2> QED BY <1>2, <1>5, <2>1, <2>3
<1>7. InOrder(rest, asked[c], answered[c])
  <2>1. CASE buf[c] # <<>>
    <3>1. InOrder(wire[c], asked[c], answered[c])
      BY <1>1, <1>2, <2>1, BehindInOrder DEF Queue
    <3>2. wire[c] # <<>> => /\ InOrder(Tail(wire[c]), asked[c], answered[c])
                            /\ InOrder(<<Junk>> \o Tail(wire[c]), asked[c], answered[c])
      BY <1>2, <3>1, RestInOrder, JunkInOrder
    <3> HIDE DEF rest
    <3> QED BY <1>5, <3>1, <3>2
  <2>2. CASE buf[c] = <<>>
    <3>1. wire[c] # <<>> /\ part[c] # "none" /\ InOrder(wire[c], asked[c], answered[c])
      BY <1>1, <1>2, <1>4, <2>2
    <3>2. /\ InOrder(Tail(wire[c]), asked[c], answered[c])
          /\ InOrder(<<Junk>> \o Tail(wire[c]), asked[c], answered[c])
      BY <1>2, <3>1, RestInOrder, JunkInOrder
    <3> HIDE DEF rest
    <3> QED BY <1>5, <3>1, <3>2
  <2> QED BY <2>1, <2>2
<1>8. /\ buf' = [buf EXCEPT ![c] = <<>>] /\ wire' = [wire EXCEPT ![c] = rest]
      /\ part' = [part EXCEPT ![c] = "none"]
  BY <1>1, <1>3 DEF Clear, TypeOK
<1> HIDE DEF rest
<1>9. /\ buf' \in [Conns -> Seq(Wired)] /\ wire' \in [Conns -> Seq(Wired)]
      /\ part' \in [Conns -> Parts]
      /\ buf'[c] = <<>> /\ wire'[c] = rest /\ part'[c] = "none"
      /\ Others(c)
  <2>1. <<>> \in Seq(Wired)
    OBVIOUS
  <2> QED BY <1>1, <1>6, <1>8, <2>1 DEF TypeOK, Others, Parts
<1>10. Cut'
  BY <1>1, <1>9 DEF Cut, Others
<1>11. TypeOK'
  BY <1>1, <1>3, <1>9 DEF TypeOK
<1>12. Ordered'
  <2>1. buf'[c] \o wire'[c] = rest
    BY <1>6, <1>9, ConcatEmptySeq
  <2>2. InOrder(buf'[c] \o wire'[c], asked'[c], answered'[c])
    BY <1>3, <1>7, <2>1
  <2> QED BY <1>1, <1>3, <1>9, <2>2, OrderedAfter
<1>13. ASSUME NEW d \in Conns, again'[d], Running(d)' PROVE Spinning(d)'
  <2>1. Spinning(d)
    BY <1>3, <1>13 DEF IInv, OnlyEmptyHelRepeats, Running
  <2>2. d # c
    BY <1>3, <2>1 DEF Spinning
  <2> QED BY <1>3, <1>9, <2>1, <2>2, SpinningKept DEF Others
<1>14. OnlyEmptyHelRepeats'
  BY <1>13 DEF OnlyEmptyHelRepeats
<1>15. OneChannel'
  BY <1>3 DEF IInv, OneChannel
<1> QED BY <1>10, <1>11, <1>12, <1>14, <1>15 DEF IInv

\* Steps that handle the message at the front.
Handles(c) ==
  /\ Running(c) /\ Known(c) /\ Complete(c) /\ Front(c).type # "JUNK" /\ Front(c).length # "bad"
  /\ Consume(c) /\ Answered(c) /\ asked' = asked
  /\ peer' \in [Conns -> {"open", "closed", "reset"}]

\* A handler that ends without an answer.
LEMMA EndsUnanswered ==
  ASSUME IInv, NEW c \in Conns, Known(c), Front(c).type # "JUNK",
         pc' = pc \/ Ends(c), UNCHANGED <<answered, again>>
  PROVE  Answered(c)
<1>1. /\ pc \in [Conns -> {"run", "close", "done"}] /\ answered \in [Conns -> Nat]
      /\ again \in [Conns -> BOOLEAN]
      /\ InOrder(Queue(c), asked[c], answered[c]) /\ answered[c] <= asked[c]
  BY DEF IInv, TypeOK, Ordered
<1>2. pc' = pc \/ pc' = [pc EXCEPT ![c] = "close"]
  BY DEF Ends
<1> QED BY <1>1, <1>2 DEF Answered

LEMMA HandlesWhat ==
  ASSUME IInv, NEW c \in Conns,
         \/ HandleHello(c) \/ HandleOpen(c) \/ HandleClose(c) \/ HandleDropped(c)
         \/ HandleForeign(c) \/ HandleRaising(c) \/ HandleService(c)
  PROVE  Handles(c)
<1>1. peer \in [Conns -> {"open", "closed", "reset"}]
  BY DEF IInv, TypeOK
<1>2. CASE HandleHello(c)
  <2>1. /\ Running(c) /\ Known(c) /\ Complete(c) /\ Front(c).type = "HEL"
        /\ Consume(c) /\ Sent(c, FALSE) /\ asked' = asked
    BY <1>2 DEF HandleHello
  <2>2. Front(c).length # "bad"
    <3>1. Front(c) \in Wired
      BY <2>1, FrontIsFirst DEF IInv
    <3> QED BY <2>1, <3>1 DEF Wired, Lengths
  <2>3. Answered(c) /\ peer' \in [Conns -> {"open", "closed", "reset"}]
    BY <2>1, SentAnswers
  <2> QED BY <2>1, <2>2, <2>3 DEF Handles
<1>3. CASE HandleOpen(c)
  <2>1. /\ Running(c) /\ Known(c) /\ Complete(c) /\ Front(c).type # "JUNK"
        /\ Front(c).length # "bad"
        /\ Consume(c) /\ Sent(c, FALSE) /\ asked' = asked
    BY <1>3 DEF HandleOpen, Chunk
  <2> QED BY <2>1, SentAnswers DEF Handles
<1>4. CASE HandleService(c)
  <2>1. /\ Running(c) /\ Known(c) /\ Complete(c) /\ Front(c).type # "JUNK"
        /\ Front(c).length # "bad"
        /\ Consume(c) /\ Sent(c, Front(c).service \in Swallowing) /\ asked' = asked
    BY <1>4 DEF HandleService, Chunk
  <2> QED BY <2>1, SentAnswers DEF Handles
<1>5. CASE HandleDropped(c) \/ HandleForeign(c) \/ HandleRaising(c)
  <2>1. /\ Running(c) /\ Known(c) /\ Complete(c) /\ Front(c).type # "JUNK"
        /\ Front(c).length # "bad"
        /\ Consume(c) /\ (pc' = pc \/ Ends(c)) /\ UNCHANGED <<peer, asked, answered, again>>
    BY <1>5 DEF HandleDropped, HandleForeign, HandleRaising, Chunk
  <2> QED BY <1>1, <2>1, EndsUnanswered DEF Handles
<1>6. CASE HandleClose(c)
  <2>1. /\ Running(c) /\ Known(c) /\ Complete(c) /\ Front(c).type = "CLO"
        /\ Front(c).length # "bad" /\ Consume(c)
        /\ answered' = [answered EXCEPT ![c] = Max({@, Front(c).no})]
        /\ pc' = [pc EXCEPT ![c] = "close"]
        /\ UNCHANGED <<peer, asked, again>>
    BY <1>6 DEF HandleClose, Chunk, Ends
  <2>2. /\ pc \in [Conns -> {"run", "close", "done"}] /\ answered \in [Conns -> Nat]
        /\ again \in [Conns -> BOOLEAN]
    BY DEF IInv, TypeOK
  <2>3. /\ Front(c).no \in Nat /\ Front(c).no <= asked[c]
        /\ Max({answered[c], Front(c).no}) = Front(c).no
    BY <2>1, FrontNumber
  <2>4. answered' = [answered EXCEPT ![c] = Front(c).no]
    BY <2>1, <2>2, <2>3
  <2>5. /\ answered' \in [Conns -> Nat] /\ answered'[c] = Front(c).no
        /\ \A d \in Conns : d # c => answered'[d] = answered[d]
    BY <2>2, <2>3, <2>4
  <2>6. ~EmptyHel(Front(c))
    BY <2>1 DEF EmptyHel
  <2>7. Answered(c)
    BY <2>1, <2>2, <2>3, <2>5, <2>6 DEF Answered
  <2> QED BY <1>1, <2>1, <2>7 DEF Handles
<1> QED BY <1>2, <1>3, <1>4, <1>5, <1>6

\* The first OPN draws the channel, and nothing else does.
LEMMA ChannelKept ==
  ASSUME IInv, NEW c \in Conns, Handles(c),
         \/ HandleHello(c) \/ HandleOpen(c) \/ HandleClose(c) \/ HandleDropped(c)
         \/ HandleForeign(c) \/ HandleRaising(c) \/ HandleService(c)
  PROVE  /\ OneChannel'
         /\ channel' \in [Conns -> Nat] /\ handshake_done' \in [Conns -> BOOLEAN]
         /\ told' \in [Conns -> SUBSET Nat] /\ refused' \in [Conns -> Nat]
<1>1. /\ channel \in [Conns -> Nat] /\ handshake_done \in [Conns -> BOOLEAN]
      /\ told \in [Conns -> SUBSET Nat] /\ refused \in [Conns -> Nat]
      /\ pc \in [Conns -> {"run", "close", "done"}]
      /\ OneChannel
  BY DEF IInv, TypeOK
<1>2. /\ \A d \in Conns : d # c => pc'[d] = pc[d]
      /\ pc'[c] \in {pc[c], "close"} /\ pc[c] = "run"
  BY DEF Handles, Answered, Running
<1>3. \A d \in Conns : pc'[d] = "run" => pc[d] = "run"
  BY <1>2
<1>4. CASE UNCHANGED <<channel, handshake_done, told, refused>>
  BY <1>1, <1>3, <1>4 DEF OneChannel
<1>5. CASE HandleOpen(c)
  <2>1. /\ channel' = [channel EXCEPT ![c] = IF handshake_done[c] THEN @ ELSE @ + 1]
        /\ handshake_done' = [handshake_done EXCEPT ![c] = TRUE]
        /\ told' = [told EXCEPT ![c] = @ \cup {channel'[c]}]
        /\ refused' = refused
    BY <1>5 DEF HandleOpen
  <2>2. /\ channel' \in [Conns -> Nat] /\ channel'[c] \in Nat
        /\ \A d \in Conns : d # c => channel'[d] = channel[d]
        /\ channel'[c] = IF handshake_done[c] THEN channel[c] ELSE channel[c] + 1
    BY <1>1, <2>1
  <2>3. /\ handshake_done' \in [Conns -> BOOLEAN] /\ handshake_done'[c]
        /\ \A d \in Conns : d # c => handshake_done'[d] = handshake_done[d]
    BY <1>1, <2>1
  <2>4. /\ told' \in [Conns -> SUBSET Nat] /\ told'[c] = told[c] \cup {channel'[c]}
        /\ \A d \in Conns : d # c => told'[d] = told[d]
    BY <1>1, <2>1, <2>2
  <2>5. channel'[c] \in {0, 1} /\ told'[c] \subseteq {channel'[c]}
    BY <1>1, <2>2, <2>4 DEF OneChannel
  <2>6. refused[c] = None
    BY <1>1, <1>2 DEF OneChannel
  <2>7. ASSUME NEW d \in Conns
        PROVE  /\ channel'[d] \in {0, 1} /\ told'[d] \subseteq {channel'[d]}
               /\ ~handshake_done'[d] => channel'[d] = 0 /\ told'[d] = {}
               /\ refused'[d] # None => pc'[d] # "run" /\ refused'[d] # channel'[d]
    <3>1. CASE d = c
      BY <2>1, <2>3, <2>5, <2>6, <3>1
    <3>2. CASE d # c
      BY <1>1, <1>2, <2>1, <2>2, <2>3, <2>4, <3>2 DEF OneChannel
    <3> QED BY <3>1, <3>2
  <2>8. OneChannel'
    BY <2>7 DEF OneChannel, None
  <2> QED BY <1>1, <2>1, <2>2, <2>3, <2>4, <2>8
<1>6. CASE HandleForeign(c)
  <2>1. /\ refused' = [refused EXCEPT ![c] = Front(c).channel] /\ Front(c).channel # channel[c]
        /\ pc' = [pc EXCEPT ![c] = "close"]
        /\ UNCHANGED <<channel, handshake_done, told>>
    BY <1>6 DEF HandleForeign, Ends
  <2>2. Front(c).channel \in Nat
    <3>1. Front(c) \in Wired
      BY FrontIsFirst DEF IInv, Handles
    <3> QED BY <3>1 DEF Wired
  <2>3. /\ refused' \in [Conns -> Nat] /\ refused'[c] # channel[c]
        /\ \A d \in Conns : d # c => refused'[d] = refused[d]
    BY <1>1, <2>1, <2>2
  <2>4. pc'[c] = "close"
    BY <1>1, <2>1
  <2>5. ASSUME NEW d \in Conns
        PROVE  refused'[d] # None => pc'[d] # "run" /\ refused'[d] # channel'[d]
    <3>1. CASE d = c
      BY <2>1, <2>3, <2>4, <3>1
    <3>2. CASE d # c
      BY <1>1, <1>2, <2>1, <2>3, <3>2 DEF OneChannel
    <3> QED BY <3>1, <3>2
  <2>6. OneChannel'
    BY <1>1, <2>1, <2>5 DEF OneChannel, None
  <2> QED BY <1>1, <2>1, <2>3, <2>6
<1> QED BY <1>4, <1>5, <1>6
     DEF HandleHello, HandleClose, HandleDropped, HandleRaising, HandleService

LEMMA HandleInv ==
  ASSUME IInv, NEW c \in Conns,
         \/ HandleHello(c) \/ HandleOpen(c) \/ HandleClose(c) \/ HandleDropped(c)
         \/ HandleForeign(c) \/ HandleRaising(c) \/ HandleService(c)
  PROVE  IInv'
<1>1. Handles(c)
  BY HandlesWhat
<1>2. Typed /\ Ordered' /\ OnlyEmptyHelRepeats'
  BY <1>1, Handled DEF Handles
<1>3. /\ OneChannel'
      /\ channel' \in [Conns -> Nat] /\ handshake_done' \in [Conns -> BOOLEAN]
      /\ told' \in [Conns -> SUBSET Nat] /\ refused' \in [Conns -> Nat]
  BY <1>1, ChannelKept
<1>4. TypeOK' /\ Cut'
  BY <1>1, <1>2, <1>3 DEF IInv, TypeOK, Typed, Handles, Answered
<1> QED BY <1>2, <1>3, <1>4 DEF IInv

LEMMA NextInv == IInv /\ [Next]_vars => IInv'
<1> SUFFICES ASSUME IInv, [Next]_vars PROVE IInv'
  OBVIOUS
<1>1. /\ peer \in [Conns -> {"open", "closed", "reset"}]
      /\ pc \in [Conns -> {"run", "close", "done"}]
  BY DEF IInv, TypeOK
<1>2. CASE UNCHANGED vars
  BY <1>1, <1>2, StillInv DEF vars
<1>3. ASSUME NEW c \in Conns, Leave(c) PROVE IInv'
  <2>1. peer' \in [Conns -> {"open", "closed", "reset"}]
    BY <1>1, <1>3 DEF Leave
  <2> QED BY <1>1, <1>3, <2>1, StillInv DEF Leave
<1>4. ASSUME NEW c \in Conns, RecvNothing(c) \/ CloseSocket(c) PROVE IInv'
  <2>1. \/ pc' = [pc EXCEPT ![c] = "close"]
        \/ pc' = [pc EXCEPT ![c] = "done"]
    BY <1>4 DEF RecvNothing, CloseSocket, Ends
  <2>2. /\ pc' \in [Conns -> {"run", "close", "done"}]
        /\ \A d \in Conns : pc'[d] = "run" => pc[d] = "run"
    BY <1>1, <2>1
  <2>3. UNCHANGED <<wire, part, buf, channel, handshake_done, asked, answered, again, told,
                    refused, peer>>
    BY <1>4 DEF RecvNothing, CloseSocket
  <2> QED BY <1>1, <2>2, <2>3, StillInv
<1>5. ASSUME NEW c \in Conns, Send(c) \/ Recv(c) \/ ThrowAway(c) PROVE IInv'
  BY <1>5, SendInv, RecvInv, ThrowAwayInv
<1>6. ASSUME NEW c \in Conns,
             \/ HandleHello(c) \/ HandleOpen(c) \/ HandleClose(c) \/ HandleDropped(c)
             \/ HandleForeign(c) \/ HandleRaising(c) \/ HandleService(c)
      PROVE  IInv'
  BY <1>6, HandleInv
<1> QED BY <1>2, <1>3, <1>4, <1>5, <1>6 DEF Next, Handler

\* Types, what is cut on the wire, messages in order, the one that is repeated and the
\* one channel are together an inductive invariant.
THEOREM Inductive == Spec => []IInv
<1>1. Init => IInv
  BY InitInv
<1>2. IInv /\ [Next]_vars => IInv'
  BY NextInv
<1> QED BY <1>1, <1>2, PTL DEF Spec

\* However messages are cut, stuck together, thrown away or believed too short, none is
\* handled twice but a HEL that states length 0.
THEOREM OnlyOneRepeats == Spec => []OnlyEmptyHelRepeats
<1>1. IInv => OnlyEmptyHelRepeats
  BY DEF IInv
<1> QED BY <1>1, Inductive, PTL

\* A client that keeps to a channel it was told is never cut off for it, however often
\* it repeats the OPN.
THEOREM ItsChannelAccepted == Spec => []NeverRefusedOnItsChannel
<1>1. IInv => NeverRefusedOnItsChannel
  <2> SUFFICES ASSUME IInv, NEW c \in Conns PROVE refused[c] \notin told[c]
    BY DEF NeverRefusedOnItsChannel
  <2>1. /\ channel[c] \in {0, 1} /\ told[c] \subseteq {channel[c]}
        /\ refused[c] # None => refused[c] # channel[c]
    BY DEF IInv, OneChannel
  <2> QED BY <2>1 DEF None
<1> QED BY <1>1, Inductive, PTL

---------------------------------------------------------------------------
(* The emulator implements the Dialogue that may pass messages over.       *)

LEMMA TalkHandles ==
  ASSUME IInv, NEW c \in Conns, Handles(c)
  PROVE  [Talk!Next]_<<asked, answered, open>>
<1>1. /\ Running(c) /\ Known(c) /\ Front(c).type # "JUNK" /\ asked' = asked
      /\ answered' \in [Conns -> Nat]
      /\ \A d \in Conns : d # c => answered'[d] = answered[d] /\ pc'[d] = pc[d]
      /\ pc'[c] \in {pc[c], "close"}
      /\ answered'[c] \in {answered[c], Front(c).no}
  BY DEF Handles, Answered
<1>2. answered \in [Conns -> Nat]
  BY DEF IInv, TypeOK
<1>3. open' = open /\ open[c]
  <2>1. \A d \in Conns : (pc'[d] # "done") = (pc[d] # "done")
    BY <1>1 DEF Running
  <2>2. pc[c] # "done"
    BY <1>1 DEF Running
  <2> QED BY <2>1, <2>2 DEF open
<1>4. CASE answered'[c] = answered[c]
  <2>1. answered' = answered
    BY <1>1, <1>2, <1>4
  <2> QED BY <1>1, <1>3, <2>1
<1>5. CASE answered'[c] # answered[c]
  <2>1. /\ Front(c).no \in Nat /\ answered[c] \in Nat /\ asked[c] \in Nat
        /\ Front(c).no <= asked[c]
        /\ answered[c] < Front(c).no \/ Front(c).no = answered[c]
    BY <1>1, FrontNumber
  <2>2. answered'[c] = Front(c).no /\ Front(c).no \in (answered[c] + 1)..asked[c]
    BY <1>1, <1>5, <2>1
  <2>3. answered' = [answered EXCEPT ![c] = Front(c).no]
    BY <1>1, <1>2, <2>2
  <2>4. Talk!Answer(c)
    BY <1>1, <1>3, <2>2, <2>3 DEF Talk!Answer
  <2> QED BY <2>4 DEF Talk!Next
<1> QED BY <1>4, <1>5

LEMMA TalkClose ==
  ASSUME IInv, NEW c \in Conns, CloseSocket(c)
  PROVE  Talk!Next
<1>1. /\ pc[c] = "close" /\ pc' = [pc EXCEPT ![c] = "done"]
      /\ pc \in [Conns -> {"run", "close", "done"}]
      /\ UNCHANGED <<asked, answered>>
  BY DEF CloseSocket, IInv, TypeOK
<1>2. open' # open
  <2>1. open[c] /\ ~open'[c]
    BY <1>1 DEF open
  <2> QED BY <2>1
<1>3. open' \in [Conns -> BOOLEAN] /\ \A d \in Conns : open'[d] => open[d]
  BY <1>1 DEF open
<1>4. Talk!Close
  BY <1>1, <1>2, <1>3 DEF Talk!Close
<1> QED BY <1>4 DEF Talk!Next

\* Every step is a step of the dialogue, or none.
LEMMA TalkNext ==
  ASSUME IInv, [Next]_vars
  PROVE  [Talk!Next]_<<asked, answered, open>>
<1>1. ASSUME UNCHANGED <<asked, answered, pc>> PROVE UNCHANGED <<asked, answered, open>>
  BY <1>1 DEF open
<1>2. CASE UNCHANGED vars
  BY <1>1, <1>2 DEF vars
<1>3. ASSUME NEW c \in Conns, Send(c) PROVE Talk!Next
  <2>1. Talk!Ask(c)
    BY <1>3 DEF Send, Talk!Ask, open
  <2> QED BY <2>1 DEF Talk!Next
<1>4. ASSUME NEW c \in Conns, Leave(c) \/ Recv(c) \/ ThrowAway(c)
      PROVE  UNCHANGED <<asked, answered, open>>
  BY <1>1, <1>4 DEF Leave, Recv, ThrowAway
<1>5. ASSUME NEW c \in Conns, RecvNothing(c) PROVE UNCHANGED <<asked, answered, open>>
  <2>1. pc[c] = "run" /\ pc' = [pc EXCEPT ![c] = "close"] /\ UNCHANGED <<asked, answered>>
    BY <1>5 DEF RecvNothing, Running, Ends
  <2>2. \A d \in Conns : (pc'[d] # "done") = (pc[d] # "done")
    BY <2>1 DEF IInv, TypeOK
  <2> QED BY <2>1, <2>2 DEF open
<1>6. ASSUME NEW c \in Conns,
             \/ HandleHello(c) \/ HandleOpen(c) \/ HandleClose(c) \/ HandleDropped(c)
             \/ HandleForeign(c) \/ HandleRaising(c) \/ HandleService(c)
      PROVE  [Talk!Next]_<<asked, answered, open>>
  <2>1. Handles(c)
    BY <1>6, HandlesWhat
  <2> QED BY <2>1, TalkHandles
<1>7. ASSUME NEW c \in Conns, CloseSocket(c) PROVE Talk!Next
  BY <1>7, TalkClose
<1> QED BY <1>2, <1>3, <1>4, <1>5, <1>6, <1>7 DEF Next, Handler

\* The emulator implements Dialogue: what is answered was asked, once and in its turn,
\* an empty HEL that is acknowledged again being no new answer.
THEOREM MessagesInTurn == Spec => AnswersInTurn
<1>1. Init => Talk!Init
  BY DEF Init, Talk!Init, open
<1>2. IInv /\ [Next]_vars => [Talk!Next]_<<asked, answered, open>>
  BY TalkNext
<1> QED BY <1>1, <1>2, Inductive, PTL DEF Spec, AnswersInTurn, Talk!Spec
---------------------------------------------------------------------------
(* Progress: the safety half of HandlersEnd.                               *)

\* Steps a handler still has in it when no more messages come: what is in the buffer b,
\* what is on the wire w and how much of its first message has come, p; and the steps in
\* which the client is found gone and the handler ends. A message on the wire is worth
\* more than one in the buffer, and a first one that is whole more than Junk.
Whole(q) == IF q # <<>> /\ q[1].type # "JUNK" THEN 1 ELSE 0
Begun == [none |-> 0, head |-> 1, body |-> 2]
Data(b, w, p) == 3 * (2 * Len(b) + 3 * Len(w) + Whole(b \o w)) - Begun[p]

Noticed == [open |-> 2, closed |-> 1, reset |-> 0]
Ahead == [run |-> 2, close |-> 1, done |-> 0]

StepsLeft(c) == Data(buf[c], wire[c], part[c]) + Noticed[peer[c]] + Ahead[pc[c]]

\* Every step of a handler brings its end nearer, unless it acknowledges once more the
\* empty HEL of a client that is still there; and only what the client sends takes it
\* further away.
HandlersNear ==
  [][\A c \in Conns :
       /\ Handler(c) =>
            \/ StepsLeft(c)' < StepsLeft(c)
            \/ Spinning(c) /\ peer[c] = "open" /\ StepsLeft(c)' = StepsLeft(c)
       /\ ~Handler(c) /\ ~Send(c) => StepsLeft(c)' <= StepsLeft(c)]_vars

LEMMA DataIs ==
  ASSUME NEW b \in Seq(Wired), NEW w \in Seq(Wired), NEW p \in Parts
  PROVE  /\ Len(b) \in Nat /\ Len(w) \in Nat /\ Whole(b \o w) \in {0, 1}
         /\ Begun[p] \in 0..2
         /\ Data(b, w, p) = 3 * (2 * Len(b) + 3 * Len(w) + Whole(b \o w)) - Begun[p]
         /\ Data(b, w, p) \in Int
         /\ (p # "none" => w # <<>>) => Data(b, w, p) \in Nat
<1>1. Len(b) \in Nat /\ Len(w) \in Nat /\ (w # <<>> => Len(w) >= 1)
  BY LenProperties, EmptySeq
<1>2. Whole(b \o w) \in {0, 1} /\ Begun[p] \in 0..2 /\ (p = "none" => Begun[p] = 0)
  BY DEF Whole, Begun, Parts
<1>3. Data(b, w, p) = 3 * (2 * Len(b) + 3 * Len(w) + Whole(b \o w)) - Begun[p]
  BY DEF Data
<1> DEFINE n == Len(b)
<1> DEFINE m == Len(w)
<1> DEFINE e == Whole(b \o w)
<1> DEFINE g == Begun[p]
<1>4. n \in Nat /\ m \in Nat /\ e \in {0, 1} /\ g \in 0..2
      /\ (p = "none" => g = 0) /\ (w # <<>> => m >= 1)
      /\ Data(b, w, p) = 3 * (2 * n + 3 * m + e) - g
  BY <1>1, <1>2, <1>3
<1> HIDE DEF n, m, e, g
<1>5. Data(b, w, p) \in Int /\ ((p # "none" => w # <<>>) => Data(b, w, p) \in Nat)
  BY <1>4
<1> QED BY <1>1, <1>2, <1>3, <1>5

LEMMA StepsAre ==
  ASSUME NEW c \in Conns
  PROVE  /\ StepsLeft(c) = Data(buf[c], wire[c], part[c]) + Noticed[peer[c]] + Ahead[pc[c]]
         /\ StepsLeft(c)' = Data(buf'[c], wire'[c], part'[c]) + Noticed[peer'[c]] + Ahead[pc'[c]]
BY DEF StepsLeft, Data, Whole, Begun, Noticed, Ahead

\* The last steps of a handler.
LEMMA LastSteps ==
  /\ Noticed["open"] = 2 /\ Noticed["closed"] = 1 /\ Noticed["reset"] = 0
  /\ Ahead["run"] = 2 /\ Ahead["close"] = 1 /\ Ahead["done"] = 0
BY DEF Noticed, Ahead

LEMMA JunkFirst ==
  ASSUME NEW q \in Seq(Wired)
  PROVE  /\ <<Junk>> \o q \in Seq(Wired) /\ Len(<<Junk>> \o q) = Len(q) + 1
         /\ Whole(<<Junk>> \o q) = 0
<1>1. <<Junk>> \in Seq(Wired) /\ Len(<<Junk>>) = 1 /\ <<Junk>>[1] = Junk
  BY JunkType
<1>2. /\ <<Junk>> \o q \in Seq(Wired) /\ Len(q) \in Nat
      /\ Len(<<Junk>> \o q) = Len(<<Junk>>) + Len(q)
      /\ \A i \in 1..Len(<<Junk>>) : (<<Junk>> \o q)[i] = <<Junk>>[i]
  BY <1>1, ConcatElements
<1>3. (<<Junk>> \o q)[1] = Junk
  BY <1>1, <1>2
<1> QED BY <1>1, <1>2, <1>3 DEF Whole, Junk

\* Lengths after each way of taking something off the front.
LEMMA Weights ==
  ASSUME NEW b \in Seq(Wired), NEW w \in Seq(Wired), NEW p \in Parts,
         NEW b1 \in Seq(Wired), NEW w1 \in Seq(Wired), NEW p1 \in Parts,
         \/ Len(b1) < Len(b) /\ w1 = w /\ p1 = p
         \/ /\ Len(b1) = Len(b) /\ Len(w1) = Len(w)
            /\ Whole(b \o w) = 1 /\ Whole(b1 \o w1) = 0
         \/ Len(b1) < Len(b) /\ Len(w1) = Len(w) /\ Whole(b1 \o w1) = 0
         \/ Len(b1) <= Len(b) /\ Len(w1) < Len(w)
  PROVE  Data(b1, w1, p1) < Data(b, w, p)
<1> DEFINE n == Len(b)
<1> DEFINE m == Len(w)
<1> DEFINE e == Whole(b \o w)
<1> DEFINE g == Begun[p]
<1> DEFINE n1 == Len(b1)
<1> DEFINE m1 == Len(w1)
<1> DEFINE e1 == Whole(b1 \o w1)
<1> DEFINE g1 == Begun[p1]
<1>1. /\ n \in Nat /\ m \in Nat /\ e \in {0, 1} /\ g \in 0..2
      /\ Data(b, w, p) = 3 * (2 * n + 3 * m + e) - g
      /\ n1 \in Nat /\ m1 \in Nat /\ e1 \in {0, 1} /\ g1 \in 0..2
      /\ Data(b1, w1, p1) = 3 * (2 * n1 + 3 * m1 + e1) - g1
  BY DataIs
<1>2. \/ n1 < n /\ m1 = m /\ g1 = g
      \/ n1 = n /\ m1 = m /\ e = 1 /\ e1 = 0
      \/ n1 < n /\ m1 = m /\ e1 = 0
      \/ n1 <= n /\ m1 < m
  OBVIOUS
<1> HIDE DEF n, m, e, g, n1, m1, e1, g1
<1> QED BY <1>1, <1>2

\* A message that is handled leaves less, unless it is an empty HEL.
LEMMA ConsumeNear ==
  ASSUME IInv, NEW c \in Conns, Known(c), Complete(c), Front(c).type # "JUNK",
         Front(c).length # "bad", Consume(c)
  PROVE  /\ EmptyHel(Front(c)) => UNCHANGED <<buf, wire, part>>
         /\ ~EmptyHel(Front(c)) =>
              Data(buf'[c], wire'[c], part'[c]) < Data(buf[c], wire[c], part[c])
<1>1. /\ Typed /\ (EmptyHel(Front(c)) => UNCHANGED <<buf, wire, part>>)
  BY ConsumeLeaves
<1>2. /\ buf[c] \in Seq(Wired) /\ wire[c] \in Seq(Wired) /\ part[c] \in Parts
      /\ buf'[c] \in Seq(Wired) /\ wire'[c] \in Seq(Wired) /\ part'[c] \in Parts
      /\ buf \in [Conns -> Seq(Wired)] /\ wire \in [Conns -> Seq(Wired)]
      /\ part \in [Conns -> Parts]
      /\ (buf[c] = <<>> => Queue(c) = wire[c])
  BY <1>1, QueueType DEF IInv, TypeOK, Typed
<1>3. /\ Queue(c) # <<>> /\ Front(c) = Queue(c)[1] /\ Front(c) \in Wired
      /\ buf[c] = <<>> => wire[c] # <<>> /\ part[c] = "body"
  BY FrontIsFirst DEF IInv
<1>4. Whole(buf[c] \o wire[c]) = 1
  BY <1>3 DEF Whole, Queue
<1>5. /\ Front(c).length \in {"exact", "long", "short", "zero"}
      /\ (Front(c).length \in {"short", "zero"} => Front(c).type = "HEL")
  BY <1>3 DEF Wired, Lengths
<1>6. CASE Front(c).length = "zero"
  BY <1>1, <1>5, <1>6 DEF EmptyHel
<1>7. CASE Front(c).length = "short" /\ buf[c] # <<>>
  <2>1. buf' = [buf EXCEPT ![c] = <<Junk>> \o Tail(@)] /\ UNCHANGED <<wire, part>>
    BY <1>7 DEF Consume
  <2>2. buf'[c] = <<Junk>> \o Tail(buf[c]) /\ wire'[c] = wire[c]
    BY <1>2, <2>1
  <2>3. /\ Tail(buf[c]) \in Seq(Wired) /\ Len(Tail(buf[c])) = Len(buf[c]) - 1
        /\ Len(buf[c]) \in Nat
    BY <1>2, <1>7, TailElements
  <2>4. Len(buf'[c]) = Len(buf[c])
    BY <2>2, <2>3, JunkFirst
  <2>5. buf'[c] \o wire'[c] = <<Junk>> \o Tail(Queue(c)) /\ Tail(Queue(c)) \in Seq(Wired)
    <3>1. (<<Junk>> \o Tail(buf[c])) \o wire[c] = <<Junk>> \o Tail(Queue(c))
      BY <1>2, <1>7, JunkOfQueue DEF Queue
    <3>2. Queue(c) \in Seq(Wired)
      BY QueueType DEF IInv
    <3> QED BY <1>3, <2>2, <3>1, <3>2, TailElements
  <2>6. Whole(buf'[c] \o wire'[c]) = 0
    BY <2>5, JunkFirst
  <2> QED BY <1>1, <1>2, <1>4, <2>2, <2>4, <2>6, Weights
<1>8. CASE Front(c).length = "short" /\ buf[c] = <<>>
  <2>1. /\ wire' = [wire EXCEPT ![c] = <<Junk>> \o Tail(@)] /\ buf' = buf
    BY <1>8 DEF Consume
  <2>2. buf'[c] = buf[c] /\ wire'[c] = <<Junk>> \o Tail(wire[c])
    BY <1>2, <2>1
  <2>3. /\ Tail(wire[c]) \in Seq(Wired) /\ Len(Tail(wire[c])) = Len(wire[c]) - 1
        /\ Len(wire[c]) \in Nat
    BY <1>2, <1>3, <1>8, TailElements
  <2>4. Len(wire'[c]) = Len(wire[c])
    BY <2>2, <2>3, JunkFirst
  <2>5. buf'[c] \o wire'[c] = <<Junk>> \o Tail(wire[c])
    <3>1. <<>> \o wire'[c] = wire'[c]
      BY <1>2, ConcatEmptySeq
    <3> QED BY <1>8, <2>2, <3>1
  <2>6. Whole(buf'[c] \o wire'[c]) = 0
    BY <2>3, <2>5, JunkFirst
  <2> QED BY <1>1, <1>2, <1>4, <2>2, <2>4, <2>6, Weights
<1>9. CASE Front(c).length \in {"long", "exact"}
  <2>1. /\ UNCHANGED <<wire, part>> /\ buf[c] # <<>>
        /\ \/ buf' = [buf EXCEPT ![c] = Tail(@)]
           \/ buf' = [buf EXCEPT ![c] = Tail(Tail(@))] /\ Len(buf[c]) >= 2
    <3>1. Front(c).length = "long" => Len(buf[c]) >= 2
      BY DEF Complete
    <3>2. Front(c).length = "exact" => buf[c] # <<>>
      BY DEF Complete
    <3>3. Front(c).length = "long" => buf[c] # <<>>
      BY <1>2, <3>1, TailNotEmpty
    <3>4. CASE Front(c).length = "long"
      BY <3>1, <3>3, <3>4 DEF Consume
    <3>5. CASE Front(c).length = "exact"
      BY <3>2, <3>5 DEF Consume
    <3> QED BY <1>9, <3>4, <3>5
  <2>2. /\ Tail(buf[c]) \in Seq(Wired) /\ Len(Tail(buf[c])) = Len(buf[c]) - 1
        /\ Len(buf[c]) \in Nat
    BY <1>2, <2>1, TailElements
  <2>3. ASSUME Len(buf[c]) >= 2
        PROVE  Len(Tail(Tail(buf[c]))) = Len(Tail(buf[c])) - 1
    <3>1. Tail(buf[c]) # <<>>
      BY <1>2, <2>3, TailNotEmpty
    <3> QED BY <2>2, <3>1, TailElements
  <2>4. Len(buf'[c]) < Len(buf[c])
    <3>1. \/ buf'[c] = Tail(buf[c])
          \/ buf'[c] = Tail(Tail(buf[c])) /\ Len(buf[c]) >= 2
      BY <1>2, <2>1
    <3>2. CASE buf'[c] = Tail(buf[c])
      <4>1. Len(buf'[c]) = Len(Tail(buf[c]))
        BY <3>2
      <4> QED BY <2>2, <4>1
    <3>3. CASE buf'[c] = Tail(Tail(buf[c])) /\ Len(buf[c]) >= 2
      <4>1. Len(buf'[c]) = Len(Tail(Tail(buf[c])))
        BY <3>3
      <4>2. Len(buf'[c]) = Len(Tail(buf[c])) - 1
        BY <2>3, <3>3, <4>1
      <4> QED BY <2>2, <4>2
    <3> QED BY <3>1, <3>2, <3>3
  <2> QED BY <1>1, <1>2, <2>1, <2>4, Weights
<1> QED BY <1>5, <1>6, <1>7, <1>8, <1>9
\* So does a buffer that is thrown away.
LEMMA ClearNear ==
  ASSUME IInv, NEW c \in Conns, ThrowAway(c)
  PROVE  Data(buf'[c], wire'[c], part'[c]) < Data(buf[c], wire[c], part[c])
<1>1. TypeOK /\ Cut /\ Known(c) /\ Clear(c) /\ TypeOK'
      /\ (Front(c).type = "JUNK" \/ Front(c).length = "bad")
  BY ThrowAwayInv DEF IInv, ThrowAway
<1>2. /\ buf[c] \in Seq(Wired) /\ wire[c] \in Seq(Wired) /\ part[c] \in Parts
      /\ buf'[c] \in Seq(Wired) /\ wire'[c] \in Seq(Wired) /\ part'[c] \in Parts
      /\ (buf[c] = <<>> => Queue(c) = wire[c])
  BY <1>1, QueueType DEF TypeOK
<1>3. /\ Front(c) = Queue(c)[1] /\ Queue(c) # <<>>
      /\ buf[c] = <<>> => wire[c] # <<>> /\ part[c] = "body"
      /\ part[c] # "none" => wire[c] # <<>>
  BY <1>1, FrontIsFirst DEF Cut
<1>4. /\ buf'[c] = <<>> /\ part'[c] = "none"
      /\ wire'[c] = IF part[c] = "none" THEN wire[c]
                    ELSE (IF Head(wire[c]).type = "JUNK" THEN <<>> ELSE <<Junk>>) \o Tail(wire[c])
  BY <1>1 DEF Clear, TypeOK
<1>5. Len(buf'[c]) = 0 /\ buf'[c] \o wire'[c] = wire'[c]
  BY <1>2, <1>4, ConcatEmptySeq
<1>6. Len(buf[c]) \in Nat /\ (buf[c] # <<>> => Len(buf[c]) >= 1)
  BY <1>2, TailElements, LenProperties
<1>7. CASE part[c] = "none"
  <2>1. Len(buf'[c]) < Len(buf[c]) /\ wire'[c] = wire[c] /\ part'[c] = part[c]
    BY <1>3, <1>4, <1>5, <1>6, <1>7
  <2> QED BY <1>2, <2>1, Weights
<1>8. CASE part[c] # "none"
  <2>1. /\ wire[c] # <<>> /\ Head(wire[c]) = wire[c][1]
        /\ Tail(wire[c]) \in Seq(Wired) /\ Len(Tail(wire[c])) = Len(wire[c]) - 1
        /\ Len(wire[c]) \in Nat
    BY <1>2, <1>3, <1>8, TailElements
  <2>2. CASE Head(wire[c]).type = "JUNK"
    <3>1. wire'[c] = Tail(wire[c])
      BY <1>4, <1>8, <2>1, <2>2, ConcatEmptySeq
    <3>2. Len(buf'[c]) <= Len(buf[c]) /\ Len(wire'[c]) < Len(wire[c])
      BY <1>5, <1>6, <2>1, <3>1
    <3> QED BY <1>2, <3>2, Weights
  <2>3. CASE Head(wire[c]).type # "JUNK"
    <3>1. wire'[c] = <<Junk>> \o Tail(wire[c])
      BY <1>4, <1>8, <2>3
    <3>2. Len(wire'[c]) = Len(wire[c]) /\ Whole(buf'[c] \o wire'[c]) = 0
      <4> DEFINE t == Tail(wire[c])
      <4>1. t \in Seq(Wired) /\ wire'[c] = <<Junk>> \o t
        BY <2>1, <3>1
      <4>2. Len(<<Junk>> \o t) = Len(t) + 1 /\ Whole(<<Junk>> \o t) = 0
        BY <4>1, JunkFirst
      <4>3. Whole(buf'[c] \o wire'[c]) = 0
        BY <1>5, <4>1, <4>2
      <4>4. Len(wire'[c]) = Len(t) + 1
        BY <4>1, <4>2
      <4>5. Len(t) = Len(wire[c]) - 1 /\ Len(wire[c]) \in Nat
        BY <2>1
      <4> HIDE DEF t
      <4> QED BY <4>3, <4>4, <4>5
    <3>3. CASE buf[c] # <<>>
      <4>1. Len(buf'[c]) < Len(buf[c])
        BY <1>5, <1>6, <3>3
      <4> QED BY <1>2, <3>2, <4>1, Weights
    <3>4. CASE buf[c] = <<>>
      <4>1. Whole(buf[c] \o wire[c]) = 1 /\ Len(buf'[c]) = Len(buf[c])
        BY <1>2, <1>3, <1>5, <2>1, <2>3, <3>4 DEF Whole, Queue
      <4> QED BY <1>2, <3>2, <4>1, Weights
    <3> QED BY <3>3, <3>4
  <2> QED BY <2>2, <2>3
<1> QED BY <1>7, <1>8

\* Lengths after k messages have moved from the wire to the buffer.
LEMMA SplitLengths ==
  ASSUME NEW w \in Seq(Wired), NEW k \in 0..Len(w)
  PROVE  /\ SubSeq(w, 1, k) \in Seq(Wired) /\ SubSeq(w, k + 1, Len(w)) \in Seq(Wired)
         /\ SubSeq(w, 1, k) \o SubSeq(w, k + 1, Len(w)) = w
         /\ Len(SubSeq(w, 1, k)) = k /\ Len(SubSeq(w, k + 1, Len(w))) = Len(w) - k
<1> DEFINE f == SubSeq(w, 1, k)
<1> DEFINE r == SubSeq(w, k + 1, Len(w))
<1>1. f \in Seq(Wired) /\ r \in Seq(Wired) /\ f \o r = w
  BY SplitSeq
<1>2. Len(w) \in Nat /\ k \in Nat /\ k <= Len(w)
  BY LenProperties
<1>3. \A i \in 1..k : w[i] \in Wired
  BY <1>2, ElementOfSeq
<1>4. Len(f) = k
  BY <1>2, <1>3, SubSeqProperties
<1>5. Len(f \o r) = Len(f) + Len(r) /\ Len(r) \in Nat
  BY <1>1, ConcatElements
<1>6. Len(w) = Len(f) + Len(r)
  BY <1>1, <1>5
<1> HIDE DEF f, r
<1>7. Len(r) = Len(w) - k
  BY <1>2, <1>4, <1>5, <1>6
<1> USE DEF f, r
<1> QED BY <1>1, <1>4, <1>7

LEMMA Received ==
  ASSUME NEW b \in Seq(Wired), NEW w \in Seq(Wired), NEW p \in Parts,
         NEW b1 \in Seq(Wired), NEW w1 \in Seq(Wired), NEW p1 \in Parts,
         NEW k \in Nat, k = 0 => Begun[p] < Begun[p1], b1 \o w1 = b \o w,
         Len(b1) = Len(b) + k, Len(w1) = Len(w) - k
  PROVE  Data(b1, w1, p1) < Data(b, w, p)
<1> DEFINE n == Len(b)
<1> DEFINE m == Len(w)
<1> DEFINE e == Whole(b \o w)
<1> DEFINE g == Begun[p]
<1> DEFINE h == Begun[p1]
<1>1. /\ n \in Nat /\ m \in Nat /\ e \in {0, 1} /\ g \in 0..2 /\ h \in 0..2
      /\ Data(b, w, p) = 3 * (2 * n + 3 * m + e) - g
  BY DataIs
<1>2. Data(b1, w1, p1) = 3 * (2 * Len(b1) + 3 * Len(w1) + Whole(b1 \o w1)) - h
  BY DataIs
<1>3. Data(b1, w1, p1) = 3 * (2 * (n + k) + 3 * (m - k) + e) - h
  BY <1>2
<1> HIDE DEF n, m, e, g, h
<1>4. k = 0 => g < h
  BY DEF g, h
<1> QED BY <1>1, <1>3, <1>4

\* What comes in moves from the wire to the buffer, or completes its first message.
LEMMA RecvNear ==
  ASSUME IInv, NEW c \in Conns, Recv(c)
  PROVE  Data(buf'[c], wire'[c], part'[c]) < Data(buf[c], wire[c], part[c])
<1>1. TypeOK /\ TypeOK'
  BY RecvInv DEF IInv, Recv
<1>2. /\ buf[c] \in Seq(Wired) /\ wire[c] \in Seq(Wired) /\ part[c] \in Parts
      /\ buf'[c] \in Seq(Wired) /\ wire'[c] \in Seq(Wired) /\ part'[c] \in Parts
      /\ Len(wire[c]) \in Nat
  BY <1>1, LenProperties DEF TypeOK
<1>3. PICK k \in 0..Len(wire[c]), p \in Parts :
       /\ k = 0 => <<part[c], p>> \in {<<"none", "head">>, <<"none", "body">>, <<"head", "body">>}
       /\ buf' = [buf EXCEPT ![c] = @ \o SubSeq(wire[c], 1, k)]
       /\ wire' = [wire EXCEPT ![c] = SubSeq(@, k + 1, Len(@))]
       /\ part' = [part EXCEPT ![c] = p]
  BY DEF Recv
<1> DEFINE f == SubSeq(wire[c], 1, k)
<1> DEFINE r == SubSeq(wire[c], k + 1, Len(wire[c]))
<1>4. /\ f \in Seq(Wired) /\ r \in Seq(Wired) /\ f \o r = wire[c]
      /\ Len(f) = k /\ Len(r) = Len(wire[c]) - k
  BY <1>2, SplitLengths
<1>5. buf'[c] = buf[c] \o f /\ wire'[c] = r /\ part'[c] = p
  BY <1>1, <1>3 DEF TypeOK
<1> HIDE DEF f, r
<1>6. buf'[c] \o wire'[c] = buf[c] \o wire[c]
  <2>1. (buf[c] \o f) \o r = buf[c] \o (f \o r)
    BY <1>2, <1>4, ConcatThree
  <2> QED BY <1>4, <1>5, <2>1
<1>7. Len(buf'[c]) = Len(buf[c]) + k /\ Len(wire'[c]) = Len(wire[c]) - k
  <2>1. Len(buf[c] \o f) = Len(buf[c]) + Len(f)
    BY <1>2, <1>4, ConcatElements
  <2> QED BY <1>4, <1>5, <2>1
<1>8. k \in Nat /\ (k = 0 => Begun[part[c]] < Begun[part'[c]])
  BY <1>2, <1>3, <1>5 DEF Begun
<1> QED BY <1>2, <1>6, <1>7, <1>8, Received

\* An answer to a client that is gone ends the handler with the next.
LEMMA SentNear ==
  ASSUME IInv, NEW c \in Conns, pc[c] = "run", NEW caught, Sent(c, caught)
  PROVE  /\ Noticed[peer'[c]] + Ahead[pc'[c]] <= Noticed[peer[c]] + Ahead[pc[c]]
         /\ peer[c] = "open" => peer'[c] = "open" /\ pc'[c] = "run"
         /\ peer[c] # "open" /\ ~caught =>
              Noticed[peer'[c]] + Ahead[pc'[c]] < Noticed[peer[c]] + Ahead[pc[c]]
<1>1. /\ peer \in [Conns -> {"open", "closed", "reset"}]
      /\ pc \in [Conns -> {"run", "close", "done"}]
  BY DEF IInv, TypeOK
<1>2. peer'[c] = IF peer[c] = "open" THEN "open" ELSE "reset"
  BY <1>1 DEF Sent
<1>3. IF peer[c] = "reset" /\ ~caught THEN pc'[c] = "close" ELSE pc'[c] = "run"
  BY <1>1 DEF Sent, Ends
<1> QED BY <1>1, <1>2, <1>3, LastSteps

LEMMA Sum ==
  ASSUME NEW x \in Int, NEW y \in Int, NEW a \in 0..4, NEW b \in 0..4
  PROVE  /\ x < y /\ a <= b => x + a < y + b
         /\ x = y /\ a < b => x + a < y + b
         /\ x <= y /\ a <= b => x + a <= y + b
OBVIOUS

LEMMA StepsSum ==
  ASSUME IInv, NEW c \in Conns
  PROVE  /\ Data(buf[c], wire[c], part[c]) \in Nat
         /\ Noticed[peer[c]] + Ahead[pc[c]] \in 0..4
         /\ StepsLeft(c) = Data(buf[c], wire[c], part[c]) + (Noticed[peer[c]] + Ahead[pc[c]])
         /\ StepsLeft(c) \in Nat
<1>1. Data(buf[c], wire[c], part[c]) \in Nat
  BY DataIs DEF IInv, TypeOK, Cut
<1>2. peer[c] \in {"open", "closed", "reset"} /\ pc[c] \in {"run", "close", "done"}
  BY DEF IInv, TypeOK
<1>3. Noticed[peer[c]] \in 0..2 /\ Ahead[pc[c]] \in 0..2
  BY <1>2, LastSteps
<1> QED BY <1>1, <1>3, StepsAre

LEMMA StepsSumThen ==
  ASSUME IInv, [Next]_vars, NEW c \in Conns
  PROVE  /\ Data(buf'[c], wire'[c], part'[c]) \in Nat
         /\ Noticed[peer'[c]] + Ahead[pc'[c]] \in 0..4
         /\ StepsLeft(c)' = Data(buf'[c], wire'[c], part'[c]) + (Noticed[peer'[c]] + Ahead[pc'[c]])
<1>1. IInv'
  BY NextInv
<1>2. Data(buf'[c], wire'[c], part'[c]) \in Nat
  BY <1>1, DataIs DEF IInv, TypeOK, Cut
<1>3. peer'[c] \in {"open", "closed", "reset"} /\ pc'[c] \in {"run", "close", "done"}
  BY <1>1 DEF IInv, TypeOK
<1>4. Noticed[peer'[c]] \in 0..2 /\ Ahead[pc'[c]] \in 0..2
  BY <1>3, LastSteps
<1> QED BY <1>2, <1>4, StepsAre

LEMMA HandlerNear ==
  ASSUME IInv, NEW c \in Conns, Handler(c)
  PROVE  \/ StepsLeft(c)' < StepsLeft(c)
         \/ Spinning(c) /\ peer[c] = "open" /\ StepsLeft(c)' = StepsLeft(c)
<1> DEFINE D == Data(buf[c], wire[c], part[c])
<1> DEFINE D1 == Data(buf'[c], wire'[c], part'[c])
<1> DEFINE L == Noticed[peer[c]] + Ahead[pc[c]]
<1> DEFINE L1 == Noticed[peer'[c]] + Ahead[pc'[c]]
<1>1. /\ D \in Nat /\ L \in 0..4 /\ StepsLeft(c) = D + L
      /\ D1 \in Nat /\ L1 \in 0..4 /\ StepsLeft(c)' = D1 + L1
  <2>1. [Next]_vars
    BY DEF Next
  <2> QED BY <2>1, StepsSum, StepsSumThen
<1>2. /\ peer \in [Conns -> {"open", "closed", "reset"}]
      /\ pc \in [Conns -> {"run", "close", "done"}]
  BY DEF IInv, TypeOK
<1>3. ASSUME UNCHANGED peer, pc' = pc \/ Ends(c), pc[c] = "run" PROVE L1 <= L
  <2>1. pc'[c] \in {"run", "close"} /\ peer'[c] = peer[c]
    BY <1>2, <1>3 DEF Ends
  <2>2. peer[c] \in {"open", "closed", "reset"}
    BY <1>2
  <2> QED BY <1>3, <2>1, <2>2, LastSteps
<1>4. CASE CloseSocket(c) \/ RecvNothing(c)
  <2>1. UNCHANGED <<buf, wire, part, peer>>
    BY <1>4 DEF CloseSocket, RecvNothing
  <2>2. \/ pc[c] = "close" /\ pc'[c] = "done"
        \/ pc[c] = "run" /\ pc'[c] = "close"
    BY <1>2, <1>4 DEF CloseSocket, RecvNothing, Ends, Running
  <2>3. peer[c] \in {"open", "closed", "reset"}
    BY <1>2
  <2>4. D1 = D /\ L1 < L
    BY <2>1, <2>2, <2>3, LastSteps
  <2> HIDE DEF D, D1, L, L1
  <2> QED BY <1>1, <2>4, Sum
<1>5. CASE Recv(c) \/ ThrowAway(c)
  <2>1. D1 < D
    BY <1>5, RecvNear, ClearNear
  <2>2. L1 <= L
    <3>1. pc[c] = "run" /\ UNCHANGED <<pc, peer>>
      BY <1>5 DEF Recv, ThrowAway, Running
    <3> QED BY <1>3, <3>1
  <2> HIDE DEF D, D1, L, L1
  <2> QED BY <1>1, <2>1, <2>2, Sum
<1>6. CASE \/ HandleHello(c) \/ HandleOpen(c) \/ HandleClose(c) \/ HandleDropped(c)
           \/ HandleForeign(c) \/ HandleRaising(c) \/ HandleService(c)
  <2>1. /\ Running(c) /\ Known(c) /\ Complete(c) /\ Front(c).type # "JUNK"
        /\ Front(c).length # "bad" /\ Consume(c)
    BY <1>6, HandlesWhat DEF Handles
  <2>2. /\ EmptyHel(Front(c)) => D1 = D
        /\ ~EmptyHel(Front(c)) => D1 < D
    BY <2>1, ConsumeNear
  <2>3. pc[c] = "run"
    BY <2>1 DEF Running
  <2>4. L1 <= L
    <3>1. CASE HandleHello(c) \/ HandleOpen(c)
      <4>1. Sent(c, FALSE)
        BY <3>1 DEF HandleHello, HandleOpen
      <4> QED BY <2>3, <4>1, SentNear
    <3>2. CASE HandleService(c)
      <4>1. Sent(c, Front(c).service \in Swallowing)
        BY <3>2 DEF HandleService
      <4> QED BY <2>3, <4>1, SentNear
    <3>3. CASE \/ HandleClose(c) \/ HandleDropped(c)
               \/ HandleForeign(c) \/ HandleRaising(c)
      <4>1. UNCHANGED peer /\ (pc' = pc \/ Ends(c))
        BY <3>3 DEF HandleClose, HandleDropped, HandleForeign, HandleRaising
      <4> QED BY <1>3, <2>3, <4>1
    <3> QED BY <1>6, <3>1, <3>2, <3>3
  <2>5. CASE ~EmptyHel(Front(c))
    <3>1. D1 < D
      BY <2>2, <2>5
    <3> HIDE DEF D, D1, L, L1
    <3> QED BY <1>1, <2>4, <3>1, Sum
  <2>6. CASE EmptyHel(Front(c))
    <3>1. HandleHello(c) /\ Spinning(c)
      BY <1>6, <2>1, <2>6
         DEF EmptyHel, Spinning, HandleOpen, HandleClose, HandleDropped, HandleForeign,
             HandleRaising, HandleService, Chunk
    <3>2. Sent(c, FALSE)
      BY <3>1 DEF HandleHello
    <3>3. D1 = D
      BY <2>2, <2>6
    <3>4. CASE peer[c] = "open"
      <4>1. L1 = L
        BY <2>3, <3>2, <3>4, SentNear
      <4> HIDE DEF D, D1, L, L1
      <4> QED BY <1>1, <3>1, <3>3, <3>4, <4>1
    <3>5. CASE peer[c] # "open"
      <4>1. L1 < L
        BY <2>3, <3>2, <3>5, SentNear
      <4> HIDE DEF D, D1, L, L1
      <4> QED BY <1>1, <3>3, <4>1, Sum
    <3> QED BY <3>4, <3>5
  <2> QED BY <2>5, <2>6
<1> QED BY <1>4, <1>5, <1>6 DEF Handler

\* The others leave it alone, but for the client, who may leave or send.
LEMMA OthersNear ==
  ASSUME IInv, [Next]_vars, NEW c \in Conns, ~Handler(c), ~Send(c)
  PROVE  StepsLeft(c)' <= StepsLeft(c)
<1> DEFINE L == Noticed[peer[c]] + Ahead[pc[c]]
<1> DEFINE L1 == Noticed[peer'[c]] + Ahead[pc'[c]]
<1>1. TypeOK
  BY DEF IInv
<1>2. buf'[c] = buf[c] /\ wire'[c] = wire[c] /\ part'[c] = part[c] /\ L1 <= L
  <2>1. CASE UNCHANGED vars
    <3>1. L1 = L /\ L \in 0..4
      BY <2>1, StepsSum DEF vars
    <3> HIDE DEF L, L1
    <3> QED BY <2>1, <3>1 DEF vars
  <2>2. ASSUME NEW d \in Conns, d # c, Send(d) \/ Leave(d) \/ Handler(d)
        PROVE  /\ buf'[c] = buf[c] /\ wire'[c] = wire[c] /\ part'[c] = part[c]
               /\ peer'[c] = peer[c] /\ pc'[c] = pc[c]
    <3>1. CASE Send(d) \/ Leave(d) \/ CloseSocket(d) \/ RecvNothing(d)
      BY <1>1, <2>2, <3>1 DEF Send, Leave, CloseSocket, RecvNothing, Ends, TypeOK
    <3>2. CASE Recv(d) \/ ThrowAway(d)
      BY <1>1, <2>2, <3>2 DEF Recv, ThrowAway, Clear, TypeOK
    <3>3. CASE \/ HandleHello(d) \/ HandleOpen(d) \/ HandleClose(d) \/ HandleDropped(d)
               \/ HandleForeign(d) \/ HandleRaising(d) \/ HandleService(d)
      <4>1. Handles(d)
        BY <3>3, HandlesWhat
      <4>2. Others(d) /\ pc'[c] = pc[c]
        BY <2>2, <4>1, ConsumeLeaves DEF Handles, Answered
      <4>3. peer' = peer \/ peer' = [peer EXCEPT ![d] = IF @ = "open" THEN "open" ELSE "reset"]
        BY <3>3 DEF HandleHello, HandleOpen, HandleClose, HandleDropped, HandleForeign,
                    HandleRaising, HandleService, Sent
      <4>4. peer'[c] = peer[c]
        BY <1>1, <2>2, <4>3 DEF TypeOK
      <4> QED BY <2>2, <4>2, <4>4 DEF Others
    <3> QED BY <2>2, <3>1, <3>2, <3>3 DEF Handler
  <2>3. CASE Leave(c)
    <3>1. /\ peer[c] = "open" /\ peer'[c] = "closed" /\ UNCHANGED <<pc, buf, wire, part>>
      BY <1>1, <2>3 DEF Leave, TypeOK
    <3>2. pc[c] \in {"run", "close", "done"}
      BY <1>1 DEF TypeOK
    <3> QED BY <3>1, <3>2, LastSteps
  <2>4. ASSUME NEW d \in Conns, d # c, Send(d) \/ Leave(d) \/ Handler(d)
        PROVE  buf'[c] = buf[c] /\ wire'[c] = wire[c] /\ part'[c] = part[c] /\ L1 <= L
    <3>1. L1 = L /\ L \in 0..4
      BY <2>2, <2>4, StepsSum
    <3> HIDE DEF L, L1
    <3> QED BY <2>2, <2>4, <3>1
  <2> HIDE DEF L, L1
  <2> QED BY <2>1, <2>3, <2>4 DEF Next
<1>3. /\ Data(buf[c], wire[c], part[c]) \in Nat /\ L \in 0..4
      /\ StepsLeft(c) = Data(buf[c], wire[c], part[c]) + L
      /\ L1 \in 0..4
      /\ StepsLeft(c)' = Data(buf[c], wire[c], part[c]) + L1
  BY <1>2, StepsSum, StepsSumThen
<1> HIDE DEF L, L1
<1> QED BY <1>2, <1>3

\* A handler goes round for ever in one way only, with an empty HEL of a client that
\* stays: every other step of it lowers a number that none but the client raises, by
\* sending more.
THEOREM HandlersShrink == Spec => [](\A c \in Conns : StepsLeft(c) \in Nat) /\ HandlersNear
<1>1. IInv => \A c \in Conns : StepsLeft(c) \in Nat
  BY StepsSum
<1>2. IInv /\ [Next]_vars =>
        [\A c \in Conns :
           /\ Handler(c) =>
                \/ StepsLeft(c)' < StepsLeft(c)
                \/ Spinning(c) /\ peer[c] = "open" /\ StepsLeft(c)' = StepsLeft(c)
           /\ ~Handler(c) /\ ~Send(c) => StepsLeft(c)' <= StepsLeft(c)]_vars
  BY HandlerNear, OthersNear
<1> QED BY <1>1, <1>2, Inductive, PTL DEF Spec, HandlersNear
===========================================================================
