--------------------------- MODULE RedLion_proofs ---------------------------
(***************************************************************************)
(* Proofs about RedLion, for every finite set of connections, all tags and *)
(* types, and any requests, however many, however they are cut and joined  *)
(* and whatever their rests are taken for.                                 *)
(***************************************************************************)
EXTENDS RedLion, FiniteSetTheorems, SequenceTheorems, TLAPS

---------------------------------------------------------------------------
(* The inductive invariant.                                                *)

\* A write carries a value.
Valued == {r \in Item : r.cmd = "write" => r.value \in Values}

Carried == wire \in [Conns -> Seq(Valued)] /\ cur \in [Conns -> Valued]

\* One handler at most is inside the first section; the numbers drawn are below the
\* one it is about to draw, and nobody has been told anything before it drew.
Counted ==
  /\ \A c, d \in Conns : At(c, "enter") /\ At(d, "enter") => c = d
  /\ \A c \in Conns :
       /\ cid[c] <= connection_count
       /\ cid[c] = 0 <=> pc[c] \in {"start", "enter"}
       /\ cid[c] = 0 => told[c].conns = 0
       /\ told[c].conns # 0 => cid[c] <= told[c].conns /\ told[c].conns <= connection_count
  /\ \A c, d \in Conns : At(d, "enter") => cid[c] < connection_count

\* A tag that holds a huge value is known to.
Strained == \A t \in Tags : tags[t] = "huge" => t \in strained

\* What waits was asked after what is being answered, and that after what was answered;
\* only what is left of an earlier request has no number, and it waits in front. What
\* is being answered has none if it is such a rest.
InTurn ==
  \A c \in Conns :
    /\ answered[c] <= asked[c]
    /\ pc[c] \in {"delay", "status"} =>
         (cur[c].no = 0 \/ answered[c] < cur[c].no) /\ cur[c].no <= asked[c]
    /\ \A i \in 1..Len(wire[c]) :
         /\ wire[c][i].no <= asked[c]
         /\ wire[c][i].no = 0 => wire[c][i] \in {Junk, Rest}
         /\ wire[c][i].no # 0 => answered[c] < wire[c][i].no /\ wire[c][i].cmd # "rest"
         /\ wire[c][i].no # 0 /\ pc[c] \in {"delay", "status"} => cur[c].no < wire[c][i].no
    /\ \A i, j \in 1..Len(wire[c]) : i < j => wire[c][i].no < wire[c][j].no

\* What is told beyond the answers, what is about to be, and what waits to be taken for
\* a request: each owes itself to a cut of its own.
Stray(c) == pc[c] \in {"delay", "status"} /\ cur[c].no = 0
Spare(c) == Len(wire[c]) >= 1 /\ wire[c][1].cmd = "rest"
Owed(c) ==
  strays[c] + (IF Stray(c) THEN 1 ELSE 0) + (IF Spare(c) THEN 1 ELSE 0) <= cuts[c]
AllOwed == \A c \in Conns : Owed(c)

IInv ==
  /\ TypeOK /\ Carried /\ CountersExact /\ Counted /\ Strained /\ CutOffOnlyForValues
  /\ InTurn /\ AllOwed

---------------------------------------------------------------------------
(* Lemmas.                                                                 *)

Places == {"start", "enter", "recv", "delay", "status", "error", "failed",
           "leave", "close", "done"}

\* Where a handler holds a session.
InPlaces == {"recv", "delay", "status", "error", "failed", "leave"}

LEMMA InsideIs ==
  ASSUME TypeOK
  PROVE  \A c \in Conns : c \in Inside <=> pc[c] \in InPlaces
BY DEF TypeOK, Inside, InPlaces

LEMMA InsideFinite ==
  /\ IsFiniteSet(Inside) /\ Inside \subseteq Conns
  /\ IsFiniteSet({c \in Conns : pc[c] # "start"})
<1>1. Inside \in SUBSET Conns /\ {c \in Conns : pc[c] # "start"} \in SUBSET Conns
  BY DEF Inside
<1> QED BY <1>1, ConnsAssumption, FS_Subset

LEMMA JunkType ==
  /\ Junk \in Valued /\ Junk.no = 0 /\ Junk.cmd = "junk"
  /\ Rest \in Valued /\ Rest.no = 0 /\ Rest.cmd = "rest"
<1>1. Junk \in Item /\ Rest \in Item
  BY DEF Junk, Rest, Item, Commands
<1>2. Junk.no = 0 /\ Junk.cmd = "junk" /\ Rest.no = 0 /\ Rest.cmd = "rest"
  BY DEF Junk, Rest
<1> QED BY <1>1, <1>2 DEF Valued

LEMMA WireType ==
  ASSUME Carried, NEW c \in Conns
  PROVE  /\ Len(wire[c]) \in Nat
         /\ \A i \in 1..Len(wire[c]) : wire[c][i] \in Valued
BY LenProperties, ElementOfSeq DEF Carried

LEMMA HeadIsFirst ==
  ASSUME Carried, NEW c \in Conns, wire[c] # <<>>
  PROVE  Len(wire[c]) >= 1 /\ Head(wire[c]) = wire[c][1] /\ Head(wire[c]) \in Valued
<1>1. wire[c] \in Seq(Valued)
  BY DEF Carried
<1> QED BY <1>1, HeadTailProperties, EmptySeq, LenProperties

\* w is the end of s, or the rest of a request and the end of s, shorter than s but for
\* the rest; n is 1 if that may be taken for a request.
LeftOf(s, w, n) ==
  \/ n = 0 /\ \E d \in 1..Len(s) :
       Len(w) = Len(s) - d /\ \A i \in 1..Len(w) : w[i] = s[i + d]
  \/ \E d \in 0..Len(s), x \in {Junk, Rest} :
       /\ Len(w) = Len(s) - d /\ Len(w) >= 1 /\ w[1] = x
       /\ \A i \in 2..Len(w) : w[i] = s[i + d]
       /\ n = IF x = Rest THEN 1 ELSE 0

\* What recv leaves: nothing, or perhaps a rest and then what was behind it, in order.
LEMMA Behind ==
  ASSUME Carried, NEW c \in Conns, NEW k \in 0..Len(wire[c]), NEW w, NEW m,
         NEW x \in {Junk, Rest},
         \/ w = SubSeq(wire[c], k + 1, Len(wire[c])) /\ k >= 1 /\ m = 0
         \/ /\ w = <<x>> \o SubSeq(wire[c], k + 2, Len(wire[c])) /\ k < Len(wire[c])
            /\ m = IF x = Rest THEN 1 ELSE 0
  PROVE  /\ w \in Seq(Valued)
         /\ LeftOf(wire[c], w, m)
<1> DEFINE s == wire[c]
<1> DEFINE n == Len(s)
<1>1. s \in Seq(Valued) /\ n \in Nat /\ k \in Nat /\ k <= n /\ \A i \in 1..n : s[i] \in Valued
  BY WireType DEF Carried
<1> HIDE DEF s, n
<1>2. CASE w = SubSeq(s, k + 1, n) /\ k >= 1 /\ m = 0
  <2>1. \A i \in (k + 1)..n : s[i] \in Valued
    BY <1>1
  <2>2. /\ w \in Seq(Valued) /\ Len(w) = IF k + 1 <= n THEN n - (k + 1) + 1 ELSE 0
        /\ \A i \in 1..(n - (k + 1) + 1) : w[i] = s[k + 1 + i - 1]
    BY <1>1, <1>2, <2>1, SubSeqProperties
  <2>3. Len(w) = n - k /\ k \in 1..n
    BY <1>1, <1>2, <2>2
  <2>4. \A i \in 1..Len(w) : w[i] = s[i + k]
    BY <1>1, <2>2, <2>3
  <2> QED BY <1>2, <2>2, <2>3, <2>4 DEF s, n, LeftOf
<1>3. CASE /\ w = <<x>> \o SubSeq(s, k + 2, n) /\ k < n
           /\ m = IF x = Rest THEN 1 ELSE 0
  <2> DEFINE t == SubSeq(s, k + 2, n)
  <2>1. \A i \in (k + 2)..n : s[i] \in Valued
    BY <1>1
  <2>2. /\ t \in Seq(Valued) /\ Len(t) = IF k + 2 <= n THEN n - (k + 2) + 1 ELSE 0
        /\ \A i \in 1..(n - (k + 2) + 1) : t[i] = s[k + 2 + i - 1]
    BY <1>1, <2>1, SubSeqProperties
  <2>3. Len(t) = n - k - 1 /\ \A i \in 1..Len(t) : t[i] = s[i + k + 1]
    <3> HIDE DEF t
    <3>1. Len(t) = n - k - 1 /\ n - (k + 2) + 1 = Len(t)
      BY <1>1, <1>3, <2>2
    <3>2. \A i \in 1..Len(t) : t[i] = s[k + 2 + i - 1] /\ k + 2 + i - 1 = i + k + 1
      BY <1>1, <2>2, <3>1
    <3> QED BY <3>1, <3>2
  <2>4. <<x>> \in Seq(Valued) /\ Len(<<x>>) = 1 /\ <<x>>[1] = x
    BY JunkType
  <2> HIDE DEF t
  <2>5. /\ w \in Seq(Valued) /\ Len(w) = 1 + Len(t)
        /\ \A i \in 1..(1 + Len(t)) : w[i] = IF i <= 1 THEN <<x>>[i] ELSE t[i - 1]
    BY <1>3, <2>2, <2>4, ConcatProperties DEF t
  <2>6. Len(w) = n - k /\ Len(w) >= 1 /\ k \in 0..n /\ w[1] = x
    BY <1>1, <1>3, <2>3, <2>4, <2>5
  <2>7. \A i \in 2..Len(w) : w[i] = s[i + k]
    <3> SUFFICES ASSUME NEW i \in 2..Len(w) PROVE w[i] = s[i + k]
      OBVIOUS
    <3>1. i \in Nat /\ i >= 2 /\ i <= 1 + Len(t) /\ Len(t) \in Nat
      BY <1>1, <1>3, <2>3, <2>5
    <3>3. i - 1 \in 1..Len(t) /\ i \in 1..(1 + Len(t)) /\ ~(i <= 1)
      BY <3>1
    <3>4. w[i] = t[i - 1]
      BY <2>5, <3>3
    <3>2. t[i - 1] = s[(i - 1) + k + 1] /\ (i - 1) + k + 1 = i + k
      BY <1>1, <2>3, <3>3
    <3> QED BY <3>2, <3>4
  <2> QED BY <1>3, <2>5, <2>6, <2>7 DEF s, n, LeftOf
<1> QED BY <1>2, <1>3 DEF s, n

---------------------------------------------------------------------------
(* Types.                                                                  *)

LEMMA InitTypes == Init => TypeOK /\ Carried
<1> SUFFICES ASSUME Init PROVE TypeOK /\ Carried
  OBVIOUS
<1> USE DEF Init
<1>1. /\ connection_count \in Nat /\ active_sessions \in Nat /\ error_count \in Nat
      /\ cid \in [Conns -> Nat] /\ asked \in [Conns -> Nat] /\ answered \in [Conns -> Nat]
      /\ cuts \in [Conns -> Nat] /\ strays \in [Conns -> Nat]
      /\ told \in [Conns -> [conns : Nat, active : Nat]]
  OBVIOUS
<1>2. wire \in [Conns -> Seq(Valued)] /\ cur \in [Conns -> Valued]
  BY JunkType, EmptySeq
<1>3. wire \in [Conns -> Seq(Item)] /\ cur \in [Conns -> Item]
  BY JunkType, EmptySeq DEF Valued
<1>4. /\ tags \in [Tags -> Values] /\ strained \subseteq Tags
      /\ \A t \in Tags : tags[t] = "plain"
  BY DEF Values
<1>5. pc \in [Conns -> {"start"}] /\ peer \in [Conns -> {"open"}]
  OBVIOUS
<1> HIDE DEF Init
<1>6. TypeOK
  BY <1>1, <1>3, <1>4, <1>5 DEF TypeOK
<1> QED BY <1>2, <1>6 DEF Carried

\* A handler that goes somewhere is at a place.
LEMMA GotoType ==
  ASSUME TypeOK, NEW c \in Conns, NEW where \in Places, Goto(c, where)
  PROVE  pc' \in [Conns -> Places]
BY DEF TypeOK, Goto, Places

LEMMA SentType ==
  ASSUME TypeOK, NEW c \in Conns, NEW where \in Places, Sent(c, where)
  PROVE  /\ pc' \in [Conns -> Places] /\ peer' \in [Conns -> {"open", "closed", "reset"}]
         /\ answered' \in [Conns -> Nat] /\ strays' \in [Conns -> Nat]
<1>1. CASE peer[c] = "reset"
  BY <1>1 DEF Sent, Goto, TypeOK, Places
<1>2. CASE peer[c] # "reset"
  <2>1. cur[c].no \in Nat
    BY DEF TypeOK, Item
  <2>2. /\ peer' = [peer EXCEPT ![c] = IF @ = "open" THEN "open" ELSE "reset"]
        /\ answered' = answered \/ answered' = [answered EXCEPT ![c] = cur[c].no]
        /\ strays' = strays \/ strays' = [strays EXCEPT ![c] = @ + 1]
        /\ Goto(c, where)
    BY <1>2 DEF Sent
  <2>3. peer' \in [Conns -> {"open", "closed", "reset"}]
    BY <2>2 DEF TypeOK
  <2>4. answered' \in [Conns -> Nat]
    BY <2>1, <2>2 DEF TypeOK
  <2>5. strays' \in [Conns -> Nat]
    BY <2>2 DEF TypeOK
  <2> QED BY <2>2, <2>3, <2>4, <2>5, GotoType
<1> QED BY <1>1, <1>2

\* The steps that change neither the tags nor what is carried.
LEMMA PlainTypes ==
  ASSUME TypeOK, Carried, UNCHANGED <<tags, strained, wire, cur>>,
         connection_count' \in Nat, active_sessions' \in Nat, error_count' \in Nat,
         pc' \in [Conns -> Places], peer' \in [Conns -> {"open", "closed", "reset"}],
         cid' \in [Conns -> Nat], told' \in [Conns -> [conns : Nat, active : Nat]],
         asked' \in [Conns -> Nat], answered' \in [Conns -> Nat],
         cuts' \in [Conns -> Nat], strays' \in [Conns -> Nat]
  PROVE  TypeOK' /\ Carried'
<1>1. TypeOK'
  BY DEF TypeOK, Places
<1>2. Carried'
  BY DEF Carried
<1> QED BY <1>1, <1>2

LEMMA SendTypes ==
  ASSUME TypeOK, Carried, NEW c \in Conns, Send(c)
  PROVE  /\ TypeOK' /\ Carried'
         /\ \E r \in Valued :
              /\ r.no = asked[c] + 1 /\ r.cmd # "rest"
              /\ wire' = [wire EXCEPT ![c] = Append(@, r)]
<1>1. PICK r \in Requests[c] :
        wire' = [wire EXCEPT ![c] =
          Append(@, [cmd |-> r.cmd, tag |-> r.tag, value |-> r.value, no |-> asked[c] + 1])]
  BY DEF Send
<1> DEFINE q == [cmd |-> r.cmd, tag |-> r.tag, value |-> r.value, no |-> asked[c] + 1]
<1>2. q \in Valued /\ q.no = asked[c] + 1 /\ q.cmd # "rest"
  <2>1. q \in Item
    <3>1. r \in Request /\ asked[c] + 1 \in Nat
      BY RequestsAssumption DEF TypeOK
    <3> QED BY <3>1 DEF Request, Item
  <2>2. q.cmd = "write" => q.value \in Values
    BY RequestsAssumption
  <2>3. q.cmd \in Commands
    BY RequestsAssumption DEF Request
  <2> QED BY <2>1, <2>2, <2>3 DEF Valued, Commands
<1> HIDE DEF q
<1>3. wire' = [wire EXCEPT ![c] = Append(@, q)]
  BY <1>1 DEF q
<1>4. wire' \in [Conns -> Seq(Valued)]
  BY <1>2, <1>3, AppendProperties DEF Carried
<1>5. Valued \subseteq Item
  BY DEF Valued
<1>6. wire' \in [Conns -> Seq(Item)]
  <2>1. Append(wire[c], q) \in Seq(Item)
    BY <1>2, <1>5, AppendProperties DEF TypeOK
  <2> QED BY <1>3, <2>1 DEF TypeOK
<1>7. /\ asked' \in [Conns -> Nat]
      /\ UNCHANGED <<shared, pc, peer, cur, cid, told, answered, cuts, strays>>
  BY DEF Send, TypeOK
<1>8. TypeOK'
  BY <1>6, <1>7 DEF TypeOK, shared
<1>9. Carried'
  BY <1>4, <1>7 DEF Carried
<1> QED BY <1>2, <1>3, <1>8, <1>9

\* What is taken for a request is the head, nothing, or what a rest or no request is
\* misread as.
Taken(head, r) ==
  \/ r = head \/ r = Junk
  \/ r.no = head.no /\ (head.cmd = "rest" \/ (head.cmd = "junk" /\ head # Junk))

LEMMA FirstTaken ==
  ASSUME TypeOK, Carried, NEW c \in Conns, wire[c] # <<>>, NEW k, NEW cut,
         NEW r \in First(c, k, cut)
  PROVE  r \in Valued /\ Taken(Head(wire[c]), r)
<1> DEFINE head == Head(wire[c])
<1>1. head \in Valued
  BY HeadIsFirst
<1>2. ASSUME NEW q \in Misread[c], r = Numbered(q, head.no)
      PROVE  r \in Valued /\ r.no = head.no
  <2>1. q \in Request /\ (q.cmd = "write" => q.value \in Values)
    BY RequestsAssumption
  <2>2. head.no \in Nat
    BY <1>1 DEF Valued, Item
  <2>3. r = [cmd |-> q.cmd, tag |-> q.tag, value |-> q.value, no |-> head.no]
    BY <1>2 DEF Numbered
  <2>4. r \in Item
    BY <2>1, <2>2, <2>3 DEF Request, Item
  <2> QED BY <2>1, <2>3, <2>4 DEF Valued
<1>3. \/ r = Junk \/ r = head
      \/ /\ \E q \in Misread[c] : r = Numbered(q, head.no)
         /\ head.cmd = "rest" \/ (head.cmd = "junk" /\ head # Junk)
  BY DEF First
<1> HIDE DEF head
<1> QED BY <1>1, <1>2, <1>3, JunkType DEF Taken, head

\* What recv takes and what it leaves.
LEMMA RecvTakes ==
  ASSUME TypeOK, Carried, NEW c \in Conns, Recv(c)
  PROVE  \E w, r \in Seq(Valued) \cup Valued, m \in {0, 1} :
           /\ wire' = [wire EXCEPT ![c] = w] /\ cur' = [cur EXCEPT ![c] = r]
           /\ w \in Seq(Valued) /\ r \in Valued
           /\ Taken(Head(wire[c]), r)
           /\ LeftOf(wire[c], w, m)
           /\ cuts' = [cuts EXCEPT ![c] = @ + m]
           /\ pc' = [pc EXCEPT ![c] = IF r.cmd = "junk" THEN "error" ELSE "delay"]
<1>1. PICK k \in 0..Len(wire[c]), cut \in {"none", "early", "etx"} :
        /\ MayCut(c, k, cut)
        /\ \E r \in First(c, k, cut) : cur' = [cur EXCEPT ![c] = r]
        /\ wire' = [wire EXCEPT ![c] = Left(c, k, cut)]
        /\ cuts' = [cuts EXCEPT ![c] = IF cut = "early" THEN @ + 1 ELSE @]
  BY DEF Recv
<1>2. PICK r \in First(c, k, cut) : cur' = [cur EXCEPT ![c] = r]
  BY <1>1
<1> DEFINE w == Left(c, k, cut)
<1> DEFINE m == IF cut = "early" THEN 1 ELSE 0
<1> DEFINE x == IF cut = "early" THEN Rest ELSE Junk
<1>3. wire[c] # <<>> /\ k \in Nat /\ Len(wire[c]) \in Nat /\ k <= Len(wire[c])
  BY WireType DEF Recv
<1>4. \/ w = SubSeq(wire[c], k + 1, Len(wire[c])) /\ k >= 1 /\ m = 0
      \/ /\ w = <<x>> \o SubSeq(wire[c], k + 2, Len(wire[c])) /\ k < Len(wire[c])
         /\ m = IF x = Rest THEN 1 ELSE 0
  <2>1. CASE cut = "none"
    <3>1. k >= 1
      BY <1>1, <1>3, <2>1 DEF MayCut
    <3>2. w = SubSeq(wire[c], k + 1, Len(wire[c])) /\ m = 0
      BY <2>1 DEF Left
    <3> HIDE DEF w, m, x
    <3> QED BY <3>1, <3>2
  <2>2. CASE cut = "early"
    BY <1>1, <1>3, <2>2 DEF MayCut, Left
  <2>3. CASE cut = "etx"
    <3>1. x = Junk /\ m = 0 /\ Junk # Rest
      BY <2>3, JunkType
    <3> QED BY <1>1, <1>3, <2>3, <3>1 DEF MayCut, Left
  <2> QED BY <2>1, <2>2, <2>3
<1>5. r \in Valued /\ Taken(Head(wire[c]), r)
  BY <1>3, FirstTaken
<1>6. /\ wire' = [wire EXCEPT ![c] = w] /\ m \in {0, 1} /\ x \in {Junk, Rest}
      /\ cuts' = [cuts EXCEPT ![c] = @ + m]
  <2>1. wire' = [wire EXCEPT ![c] = w]
    BY <1>1
  <2>2. m \in {0, 1} /\ x \in {Junk, Rest}
    OBVIOUS
  <2>3. cuts[c] \in Nat /\ (IF cut = "early" THEN cuts[c] + 1 ELSE cuts[c]) = cuts[c] + m
    BY DEF TypeOK
  <2>4. cuts' = [cuts EXCEPT ![c] = @ + m]
    BY <1>1, <2>3
  <2> QED BY <2>1, <2>2, <2>4
<1> HIDE DEF w, m, x
<1>7. cur'[c] = r
  BY <1>2 DEF Carried
<1>8. pc' = [pc EXCEPT ![c] = IF r.cmd = "junk" THEN "error" ELSE "delay"]
  BY <1>7 DEF Recv, Goto
<1>9. w \in Seq(Valued) /\ LeftOf(wire[c], w, m)
  BY <1>4, <1>6, Behind
<1> QED BY <1>2, <1>5, <1>6, <1>8, <1>9

LEMMA RecvTypes ==
  ASSUME TypeOK, Carried, NEW c \in Conns, Recv(c)
  PROVE  TypeOK' /\ Carried'
<1>1. PICK w, r \in Seq(Valued) \cup Valued, m \in {0, 1} :
        /\ wire' = [wire EXCEPT ![c] = w] /\ cur' = [cur EXCEPT ![c] = r]
        /\ w \in Seq(Valued) /\ r \in Valued
        /\ cuts' = [cuts EXCEPT ![c] = @ + m]
        /\ pc' = [pc EXCEPT ![c] = IF r.cmd = "junk" THEN "error" ELSE "delay"]
  BY RecvTakes
<1>2. Carried'
  BY <1>1 DEF Carried
<1>3. w \in Seq(Item) /\ r \in Item
  BY <1>1 DEF Valued
<1>4. wire' \in [Conns -> Seq(Item)] /\ cur' \in [Conns -> Item] /\ pc' \in [Conns -> Places]
  BY <1>1, <1>3 DEF TypeOK, Places
<1>5. cuts' \in [Conns -> Nat]
  BY <1>1 DEF TypeOK
<1>6. TypeOK'
  BY <1>4, <1>5 DEF Recv, TypeOK, shared, Places
<1> QED BY <1>2, <1>6

LEMMA ServeWriteTypes ==
  ASSUME TypeOK, Carried, NEW c \in Conns, ServeWrite(c)
  PROVE  TypeOK' /\ Carried'
<1>1. Carried' /\ wire' \in [Conns -> Seq(Item)] /\ cur' \in [Conns -> Item]
  BY DEF ServeWrite, Carried, TypeOK
<1>2. /\ pc' \in [Conns -> Places] /\ peer' \in [Conns -> {"open", "closed", "reset"}]
      /\ answered' \in [Conns -> Nat] /\ strays' \in [Conns -> Nat]
  <2>1. CASE Sent(c, "recv")
    BY <2>1, SentType DEF Places
  <2>2. CASE Goto(c, "failed") /\ UNCHANGED <<peer, answered, strays>>
    BY <2>2, GotoType DEF Places, TypeOK
  <2> QED BY <2>1, <2>2 DEF ServeWrite
<1>3. /\ tags' \in [Tags -> Values] /\ strained' \subseteq Tags
      /\ \A t \in Tags :
           /\ TagType[t] = "int" => tags'[t] \in {"plain", "huge"}
           /\ TagType[t] = "bool" => tags'[t] = "plain"
  <2>1. CASE UNCHANGED <<tags, strained>>
    BY <2>1 DEF TypeOK
  <2>2. CASE /\ cur[c].tag \in Tags /\ ~WriteFails(cur[c])
             /\ tags' = [tags EXCEPT ![cur[c].tag] = Cast(cur[c])]
             /\ strained' = strained \cup {t \in Tags : tags'[t] = "huge"}
    <3>1. cur[c].cmd = "write" /\ cur[c] \in Valued
      BY DEF ServeWrite, Asked, Carried
    <3>2. cur[c].value \in Values
      BY <3>1 DEF Valued
    <3>3. TagType[cur[c].tag] \in {"float", "int", "bool"}
      BY <2>2, TagTypeAssumption
    <3>4. /\ Cast(cur[c]) \in Values
          /\ TagType[cur[c].tag] = "int" => Cast(cur[c]) \in {"plain", "huge"}
          /\ TagType[cur[c].tag] = "bool" => Cast(cur[c]) = "plain"
      BY <2>2, <3>2, <3>3 DEF Cast, WriteFails, Values
    <3> QED BY <2>2, <3>4 DEF TypeOK
  <2> QED BY <2>1, <2>2 DEF ServeWrite
<1>4. UNCHANGED <<connection_count, active_sessions, error_count, cid, told, asked, cuts>>
  BY DEF ServeWrite
<1>5. TypeOK'
  BY <1>1, <1>2, <1>3, <1>4 DEF TypeOK, Places
<1> QED BY <1>1, <1>5

LEMMA HandlerTypes ==
  ASSUME TypeOK, Carried, CountersExact, NEW c \in Conns, Handler(c)
  PROVE  TypeOK' /\ Carried'
<1> DEFINE Kept == /\ connection_count \in Nat /\ active_sessions \in Nat /\ error_count \in Nat
                   /\ peer \in [Conns -> {"open", "closed", "reset"}]
                   /\ cid \in [Conns -> Nat] /\ told \in [Conns -> [conns : Nat, active : Nat]]
                   /\ asked \in [Conns -> Nat] /\ answered \in [Conns -> Nat]
                   /\ cuts \in [Conns -> Nat] /\ strays \in [Conns -> Nat]
<1>1. Kept
  BY DEF TypeOK
<1>2. CASE Enter(c) \/ EnterSession(c) \/ CountError(c) \/ LeaveSession(c)
  <2>1. PICK where \in {"enter", "recv", "leave", "close"} : Goto(c, where)
    BY <1>2 DEF Enter, EnterSession, CountError, LeaveSession, Goto
  <2>2. pc' \in [Conns -> Places]
    BY <2>1, GotoType DEF Places
  <2>3. LeaveSession(c) => active_sessions - 1 \in Nat
    <3> SUFFICES ASSUME LeaveSession(c) PROVE active_sessions - 1 \in Nat
      OBVIOUS
    <3>1. c \in Inside
      BY InsideIs DEF LeaveSession, At, InPlaces
    <3>2. active_sessions = Cardinality(Inside) /\ IsFiniteSet(Inside)
      BY InsideFinite DEF CountersExact
    <3>3. Cardinality(Inside \ {c}) = active_sessions - 1 /\ IsFiniteSet(Inside \ {c})
      BY <3>1, <3>2, FS_RemoveElement
    <3> QED BY <3>3, FS_CardinalityType
  <2>4. /\ connection_count' \in Nat /\ active_sessions' \in Nat /\ error_count' \in Nat
        /\ cid' \in [Conns -> Nat]
    BY <1>1, <1>2, <2>3 DEF Enter, EnterSession, CountError, LeaveSession
  <2>5. UNCHANGED <<tags, strained, peer, wire, cur, told, asked, answered, cuts, strays>>
    BY <1>2 DEF Enter, EnterSession, CountError, LeaveSession
  <2> QED BY <1>1, <2>2, <2>4, <2>5, PlainTypes
<1>3. CASE CloseSocket(c) \/ RecvEnds(c)
  <2>1. pc' \in [Conns -> Places]
    BY <1>3, GotoType DEF CloseSocket, RecvEnds, Places
  <2>2. UNCHANGED <<shared, peer, wire, cur, cid, told, asked, answered, cuts, strays>>
    BY <1>3 DEF CloseSocket, RecvEnds
  <2> QED BY <1>1, <2>1, <2>2, PlainTypes DEF shared
<1>4. CASE ServeProfile(c) \/ ServeUnknown(c) \/ ServeRead(c) \/ StatusSessions(c)
  <2>1. \/ Sent(c, "recv") \/ Sent(c, "error")
        \/ Goto(c, "failed") /\ UNCHANGED <<peer, answered, strays>>
    BY <1>4 DEF ServeProfile, ServeUnknown, ServeRead, StatusSessions
  <2>2. /\ pc' \in [Conns -> Places] /\ peer' \in [Conns -> {"open", "closed", "reset"}]
        /\ answered' \in [Conns -> Nat] /\ strays' \in [Conns -> Nat]
    BY <1>1, <2>1, SentType, GotoType DEF Places
  <2>3. told' \in [Conns -> [conns : Nat, active : Nat]]
    BY <1>1, <1>4 DEF ServeProfile, ServeUnknown, ServeRead, StatusSessions
  <2>4. UNCHANGED <<shared, wire, cur, cid, asked, cuts>>
    BY <1>4 DEF ServeProfile, ServeUnknown, ServeRead, StatusSessions
  <2> QED BY <1>1, <2>2, <2>3, <2>4, PlainTypes DEF shared
<1>5. CASE StatusConnections(c)
  <2>1. pc' \in [Conns -> Places] /\ told' \in [Conns -> [conns : Nat, active : Nat]]
    BY <1>1, <1>5, GotoType DEF StatusConnections, Places
  <2>2. UNCHANGED <<shared, peer, wire, cur, cid, asked, answered, cuts, strays>>
    BY <1>5 DEF StatusConnections
  <2> QED BY <1>1, <2>1, <2>2, PlainTypes DEF shared
<1> QED BY <1>2, <1>3, <1>4, <1>5, RecvTypes, ServeWriteTypes DEF Handler

---------------------------------------------------------------------------
(* The counters.                                                           *)

Made == {c \in Conns : pc[c] # "start"}

\* A session is held before and after.
LEMMA SessionKept ==
  ASSUME TypeOK, TypeOK', CountersExact, Counted, NEW c \in Conns,
         pc[c] \in InPlaces, pc'[c] \in InPlaces,
         \A d \in Conns : d # c => pc'[d] = pc[d],
         UNCHANGED <<connection_count, active_sessions, cid>>,
         \A d \in Conns : d # c => told'[d] = told[d],
         \/ told'[c] = told[c] /\ ~At(c, "status") /\ pc'[c] # "status"
         \/ pc'[c] = "status" /\ told'[c].conns = connection_count
         \/ told'[c].conns = told[c].conns /\ told'[c].active = active_sessions
  PROVE  CountersExact' /\ Counted'
<1>1. /\ \A d \in Conns : pc'[d] \in InPlaces <=> pc[d] \in InPlaces
      /\ \A d \in Conns : pc'[d] = "start" <=> pc[d] = "start"
      /\ \A d \in Conns : pc'[d] = "enter" <=> pc[d] = "enter"
  BY DEF InPlaces
<1>2. Inside' = Inside
  <2>1. \A d \in Conns : d \in Inside' <=> pc'[d] \in InPlaces
    <3>1. pc' \in [Conns -> Places]
      BY DEF TypeOK, Places
    <3> QED BY <3>1 DEF Inside, InPlaces, Places
  <2>2. Inside' \subseteq Conns
    BY DEF Inside
  <2> QED BY <1>1, <2>1, <2>2, InsideIs, InsideFinite
<1>3. Made' = Made
  BY <1>1 DEF Made
<1>4. active_sessions >= 1
  <2>1. c \in Inside
    BY InsideIs
  <2>2. Cardinality(Inside) \in Nat /\ Cardinality(Inside) # 0
    BY <2>1, InsideFinite, FS_CardinalityType, FS_EmptySet
  <2> QED BY <2>2 DEF CountersExact
<1>5. Counted'
  <2>1. \A a, b \in Conns : At(a, "enter")' /\ At(b, "enter")' => a = b
    BY <1>1 DEF Counted, At
  <2>2. \A d \in Conns :
          /\ cid'[d] <= connection_count'
          /\ cid'[d] = 0 <=> pc'[d] \in {"start", "enter"}
    BY <1>1 DEF Counted
  <2>3. \A d \in Conns :
          /\ cid'[d] = 0 => told'[d].conns = 0
          /\ told'[d].conns # 0 =>
               cid'[d] <= told'[d].conns /\ told'[d].conns <= connection_count'
    <3> SUFFICES ASSUME NEW d \in Conns
                 PROVE  /\ cid'[d] = 0 => told'[d].conns = 0
                        /\ told'[d].conns # 0 =>
                             cid'[d] <= told'[d].conns /\ told'[d].conns <= connection_count'
      OBVIOUS
    <3>1. CASE told'[d].conns = told[d].conns
      <4>1. /\ cid[d] = 0 => told[d].conns = 0
            /\ told[d].conns # 0 => cid[d] <= told[d].conns /\ told[d].conns <= connection_count
        BY DEF Counted
      <4> QED BY <3>1, <4>1
    <3>2. CASE d = c /\ told'[c].conns = connection_count
      <4>1. cid[c] # 0 /\ cid[c] <= connection_count /\ connection_count \in Nat
        BY DEF Counted, InPlaces, TypeOK
      <4> QED BY <3>2, <4>1
    <3> QED BY <3>1, <3>2
  <2>4. \A a, b \in Conns : At(b, "enter")' => cid'[a] < connection_count'
    BY <1>1 DEF Counted, At
  <2> QED BY <2>1, <2>2, <2>3, <2>4 DEF Counted
<1>6. \A d \in Conns : told'[d].conns # 0 /\ ~At(d, "status")' =>
        told'[d].active >= 1 /\ told'[d].conns \in cid'[d]..connection_count'
  <2> SUFFICES ASSUME NEW d \in Conns, told'[d].conns # 0, ~At(d, "status")'
               PROVE  told'[d].active >= 1 /\ told'[d].conns \in cid'[d]..connection_count'
    OBVIOUS
  <2>1. told'[d].conns \in Nat /\ cid'[d] \in Nat /\ connection_count' \in Nat
    BY DEF TypeOK
  <2>2. told'[d].conns \in cid'[d]..connection_count'
    BY <1>5, <2>1 DEF Counted
  <2>3. told'[d].active >= 1
    BY <1>4 DEF CountersExact, At
  <2> QED BY <2>2, <2>3
<1>7. CountersExact'
  BY <1>2, <1>3, <1>6 DEF CountersExact, Made
<1> QED BY <1>5, <1>7

\* Nobody comes or goes.
LEMMA CountersKept ==
  ASSUME CountersExact, Counted,
         UNCHANGED <<connection_count, active_sessions, cid, told, pc>>
  PROVE  CountersExact' /\ Counted'
BY DEF CountersExact, Counted, Inside, At

LEMMA EnterCounters ==
  ASSUME TypeOK, TypeOK', CountersExact, Counted, NEW c \in Conns, Enter(c)
  PROVE  CountersExact' /\ Counted'
<1>1. /\ pc[c] = "start" /\ pc'[c] = "enter" /\ \A d \in Conns : d # c => pc'[d] = pc[d]
      /\ \A d \in Conns : pc[d] # "enter"
      /\ connection_count' = connection_count + 1 /\ connection_count \in Nat
      /\ UNCHANGED <<active_sessions, cid, told>>
  BY DEF Enter, At, Goto, LockFree, TypeOK
<1>2. Inside' = Inside
  BY <1>1 DEF Inside
<1>3. Made' = Made \cup {c} /\ c \notin Made
  BY <1>1 DEF Made
<1>4. Cardinality(Made') = Cardinality(Made) + 1
  BY <1>3, InsideFinite, FS_AddElement DEF Made
<1>5. Counted'
  <2>1. \A d \in Conns : cid[d] <= connection_count /\ cid[d] \in Nat
    BY DEF Counted, TypeOK
  <2>2. \A d \in Conns : told[d].conns \in Nat
    BY DEF TypeOK
  <2>3. \A a, b \in Conns : At(a, "enter")' /\ At(b, "enter")' => a = b
    BY <1>1 DEF At
  <2>4. \A d \in Conns :
          /\ cid'[d] <= connection_count'
          /\ cid'[d] = 0 <=> pc'[d] \in {"start", "enter"}
          /\ cid'[d] = 0 => told'[d].conns = 0
    BY <1>1, <2>1 DEF Counted
  <2>5. \A d \in Conns :
          told'[d].conns # 0 => cid'[d] <= told'[d].conns /\ told'[d].conns <= connection_count'
    BY <1>1, <2>1, <2>2 DEF Counted
  <2>6. \A a \in Conns : cid'[a] < connection_count'
    BY <1>1, <2>1
  <2> QED BY <2>3, <2>4, <2>5, <2>6 DEF Counted
<1>6. \A d \in Conns : told'[d].conns # 0 /\ ~At(d, "status")' =>
        told'[d].active >= 1 /\ told'[d].conns \in cid'[d]..connection_count'
  <2> SUFFICES ASSUME NEW d \in Conns, told'[d].conns # 0, ~At(d, "status")'
               PROVE  told'[d].active >= 1 /\ told'[d].conns \in cid'[d]..connection_count'
    OBVIOUS
  <2>1. told'[d].conns \in Nat /\ cid'[d] \in Nat /\ connection_count' \in Nat
    BY DEF TypeOK
  <2>2. told'[d].conns \in cid'[d]..connection_count'
    BY <1>5, <2>1 DEF Counted
  <2>3. told'[d].active >= 1
    BY <1>1 DEF CountersExact, At, Counted
  <2> QED BY <2>2, <2>3
<1>7. \A a, b \in Conns : a # b /\ cid'[a] = cid'[b] => cid'[a] = 0
  BY <1>1 DEF CountersExact
<1>8. CountersExact'
  BY <1>1, <1>2, <1>4, <1>6, <1>7 DEF CountersExact, Made
<1> QED BY <1>5, <1>8

LEMMA EnterSessionCounters ==
  ASSUME TypeOK, TypeOK', CountersExact, Counted, NEW c \in Conns, EnterSession(c)
  PROVE  CountersExact' /\ Counted'
<1>1. /\ pc[c] = "enter" /\ pc'[c] = "recv" /\ \A d \in Conns : d # c => pc'[d] = pc[d]
      /\ active_sessions' = active_sessions + 1 /\ connection_count \in Nat
      /\ cid'[c] = connection_count /\ \A d \in Conns : d # c => cid'[d] = cid[d]
      /\ UNCHANGED <<connection_count, told>>
  BY DEF EnterSession, At, Goto, TypeOK
<1>2. Inside' = Inside \cup {c} /\ c \notin Inside
  BY <1>1 DEF Inside
<1>3. Cardinality(Inside') = Cardinality(Inside) + 1
  BY <1>2, InsideFinite, FS_AddElement
<1>4. Made' = Made
  BY <1>1 DEF Made
<1>5. /\ \A d \in Conns : cid[d] < connection_count
      /\ \A d \in Conns : d # c => pc[d] # "enter"
      /\ told[c].conns = 0 /\ cid[c] = 0
  BY <1>1 DEF Counted, At
<1>6. \A d \in Conns : cid[d] \in Nat /\ told[d].conns \in Nat
  BY DEF TypeOK
<1>7. connection_count # 0
  BY <1>1, <1>5, <1>6
<1>8. Counted'
  <2>1. \A a, b \in Conns : At(a, "enter")' /\ At(b, "enter")' => a = b
    BY <1>1, <1>5 DEF At
  <2>2. \A d \in Conns : cid'[d] <= connection_count'
    BY <1>1, <1>5, <1>6
  <2>3. \A d \in Conns : cid'[d] = 0 <=> pc'[d] \in {"start", "enter"}
    BY <1>1, <1>7 DEF Counted
  <2>4. \A d \in Conns :
          /\ cid'[d] = 0 => told'[d].conns = 0
          /\ told'[d].conns # 0 =>
               cid'[d] <= told'[d].conns /\ told'[d].conns <= connection_count'
    BY <1>1, <1>5 DEF Counted
  <2>5. \A b \in Conns : ~At(b, "enter")'
    BY <1>1, <1>5 DEF At
  <2> QED BY <2>1, <2>2, <2>3, <2>4, <2>5 DEF Counted
<1>9. \A d \in Conns : told'[d].conns # 0 /\ ~At(d, "status")' =>
        told'[d].active >= 1 /\ told'[d].conns \in cid'[d]..connection_count'
  <2> SUFFICES ASSUME NEW d \in Conns, told'[d].conns # 0, ~At(d, "status")'
               PROVE  told'[d].active >= 1 /\ told'[d].conns \in cid'[d]..connection_count'
    OBVIOUS
  <2>1. d # c
    BY <1>1, <1>5
  <2> QED BY <1>1, <2>1 DEF CountersExact, At
<1>10. \A a, b \in Conns : a # b /\ cid'[a] = cid'[b] => cid'[a] = 0
  <2> SUFFICES ASSUME NEW a \in Conns, NEW b \in Conns, a # b, cid'[a] = cid'[b]
               PROVE  cid'[a] = 0
    OBVIOUS
  <2>1. a # c /\ b # c
    BY <1>1, <1>5, <1>6
  <2> QED BY <1>1, <2>1 DEF CountersExact
<1>11. CountersExact'
  BY <1>1, <1>3, <1>4, <1>9, <1>10 DEF CountersExact, Made
<1> QED BY <1>8, <1>11

\* A handler that has drawn its number moves on where nobody looks; it may give its
\* session back.
LEMMA LeaveCounters ==
  ASSUME TypeOK, TypeOK', CountersExact, Counted, NEW c \in Conns,
         LeaveSession(c) \/ CloseSocket(c)
  PROVE  CountersExact' /\ Counted'
<1>1. /\ pc[c] \in {"leave", "close"} /\ pc'[c] \in {"close", "done"}
      /\ \A d \in Conns : d # c => pc'[d] = pc[d]
      /\ UNCHANGED <<connection_count, cid, told>>
  BY DEF LeaveSession, CloseSocket, At, Goto, TypeOK, shared
<1>2. active_sessions' = Cardinality(Inside')
  <2>1. CASE LeaveSession(c)
    <3>1. /\ pc[c] = "leave" /\ pc'[c] = "close" /\ active_sessions' = active_sessions - 1
      BY <2>1 DEF LeaveSession, At, Goto, TypeOK
    <3>2. Inside' = Inside \ {c} /\ c \in Inside
      BY <1>1, <3>1 DEF Inside
    <3>3. Cardinality(Inside') = Cardinality(Inside) - 1
      BY <3>2, InsideFinite, FS_RemoveElement
    <3> QED BY <3>1, <3>3 DEF CountersExact
  <2>2. CASE CloseSocket(c)
    <3>1. pc[c] = "close" /\ pc'[c] = "done" /\ active_sessions' = active_sessions
      BY <2>2 DEF CloseSocket, At, Goto, TypeOK, shared
    <3>2. Inside' = Inside
      BY <1>1, <3>1 DEF Inside
    <3> QED BY <3>1, <3>2 DEF CountersExact
  <2> QED BY <2>1, <2>2
<1>3. Made' = Made
  BY <1>1 DEF Made
<1>4. Counted'
  <2>1. \A d \in Conns : pc'[d] = "enter" <=> pc[d] = "enter"
    BY <1>1
  <2>2. \A d \in Conns : pc'[d] \in {"start", "enter"} <=> pc[d] \in {"start", "enter"}
    BY <1>1
  <2> QED BY <1>1, <2>1, <2>2 DEF Counted, At
<1>5. \A d \in Conns : told'[d].conns # 0 /\ ~At(d, "status")' =>
        told'[d].active >= 1 /\ told'[d].conns \in cid'[d]..connection_count'
  BY <1>1 DEF CountersExact, At
<1>6. \A a, b \in Conns : a # b /\ cid'[a] = cid'[b] => cid'[a] = 0
  BY <1>1 DEF CountersExact
<1>7. CountersExact'
  BY <1>1, <1>2, <1>3, <1>5, <1>6 DEF CountersExact, Made
<1> QED BY <1>4, <1>7

LEMMA HandlerCounters ==
  ASSUME TypeOK, TypeOK', CountersExact, Counted, NEW c \in Conns, Handler(c)
  PROVE  CountersExact' /\ Counted'
<1> DEFINE Quiet == UNCHANGED <<connection_count, active_sessions, cid, told>>
<1>1. ASSUME NEW from \in InPlaces \ {"status"}, pc[c] = from,
             NEW to \in InPlaces \ {"status"}, Goto(c, to), Quiet
      PROVE  CountersExact' /\ Counted'
  <2>1. pc'[c] = to /\ \A d \in Conns : d # c => pc'[d] = pc[d]
    BY <1>1 DEF Goto, TypeOK
  <2> QED BY <1>1, <2>1, SessionKept DEF At
<1>2. CASE CountError(c)
  <2>1. \E to \in {"recv", "leave"} : Goto(c, to)
    BY <1>2 DEF CountError
  <2>2. pc[c] \in {"error", "failed"} /\ Quiet
    BY <1>2 DEF CountError, At
  <2> QED BY <1>1, <2>1, <2>2 DEF InPlaces
<1>3. CASE Recv(c)
  <2>1. \E to \in {"error", "delay"} : Goto(c, to)
    BY <1>3 DEF Recv
  <2>2. pc[c] = "recv" /\ Quiet
    BY <1>3 DEF Recv, At, shared
  <2> QED BY <1>1, <2>1, <2>2 DEF InPlaces
<1>4. CASE RecvEnds(c)
  BY <1>1, <1>4 DEF RecvEnds, At, shared, InPlaces
<1>5. CASE ServeProfile(c) \/ ServeUnknown(c) \/ ServeRead(c) \/ ServeWrite(c)
  <2>1. \E to \in {"recv", "error", "failed", "leave"} : Goto(c, to)
    BY <1>5 DEF ServeProfile, ServeUnknown, ServeRead, ServeWrite, Sent
  <2>2. pc[c] = "delay" /\ Quiet
    BY <1>5 DEF ServeProfile, ServeUnknown, ServeRead, ServeWrite, Asked, At, shared
  <2> QED BY <1>1, <2>1, <2>2 DEF InPlaces
<1>6. CASE StatusConnections(c)
  <2>1. /\ pc[c] = "delay" /\ pc'[c] = "status" /\ \A d \in Conns : d # c => pc'[d] = pc[d]
        /\ told'[c].conns = connection_count /\ \A d \in Conns : d # c => told'[d] = told[d]
        /\ UNCHANGED <<connection_count, active_sessions, cid>>
    BY <1>6 DEF StatusConnections, Asked, At, Goto, TypeOK, shared
  <2> QED BY <2>1, SessionKept DEF InPlaces
<1>7. CASE StatusSessions(c)
  <2>1. PICK to \in {"recv", "failed", "leave"} : Goto(c, to)
    BY <1>7 DEF StatusSessions, Sent
  <2>2. pc[c] = "status" /\ pc'[c] = to /\ \A d \in Conns : d # c => pc'[d] = pc[d]
    BY <1>7, <2>1 DEF StatusSessions, At, Goto, TypeOK
  <2>3. /\ told'[c].conns = told[c].conns /\ told'[c].active = active_sessions
        /\ \A d \in Conns : d # c => told'[d] = told[d]
        /\ UNCHANGED <<connection_count, active_sessions, cid>>
    BY <1>7 DEF StatusSessions, TypeOK, shared
  <2> QED BY <2>2, <2>3, SessionKept DEF InPlaces
<1> QED BY <1>2, <1>3, <1>4, <1>5, <1>6, <1>7, EnterCounters, EnterSessionCounters, LeaveCounters
        DEF Handler

---------------------------------------------------------------------------
(* Who is cut off.                                                         *)

LEMMA StrainedKept ==
  ASSUME TypeOK, Strained, NEW c \in Conns, Send(c) \/ Leave(c) \/ Handler(c)
  PROVE  Strained' /\ strained \subseteq strained'
<1>1. CASE UNCHANGED <<tags, strained>>
  BY <1>1 DEF Strained
<1>2. CASE strained' = strained \cup {t \in Tags : tags'[t] = "huge"}
  BY <1>2 DEF Strained
<1> QED BY <1>1, <1>2 DEF Send, Leave, Handler, Enter, EnterSession, CountError, LeaveSession,
          CloseSocket, Recv, RecvEnds, ServeProfile, ServeUnknown, StatusConnections,
          StatusSessions, ServeRead, ServeWrite, shared

\* Why a client that stays is cut off.
Excuse(c) ==
  \/ cur[c].cmd = "write" /\ cur[c].tag \in Tags /\ WriteFails(cur[c])
  \/ cur[c].cmd = "read" /\ cur[c].tag \in strained

Ending == {"failed", "leave", "close", "done"}

LEMMA OthersExcused ==
  ASSUME CutOffOnlyForValues, strained \subseteq strained', NEW c \in Conns,
         \A d \in Conns : d # c => pc'[d] = pc[d] /\ peer'[d] = peer[d] /\ cur'[d] = cur[d],
         peer'[c] = "open" /\ pc'[c] \in Ending => Excuse(c)'
  PROVE  CutOffOnlyForValues'
<1> SUFFICES ASSUME NEW d \in Conns, peer'[d] = "open", pc'[d] \in Ending
             PROVE  Excuse(d)'
  BY DEF CutOffOnlyForValues, Excuse, Ending
<1>1. CASE d = c
  BY <1>1
<1>2. CASE d # c
  <2>1. Excuse(d)
    BY <1>2 DEF CutOffOnlyForValues, Excuse, Ending
  <2> QED BY <1>2, <2>1 DEF Excuse, WriteFails
<1> QED BY <1>1, <1>2

\* A send ends a handler only when its client is gone.
LEMMA SentExcused ==
  ASSUME TypeOK, CutOffOnlyForValues, strained \subseteq strained', UNCHANGED cur,
         NEW c \in Conns, NEW to \in {"recv", "error"}, Sent(c, to)
  PROVE  CutOffOnlyForValues'
<1>1. /\ \A d \in Conns : d # c => pc'[d] = pc[d] /\ peer'[d] = peer[d] /\ cur'[d] = cur[d]
      /\ peer'[c] = "open" => pc'[c] = to
  BY DEF Sent, Goto, TypeOK
<1> QED BY <1>1, OthersExcused DEF Ending

LEMMA StepCutOff ==
  ASSUME TypeOK, Strained, CutOffOnlyForValues, NEW c \in Conns, Send(c) \/ Leave(c) \/ Handler(c)
  PROVE  CutOffOnlyForValues'
<1>1. strained \subseteq strained'
  BY StrainedKept
<1>2. CASE Send(c)
  BY <1>1, <1>2 DEF Send, CutOffOnlyForValues, shared, WriteFails
<1>3. CASE Leave(c)
  <2>1. /\ \A d \in Conns : d # c => pc'[d] = pc[d] /\ peer'[d] = peer[d] /\ cur'[d] = cur[d]
        /\ peer'[c] # "open"
    BY <1>3 DEF Leave, TypeOK
  <2> QED BY <1>1, <2>1, OthersExcused
<1>4. CASE Enter(c) \/ EnterSession(c) \/ StatusConnections(c)
  <2>1. /\ \A d \in Conns : d # c => pc'[d] = pc[d] /\ peer'[d] = peer[d] /\ cur'[d] = cur[d]
        /\ pc'[c] \in {"enter", "recv", "status"}
    BY <1>4 DEF Enter, EnterSession, StatusConnections, Goto, TypeOK
  <2> QED BY <1>1, <2>1, OthersExcused DEF Ending
\* What had an excuse has it still.
<1>5. CASE CountError(c) \/ LeaveSession(c) \/ CloseSocket(c)
  <2>1. /\ \A d \in Conns : d # c => pc'[d] = pc[d] /\ peer'[d] = peer[d] /\ cur'[d] = cur[d]
        /\ UNCHANGED <<peer, cur>>
        /\ pc[c] \in Ending \/ pc'[c] = "recv"
    BY <1>5 DEF CountError, LeaveSession, CloseSocket, At, Goto, TypeOK, Ending
  <2>2. ASSUME peer'[c] = "open", pc'[c] \in Ending PROVE Excuse(c)'
    <3>1. Excuse(c)
      BY <2>1, <2>2 DEF CutOffOnlyForValues, Excuse, Ending
    <3> QED BY <1>1, <2>1, <3>1 DEF Excuse, WriteFails
  <2> QED BY <1>1, <2>1, <2>2, OthersExcused
<1>6. CASE Recv(c)
  <2>1. PICK r : cur' = [cur EXCEPT ![c] = r]
    BY <1>6 DEF Recv
  <2>2. /\ \A d \in Conns : d # c => pc'[d] = pc[d] /\ peer'[d] = peer[d] /\ cur'[d] = cur[d]
        /\ pc'[c] \in {"error", "delay"}
    BY <1>6, <2>1 DEF Recv, Goto, TypeOK
  <2> QED BY <1>1, <2>2, OthersExcused DEF Ending
<1>7. CASE RecvEnds(c)
  <2>1. /\ \A d \in Conns : d # c => pc'[d] = pc[d] /\ peer'[d] = peer[d] /\ cur'[d] = cur[d]
        /\ peer'[c] # "open"
    BY <1>7 DEF RecvEnds, Goto, TypeOK
  <2> QED BY <1>1, <2>1, OthersExcused
<1>8. CASE ServeProfile(c) \/ ServeUnknown(c) \/ StatusSessions(c)
  BY <1>1, <1>8, SentExcused DEF ServeProfile, ServeUnknown, StatusSessions
<1>9. CASE ServeRead(c)
  <2>1. CASE Sent(c, "recv")
    BY <1>1, <1>9, <2>1, SentExcused DEF ServeRead
  <2>2. CASE ReadMayFail(cur[c].tag) /\ Goto(c, "failed") /\ UNCHANGED <<peer, answered, strays>>
    <3>1. /\ \A d \in Conns : d # c => pc'[d] = pc[d] /\ peer'[d] = peer[d] /\ cur'[d] = cur[d]
          /\ cur' = cur /\ cur[c].cmd = "read"
      BY <1>9, <2>2 DEF ServeRead, Asked, Goto, TypeOK
    <3>2. cur[c].tag \in strained'
      BY <1>1, <2>2 DEF ReadMayFail, Strained
    <3> QED BY <1>1, <3>1, <3>2, OthersExcused DEF Excuse
  <2> QED BY <1>9, <2>1, <2>2 DEF ServeRead
<1>10. CASE ServeWrite(c)
  <2>1. CASE Sent(c, "recv")
    BY <1>1, <1>10, <2>1, SentExcused DEF ServeWrite
  <2>2. CASE cur[c].tag \in Tags /\ WriteFails(cur[c]) /\ Goto(c, "failed") /\ UNCHANGED peer
    <3>1. /\ \A d \in Conns : d # c => pc'[d] = pc[d] /\ peer'[d] = peer[d] /\ cur'[d] = cur[d]
          /\ cur' = cur /\ cur[c].cmd = "write"
      BY <1>10, <2>2 DEF ServeWrite, Asked, Goto, TypeOK
    <3>2. Excuse(c)'
      BY <2>2, <3>1 DEF Excuse, WriteFails
    <3> QED BY <1>1, <3>1, <3>2, OthersExcused
  <2> QED BY <1>10, <2>1, <2>2 DEF ServeWrite
<1> QED BY <1>2, <1>3, <1>4, <1>5, <1>6, <1>7, <1>8, <1>9, <1>10 DEF Handler

---------------------------------------------------------------------------
(* What is answered was asked.                                             *)

\* InTurn for one connection.
Turn(c) ==
  /\ answered[c] <= asked[c]
  /\ pc[c] \in {"delay", "status"} =>
       (cur[c].no = 0 \/ answered[c] < cur[c].no) /\ cur[c].no <= asked[c]
  /\ \A i \in 1..Len(wire[c]) :
       /\ wire[c][i].no <= asked[c]
       /\ wire[c][i].no = 0 => wire[c][i] \in {Junk, Rest}
       /\ wire[c][i].no # 0 => answered[c] < wire[c][i].no /\ wire[c][i].cmd # "rest"
       /\ wire[c][i].no # 0 /\ pc[c] \in {"delay", "status"} => cur[c].no < wire[c][i].no
  /\ \A i, j \in 1..Len(wire[c]) : i < j => wire[c][i].no < wire[c][j].no

LEMMA TurnKept ==
  ASSUME NEW c \in Conns, Turn(c), UNCHANGED <<asked[c], answered[c], wire[c], cur[c]>>,
         pc'[c] = pc[c] \/ pc'[c] \notin {"delay", "status"}
            \/ (pc[c] = "delay" /\ pc'[c] = "status")
  PROVE  Turn(c)'
BY DEF Turn

LEMMA OthersInTurn ==
  ASSUME TypeOK, InTurn, NEW c \in Conns, Turn(c)',
         \A d \in Conns : d # c =>
           UNCHANGED <<asked[d], answered[d], wire[d], cur[d], pc[d]>>
  PROVE  InTurn'
<1>1. \A d \in Conns : Turn(d)
  BY DEF InTurn, Turn
<1>2. \A d \in Conns : d # c => Turn(d)'
  BY <1>1, TurnKept
<1> QED BY <1>2 DEF InTurn, Turn

LEMMA SendTurn ==
  ASSUME TypeOK, Carried, InTurn, NEW c \in Conns, Send(c)
  PROVE  InTurn'
<1>1. PICK r \in Valued :
        r.no = asked[c] + 1 /\ r.cmd # "rest" /\ wire' = [wire EXCEPT ![c] = Append(@, r)]
  BY SendTypes
<1> DEFINE n == Len(wire[c])
<1>2. /\ wire[c] \in Seq(Valued) /\ n \in Nat /\ asked[c] \in Nat /\ answered[c] \in Nat
      /\ cur[c].no \in Nat /\ \A i \in 1..n : wire[c][i].no \in Nat
  <2>1. cur[c] \in Item /\ \A i \in 1..n : wire[c][i] \in Item
    BY WireType DEF TypeOK, Valued
  <2> QED BY <2>1, WireType DEF Carried, TypeOK, Item
<1>3. /\ asked' = [asked EXCEPT ![c] = @ + 1] /\ UNCHANGED <<pc, cur, answered>>
  BY DEF Send
<1>4. /\ Len(wire'[c]) = n + 1 /\ wire'[c][n + 1] = r
      /\ \A i \in 1..n : wire'[c][i] = wire[c][i]
  BY <1>1, <1>2, AppendProperties DEF Carried
<1>5. asked'[c] = asked[c] + 1
  BY <1>3 DEF TypeOK
<1>6. Turn(c)
  BY DEF InTurn, Turn
<1> HIDE DEF n
<1>7. Turn(c)'
  <2>1. answered'[c] <= asked'[c]
        /\ (pc'[c] \in {"delay", "status"} =>
              (cur'[c].no = 0 \/ answered'[c] < cur'[c].no) /\ cur'[c].no <= asked'[c])
    BY <1>2, <1>3, <1>5, <1>6 DEF Turn
  <2>2. ASSUME NEW i \in 1..Len(wire'[c])
        PROVE  /\ wire'[c][i].no <= asked'[c]
               /\ wire'[c][i].no = 0 => wire'[c][i] \in {Junk, Rest}
               /\ wire'[c][i].no # 0 =>
                    answered'[c] < wire'[c][i].no /\ wire'[c][i].cmd # "rest"
               /\ wire'[c][i].no # 0 /\ pc'[c] \in {"delay", "status"} => cur'[c].no < wire'[c][i].no
    <3>1. CASE i \in 1..n
      <4>1. /\ wire[c][i].no <= asked[c]
            /\ wire[c][i].no = 0 => wire[c][i] \in {Junk, Rest}
            /\ wire[c][i].no # 0 => answered[c] < wire[c][i].no /\ wire[c][i].cmd # "rest"
            /\ wire[c][i].no # 0 /\ pc[c] \in {"delay", "status"} => cur[c].no < wire[c][i].no
        BY <1>6, <3>1 DEF Turn, n
      <4>2. wire'[c][i] = wire[c][i] /\ wire[c][i].no \in Nat
        BY <1>2, <1>4, <3>1
      <4>3. wire[c][i].no <= asked[c] + 1
        BY <1>2, <4>1, <4>2
      <4> QED BY <1>3, <1>5, <4>1, <4>2, <4>3
    <3>2. CASE i = n + 1
      BY <1>1, <1>2, <1>3, <1>4, <1>5, <1>6, <3>2 DEF Turn
    <3> QED BY <1>2, <1>4, <3>1, <3>2
  <2>3. ASSUME NEW i \in 1..Len(wire'[c]), NEW j \in 1..Len(wire'[c]), i < j
        PROVE  wire'[c][i].no < wire'[c][j].no
    <3>1. CASE j \in 1..n
      <4>1. i \in 1..n
        BY <1>2, <2>3, <3>1
      <4>2. wire[c][i].no < wire[c][j].no
        BY <1>6, <2>3, <3>1, <4>1 DEF Turn, n
      <4> QED BY <1>4, <3>1, <4>1, <4>2
    <3>2. CASE j = n + 1
      <4>1. i \in 1..n
        BY <1>2, <1>4, <2>3, <3>2
      <4>2. wire[c][i].no <= asked[c]
        BY <1>6, <4>1 DEF Turn, n
      <4>3. wire'[c][i] = wire[c][i] /\ wire'[c][j].no = asked[c] + 1 /\ wire[c][i].no \in Nat
        BY <1>1, <1>2, <1>4, <3>2, <4>1
      <4> QED BY <1>2, <4>2, <4>3
    <3> QED BY <1>2, <1>4, <3>1, <3>2
  <2> QED BY <2>1, <2>2, <2>3 DEF Turn
<1>8. \A d \in Conns : d # c => UNCHANGED <<asked[d], answered[d], wire[d], cur[d], pc[d]>>
  BY <1>1, <1>3 DEF TypeOK
<1> QED BY <1>7, <1>8, OthersInTurn

LEMMA RecvTurn ==
  ASSUME TypeOK, Carried, InTurn, NEW c \in Conns, Recv(c)
  PROVE  InTurn'
<1>1. PICK w, r \in Seq(Valued) \cup Valued, m \in {0, 1} :
        /\ wire' = [wire EXCEPT ![c] = w] /\ cur' = [cur EXCEPT ![c] = r]
        /\ w \in Seq(Valued) /\ r \in Valued
        /\ Taken(Head(wire[c]), r)
        /\ LeftOf(wire[c], w, m)
        /\ pc' = [pc EXCEPT ![c] = IF r.cmd = "junk" THEN "error" ELSE "delay"]
  BY RecvTakes
<1> DEFINE s == wire[c]
<1>2. /\ wire'[c] = w /\ cur'[c] = r /\ pc'[c] = (IF r.cmd = "junk" THEN "error" ELSE "delay")
      /\ \A d \in Conns : d # c => UNCHANGED <<asked[d], answered[d], wire[d], cur[d], pc[d]>>
      /\ UNCHANGED <<asked, answered>>
  BY <1>1 DEF Recv, TypeOK, shared
<1>3. /\ s # <<>> /\ Len(s) \in Nat /\ Len(s) >= 1 /\ Head(s) = s[1]
      /\ asked[c] \in Nat /\ answered[c] \in Nat
      /\ \A i \in 1..Len(s) : s[i].no \in Nat
      /\ Len(w) \in Nat
  <2>1. \A i \in 1..Len(s) : s[i] \in Item
    BY WireType DEF Valued
  <2> QED BY <1>1, <2>1, WireType, HeadIsFirst, LenProperties DEF Recv, TypeOK, Item
<1>4. /\ answered[c] <= asked[c]
      /\ \A i \in 1..Len(s) :
           /\ s[i].no <= asked[c]
           /\ s[i].no = 0 => s[i] \in {Junk, Rest}
           /\ s[i].no # 0 => answered[c] < s[i].no /\ s[i].cmd # "rest"
      /\ \A i, j \in 1..Len(s) : i < j => s[i].no < s[j].no
  BY DEF InTurn
<1> HIDE DEF s
\* What is left keeps its order, and follows the head.
<1>5. \A i \in 1..Len(w) :
        w[i] \in {Junk, Rest} \/ \E j \in 2..Len(s) : w[i] = s[j]
  <2>1. CASE \E d \in 1..Len(s) :
               Len(w) = Len(s) - d /\ \A i \in 1..Len(w) : w[i] = s[i + d]
    <3>1. PICK d \in 1..Len(s) :
            Len(w) = Len(s) - d /\ \A i \in 1..Len(w) : w[i] = s[i + d]
      BY <2>1
    <3>2. \A i \in 1..Len(w) : i + d \in 2..Len(s)
      BY <1>3, <3>1
    <3> QED BY <3>1, <3>2
  <2>2. CASE \E d \in 0..Len(s) :
               /\ Len(w) = Len(s) - d /\ Len(w) >= 1 /\ w[1] \in {Junk, Rest}
               /\ \A i \in 2..Len(w) : w[i] = s[i + d]
    <3>1. PICK d \in 0..Len(s) :
            /\ Len(w) = Len(s) - d /\ Len(w) >= 1 /\ w[1] \in {Junk, Rest}
            /\ \A i \in 2..Len(w) : w[i] = s[i + d]
      BY <2>2
    <3>2. \A i \in 2..Len(w) : i + d \in 2..Len(s)
      BY <1>3, <3>1
    <3>3. \A i \in 1..Len(w) : i = 1 \/ i \in 2..Len(w)
      BY <1>3
    <3> QED BY <3>1, <3>2, <3>3
  <2> QED BY <1>1, <2>1, <2>2 DEF LeftOf, s
<1>6. \A i, j \in 1..Len(w) : i < j => w[i].no < w[j].no
  <2> SUFFICES ASSUME NEW i \in 1..Len(w), NEW j \in 1..Len(w), i < j
               PROVE  w[i].no < w[j].no
    OBVIOUS
  <2>1. CASE \E d \in 1..Len(s) :
               Len(w) = Len(s) - d /\ \A k \in 1..Len(w) : w[k] = s[k + d]
    <3>1. PICK d \in 1..Len(s) :
            Len(w) = Len(s) - d /\ \A k \in 1..Len(w) : w[k] = s[k + d]
      BY <2>1
    <3>2. i + d \in 1..Len(s) /\ j + d \in 1..Len(s) /\ i + d < j + d
      BY <1>3, <3>1
    <3> QED BY <1>4, <3>1, <3>2
  <2>2. CASE \E d \in 0..Len(s) :
               /\ Len(w) = Len(s) - d /\ Len(w) >= 1 /\ w[1] \in {Junk, Rest}
               /\ \A k \in 2..Len(w) : w[k] = s[k + d]
    <3>1. PICK d \in 0..Len(s) :
            /\ Len(w) = Len(s) - d /\ Len(w) >= 1 /\ w[1] \in {Junk, Rest}
            /\ \A k \in 2..Len(w) : w[k] = s[k + d]
      BY <2>2
    <3>2. j \in 2..Len(w) /\ j + d \in 2..Len(s)
      BY <1>3, <3>1
    <3>3. CASE i = 1
      <4>1. 1 \in 1..Len(s) /\ j + d \in 1..Len(s) /\ 1 < j + d
        BY <1>3, <3>2
      <4>2. s[1].no < s[j + d].no /\ s[1].no \in Nat /\ s[j + d].no \in Nat
        BY <1>3, <1>4, <4>1
      <4>3. w[i].no = 0 /\ w[j] = s[j + d]
        BY <3>1, <3>2, <3>3, JunkType
      <4> QED BY <4>2, <4>3
    <3>4. CASE i \in 2..Len(w)
      <4>1. i + d \in 1..Len(s) /\ j + d \in 1..Len(s) /\ i + d < j + d
        BY <1>3, <3>1, <3>2, <3>4
      <4> QED BY <1>4, <3>1, <3>2, <3>4, <4>1
    <3> QED BY <1>3, <3>3, <3>4
  <2> QED BY <1>1, <2>1, <2>2 DEF LeftOf, s
<1>7. Turn(c)'
  <2>1. pc'[c] \in {"delay", "status"} =>
          /\ r.no \in {0, s[1].no} /\ r.no <= asked[c]
          /\ r.no = 0 \/ answered[c] < r.no
    <3> SUFFICES ASSUME pc'[c] \in {"delay", "status"}
                 PROVE  /\ r.no \in {0, s[1].no} /\ r.no <= asked[c]
                        /\ r.no = 0 \/ answered[c] < r.no
      OBVIOUS
    <3>1. r.no \in {0, s[1].no} /\ 1 \in 1..Len(s)
      BY <1>1, <1>3, JunkType DEF s, Taken
    <3> QED BY <1>3, <1>4, <3>1
  <2>2. ASSUME NEW i \in 1..Len(w)
        PROVE  /\ w[i].no <= asked[c]
               /\ w[i].no = 0 => w[i] \in {Junk, Rest}
               /\ w[i].no # 0 => answered[c] < w[i].no /\ w[i].cmd # "rest"
               /\ w[i].no # 0 /\ pc'[c] \in {"delay", "status"} => r.no < w[i].no
    <3>1. CASE w[i] \in {Junk, Rest}
      BY <1>3, <3>1, JunkType
    <3>2. CASE \E j \in 2..Len(s) : w[i] = s[j]
      <4>1. PICK j \in 2..Len(s) : w[i] = s[j]
        BY <3>2
      <4>2. 1 \in 1..Len(s) /\ j \in 1..Len(s) /\ 1 < j
        BY <1>3
      <4>3. s[1].no < s[j].no /\ s[1].no \in Nat /\ s[j].no \in Nat
        BY <1>3, <1>4, <4>2
      <4> QED BY <1>4, <2>1, <4>1, <4>2, <4>3
    <3> QED BY <1>5, <3>1, <3>2
  <2>3. asked'[c] = asked[c] /\ answered'[c] = answered[c]
    BY <1>2
  <2> QED BY <1>2, <1>4, <1>6, <2>1, <2>2, <2>3 DEF Turn
<1> QED BY <1>2, <1>7, OthersInTurn

\* What is answered was at the front: all that waits was asked after it.
LEMMA SentTurn ==
  ASSUME TypeOK, InTurn, NEW c \in Conns, pc[c] \in {"delay", "status"},
         NEW to \in {"recv", "error"}, Sent(c, to), UNCHANGED <<wire, cur, asked>>
  PROVE  InTurn'
<1>1. /\ pc'[c] \notin {"delay", "status"}
      /\ answered'[c] \in {answered[c], cur[c].no}
      /\ \A d \in Conns : d # c => UNCHANGED <<asked[d], answered[d], wire[d], cur[d], pc[d]>>
  BY DEF Sent, Goto, TypeOK
<1>2. Turn(c)
  BY DEF InTurn, Turn
<1>3. Turn(c)'
  BY <1>1, <1>2 DEF Turn
<1> QED BY <1>1, <1>3, OthersInTurn

LEMMA StepTurn ==
  ASSUME TypeOK, Carried, InTurn, NEW c \in Conns, Send(c) \/ Leave(c) \/ Handler(c)
  PROVE  InTurn'
<1>1. ASSUME UNCHANGED <<asked, answered, wire, cur>>, NEW to, Goto(c, to),
             to \notin {"delay", "status"} \/ (pc[c] = "delay" /\ to = "status")
      PROVE  InTurn'
  <2>1. pc'[c] = to /\ \A d \in Conns : d # c => pc'[d] = pc[d]
    BY <1>1 DEF Goto, TypeOK
  <2>2. Turn(c)
    BY DEF InTurn, Turn
  <2>3. Turn(c)'
    BY <1>1, <2>1, <2>2, TurnKept
  <2> QED BY <1>1, <2>1, <2>3, OthersInTurn
<1>2. CASE Leave(c)
  BY <1>2 DEF Leave, InTurn
<1>3. CASE Enter(c) \/ EnterSession(c) \/ CountError(c) \/ LeaveSession(c) \/ CloseSocket(c)
             \/ RecvEnds(c)
  <2>1. \E to \in Places \ {"delay", "status"} : Goto(c, to)
    BY <1>3 DEF Enter, EnterSession, CountError, LeaveSession, CloseSocket, RecvEnds, Places
  <2>2. UNCHANGED <<asked, answered, wire, cur>>
    BY <1>3 DEF Enter, EnterSession, CountError, LeaveSession, CloseSocket, RecvEnds
  <2> QED BY <1>1, <2>1, <2>2
<1>4. CASE StatusConnections(c)
  BY <1>1, <1>4 DEF StatusConnections, Asked, At
<1>5. CASE ServeProfile(c) \/ ServeUnknown(c) \/ ServeRead(c) \/ ServeWrite(c) \/ StatusSessions(c)
  <2>1. UNCHANGED <<wire, cur, asked>> /\ pc[c] \in {"delay", "status"}
    BY <1>5 DEF ServeProfile, ServeUnknown, ServeRead, ServeWrite, StatusSessions, Asked, At
  <2>2. \/ Sent(c, "recv") \/ Sent(c, "error")
        \/ Goto(c, "failed") /\ UNCHANGED answered
    BY <1>5 DEF ServeProfile, ServeUnknown, ServeRead, ServeWrite, StatusSessions
  <2> QED BY <1>1, <2>1, <2>2, SentTurn
<1> QED BY <1>2, <1>3, <1>4, <1>5, SendTurn, RecvTurn DEF Handler

---------------------------------------------------------------------------
(* What is told beyond the answers.                                        *)

LEMMA OthersOwed ==
  ASSUME AllOwed, NEW c \in Conns, Owed(c)',
         \A d \in Conns : d # c => UNCHANGED <<strays[d], cuts[d], wire[d], cur[d], pc[d]>>
  PROVE  AllOwed'
<1> SUFFICES ASSUME NEW d \in Conns, d # c PROVE Owed(d)'
  BY DEF AllOwed
<1>1. Owed(d)
  BY DEF AllOwed
<1> QED BY <1>1 DEF Owed, Stray, Spare

\* A request that is sent is no rest.
LEMMA SendOwed ==
  ASSUME TypeOK, Carried, AllOwed, NEW c \in Conns, Send(c)
  PROVE  AllOwed'
<1>1. PICK r \in Valued : r.cmd # "rest" /\ wire' = [wire EXCEPT ![c] = Append(@, r)]
  BY SendTypes
<1>2. /\ wire'[c] = Append(wire[c], r) /\ wire[c] \in Seq(Valued) /\ Len(wire[c]) \in Nat
      /\ \A d \in Conns : d # c => wire'[d] = wire[d]
  BY <1>1, LenProperties DEF Carried
<1>3. /\ Len(wire'[c]) = Len(wire[c]) + 1
      /\ wire'[c][Len(wire[c]) + 1] = r
      /\ \A i \in 1..Len(wire[c]) : wire'[c][i] = wire[c][i]
  BY <1>1, <1>2, AppendProperties
<1>4. Spare(c)' => Spare(c)
  <2>1. CASE Len(wire[c]) = 0
    BY <1>1, <1>3, <2>1 DEF Spare
  <2>2. CASE Len(wire[c]) >= 1
    <3>1. 1 \in 1..Len(wire[c])
      BY <1>2, <2>2
    <3> QED BY <1>3, <2>2, <3>1 DEF Spare
  <2> QED BY <1>2, <2>1, <2>2
<1>5. /\ Stray(c)' = Stray(c) /\ strays[c] \in Nat /\ cuts[c] \in Nat
      /\ UNCHANGED <<strays, cuts, cur, pc>>
  BY DEF Stray, Send, TypeOK
<1>6. Owed(c)'
  <2>1. Owed(c)
    BY DEF AllOwed
  <2> QED BY <1>4, <1>5, <2>1 DEF Owed
<1> QED BY <1>2, <1>5, <1>6, OthersOwed

\* A rest is taken from the front as another one, of a new cut, takes its place.
LEMMA RecvOwed ==
  ASSUME TypeOK, Carried, InTurn, AllOwed, NEW c \in Conns, Recv(c)
  PROVE  AllOwed'
<1>1. PICK w, r \in Seq(Valued) \cup Valued, m \in {0, 1} :
        /\ wire' = [wire EXCEPT ![c] = w] /\ cur' = [cur EXCEPT ![c] = r]
        /\ w \in Seq(Valued) /\ r \in Valued
        /\ Taken(Head(wire[c]), r)
        /\ LeftOf(wire[c], w, m)
        /\ cuts' = [cuts EXCEPT ![c] = @ + m]
        /\ pc' = [pc EXCEPT ![c] = IF r.cmd = "junk" THEN "error" ELSE "delay"]
  BY RecvTakes
<1> DEFINE s == wire[c]
<1>2. /\ wire'[c] = w /\ cur'[c] = r /\ pc'[c] = (IF r.cmd = "junk" THEN "error" ELSE "delay")
      /\ cuts'[c] = cuts[c] + m /\ pc[c] = "recv"
      /\ \A d \in Conns : d # c => UNCHANGED <<strays[d], cuts[d], wire[d], cur[d], pc[d]>>
      /\ UNCHANGED strays /\ strays[c] \in Nat /\ cuts[c] \in Nat
  BY <1>1 DEF Recv, TypeOK, shared, At
<1>3. /\ Len(s) \in Nat /\ Len(s) >= 1 /\ Head(s) = s[1] /\ Len(w) \in Nat
      /\ \A i \in 1..Len(s) : s[i].no \in Nat
  <2>1. \A i \in 1..Len(s) : s[i] \in Item
    BY WireType DEF Valued
  <2> QED BY <1>1, <2>1, WireType, HeadIsFirst, LenProperties DEF Recv, Item
<1>4. /\ s[1].no = 0 => s[1] \in {Junk, Rest}
      /\ \A j \in 2..Len(s) : s[j].cmd # "rest"
  <2>1. 1 \in 1..Len(s)
    BY <1>3
  <2>2. \A j \in 2..Len(s) : j \in 1..Len(s) /\ s[1].no < s[j].no
    <3> SUFFICES ASSUME NEW j \in 2..Len(s) PROVE j \in 1..Len(s) /\ s[1].no < s[j].no
      OBVIOUS
    <3>1. j \in 1..Len(s) /\ 1 < j
      BY <1>3
    <3> QED BY <2>1, <3>1 DEF InTurn
  <2>3. \A j \in 2..Len(s) : s[j].no # 0
    BY <1>3, <2>1, <2>2
  <2> QED BY <2>1, <2>2, <2>3 DEF InTurn
<1>5. Stray(c)' => Spare(c)
  <2> SUFFICES ASSUME Stray(c)' PROVE Spare(c)
    OBVIOUS
  <2>1. r.cmd # "junk" /\ r.no = 0
    BY <1>2 DEF Stray
  <2>2. r = s[1] \/ (r.no = s[1].no /\ (s[1].cmd = "rest" \/ (s[1].cmd = "junk" /\ s[1] # Junk)))
    BY <1>1, <1>3, <2>1, JunkType DEF Taken
  <2>3. s[1].cmd = "rest"
    BY <1>4, <2>1, <2>2, JunkType
  <2> QED BY <1>3, <2>3 DEF Spare
<1> HIDE DEF s
<1>6. Spare(c)' => m = 1
  <2> SUFFICES ASSUME Len(w) >= 1, w[1].cmd = "rest", m # 1 PROVE FALSE
    BY <1>2 DEF Spare
  <2>1. CASE \E d \in 1..Len(s) :
               Len(w) = Len(s) - d /\ \A i \in 1..Len(w) : w[i] = s[i + d]
    <3>1. PICK d \in 1..Len(s) :
            Len(w) = Len(s) - d /\ \A i \in 1..Len(w) : w[i] = s[i + d]
      BY <2>1
    <3>2. 1 + d \in 2..Len(s) /\ w[1] = s[1 + d]
      BY <1>3, <3>1
    <3> QED BY <1>4, <3>2
  <2>2. CASE w[1] = Junk
    BY <2>2, JunkType
  <2> QED BY <1>1, <2>1, <2>2 DEF LeftOf, s
<1>7. Owed(c)'
  <2>1. Owed(c) /\ ~Stray(c)
    BY <1>2 DEF AllOwed, Stray
  <2> QED BY <1>2, <1>5, <1>6, <2>1 DEF Owed
<1> QED BY <1>2, <1>7, OthersOwed

LEMMA StepOwed ==
  ASSUME TypeOK, Carried, InTurn, AllOwed, NEW c \in Conns, Send(c) \/ Leave(c) \/ Handler(c)
  PROVE  AllOwed'
<1>1. ASSUME UNCHANGED <<strays, cuts, wire, cur>>, NEW to, Goto(c, to),
             to \notin {"delay", "status"} \/ pc[c] = "delay"
      PROVE  AllOwed'
  <2>1. pc'[c] = to /\ \A d \in Conns : d # c => pc'[d] = pc[d]
    BY <1>1 DEF Goto, TypeOK
  <2>2. (Stray(c)' => Stray(c)) /\ Spare(c)' = Spare(c) /\ strays[c] \in Nat /\ cuts[c] \in Nat
    BY <1>1, <2>1 DEF Stray, Spare, TypeOK
  <2>3. Owed(c)'
    <3>1. Owed(c)
      BY DEF AllOwed
    <3> QED BY <1>1, <2>2, <3>1 DEF Owed
  <2> QED BY <1>1, <2>1, <2>3, OthersOwed
<1>2. CASE Leave(c)
  BY <1>2 DEF Leave, AllOwed, Owed, Stray, Spare
<1>3. CASE \/ Enter(c) \/ EnterSession(c) \/ CountError(c) \/ LeaveSession(c) \/ CloseSocket(c)
           \/ RecvEnds(c) \/ StatusConnections(c)
  <2>1. \/ \E to \in Places \ {"delay", "status"} : Goto(c, to)
        \/ pc[c] = "delay" /\ Goto(c, "status")
    BY <1>3 DEF Enter, EnterSession, CountError, LeaveSession, CloseSocket, RecvEnds,
                StatusConnections, Asked, At, Places
  <2>2. UNCHANGED <<strays, cuts, wire, cur>>
    BY <1>3 DEF Enter, EnterSession, CountError, LeaveSession, CloseSocket, RecvEnds,
                StatusConnections
  <2> QED BY <1>1, <2>1, <2>2
\* An answer to a rest is one told beyond the answers, and no longer about to be.
<1>4. ASSUME NEW to \in {"recv", "error"}, Sent(c, to), UNCHANGED <<wire, cur, cuts>>,
             pc[c] \in {"delay", "status"}
      PROVE  AllOwed'
  <2>1. /\ pc'[c] \notin {"delay", "status"}
        /\ \A d \in Conns : d # c => UNCHANGED <<strays[d], cuts[d], wire[d], cur[d], pc[d]>>
        /\ strays'[c] = strays[c] \/ (cur[c].no = 0 /\ strays'[c] = strays[c] + 1)
        /\ strays[c] \in Nat /\ cuts[c] \in Nat
    BY <1>4 DEF Sent, Goto, TypeOK
  <2>2. ~Stray(c)' /\ Spare(c)' = Spare(c)
    BY <1>4, <2>1 DEF Stray, Spare
  <2>3. Owed(c)'
    <3>1. Owed(c)
      BY DEF AllOwed
    <3>2. cur[c].no = 0 => Stray(c)
      BY <1>4 DEF Stray
    <3> QED BY <1>4, <2>1, <2>2, <3>1, <3>2 DEF Owed
  <2> QED BY <2>1, <2>3, OthersOwed
<1>5. CASE ServeProfile(c) \/ ServeUnknown(c) \/ ServeRead(c) \/ ServeWrite(c) \/ StatusSessions(c)
  <2>1. UNCHANGED <<wire, cur, cuts>> /\ pc[c] \in {"delay", "status"}
    BY <1>5 DEF ServeProfile, ServeUnknown, ServeRead, ServeWrite, StatusSessions, Asked, At
  <2>2. \/ Sent(c, "recv") \/ Sent(c, "error")
        \/ Goto(c, "failed") /\ UNCHANGED strays
    BY <1>5 DEF ServeProfile, ServeUnknown, ServeRead, ServeWrite, StatusSessions
  <2> QED BY <1>1, <1>4, <2>1, <2>2
<1> QED BY <1>2, <1>3, <1>5, SendOwed, RecvOwed DEF Handler

---------------------------------------------------------------------------
(* The results.                                                            *)

LEMMA InitInv == Init => IInv
<1> SUFFICES ASSUME Init PROVE IInv
  OBVIOUS
<1>1. TypeOK /\ Carried
  BY InitTypes
<1>2. /\ connection_count = 0 /\ active_sessions = 0 /\ \A c \in Conns : pc[c] = "start"
      /\ \A c \in Conns : cid[c] = 0 /\ told[c].conns = 0 /\ answered[c] = 0 /\ asked[c] = 0
      /\ \A c \in Conns : wire[c] = <<>> /\ peer[c] = "open"
      /\ \A t \in Tags : tags[t] = "plain"
  BY DEF Init
<1>3. Inside = {} /\ Made = {}
  BY <1>2 DEF Inside, Made
<1>4. CountersExact
  BY <1>2, <1>3, FS_EmptySet DEF CountersExact, Made
<1>5. Counted /\ Strained /\ CutOffOnlyForValues
  BY <1>2 DEF Counted, Strained, CutOffOnlyForValues, At
<1>6. \A c \in Conns : Len(wire[c]) = 0
  BY <1>2, EmptySeq
<1>7. InTurn
  BY <1>2, <1>6 DEF InTurn
<1>8. AllOwed
  BY <1>2, <1>6 DEF Init, AllOwed, Owed, Stray, Spare
<1> QED BY <1>1, <1>4, <1>5, <1>7, <1>8 DEF IInv

LEMMA LeaveTypes ==
  ASSUME TypeOK, Carried, NEW c \in Conns, Leave(c)
  PROVE  TypeOK' /\ Carried'
<1>1. peer' \in [Conns -> {"open", "closed", "reset"}] /\ pc' \in [Conns -> Places]
  BY DEF Leave, TypeOK, Places
<1>2. UNCHANGED <<shared, pc, wire, cur, cid, told, asked, answered, cuts, strays>>
  BY DEF Leave
<1>3. /\ connection_count \in Nat /\ active_sessions \in Nat /\ error_count \in Nat
      /\ cid \in [Conns -> Nat] /\ told \in [Conns -> [conns : Nat, active : Nat]]
      /\ asked \in [Conns -> Nat] /\ answered \in [Conns -> Nat]
      /\ cuts \in [Conns -> Nat] /\ strays \in [Conns -> Nat]
  BY DEF TypeOK
<1> QED BY <1>1, <1>2, <1>3, PlainTypes DEF shared

LEMMA NextInv ==
  ASSUME IInv, [Next]_vars
  PROVE  IInv'
<1>1. CASE UNCHANGED vars
  <2>1. TypeOK' /\ Carried' /\ InTurn'
    BY <1>1 DEF vars, shared, IInv, TypeOK, Carried, InTurn
  <2>4. AllOwed'
    BY <1>1 DEF vars, IInv, AllOwed, Owed, Stray, Spare
  <2>2. CountersExact' /\ Counted'
    BY <1>1, CountersKept DEF vars, shared, IInv
  <2>3. Strained' /\ CutOffOnlyForValues'
    BY <1>1 DEF vars, shared, IInv, Strained, CutOffOnlyForValues, WriteFails
  <2> QED BY <2>1, <2>2, <2>3, <2>4 DEF IInv
<1>2. ASSUME NEW c \in Conns, Send(c) \/ Leave(c) \/ Handler(c) PROVE IInv'
  <2>1. TypeOK' /\ Carried'
    BY <1>2, SendTypes, LeaveTypes, HandlerTypes DEF IInv
  <2>2. CountersExact' /\ Counted'
    <3>1. CASE Send(c) \/ Leave(c)
      <4>1. UNCHANGED <<connection_count, active_sessions, cid, told, pc>>
        BY <3>1 DEF Send, Leave, shared
      <4> QED BY <4>1, CountersKept DEF IInv
    <3>2. CASE Handler(c)
      BY <2>1, <3>2, HandlerCounters DEF IInv
    <3> QED BY <1>2, <3>1, <3>2
  <2>3. Strained'
    BY <1>2, StrainedKept DEF IInv
  <2>4. CutOffOnlyForValues'
    BY <1>2, StepCutOff DEF IInv
  <2>5. InTurn'
    BY <1>2, StepTurn DEF IInv
  <2>6. AllOwed'
    BY <1>2, StepOwed DEF IInv
  <2> QED BY <2>1, <2>2, <2>3, <2>4, <2>5, <2>6 DEF IInv
<1> QED BY <1>1, <1>2 DEF Next

\* The threads, the tags and the counters keep to what the results below rest on.
THEOREM Inductive == Spec => []IInv
<1>1. IInv /\ [Next]_vars => IInv'
  BY NextInv
<1> QED BY InitInv, <1>1, PTL DEF Spec

\* The shared state keeps its types, and every tag a value of its own, whoever writes it.
THEOREM TypeCorrect == Spec => []TypeOK
<1>1. IInv => TypeOK
  BY DEF IInv
<1> QED BY <1>1, Inductive, PTL

\* For any number of connections the counters are exact however the handlers end, and a
\* status answer, read without the lock, names what was so at some time since it came in.
THEOREM CountersAgree == Spec => []CountersExact
<1>1. IInv => CountersExact
  BY DEF IInv
<1> QED BY <1>1, Inductive, PTL

\* Whatever is sent, cut and joined, by however many clients: one that stays is cut off
\* for a value that cannot be stored or told, and for nothing else.
THEOREM OnlyValuesCutOff == Spec => []CutOffOnlyForValues
<1>1. IInv => CutOffOnlyForValues
  BY DEF IInv
<1> QED BY <1>1, Inductive, PTL

---------------------------------------------------------------------------
(* The emulator implements the Dialogue.                                   *)

LEMMA TalkHandler ==
  ASSUME IInv, NEW c \in Conns, Handler(c)
  PROVE  [Talk!Next]_<<asked, answered, open>>
<1>1. pc \in [Conns -> Places] /\ answered \in [Conns -> Nat] /\ asked \in [Conns -> Nat]
  BY DEF IInv, TypeOK, Places
<1>2. asked' = asked
  BY DEF Handler, Enter, EnterSession, CountError, LeaveSession, CloseSocket, Recv, RecvEnds,
         ServeProfile, ServeUnknown, StatusConnections, StatusSessions, ServeRead, ServeWrite
<1>3. CASE CloseSocket(c)
  <2>1. pc[c] = "close" /\ pc' = [pc EXCEPT ![c] = "done"] /\ answered' = answered
    BY <1>3 DEF CloseSocket, At, Goto
  <2>2. open[c] /\ ~open'[c] /\ open' \in [Conns -> BOOLEAN]
    BY <1>1, <2>1 DEF open
  <2>3. \A d \in Conns : open'[d] => open[d]
    BY <1>1, <2>1 DEF open
  <2>4. Talk!Close
    BY <1>2, <2>1, <2>2, <2>3 DEF Talk!Close
  <2> QED BY <2>4 DEF Talk!Next
<1>4. ASSUME NEW to \in Places \ {"done"}, Goto(c, to), pc[c] # "done" PROVE open' = open
  <2>1. \A d \in Conns : (pc'[d] # "done") = (pc[d] # "done")
    BY <1>1, <1>4 DEF Goto
  <2> QED BY <2>1 DEF open
<1>5. CASE Enter(c) \/ EnterSession(c) \/ CountError(c) \/ LeaveSession(c) \/ Recv(c) \/ RecvEnds(c)
             \/ StatusConnections(c)
  <2>1. /\ \E to \in Places \ {"done"} : Goto(c, to)
        /\ pc[c] # "done" /\ answered' = answered
    BY <1>5 DEF Enter, EnterSession, CountError, LeaveSession, Recv, RecvEnds, StatusConnections,
                Asked, At, Places
  <2> QED BY <1>2, <1>4, <2>1
<1>6. CASE ServeProfile(c) \/ ServeUnknown(c) \/ ServeRead(c) \/ ServeWrite(c) \/ StatusSessions(c)
  <2>1. /\ pc[c] \in {"delay", "status"}
        /\ \/ answered' = answered
           \/ /\ cur[c].no # 0
              /\ answered' = [answered EXCEPT ![c] = cur[c].no]
        /\ \E to \in {"recv", "error", "failed", "leave"} : Goto(c, to)
    <3>1. ASSUME NEW where \in {"recv", "error"}, Sent(c, where)
          PROVE  /\ \/ answered' = answered
                    \/ /\ cur[c].no # 0
                       /\ answered' = [answered EXCEPT ![c] = cur[c].no]
                 /\ \E to \in {"recv", "error", "failed", "leave"} : Goto(c, to)
      BY <3>1 DEF Sent
    <3>2. CASE ServeProfile(c) \/ ServeUnknown(c) \/ StatusSessions(c)
      BY <3>1, <3>2 DEF ServeProfile, ServeUnknown, StatusSessions, Asked, At
    <3>3. CASE ServeRead(c)
      BY <3>1, <3>3 DEF ServeRead, Asked, At
    <3>4. CASE ServeWrite(c)
      BY <3>1, <3>4 DEF ServeWrite, Asked, At
    <3> QED BY <1>6, <3>2, <3>3, <3>4
  <2>2. open' = open
    BY <1>4, <2>1 DEF Places
  <2>3. CASE answered' = answered
    BY <1>2, <2>2, <2>3
  <2>4. CASE cur[c].no # 0 /\ answered' = [answered EXCEPT ![c] = cur[c].no]
    <3>1. answered[c] < cur[c].no /\ cur[c].no <= asked[c] /\ cur[c].no \in Nat
      BY <2>1, <2>4 DEF IInv, InTurn, TypeOK, Item
    <3>2. cur[c].no \in (answered[c] + 1)..asked[c]
      BY <1>1, <3>1
    <3>3. open[c]
      BY <2>1 DEF open
    <3>4. Talk!Answer(c)
      BY <1>2, <2>2, <2>4, <3>2, <3>3 DEF Talk!Answer
    <3> QED BY <3>4 DEF Talk!Next
  <2> QED BY <2>1, <2>3, <2>4
<1> QED BY <1>3, <1>5, <1>6 DEF Handler

LEMMA TalkNext ==
  ASSUME IInv, [Next]_vars
  PROVE  [Talk!Next]_<<asked, answered, open>>
<1>1. CASE UNCHANGED vars
  BY <1>1 DEF vars, open
<1>2. ASSUME NEW c \in Conns, Send(c) PROVE Talk!Next
  <2>1. Talk!Ask(c)
    BY <1>2 DEF Send, Talk!Ask, open
  <2> QED BY <2>1 DEF Talk!Next
<1>3. ASSUME NEW c \in Conns, Leave(c) PROVE UNCHANGED <<asked, answered, open>>
  BY <1>3 DEF Leave, open
<1> QED BY <1>1, <1>2, <1>3, TalkHandler DEF Next

\* Whatever the rests of requests are taken for, however often they are cut again or
\* joined with what follows, a client is told at most one thing a cut beyond the answers
\* to its requests.
THEOREM StraysBounded == Spec => []StraysFromCuts
<1>1. IInv => StraysFromCuts
  <2> SUFFICES ASSUME IInv, NEW c \in Conns PROVE strays[c] <= cuts[c]
    BY DEF StraysFromCuts
  <2>1. Owed(c) /\ strays[c] \in Nat /\ cuts[c] \in Nat
    BY DEF IInv, AllOwed, TypeOK
  <2>2. CASE Stray(c)
    BY <2>1, <2>2 DEF Owed
  <2>3. CASE ~Stray(c)
    BY <2>1, <2>3 DEF Owed
  <2> QED BY <2>2, <2>3
<1> QED BY <1>1, Inductive, PTL

\* The emulator implements the Dialogue: however requests are cut and joined, and whatever
\* rests are answered in between, a request is answered once at most, and in its turn.
THEOREM RequestsInTurn == Spec => AnswersInTurn
<1>1. Init => Talk!Init
  BY DEF Init, Talk!Init, open
<1>2. IInv /\ [Next]_vars => [Talk!Next]_<<asked, answered, open>>
  BY TalkNext
<1> QED BY <1>1, <1>2, Inductive, PTL DEF Spec, AnswersInTurn, Talk!Spec
===========================================================================
