---------------------------- MODULE GeSrtp_proofs ---------------------------
(***************************************************************************)
(* Proofs about GeSrtp, for every set of connections and addresses, every  *)
(* reuse of addresses by connections, every packet and every PLC.          *)
(***************************************************************************)
EXTENDS GeSrtp, SequenceTheorems, TLAPS

---------------------------------------------------------------------------
(* The inductive invariant.                                                *)

Carried == UNION {Packets[c] : c \in Conns}

\* What is read, answered and still waiting add up.
InStep ==
  /\ inbox \in [Conns -> Seq(Carried)]
  /\ \A c \in Conns :
       /\ read[c] + Len(inbox[c]) <= asked[c]
       /\ pc[c] \in {"none", "start", "init", "req"} => read[c] = answered[c]
       /\ pc[c] \in {"none", "start"} => read[c] = 0
       /\ pc[c] \in {"ack", "answer"} => read[c] = answered[c] + 1

\* A connection nobody serves yet has touched nothing.
Fresh ==
  /\ DOMAIN reply = Conns
  /\ \A c \in Conns :
       /\ peer[c] = "none" => pc[c] = "none"
       /\ pc[c] \in {"none", "start"} => entry[c] = NewEntry /\ reply[c].since = 0

\* An entry is held by handlers of its own address, by another than its maker only
\* when the two ran side by side.
Held ==
  \A d \in Conns : ref[d] # 0 =>
    /\ addr[ref[d]] = addr[d] /\ pc[ref[d]] \notin {"none", "start"}
    /\ ref[d] # d => d \in overlap /\ ref[d] \in overlap

Listed == \A a \in Addrs : table[a] # 0 => Live(table[a]) /\ addr[table[a]] = a

Alone ==
  \A c, d \in Conns : c \notin overlap /\ Live(c) /\ Live(d) /\ addr[c] = addr[d] => c = d

\* What a handler that was always alone on its address finds.
Own(c) ==
  /\ table[addr[c]] = c /\ ref[c] = c
  /\ reply[c].since \in {0, c}
  /\ entry[c].sent = answered[c]
  /\ entry[c].received - entry[c].sent \in
       CASE pc[c] \in {"init", "req"} -> {0}
         [] pc[c] \in {"ack", "answer"} -> {1}
         [] OTHER -> {0, 1}
  /\ entry[c].init_state = "completed" <=> entry[c].received > 0
  /\ pc[c] \in {"ack", "req", "answer"} => entry[c].init_state = "completed"

Owns == \A c \in Conns \ overlap : Live(c) => Own(c)

Shared == Held /\ Listed /\ Alone
IInv == TypeOK /\ InStep /\ Fresh /\ Shared /\ Owns

---------------------------------------------------------------------------
LEMMA NoZero == 0 \notin Conns /\ Conns \subseteq Nat
BY ConnsAssumption

LEMMA NewEntryType == NewEntry \in Entries
BY DEF NewEntry, Entries

LEMMA InitInv == Init => IInv
<1> SUFFICES ASSUME Init PROVE IInv
  OBVIOUS
<1> USE DEF Init
<1>1. \A c \in Conns : pc[c] = "none" /\ ref[c] = 0 /\ ~Live(c)
  BY DEF Live
<1>2. TypeOK
  <2>1. addr \in [Conns -> Addrs]
    BY ConnsAssumption
  <2> QED BY <1>1, <2>1, NewEntryType DEF TypeOK, Places
<1>3. InStep
  <2>1. inbox \in [Conns -> Seq(Carried)]
    BY EmptySeq
  <2> SUFFICES ASSUME NEW c \in Conns
               PROVE  read[c] + Len(inbox[c]) <= asked[c] /\ read[c] = answered[c] /\ read[c] = 0
    BY <1>1, <2>1 DEF InStep
  <2>2. read[c] = 0 /\ answered[c] = 0 /\ asked[c] = 0 /\ inbox[c] = <<>>
    OBVIOUS
  <2>3. Len(inbox[c]) = 0
    BY <2>2, EmptySeq
  <2>4. 0 + 0 <= 0
    OBVIOUS
  <2> QED BY <2>2, <2>3, <2>4
<1>4. Fresh
  BY DEF Fresh, NoReply
<1>5. Shared /\ Owns
  BY <1>1 DEF Shared, Held, Listed, Alone, Owns
<1> QED BY <1>2, <1>3, <1>4, <1>5 DEF IInv

---------------------------------------------------------------------------
(* The steps of clients and of the accept loop.                            *)

\* A client changes nothing that the handlers share.
LEMMA ClientInv ==
  ASSUME IInv,
         UNCHANGED <<up, table, entry, addr, pc, ref, cur, read, answered, reply, overlap>>,
         peer' \in [Conns -> {"none", "open", "shut", "reset"}],
         \A c \in Conns : peer'[c] = "none" => peer[c] = "none",
         asked' \in [Conns -> Nat],
         inbox' \in [Conns -> Seq(Carried)],
         \A c \in Conns : read[c] + Len(inbox'[c]) <= asked'[c]
  PROVE  IInv'
<1> USE DEF IInv
<1>1. TypeOK'
  BY DEF TypeOK
<1>2. InStep'
  BY DEF InStep
<1>3. Fresh' /\ Shared' /\ Owns'
  BY DEF Fresh, Shared, Held, Listed, Alone, Owns, Own, Live
<1> QED BY <1>1, <1>2, <1>3

LEMMA SendInv ==
  ASSUME IInv, NEW c \in Conns, Send(c)
  PROVE  IInv'
<1> USE DEF IInv
<1>1. PICK p \in Packets[c] : inbox' = [inbox EXCEPT ![c] = Append(@, p)]
  BY DEF Send
<1>2. p \in Carried
  BY DEF Carried
<1>3. inbox \in [Conns -> Seq(Carried)] /\ asked \in [Conns -> Nat] /\ read \in [Conns -> Nat]
      /\ asked' = [asked EXCEPT ![c] = @ + 1]
  BY DEF InStep, TypeOK, Send
<1>4. Append(inbox[c], p) \in Seq(Carried) /\ Len(Append(inbox[c], p)) = Len(inbox[c]) + 1
  BY <1>2, <1>3, AppendProperties
<1>5. inbox' \in [Conns -> Seq(Carried)] /\ asked' \in [Conns -> Nat]
  BY <1>1, <1>3, <1>4
<1>6. ASSUME NEW d \in Conns PROVE read[d] + Len(inbox'[d]) <= asked'[d]
  <2>1. read[d] + Len(inbox[d]) <= asked[d] /\ Len(inbox[d]) \in Nat
    BY <1>3, LenProperties DEF InStep
  <2>2. \/ inbox'[d] = inbox[d] /\ asked'[d] = asked[d]
        \/ Len(inbox'[d]) = Len(inbox[d]) + 1 /\ asked'[d] = asked[d] + 1
    BY <1>1, <1>3, <1>4
  <2> QED BY <1>3, <2>1, <2>2
<1>7. UNCHANGED <<up, table, entry, peer, addr, pc, ref, cur, read, answered, reply, overlap>>
  BY DEF Send
<1>8. peer' \in [Conns -> {"none", "open", "shut", "reset"}]
  BY <1>7 DEF TypeOK
<1> QED BY <1>5, <1>6, <1>7, <1>8, ClientInv

LEMMA LeaveInv ==
  ASSUME IInv, NEW c \in Conns, Shut(c) \/ Reset(c)
  PROVE  IInv'
<1> USE DEF IInv
<1>1. UNCHANGED <<up, table, entry, addr, pc, ref, cur, asked, read, answered, reply, overlap>>
  BY DEF Shut, Reset
<1>2. peer' \in [Conns -> {"none", "open", "shut", "reset"}] /\ asked' \in [Conns -> Nat]
  BY <1>1 DEF Shut, Reset, TypeOK
<1>3. inbox \in [Conns -> Seq(Carried)] /\ read \in [Conns -> Nat] /\ asked \in [Conns -> Nat]
  BY DEF InStep, TypeOK
<1>4. inbox' = inbox \/ inbox' = [inbox EXCEPT ![c] = <<>>]
  BY DEF Shut, Reset
<1>5. inbox' \in [Conns -> Seq(Carried)]
  BY <1>3, <1>4, EmptySeq
<1>6. ASSUME NEW d \in Conns PROVE read[d] + Len(inbox'[d]) <= asked'[d]
  <2>1. read[d] + Len(inbox[d]) <= asked[d] /\ Len(inbox[d]) \in Nat
    BY <1>3, LenProperties DEF InStep
  <2>2. inbox'[d] = inbox[d] \/ Len(inbox'[d]) = 0
    BY <1>3, <1>4, EmptySeq
  <2> QED BY <1>1, <1>3, <2>1, <2>2
<1>7. \A d \in Conns : peer'[d] = "none" => peer[d] = "none"
  BY DEF Shut, Reset, TypeOK
<1> QED BY <1>1, <1>2, <1>5, <1>6, <1>7, ClientInv

LEMMA ConnectInv ==
  ASSUME IInv, NEW c \in Conns, Connect(c)
  PROVE  IInv'
<1> USE DEF IInv
<1>1. /\ pc' = [pc EXCEPT ![c] = "start"]
      /\ peer' = [peer EXCEPT ![c] = "open"]
      /\ UNCHANGED <<up, table, entry, addr, ref, cur, inbox, asked, read, answered, reply, overlap>>
      /\ pc[c] = "none"
  BY DEF Connect, Fresh
<1>2. TypeOK'
  BY <1>1 DEF TypeOK, Places
<1>3. \A d \in Conns : Live(d)' = Live(d)
  BY <1>1 DEF TypeOK, Live
<1>4. \A d \in Conns : \/ pc'[d] = pc[d]
                       \/ d = c /\ pc[d] = "none" /\ pc'[d] = "start"
  BY <1>1 DEF TypeOK
<1>5. InStep'
  BY <1>1, <1>4 DEF InStep
<1>6. Fresh'
  <2>1. \A d \in Conns : peer'[d] = "none" => peer[d] = "none" /\ d # c
    BY <1>1 DEF TypeOK
  <2> QED BY <1>1, <1>4, <2>1 DEF Fresh
<1>7. Shared'
  <2>1. Held'
    BY <1>1, <1>4, NoZero DEF Shared, Held, TypeOK
  <2>2. Listed'
    BY <1>1, <1>3 DEF Shared, Listed, TypeOK
  <2>3. Alone'
    BY <1>1, <1>3 DEF Shared, Alone
  <2> QED BY <2>1, <2>2, <2>3 DEF Shared
<1>8. Owns'
  <2> SUFFICES ASSUME NEW d \in Conns \ overlap, Live(d) PROVE Own(d)'
    BY <1>1, <1>3 DEF Owns
  <2>1. pc'[d] = pc[d]
    BY <1>4 DEF Live
  <2> QED BY <1>1, <2>1 DEF Owns, Own
<1> QED BY <1>2, <1>5, <1>6, <1>7, <1>8

\* The end of the process leaves nothing to be shared.
LEMMA StopInv ==
  ASSUME IInv, Stop
  PROVE  IInv'
<1> USE DEF IInv, Stop
<1>1. \A c \in Conns : pc'[c] = "done" /\ ref'[c] = 0 /\ ~Live(c)'
  BY DEF Live
<1>2. TypeOK'
  BY <1>1, NewEntryType DEF TypeOK, Places
<1>3. InStep'
  <2>1. inbox' \in [Conns -> Seq(Carried)]
    BY EmptySeq
  <2>2. ASSUME NEW c \in Conns PROVE read'[c] + Len(inbox'[c]) <= asked'[c]
    <3>1. inbox'[c] = <<>> /\ read'[c] = read[c] /\ asked'[c] = asked[c]
      OBVIOUS
    <3>2. Len(inbox'[c]) = 0
      BY <3>1, EmptySeq
    <3>3. /\ read[c] + Len(inbox[c]) <= asked[c] /\ Len(inbox[c]) \in Nat
          /\ read[c] \in Nat /\ asked[c] \in Nat
      BY LenProperties DEF InStep, TypeOK
    <3> QED BY <3>1, <3>2, <3>3
  <2> QED BY <1>1, <2>1, <2>2 DEF InStep
<1>4. Fresh'
  BY <1>1 DEF Fresh
<1>5. Shared'
  BY <1>1 DEF Shared, Held, Listed, Alone
<1>6. Owns'
  BY <1>1 DEF Owns
<1> QED BY <1>2, <1>3, <1>4, <1>5, <1>6

---------------------------------------------------------------------------
(* The steps of a handler.                                                 *)

\* A handler that moves on leaves what the handlers share as it is.
LEMMA MoveShared ==
  ASSUME TypeOK, Shared, NEW c \in Conns, Live(c),
         UNCHANGED <<table, ref, addr, overlap>>,
         NEW there \in Places, there \notin {"none", "start", "done"},
         pc' = [pc EXCEPT ![c] = there]
  PROVE  Shared'
<1>1. \A d \in Conns : Live(d)' = Live(d) /\ (pc'[d] \in {"none", "start"} => pc[d] \in {"none", "start"})
  BY DEF TypeOK, Live
<1>2. Held'
  BY <1>1, NoZero DEF Shared, Held, TypeOK
<1>3. Listed'
  BY <1>1 DEF Shared, Listed, TypeOK
<1>4. Alone'
  BY <1>1 DEF Shared, Alone
<1> QED BY <1>2, <1>3, <1>4 DEF Shared

\* One whose client is gone goes to close its socket, and from there on.
LEMMA MoveInv ==
  ASSUME IInv, NEW c \in Conns, ShortRead(c) \/ Close(c)
  PROVE  IInv'
<1> USE DEF IInv
<1>1. /\ UNCHANGED <<up, table, entry, ref, cur, read, answered, reply, overlap, peer, addr, inbox, asked>>
      /\ \/ pc[c] \in {"init", "req"} /\ pc' = [pc EXCEPT ![c] = "close"]
         \/ pc[c] = "close" /\ pc' = [pc EXCEPT ![c] = "remove"]
  BY DEF ShortRead, Close, Goto, client
<1>2. PICK there \in {"close", "remove"} : pc' = [pc EXCEPT ![c] = there]
  BY <1>1
<1>3. TypeOK'
  BY <1>1, <1>2 DEF TypeOK, Places
<1>4. \A d \in Conns : \/ pc'[d] = pc[d]
                       \/ d = c /\ pc'[d] \in {"close", "remove"}
  BY <1>2 DEF TypeOK
<1>5. InStep'
  BY <1>1, <1>4 DEF InStep
<1>6. Fresh'
  BY <1>1, <1>4 DEF Fresh
<1>7. Live(c)
  BY <1>1 DEF Live
<1>8. Shared'
  BY <1>1, <1>2, <1>7, MoveShared DEF Places
<1>9. Owns'
  <2> SUFFICES ASSUME NEW d \in Conns \ overlap, Live(d)' PROVE Own(d)'
    BY <1>1 DEF Owns
  <2>1. Live(d)
    BY <1>4, <1>7 DEF Live
  <2>2. Own(d)
    BY <2>1 DEF Owns
  <2>3. CASE pc'[d] = pc[d]
    BY <1>1, <2>2, <2>3 DEF Own
  <2>4. CASE d = c /\ pc'[d] \in {"close", "remove"}
    <3>1. pc[d] \in {"init", "req", "close"}
      BY <1>1, <2>4
    <3>2. entry[d].received - entry[d].sent \in {0, 1}
      BY <2>2, <3>1 DEF Own
    <3> QED BY <1>1, <2>2, <2>4, <3>2 DEF Own
  <2> QED BY <1>4, <2>3, <2>4
<1> QED BY <1>3, <1>5, <1>6, <1>8, <1>9

\* A thread that starts finds an entry only when another handler of its address runs;
\* otherwise it makes its own.
LEMMA TrackInv ==
  ASSUME IInv, NEW c \in Conns, track_connection(c)
  PROVE  IInv'
<1> USE DEF IInv
<1> DEFINE a == addr[c]
<1> DEFINE beside == {d \in Conns : Live(d) /\ addr[d] = a}
<1>1. /\ up /\ pc[c] = "start" /\ pc' = [pc EXCEPT ![c] = "init"]
      /\ table' = [table EXCEPT ![a] = IF @ = 0 THEN c ELSE @]
      /\ ref' = [ref EXCEPT ![c] = table'[a]]
      /\ overlap' = IF beside = {} THEN overlap ELSE overlap \cup beside \cup {c}
      /\ UNCHANGED <<up, entry, cur, read, answered, reply, peer, addr, inbox, asked>>
  BY DEF track_connection, Goto, client
<1>2. a \in Addrs /\ table[a] \in Conns \cup {0} /\ ~Live(c)
  BY <1>1 DEF TypeOK, Live
<1>3. table[a] # 0 => table[a] \in beside
  BY <1>2, NoZero DEF Shared, Listed
<1>4. table'[a] \in Conns /\ (table[a] = 0 => table'[a] = c) /\ (table[a] # 0 => table'[a] = table[a])
  BY <1>1, <1>2 DEF TypeOK
<1>5. \A d \in Conns : \/ d # c /\ pc'[d] = pc[d] /\ Live(d)' = Live(d) /\ ref'[d] = ref[d]
                       \/ d = c /\ pc'[d] = "init" /\ Live(d)' /\ ref'[d] = table'[a]
  BY <1>1 DEF TypeOK, Live
<1>6. \A b \in Addrs : b # a => table'[b] = table[b]
  BY <1>1 DEF TypeOK
<1>7. overlap \subseteq overlap' /\ (beside # {} => c \in overlap' /\ beside \subseteq overlap')
  BY <1>1
<1> HIDE DEF beside
<1>8. TypeOK'
  <2>1. table' \in [Addrs -> Conns \cup {0}] /\ ref' \in [Conns -> Conns \cup {0}]
        /\ pc' \in [Conns -> Places] /\ overlap' \subseteq Conns
    BY <1>1, <1>2, <1>4 DEF TypeOK, Places, beside
  <2>2. \A d \in Conns : pc'[d] \in {"init", "ack", "req", "answer"} => ref'[d] \in Conns
    BY <1>4, <1>5 DEF TypeOK
  <2> QED BY <1>1, <2>1, <2>2 DEF TypeOK
<1>9. InStep'
  BY <1>1, <1>5 DEF InStep
<1>10. Fresh'
  BY <1>1, <1>5 DEF Fresh
<1>11. Shared'
  <2>1. Held'
    <3> SUFFICES ASSUME NEW d \in Conns, ref'[d] # 0
                 PROVE  /\ addr[ref'[d]] = addr[d] /\ pc'[ref'[d]] \notin {"none", "start"}
                        /\ ref'[d] # d => d \in overlap' /\ ref'[d] \in overlap'
      BY <1>1 DEF Held
    <3>1. CASE d # c
      <4>1. ref'[d] = ref[d] /\ ref[d] \in Conns
        BY <1>5, <3>1 DEF TypeOK
      <4> QED BY <1>5, <1>7, <3>1, <4>1 DEF Shared, Held
    <3>2. CASE d = c /\ table[a] = 0
      BY <1>4, <1>5, <3>2
    <3>3. CASE d = c /\ table[a] # 0
      <4>1. ref'[d] = table[a] /\ table[a] \in beside /\ table[a] \in Conns
        BY <1>2, <1>3, <1>4, <1>5, <3>3
      <4>2. addr[table[a]] = a /\ Live(table[a])
        BY <1>2, <3>3 DEF Shared, Listed
      <4>3. pc'[table[a]] \notin {"none", "start"}
        BY <1>2, <1>5, <4>1, <4>2 DEF Live
      <4> QED BY <1>7, <3>3, <4>1, <4>2, <4>3
    <3> QED BY <3>1, <3>2, <3>3
  <2>2. Listed'
    <3> SUFFICES ASSUME NEW b \in Addrs, table'[b] # 0
                 PROVE  pc'[table'[b]] \notin {"none", "start", "done"} /\ addr[table'[b]] = b
      BY <1>1 DEF Listed, Live
    <3>1. CASE b = a /\ table[a] = 0
      BY <1>4, <1>5, <3>1 DEF Live
    <3>2. CASE b # a \/ table[a] # 0
      <4>1. table'[b] = table[b] /\ table[b] \in Conns
        BY <1>4, <1>6, <3>2 DEF TypeOK
      <4>2. Live(table[b]) /\ addr[table[b]] = b
        BY <4>1, NoZero DEF Shared, Listed
      <4> QED BY <1>2, <1>5, <4>1, <4>2 DEF Live
    <3> QED BY <3>1, <3>2
  <2>3. Alone'
    <3> SUFFICES ASSUME NEW d \in Conns, NEW e \in Conns, d \notin overlap', Live(d)', Live(e)',
                        addr[d] = addr[e]
                 PROVE  d = e
      BY <1>1 DEF Alone
    <3>1. CASE d # c /\ e # c
      BY <1>5, <1>7, <3>1 DEF Shared, Alone
    <3>2. CASE d = c /\ e # c
      <4>1. e \in beside
        BY <1>5, <3>2 DEF beside
      <4> QED BY <1>7, <3>2, <4>1
    <3>3. CASE d # c /\ e = c
      <4>1. d \in beside
        BY <1>5, <3>3 DEF beside
      <4> QED BY <1>7, <3>3, <4>1
    <3> QED BY <3>1, <3>2, <3>3
  <2> QED BY <2>1, <2>2, <2>3 DEF Shared
<1>12. Owns'
  <2> SUFFICES ASSUME NEW d \in Conns \ overlap', Live(d)' PROVE Own(d)'
    BY DEF Owns
  <2>1. CASE d # c
    <3>1. Live(d) /\ pc'[d] = pc[d] /\ ref'[d] = ref[d] /\ d \notin overlap
      BY <1>5, <1>7, <2>1
    <3>2. Own(d)
      BY <3>1 DEF Owns
    <3>3. table'[addr[d]] = d
      <4>1. CASE addr[d] = a
        BY <1>4, <3>2, <4>1, NoZero DEF Own
      <4>2. CASE addr[d] # a
        BY <1>6, <3>2, <4>2 DEF Own, TypeOK
      <4> QED BY <4>1, <4>2
    <3> QED BY <1>1, <3>1, <3>2, <3>3 DEF Own
  <2>2. CASE d = c
    <3>1. table'[a] = c /\ ref'[c] = c /\ pc'[c] = "init"
      BY <1>3, <1>4, <1>5, <1>7, <2>2
    <3>2. entry[c] = NewEntry /\ reply[c].since = 0 /\ answered[c] = 0
      BY <1>1 DEF Fresh, InStep
    <3>3. /\ entry[c].sent = 0 /\ entry[c].received = 0 /\ entry[c].init_state = "pending"
          /\ entry[c].received - entry[c].sent = 0
      BY <3>2 DEF NewEntry
    <3> QED BY <1>1, <2>2, <3>1, <3>2, <3>3 DEF Own
  <2> QED BY <2>1, <2>2
<1> QED BY <1>8, <1>9, <1>10, <1>11, <1>12

\* A packet that is read is one less to wait.
LEMMA ReadStep ==
  ASSUME IInv, NEW c \in Conns, inbox[c] # <<>>, pc[c] \in {"init", "req"},
         inbox' = [inbox EXCEPT ![c] = Tail(@)],
         read' = [read EXCEPT ![c] = @ + 1],
         NEW there \in {"ack", "answer", "close"}, pc' = [pc EXCEPT ![c] = there],
         UNCHANGED <<asked, answered>>
  PROVE  InStep' /\ read' \in [Conns -> Nat]
<1> USE DEF IInv
<1>1. /\ inbox \in [Conns -> Seq(Carried)] /\ read \in [Conns -> Nat]
      /\ asked \in [Conns -> Nat] /\ answered \in [Conns -> Nat] /\ pc \in [Conns -> Places]
  BY DEF InStep, TypeOK
<1>2. Tail(inbox[c]) \in Seq(Carried) /\ Len(Tail(inbox[c])) = Len(inbox[c]) - 1
  BY <1>1, HeadTailProperties
<1>3. inbox' \in [Conns -> Seq(Carried)] /\ read' \in [Conns -> Nat]
  BY <1>1, <1>2
<1>4. ASSUME NEW d \in Conns
      PROVE  /\ read'[d] + Len(inbox'[d]) <= asked[d]
             /\ pc'[d] \in {"none", "start", "init", "req"} => read'[d] = answered[d]
             /\ pc'[d] \in {"none", "start"} => read'[d] = 0
             /\ pc'[d] \in {"ack", "answer"} => read'[d] = answered[d] + 1
  <2>1. CASE d = c
    <3>1. read'[c] = read[c] + 1 /\ Len(inbox'[c]) = Len(inbox[c]) - 1 /\ pc'[c] = there
      BY <1>1, <1>2
    <3>2. read[c] + Len(inbox[c]) <= asked[c] /\ read[c] = answered[c] /\ Len(inbox[c]) \in Nat
      BY <1>1, LenProperties DEF InStep
    <3> QED BY <1>1, <2>1, <3>1, <3>2
  <2>2. CASE d # c
    <3>1. read'[d] = read[d] /\ inbox'[d] = inbox[d] /\ pc'[d] = pc[d]
      BY <1>1, <2>2
    <3> QED BY <3>1 DEF InStep
  <2> QED BY <2>1, <2>2
<1>5. InStep'
  BY <1>3, <1>4 DEF InStep
<1> QED BY <1>3, <1>5

\* A handler that was alone on its address still finds its own entry when another
\* handler changes the one that one holds.
LEMMA OthersOwn ==
  ASSUME IInv, NEW c \in Conns, Live(c), NEW d \in Conns \ overlap, d # c, Live(d),
         UNCHANGED <<table, ref, addr>>,
         pc'[d] = pc[d], reply'[d] = reply[d], answered'[d] = answered[d],
         \A o \in Conns : o # ref[c] /\ o # table[addr[c]] => entry'[o] = entry[o]
  PROVE  Own(d)'
<1> USE DEF IInv
<1>1. Own(d)
  BY DEF Owns
<1>2. d # ref[c]
  BY NoZero DEF Shared, Held
<1>3. d # table[addr[c]]
  <2>1. CASE table[addr[c]] = d
    <3>1. addr[c] \in Addrs
      BY DEF TypeOK
    <3>2. addr[d] = addr[c]
      BY <2>1, <3>1, NoZero DEF Shared, Listed
    <3> QED BY <3>2 DEF Shared, Alone
  <2> QED BY <2>1
<1>4. entry'[d] = entry[d]
  BY <1>2, <1>3
<1> QED BY <1>1, <1>4 DEF Own

LEMMA ReadInitInv ==
  ASSUME IInv, NEW c \in Conns, ReadInit(c)
  PROVE  IInv'
<1> USE DEF IInv
<1>1. /\ pc[c] = "init" /\ inbox[c] # <<>>
      /\ inbox' = [inbox EXCEPT ![c] = Tail(@)]
      /\ read' = [read EXCEPT ![c] = @ + 1]
      /\ UNCHANGED <<up, table, peer, addr, ref, cur, asked, answered, reply, overlap>>
  BY DEF ReadInit
<1>2. \/ pc' = [pc EXCEPT ![c] = "close"] /\ entry' = entry
      \/ /\ pc' = [pc EXCEPT ![c] = "ack"]
         /\ entry' = [o \in Conns |->
               [entry[o] EXCEPT
                  !.init_state = IF o = table[addr[c]] THEN "completed" ELSE @,
                  !.received = IF o = ref[c] THEN @ + 1 ELSE @]]
  BY DEF ReadInit, Goto
<1>3. PICK there \in {"ack", "close"} : pc' = [pc EXCEPT ![c] = there]
  BY <1>2
<1>4. InStep' /\ read' \in [Conns -> Nat]
  BY <1>1, <1>3, ReadStep
<1>5. ASSUME pc' = [pc EXCEPT ![c] = "ack"], NEW o \in Conns
      PROVE  /\ entry'[o] \in Entries
             /\ entry'[o].sent = entry[o].sent
             /\ o = ref[c] => entry'[o].received = entry[o].received + 1
             /\ o = table[addr[c]] => entry'[o].init_state = "completed"
             /\ o # ref[c] /\ o # table[addr[c]] => entry'[o] = entry[o]
  <2> DEFINE i == IF o = table[addr[c]] THEN "completed" ELSE entry[o].init_state
  <2> DEFINE m == IF o = ref[c] THEN entry[o].received + 1 ELSE entry[o].received
  <2>1. "ack" # "close" /\ pc'[c] = "ack"
    BY <1>5 DEF TypeOK
  <2>2. entry'[o] = [entry[o] EXCEPT !.init_state = i, !.received = m]
    BY <1>2, <2>1 DEF TypeOK
  <2>3. entry[o] \in Entries /\ i \in {"pending", "completed"} /\ m \in Nat
    <3>1. entry[o] \in Entries
      BY DEF TypeOK
    <3> QED BY <3>1 DEF Entries
  <2>4. /\ o = ref[c] => m = entry[o].received + 1
        /\ o = table[addr[c]] => i = "completed"
        /\ o # ref[c] /\ o # table[addr[c]] => m = entry[o].received /\ i = entry[o].init_state
    OBVIOUS
  <2> DEFINE x == entry[o]
  <2> DEFINE y == entry'[o]
  <2>5. x \in Entries /\ i \in {"pending", "completed"} /\ m \in Nat
    BY <2>3
  <2>6. y = [x EXCEPT !.init_state = i, !.received = m]
    BY <2>2
  <2> HIDE DEF i, m, x, y
  <2>7. /\ y \in Entries /\ y.init_state = i /\ y.received = m /\ y.sent = x.sent
        /\ i = x.init_state /\ m = x.received => y = x
    BY <2>5, <2>6 DEF Entries
  <2> QED BY <2>4, <2>7 DEF x, y
<1>13. entry' \in [Conns -> Entries] /\ (pc'[c] # "ack" => entry' = entry)
  <2>1. CASE pc' = [pc EXCEPT ![c] = "ack"]
    <3>1. entry' = [o \in Conns |-> entry'[o]]
      BY <1>2, <2>1 DEF TypeOK
    <3> QED BY <1>5, <2>1, <3>1 DEF TypeOK
  <2>2. CASE pc' # [pc EXCEPT ![c] = "ack"]
    BY <1>2, <2>2 DEF TypeOK
  <2> QED BY <2>1, <2>2
<1>6. pc' \in [Conns -> Places] /\ \A d \in Conns : d # c => pc'[d] = pc[d]
  BY <1>3 DEF TypeOK, Places
<1>7. TypeOK'
  <2>1. \A d \in Conns : pc'[d] \in {"init", "ack", "req", "answer"} => ref[d] \in Conns
    BY <1>1, <1>6 DEF TypeOK
  <2> QED BY <1>1, <1>4, <1>13, <1>6, <2>1 DEF TypeOK
<1>8. Live(c) /\ (\A d \in Conns : Live(d)' => Live(d)) /\ pc'[c] = there
  BY <1>1, <1>3, <1>6 DEF Live, TypeOK
<1>9. Shared'
  BY <1>1, <1>3, <1>8, MoveShared DEF Places
<1>10. \A o \in Conns : o # ref[c] /\ o # table[addr[c]] => entry'[o] = entry[o]
  <2> SUFFICES ASSUME NEW o \in Conns, o # ref[c], o # table[addr[c]] PROVE entry'[o] = entry[o]
    OBVIOUS
  <2> QED BY <1>2, <1>5
<1>11. Fresh'
  <2> SUFFICES ASSUME NEW d \in Conns
               PROVE  /\ peer'[d] = "none" => pc'[d] = "none"
                      /\ pc'[d] \in {"none", "start"} => entry'[d] = NewEntry /\ reply'[d].since = 0
    BY <1>1 DEF Fresh
  <2>1. CASE d = c
    BY <1>1, <1>8, <2>1 DEF Fresh
  <2>2. CASE d # c /\ pc[d] \notin {"none", "start"}
    BY <1>1, <1>6, <2>2 DEF Fresh
  <2>3. CASE d # c /\ pc[d] \in {"none", "start"}
    <3>1. d # ref[c]
      BY <2>3, NoZero DEF Shared, Held
    <3>2. d # table[addr[c]]
      BY <2>3, NoZero DEF Shared, Listed, Live, TypeOK
    <3> QED BY <1>1, <1>6, <1>10, <2>3, <3>1, <3>2 DEF Fresh
  <2> QED BY <2>1, <2>2, <2>3
<1>12. Owns'
  <2> SUFFICES ASSUME NEW d \in Conns \ overlap, Live(d)' PROVE Own(d)'
    BY <1>1 DEF Owns
  <2>1. CASE d # c
    BY <1>1, <1>6, <1>8, <1>10, <2>1, OthersOwn
  <2>2. CASE d = c
    <3>1. Own(c) /\ entry[c] \in Entries
      BY <1>8, <2>2 DEF Owns, TypeOK
    <3>2. table[addr[c]] = c /\ ref[c] = c /\ entry[c].received - entry[c].sent = 0
      BY <1>1, <3>1 DEF Own
    <3>3. CASE pc' = [pc EXCEPT ![c] = "close"] /\ entry' = entry
      <4>1. pc'[c] = "close"
        BY <3>3 DEF TypeOK
      <4> QED BY <1>1, <2>2, <3>1, <3>2, <3>3, <4>1 DEF Own
    <3>4. CASE pc' = [pc EXCEPT ![c] = "ack"]
      <4>1. pc'[c] = "ack"
        BY <3>4 DEF TypeOK
      <4>2. /\ entry'[c].init_state = "completed" /\ entry'[c].received = entry[c].received + 1
            /\ entry'[c].sent = entry[c].sent
        BY <1>5, <3>2, <3>4
      <4>3. /\ entry'[c].received - entry'[c].sent = 1 /\ entry'[c].received > 0
        BY <3>1, <3>2, <4>2 DEF Entries
      <4> QED BY <1>1, <2>2, <3>1, <3>2, <4>1, <4>2, <4>3 DEF Own
    <3> QED BY <1>2, <3>3, <3>4
  <2> QED BY <2>1, <2>2
<1> QED BY <1>4, <1>7, <1>9, <1>11, <1>12

LEMMA ReadReqInv ==
  ASSUME IInv, NEW c \in Conns, ReadReq(c)
  PROVE  IInv'
<1> USE DEF IInv
<1> DEFINE e == ref[c]
<1>1. /\ pc[c] = "req" /\ inbox[c] # <<>>
      /\ inbox' = [inbox EXCEPT ![c] = Tail(@)]
      /\ read' = [read EXCEPT ![c] = @ + 1]
      /\ reply' = [reply EXCEPT ![c] = NoReply]
      /\ UNCHANGED <<up, table, peer, addr, ref, asked, answered, overlap>>
  BY DEF ReadReq
<1>2. PICK there \in {"answer", "close"} : pc' = [pc EXCEPT ![c] = there]
  BY DEF ReadReq, Goto
<1>3. InStep' /\ read' \in [Conns -> Nat]
  BY <1>1, <1>2, ReadStep
<1>4. e \in Conns /\ entry[e] \in Entries /\ entry \in [Conns -> Entries]
  BY <1>1 DEF TypeOK
<1>5. /\ entry' \in [Conns -> Entries]
      /\ \A o \in Conns : o # e => entry'[o] = entry[o]
      /\ entry'[e].received = entry[e].received + 1 /\ entry'[e].sent = entry[e].sent
      /\ entry'[e].init_state = entry[e].init_state
  <2>1. PICK n \in {entry[e].services, entry[e].services + 1} :
          entry' = [entry EXCEPT ![e] = [entry[e] EXCEPT !.received = @ + 1, !.services = n]]
    BY <1>4 DEF ReadReq, Entries
  <2>2. n \in Nat /\ entry[e].received + 1 \in Nat
    BY <1>4, <2>1 DEF Entries
  <2>3. /\ entry'[e] = [entry[e] EXCEPT !.received = entry[e].received + 1, !.services = n]
        /\ \A o \in Conns : o # e => entry'[o] = entry[o]
        /\ entry' = [entry EXCEPT ![e] = entry'[e]]
    BY <1>4, <2>1
  <2>4. /\ entry'[e] \in Entries /\ entry'[e].received = entry[e].received + 1
        /\ entry'[e].sent = entry[e].sent /\ entry'[e].init_state = entry[e].init_state
    <3> DEFINE x == entry[e]
    <3> DEFINE y == entry'[e]
    <3> DEFINE m == entry[e].received + 1
    <3>1. x \in Entries /\ m \in Nat /\ n \in Nat
      BY <1>4, <2>2
    <3>2. y = [x EXCEPT !.received = m, !.services = n]
      BY <2>3
    <3> HIDE DEF x, y, m
    <3>3. y \in Entries /\ y.init_state = x.init_state /\ y.received = m /\ y.sent = x.sent
      BY <3>1, <3>2 DEF Entries
    <3> QED BY <3>3 DEF x, y, m
  <2> QED BY <1>4, <2>3, <2>4
<1>6. pc' \in [Conns -> Places] /\ \A d \in Conns : d # c => pc'[d] = pc[d]
  BY <1>2 DEF TypeOK, Places
<1>7. TypeOK'
  <2>1. \A d \in Conns : pc'[d] \in {"init", "ack", "req", "answer"} => ref[d] \in Conns
    BY <1>1, <1>6 DEF TypeOK
  <2> QED BY <1>1, <1>3, <1>5, <1>6, <2>1 DEF TypeOK
<1>8. Live(c) /\ (\A d \in Conns : Live(d)' => Live(d)) /\ pc'[c] = there
  BY <1>1, <1>2, <1>6 DEF Live, TypeOK
<1>9. Shared'
  BY <1>1, <1>2, <1>8, MoveShared DEF Places
<1>10. reply'[c] = NoReply /\ DOMAIN reply' = Conns /\ \A d \in Conns : d # c => reply'[d] = reply[d]
  BY <1>1 DEF Fresh
<1>11. Fresh'
  <2> SUFFICES ASSUME NEW d \in Conns
               PROVE  /\ peer'[d] = "none" => pc'[d] = "none"
                      /\ pc'[d] \in {"none", "start"} => entry'[d] = NewEntry /\ reply'[d].since = 0
    BY <1>10 DEF Fresh
  <2>1. CASE d = c
    BY <1>1, <1>8, <2>1 DEF Fresh
  <2>2. CASE d # c
    <3>1. pc[d] \in {"none", "start"} => d # e
      BY NoZero DEF Shared, Held
    <3> QED BY <1>1, <1>5, <1>6, <1>10, <2>2, <3>1 DEF Fresh
  <2> QED BY <2>1, <2>2
<1>12. Owns'
  <2> SUFFICES ASSUME NEW d \in Conns \ overlap, Live(d)' PROVE Own(d)'
    BY <1>1 DEF Owns
  <2>1. CASE d # c
    <3>1. \A o \in Conns : o # ref[c] /\ o # table[addr[c]] => entry'[o] = entry[o]
      BY <1>5
    <3> QED BY <1>1, <1>6, <1>8, <1>10, <2>1, <3>1, OthersOwn
  <2>2. CASE d = c
    <3>1. Own(c)
      BY <1>8, <2>2 DEF Owns
    <3>2. /\ table[addr[c]] = c /\ ref[c] = c /\ entry[c].received - entry[c].sent = 0
          /\ entry[c].init_state = "completed" /\ entry[c].received > 0
          /\ entry[c].sent = answered[c]
      BY <1>1, <3>1 DEF Own
    <3>3. /\ entry'[c].received - entry'[c].sent = 1 /\ entry'[c].received > 0
          /\ entry'[c].init_state = "completed" /\ entry'[c].sent = answered[c]
      BY <1>4, <1>5, <3>2 DEF Entries
    <3>4. reply'[c].since = 0 /\ pc'[c] \in {"answer", "close"}
      BY <1>8, <1>10 DEF NoReply
    <3> QED BY <1>1, <2>2, <3>2, <3>3, <3>4 DEF Own
  <2> QED BY <2>1, <2>2
<1> QED BY <1>3, <1>7, <1>9, <1>11, <1>12

\* An answer goes out with the uptime of the entry the handler holds and is counted
\* there, or the handler goes to close.
LEMMA AnswersInv ==
  ASSUME IInv, NEW c \in Conns, pc[c] \in {"ack", "answer"},
         NEW r, r.since \in {0, ref[c]},
         NEW then \in {"req", "close"},
         Answers(c, r, then),
         UNCHANGED <<up, table, ref, read, overlap, client>>
  PROVE  IInv'
<1> USE DEF IInv
<1> DEFINE e == ref[c]
<1>1. /\ UNCHANGED <<up, table, ref, read, overlap, peer, addr, inbox, asked>>
      /\ e \in Conns /\ entry[e] \in Entries /\ entry \in [Conns -> Entries]
      /\ pc \in [Conns -> Places] /\ read \in [Conns -> Nat] /\ answered \in [Conns -> Nat]
      /\ DOMAIN reply = Conns
  BY DEF TypeOK, client, Fresh
<1>2. CASE peer[c] = "reset"
  <2>1. pc' = [pc EXCEPT ![c] = "close"] /\ UNCHANGED <<entry, answered, reply>>
    BY <1>2 DEF Answers, Goto
  <2>2. TypeOK'
    BY <1>1, <2>1 DEF TypeOK, Places
  <2>3. \A d \in Conns : \/ pc'[d] = pc[d]
                         \/ d = c /\ pc'[d] = "close"
    BY <1>1, <2>1
  <2>4. InStep' /\ Fresh'
    BY <1>1, <2>1, <2>3 DEF InStep, Fresh
  <2>5. Live(c)
    BY DEF Live
  <2>6. Shared'
    BY <1>1, <2>1, <2>5, MoveShared DEF Places
  <2>7. Owns'
    <3> SUFFICES ASSUME NEW d \in Conns \ overlap, Live(d)' PROVE Own(d)'
      BY <1>1 DEF Owns
    <3>1. Own(d)
      BY <2>3, <2>5 DEF Owns, Live
    <3>2. CASE pc'[d] = pc[d]
      BY <1>1, <2>1, <3>1, <3>2 DEF Own
    <3>3. CASE d = c /\ pc'[d] = "close"
      <4>1. entry[d].received - entry[d].sent = 1
        BY <3>1, <3>3 DEF Own
      <4> QED BY <1>1, <2>1, <3>1, <3>3, <4>1 DEF Own
    <3> QED BY <2>3, <3>2, <3>3
  <2> QED BY <2>2, <2>4, <2>6, <2>7
<1>3. CASE peer[c] # "reset"
  <2>1. /\ reply' = [reply EXCEPT ![c] = r]
        /\ answered' = [answered EXCEPT ![c] = read[c]]
        /\ entry' = [entry EXCEPT ![e] = [entry[e] EXCEPT !.sent = @ + 1]]
        /\ pc' = [pc EXCEPT ![c] = then]
    BY <1>1, <1>3 DEF Answers, Goto
  <2>2. [entry[e] EXCEPT !.sent = @ + 1] \in Entries
    BY <1>1 DEF Entries
  <2>3. /\ entry' \in [Conns -> Entries]
        /\ \A o \in Conns : o # e => entry'[o] = entry[o]
        /\ entry'[e] = [entry[e] EXCEPT !.sent = @ + 1]
    BY <1>1, <2>1, <2>2
  <2>4. /\ pc' \in [Conns -> Places] /\ pc'[c] = then /\ answered' \in [Conns -> Nat]
        /\ answered'[c] = read[c] /\ reply'[c] = r /\ DOMAIN reply' = Conns
        /\ \A d \in Conns : d # c => /\ pc'[d] = pc[d] /\ answered'[d] = answered[d]
                                     /\ reply'[d] = reply[d]
    BY <1>1, <2>1 DEF Places
  <2>5. TypeOK'
    <3>1. \A d \in Conns : pc'[d] \in {"init", "ack", "req", "answer"} => ref[d] \in Conns
      BY <1>1, <2>4 DEF TypeOK
    <3> QED BY <1>1, <2>3, <2>4, <3>1 DEF TypeOK
  <2>6. InStep'
    BY <1>1, <2>4 DEF InStep
  <2>7. Live(c) /\ \A d \in Conns : Live(d)' => Live(d)
    BY <2>4 DEF Live
  <2>8. Shared'
    BY <1>1, <2>1, <2>7, MoveShared DEF Places
  <2>9. Fresh'
    <3> SUFFICES ASSUME NEW d \in Conns
                 PROVE  /\ peer'[d] = "none" => pc'[d] = "none"
                        /\ pc'[d] \in {"none", "start"} => entry'[d] = NewEntry /\ reply'[d].since = 0
      BY <2>4 DEF Fresh
    <3>1. CASE d = c
      BY <1>1, <2>4, <3>1 DEF Fresh
    <3>2. CASE d # c
      <4>1. pc[d] \in {"none", "start"} => d # e
        BY NoZero DEF Shared, Held
      <4> QED BY <1>1, <2>3, <2>4, <3>2, <4>1 DEF Fresh
    <3> QED BY <3>1, <3>2
  <2>10. Owns'
    <3> SUFFICES ASSUME NEW d \in Conns \ overlap, Live(d)' PROVE Own(d)'
      BY <1>1 DEF Owns
    <3>1. CASE d # c
      <4>1. \A o \in Conns : o # ref[c] /\ o # table[addr[c]] => entry'[o] = entry[o]
        BY <2>3
      <4> QED BY <1>1, <2>4, <2>7, <3>1, <4>1, OthersOwn
    <3>2. CASE d = c
      <4>1. Own(c)
        BY <2>7, <3>2 DEF Owns
      <4>2. /\ table[addr[c]] = c /\ ref[c] = c /\ entry[c].received - entry[c].sent = 1
            /\ entry[c].init_state = "completed" /\ entry[c].received > 0
            /\ entry[c].sent = answered[c]
        BY <4>1 DEF Own
      <4>3. read[c] = answered[c] + 1
        BY DEF InStep
      <4>4. /\ entry'[c].sent = entry[c].sent + 1 /\ entry'[c].received = entry[c].received
            /\ entry'[c].init_state = entry[c].init_state
        BY <1>1, <2>3, <4>2 DEF Entries
      <4>5. entry'[c].sent = answered'[c] /\ entry'[c].received - entry'[c].sent = 0
        BY <1>1, <2>4, <4>2, <4>3, <4>4 DEF Entries
      <4>6. reply'[c].since \in {0, c} /\ pc'[c] \in {"req", "close"}
        BY <2>4, <4>2
      <4> QED BY <1>1, <3>2, <4>2, <4>4, <4>5, <4>6 DEF Own
    <3> QED BY <3>1, <3>2
  <2> QED BY <2>5, <2>6, <2>8, <2>9, <2>10
<1> QED BY <1>2, <1>3

\* The table's entry of the address goes, whoever made it: one that was alone there
\* cannot be another's.
LEMMA RemoveInv ==
  ASSUME IInv, NEW c \in Conns, remove_connection_state(c)
  PROVE  IInv'
<1> USE DEF IInv
<1>1. /\ pc[c] = "remove" /\ pc' = [pc EXCEPT ![c] = "done"]
      /\ table' = [table EXCEPT ![addr[c]] = 0]
      /\ ref' = [ref EXCEPT ![c] = 0]
      /\ entry' = [o \in Conns |-> IF \E d \in Conns : ref'[d] = o THEN entry[o] ELSE NewEntry]
      /\ reply' = [reply EXCEPT ![c] = NoReply]
      /\ UNCHANGED <<up, cur, read, answered, overlap, peer, addr, inbox, asked>>
  BY DEF remove_connection_state, Goto, client
<1>2. /\ addr[c] \in Addrs /\ pc \in [Conns -> Places]
      /\ table \in [Addrs -> Conns \cup {0}] /\ ref \in [Conns -> Conns \cup {0}]
      /\ entry \in [Conns -> Entries]
  BY DEF TypeOK
<1>3. /\ pc' \in [Conns -> Places] /\ pc'[c] = "done" /\ ref'[c] = 0 /\ table'[addr[c]] = 0
      /\ ~Live(c)' /\ Live(c)
      /\ \A d \in Conns : d # c => pc'[d] = pc[d] /\ ref'[d] = ref[d] /\ Live(d)' = Live(d)
      /\ \A a \in Addrs : a # addr[c] => table'[a] = table[a]
  BY <1>1, <1>2 DEF Live, Places
<1>4. TypeOK'
  <2>1. entry' \in [Conns -> Entries]
    BY <1>1, <1>2, NewEntryType
  <2>2. table' \in [Addrs -> Conns \cup {0}] /\ ref' \in [Conns -> Conns \cup {0}]
    BY <1>1, <1>2
  <2>3. \A d \in Conns : pc'[d] \in {"init", "ack", "req", "answer"} => ref'[d] \in Conns
    BY <1>3 DEF TypeOK
  <2> QED BY <1>1, <1>3, <2>1, <2>2, <2>3 DEF TypeOK
<1>5. InStep'
  BY <1>1, <1>3 DEF InStep
<1>6. DOMAIN reply' = Conns /\ reply'[c].since = 0 /\ \A d \in Conns : d # c => reply'[d] = reply[d]
  BY <1>1 DEF Fresh, NoReply
<1>7. Fresh'
  <2> SUFFICES ASSUME NEW d \in Conns
               PROVE  /\ peer'[d] = "none" => pc'[d] = "none"
                      /\ pc'[d] \in {"none", "start"} => entry'[d] = NewEntry /\ reply'[d].since = 0
    BY <1>6 DEF Fresh
  <2>1. CASE d = c
    BY <1>1, <1>3, <2>1 DEF Fresh
  <2>2. CASE d # c
    BY <1>1, <1>3, <1>6, <2>2 DEF Fresh
  <2> QED BY <2>1, <2>2
<1>8. Shared'
  <2>1. Held'
    <3> SUFFICES ASSUME NEW d \in Conns, ref'[d] # 0
                 PROVE  /\ addr[ref'[d]] = addr[d] /\ pc'[ref'[d]] \notin {"none", "start"}
                        /\ ref'[d] # d => d \in overlap /\ ref'[d] \in overlap
      BY <1>1 DEF Held
    <3>1. d # c /\ ref'[d] = ref[d] /\ ref[d] \in Conns
      BY <1>2, <1>3
    <3>2. pc[ref[d]] \notin {"none", "start"}
      BY <3>1 DEF Shared, Held
    <3>3. pc'[ref[d]] \notin {"none", "start"}
      BY <1>3, <3>1, <3>2
    <3> QED BY <3>1, <3>3 DEF Shared, Held
  <2>2. Listed'
    <3> SUFFICES ASSUME NEW b \in Addrs, table'[b] # 0
                 PROVE  pc'[table'[b]] \notin {"none", "start", "done"} /\ addr[table'[b]] = b
      BY <1>1 DEF Listed, Live
    <3>1. b # addr[c] /\ table'[b] = table[b] /\ table[b] \in Conns
      BY <1>2, <1>3
    <3>2. Live(table[b]) /\ addr[table[b]] = b
      BY <3>1 DEF Shared, Listed
    <3>3. table[b] # c
      BY <3>1, <3>2
    <3> QED BY <1>3, <3>1, <3>2, <3>3 DEF Live
  <2>3. Alone'
    BY <1>1, <1>3 DEF Shared, Alone
  <2> QED BY <2>1, <2>2, <2>3 DEF Shared
<1>9. Owns'
  <2> SUFFICES ASSUME NEW d \in Conns \ overlap, Live(d)' PROVE Own(d)'
    BY <1>1 DEF Owns
  <2>1. d # c /\ Live(d)
    BY <1>3
  <2>2. Own(d)
    BY <2>1 DEF Owns
  <2>3. addr[d] # addr[c]
    BY <1>3, <2>1 DEF Shared, Alone
  <2>4. table'[addr[d]] = d
    BY <1>3, <2>2, <2>3 DEF Own, TypeOK
  <2>5. entry'[d] = entry[d]
    BY <1>1, <1>3, <2>1, <2>2 DEF Own
  <2> QED BY <1>1, <1>3, <1>6, <2>1, <2>2, <2>4, <2>5 DEF Own
<1> QED BY <1>4, <1>5, <1>7, <1>8, <1>9

LEMMA NextInv ==
  ASSUME IInv, [Next]_vars
  PROVE  IInv'
<1>1. CASE UNCHANGED vars
  BY <1>1 DEF vars, IInv, TypeOK, InStep, Fresh, Shared, Held, Listed, Alone, Owns, Own, Live
<1>2. CASE Stop
  BY <1>2, StopInv
<1>3. ASSUME NEW c \in Conns, Connect(c) \/ Send(c) \/ Shut(c) \/ Reset(c) PROVE IInv'
  BY <1>3, ConnectInv, SendInv, LeaveInv
<1>4. ASSUME NEW c \in Conns, SendInitAck(c) PROVE IInv'
  <2>1. init_ack.since = 0
    BY DEF init_ack
  <2> QED BY <1>4, <2>1, AnswersInv DEF SendInitAck
<1>5. ASSUME NEW c \in Conns, SendReqAck(c) PROVE IInv'
  <2>1. Answer(cur[c], ref[c]).since \in {0, ref[c]}
    BY DEF Answer
  <2>2. (IF TooShort(cur[c]) THEN "close" ELSE "req") \in {"req", "close"}
    OBVIOUS
  <2> QED BY <1>5, <2>1, <2>2, AnswersInv DEF SendReqAck
<1>6. ASSUME NEW c \in Conns,
             \/ track_connection(c) \/ ShortRead(c) \/ ReadInit(c) \/ ReadReq(c) \/ Close(c)
             \/ remove_connection_state(c)
      PROVE  IInv'
  BY <1>6, TrackInv, MoveInv, ReadInitInv, ReadReqInv, RemoveInv
<1> QED BY <1>1, <1>2, <1>3, <1>4, <1>5, <1>6 DEF Next, Handler

\* Types, packets in step, untouched entries, what handlers of one address share, and
\* what a handler alone on its address owns are together an inductive invariant.
THEOREM Inductive == Spec => []IInv
<1>1. Init => IInv
  BY InitInv
<1>2. IInv /\ [Next]_vars => IInv'
  BY NextInv
<1> QED BY <1>1, <1>2, PTL DEF Spec

\* The emulator keeps its types: an entry is missing or one some connection made.
THEOREM TypeCorrect == Spec => []TypeOK
<1>1. IInv => TypeOK
  BY DEF IInv
<1> QED BY <1>1, Inductive, PTL

\* The table never keeps the entry of a connection that is over, for any number of
\* connections that follow each other on one address.
THEOREM NoStaleEntry == Spec => []EntryHasHandler
<1>1. IInv => EntryHasHandler
  BY DEF IInv, Shared, Listed, EntryHasHandler
<1> QED BY <1>1, Inductive, PTL

\* A handler that was alone on its address has its own entry, which the table shows
\* and which counts exactly what its client was told.
THEOREM EntriesExact == Spec => []ExactUnlessReused
<1>1. IInv => ExactUnlessReused
  BY DEF IInv, Owns, Own, ExactUnlessReused
<1> QED BY <1>1, Inductive, PTL

---------------------------------------------------------------------------
(* The emulator implements the lossless Dialogue.                          *)

\* Steps that leave every connection as open as it was.
LEMMA StillOpen ==
  ASSUME IInv, NEW c \in Conns, NEW there, pc' = [pc EXCEPT ![c] = there],
         (there \in {"remove", "done"}) = (pc[c] \in {"remove", "done"})
  PROVE  open' = open
<1>1. \A d \in Conns : (pc'[d] \in {"remove", "done"}) = (pc[d] \in {"remove", "done"})
  BY DEF IInv, TypeOK
<1> QED BY <1>1 DEF open, ServerClosed

LEMMA TalkAnswers ==
  ASSUME IInv, NEW c \in Conns, pc[c] \in {"ack", "answer"}, NEW r,
         NEW then \in {"req", "close"}, Answers(c, r, then), UNCHANGED asked
  PROVE  [Talk!Next]_<<asked, answered, open>>
<1>1. pc' = [pc EXCEPT ![c] = "close"] \/ pc' = [pc EXCEPT ![c] = then]
  BY DEF Answers, Goto
<1>2. open' = open
  BY <1>1, StillOpen
<1>3. CASE answered' = answered
  BY <1>2, <1>3
<1>4. CASE answered' = [answered EXCEPT ![c] = read[c]]
  <2>1. /\ read[c] = answered[c] + 1 /\ read[c] + Len(inbox[c]) <= asked[c]
        /\ Len(inbox[c]) \in Nat
        /\ read[c] \in Nat /\ answered[c] \in Nat /\ asked[c] \in Nat
    BY LenProperties DEF IInv, InStep, TypeOK
  <2>2. read[c] \in (answered[c] + 1)..asked[c]
    BY <2>1
  <2>3. open[c]
    BY DEF open, ServerClosed
  <2>4. Talk!Answer(c)
    BY <1>2, <1>4, <2>1, <2>2, <2>3 DEF Talk!Answer
  <2> QED BY <2>4 DEF Talk!Next
<1> QED BY <1>3, <1>4 DEF Answers

LEMMA TalkClose ==
  ASSUME IInv, Stop \/ \E c \in Conns : Close(c)
  PROVE  [Talk!Next]_<<asked, answered, open>>
<1>1. UNCHANGED <<asked, answered>>
  BY DEF Stop, Close, client
<1>2. \A c \in Conns : open'[c] => open[c]
  BY DEF Stop, Close, Goto, open, ServerClosed, IInv, TypeOK
<1>3. open' \in [Conns -> BOOLEAN]
  BY DEF open, ServerClosed
<1>4. CASE open' = open
  BY <1>1, <1>4
<1>5. CASE open' # open
  BY <1>1, <1>2, <1>3, <1>5 DEF Talk!Close, Talk!Next
<1> QED BY <1>4, <1>5

LEMMA TalkNext ==
  ASSUME IInv, [Next]_vars
  PROVE  [Talk!Next]_<<asked, answered, open>>
<1>1. ASSUME UNCHANGED <<asked, answered, pc>> PROVE UNCHANGED <<asked, answered, open>>
  BY <1>1 DEF open, ServerClosed
<1>2. CASE UNCHANGED vars
  BY <1>1, <1>2 DEF vars
<1>3. ASSUME NEW c \in Conns, Send(c) PROVE Talk!Next
  <2>1. Talk!Ask(c)
    BY <1>3 DEF Send, Talk!Ask, open, ServerClosed
  <2> QED BY <2>1 DEF Talk!Next
<1>4. ASSUME NEW c \in Conns, Shut(c) \/ Reset(c) PROVE UNCHANGED <<asked, answered, open>>
  BY <1>1, <1>4 DEF Shut, Reset
<1>5. ASSUME NEW c \in Conns,
             \/ Connect(c) \/ track_connection(c) \/ ShortRead(c) \/ ReadInit(c) \/ ReadReq(c)
             \/ remove_connection_state(c)
      PROVE  UNCHANGED <<asked, answered, open>>
  <2>1. UNCHANGED <<asked, answered>>
    BY <1>5 DEF Connect, track_connection, ShortRead, ReadInit, ReadReq, remove_connection_state,
                client
  <2>2. CASE Connect(c)
    <3>1. pc[c] = "none" /\ pc' = [pc EXCEPT ![c] = "start"]
      BY <2>2 DEF Connect, IInv, Fresh
    <3>2. ("start" \in {"remove", "done"}) = (pc[c] \in {"remove", "done"})
      BY <3>1
    <3>3. open' = open
      BY <3>1, <3>2, StillOpen
    <3> QED BY <2>1, <3>3
  <2>3. CASE track_connection(c)
    <3>1. pc[c] = "start" /\ pc' = [pc EXCEPT ![c] = "init"]
      BY <2>3 DEF track_connection, Goto
    <3>2. ("init" \in {"remove", "done"}) = (pc[c] \in {"remove", "done"})
      BY <3>1
    <3>3. open' = open
      BY <3>1, <3>2, StillOpen
    <3> QED BY <2>1, <3>3
  <2>4. CASE ShortRead(c) \/ ReadInit(c) \/ ReadReq(c)
    <3>1. pc[c] \in {"init", "req"}
      BY <2>4 DEF ShortRead, ReadInit, ReadReq
    <3>2. PICK there \in {"ack", "answer", "close"} : pc' = [pc EXCEPT ![c] = there]
      BY <2>4 DEF ShortRead, ReadInit, ReadReq, Goto
    <3>3. (there \in {"remove", "done"}) = (pc[c] \in {"remove", "done"})
      BY <3>1
    <3>4. open' = open
      BY <3>2, <3>3, StillOpen
    <3> QED BY <2>1, <3>4
  <2>5. CASE remove_connection_state(c)
    <3>1. pc[c] = "remove" /\ pc' = [pc EXCEPT ![c] = "done"]
      BY <2>5 DEF remove_connection_state, Goto
    <3>2. ("done" \in {"remove", "done"}) = (pc[c] \in {"remove", "done"})
      BY <3>1
    <3>3. open' = open
      BY <3>1, <3>2, StillOpen
    <3> QED BY <2>1, <3>3
  <2> QED BY <1>5, <2>2, <2>3, <2>4, <2>5
<1>6. ASSUME NEW c \in Conns, SendInitAck(c) PROVE [Talk!Next]_<<asked, answered, open>>
  BY <1>6, TalkAnswers DEF SendInitAck, client
<1>7. ASSUME NEW c \in Conns, SendReqAck(c) PROVE [Talk!Next]_<<asked, answered, open>>
  <2>1. (IF TooShort(cur[c]) THEN "close" ELSE "req") \in {"req", "close"}
    OBVIOUS
  <2> QED BY <1>7, <2>1, TalkAnswers DEF SendReqAck, client
<1>8. CASE Stop \/ \E c \in Conns : Close(c)
  BY <1>8, TalkClose
<1> QED BY <1>2, <1>3, <1>4, <1>5, <1>6, <1>7, <1>8 DEF Next, Handler

\* The emulator implements the lossless Dialogue: on every connection packets are
\* answered in turn and none is passed over, whatever else its address is used for.
THEOREM RequestsInTurn == Spec => EveryRequestInTurn
<1>1. Init => Talk!Init
  BY DEF Init, Talk!Init, open, ServerClosed
<1>2. IInv /\ [Next]_vars => [Talk!Next]_<<asked, answered, open>>
  BY TalkNext
<1> QED BY <1>1, <1>2, Inductive, PTL DEF Spec, EveryRequestInTurn, Talk!Spec
---------------------------------------------------------------------------
(* Progress: the safety half of HandlersEnd.                               *)

\* Steps a handler still has in it when no more packets come: two for every one that
\* waits, and those from its place to the end.
Ahead == [none |-> 6, start |-> 5, init |-> 4, ack |-> 4, answer |-> 4, req |-> 3,
          close |-> 2, remove |-> 1, done |-> 0]
StepsLeft(c) == Ahead[pc[c]] + 2 * Len(inbox[c])

\* Once a client has left, every step of its handler brings the end nearer, and no step
\* of anybody takes it further away.
HandlersNear ==
  [][\A c \in Conns : peer[c] \in {"shut", "reset"} =>
       /\ StepsLeft(c)' <= StepsLeft(c)
       /\ Handler(c) => StepsLeft(c)' < StepsLeft(c)]_vars

LEMMA AheadOf ==
  /\ Ahead \in [Places -> 0..6]
  /\ Ahead["start"] = 5 /\ Ahead["init"] = 4 /\ Ahead["ack"] = 4 /\ Ahead["answer"] = 4
  /\ Ahead["req"] = 3 /\ Ahead["close"] = 2 /\ Ahead["remove"] = 1 /\ Ahead["done"] = 0
BY DEF Ahead, Places

LEMMA StepsAre ==
  ASSUME NEW c \in Conns
  PROVE  /\ StepsLeft(c) = Ahead[pc[c]] + 2 * Len(inbox[c])
         /\ StepsLeft(c)' = Ahead[pc'[c]] + 2 * Len(inbox'[c])
BY DEF StepsLeft, Ahead

LEMMA StepsTyped ==
  ASSUME IInv, NEW c \in Conns
  PROVE  Ahead[pc[c]] \in 0..6 /\ Len(inbox[c]) \in Nat /\ StepsLeft(c) \in Nat
<1>1. pc[c] \in Places /\ inbox[c] \in Seq(Carried)
  BY DEF IInv, TypeOK, InStep
<1>2. Ahead[pc[c]] \in 0..6 /\ Len(inbox[c]) \in Nat
  BY <1>1, AheadOf, LenProperties
<1> QED BY <1>2, StepsAre

LEMMA Lower ==
  ASSUME NEW x \in 0..6, NEW y \in 0..6, NEW n \in Nat
  PROVE  /\ x < y => x + 2 * n < y + 2 * n
         /\ x <= y + 1 => x + 2 * (n - 1) < y + 2 * n
OBVIOUS

\* A step that moves a handler and reads no packet.
LEMMA MovesNear ==
  ASSUME IInv, NEW c \in Conns, NEW there \in Places, pc' = [pc EXCEPT ![c] = there],
         Ahead[there] < Ahead[pc[c]], UNCHANGED inbox
  PROVE  StepsLeft(c)' < StepsLeft(c)
<1>1. pc'[c] = there /\ inbox'[c] = inbox[c]
  BY DEF IInv, TypeOK
<1>2. Ahead[there] \in 0..6 /\ Ahead[pc[c]] \in 0..6 /\ Len(inbox[c]) \in Nat
  BY AheadOf, StepsTyped
<1>3. StepsLeft(c)' = Ahead[there] + 2 * Len(inbox[c])
  BY <1>1, StepsAre
<1>4. StepsLeft(c) = Ahead[pc[c]] + 2 * Len(inbox[c])
  BY StepsAre
<1> QED BY <1>2, <1>3, <1>4, Lower

\* One that reads the first packet that waits may move it a step back.
LEMMA ReadsNear ==
  ASSUME IInv, NEW c \in Conns, NEW there \in Places, pc' = [pc EXCEPT ![c] = there],
         Ahead[there] <= Ahead[pc[c]] + 1,
         inbox[c] # <<>>, inbox' = [inbox EXCEPT ![c] = Tail(@)]
  PROVE  StepsLeft(c)' < StepsLeft(c)
<1>1. pc'[c] = there /\ inbox'[c] = Tail(inbox[c]) /\ inbox[c] \in Seq(Carried)
  BY DEF IInv, TypeOK, InStep
<1>2. Len(inbox'[c]) = Len(inbox[c]) - 1
  BY <1>1, HeadTailProperties
<1>3. Ahead[there] \in 0..6 /\ Ahead[pc[c]] \in 0..6 /\ Len(inbox[c]) \in Nat
  BY AheadOf, StepsTyped
<1>4. StepsLeft(c)' = Ahead[there] + 2 * (Len(inbox[c]) - 1)
  BY <1>1, <1>2, StepsAre
<1>5. StepsLeft(c) = Ahead[pc[c]] + 2 * Len(inbox[c])
  BY StepsAre
<1> QED BY <1>3, <1>4, <1>5, Lower

LEMMA HandlerNear ==
  ASSUME IInv, NEW c \in Conns, Handler(c)
  PROVE  StepsLeft(c)' < StepsLeft(c)
<1>1. CASE track_connection(c) \/ ShortRead(c) \/ Close(c) \/ remove_connection_state(c)
  <2>1. PICK there \in {"init", "close", "remove", "done"} : pc' = [pc EXCEPT ![c] = there]
    BY <1>1 DEF track_connection, ShortRead, Close, remove_connection_state, Goto
  <2>2. Ahead[there] < Ahead[pc[c]] /\ there \in Places
    BY <1>1, <2>1, AheadOf
       DEF track_connection, ShortRead, Close, remove_connection_state, Goto, Places, IInv, TypeOK
  <2>3. UNCHANGED inbox
    BY <1>1 DEF track_connection, ShortRead, Close, remove_connection_state, client
  <2> QED BY <2>1, <2>2, <2>3, MovesNear
<1>2. CASE ReadInit(c)
  <2>1. PICK there \in {"close", "ack"} : pc' = [pc EXCEPT ![c] = there]
    BY <1>2 DEF ReadInit, Goto
  <2>2. /\ pc[c] = "init" /\ inbox[c] # <<>>
        /\ inbox' = [inbox EXCEPT ![c] = Tail(@)]
    BY <1>2 DEF ReadInit
  <2>3. there \in Places /\ Ahead[there] <= Ahead[pc[c]] + 1
    BY <2>1, <2>2, AheadOf DEF Places
  <2> QED BY <2>1, <2>2, <2>3, ReadsNear
<1>6. CASE ReadReq(c)
  <2>1. PICK there \in {"close", "answer"} : pc' = [pc EXCEPT ![c] = there]
    BY <1>6 DEF ReadReq, Goto
  <2>2. /\ pc[c] = "req" /\ inbox[c] # <<>>
        /\ inbox' = [inbox EXCEPT ![c] = Tail(@)]
    BY <1>6 DEF ReadReq
  <2>3. there \in Places /\ Ahead[there] <= Ahead[pc[c]] + 1
    BY <2>1, <2>2, AheadOf DEF Places
  <2> QED BY <2>1, <2>2, <2>3, ReadsNear
<1>3. ASSUME NEW r, NEW then \in {"req", "close"}, pc[c] \in {"ack", "answer"},
             Answers(c, r, then), UNCHANGED inbox
      PROVE  StepsLeft(c)' < StepsLeft(c)
  <2>1. PICK there \in {"req", "close"} : pc' = [pc EXCEPT ![c] = there]
    BY <1>3 DEF Answers, Goto
  <2>2. there \in Places /\ Ahead[there] < Ahead[pc[c]]
    BY <1>3, <2>1, AheadOf DEF Places
  <2> QED BY <1>3, <2>1, <2>2, MovesNear
<1>4. CASE SendInitAck(c)
  BY <1>3, <1>4 DEF SendInitAck, client
<1>5. CASE SendReqAck(c)
  <2>1. (IF TooShort(cur[c]) THEN "close" ELSE "req") \in {"req", "close"}
    OBVIOUS
  <2> QED BY <1>3, <1>5, <2>1 DEF SendReqAck, client
<1> QED BY <1>1, <1>2, <1>4, <1>5, <1>6 DEF Handler

\* A handler changes neither the place nor the packets of another.
LEMMA HandlerAlone ==
  ASSUME IInv, NEW c \in Conns, NEW d \in Conns, c # d, Handler(d)
  PROVE  StepsLeft(c)' = StepsLeft(c)
<1>1. \E there : pc' = [pc EXCEPT ![d] = there]
  BY DEF Handler, track_connection, ShortRead, ReadInit, SendInitAck, ReadReq, SendReqAck, Close,
         remove_connection_state, Answers, Goto
<1>2. pc'[c] = pc[c]
  BY <1>1 DEF IInv, TypeOK
<1>3. inbox' = inbox \/ inbox' = [inbox EXCEPT ![d] = Tail(@)]
  BY DEF Handler, track_connection, ShortRead, ReadInit, SendInitAck, ReadReq, SendReqAck, Close,
         remove_connection_state, client
<1>4. inbox'[c] = inbox[c]
  BY <1>3 DEF IInv, InStep
<1> QED BY <1>2, <1>4, StepsAre

LEMMA LeaverNear ==
  ASSUME IInv, [Next]_vars, NEW c \in Conns, peer[c] \in {"shut", "reset"}
  PROVE  StepsLeft(c)' <= StepsLeft(c)
<1>1. StepsLeft(c) \in Nat /\ StepsLeft(c)' \in Nat
  <2>1. IInv'
    BY NextInv
  <2>2. pc'[c] \in Places /\ inbox'[c] \in Seq(Carried)
    BY <2>1 DEF IInv, TypeOK, InStep
  <2>3. Ahead[pc'[c]] \in 0..6 /\ Len(inbox'[c]) \in Nat
    BY <2>2, AheadOf, LenProperties
  <2> QED BY <2>3, StepsTyped, StepsAre
<1>2. ASSUME pc'[c] = pc[c], inbox'[c] = inbox[c] PROVE StepsLeft(c)' <= StepsLeft(c)
  <2>1. StepsLeft(c)' = StepsLeft(c)
    BY <1>2, StepsAre
  <2> QED BY <1>1, <2>1
<1>3. CASE UNCHANGED vars
  BY <1>2, <1>3 DEF vars
<1>4. ASSUME inbox'[c] = <<>>, pc'[c] \in {pc[c], "done"}
      PROVE  StepsLeft(c)' <= StepsLeft(c)
  <2>1. Len(inbox'[c]) = 0
    BY <1>4
  <2>2. Ahead[pc[c]] \in 0..6 /\ Len(inbox[c]) \in Nat
    BY StepsTyped
  <2>3. Ahead[pc'[c]] = Ahead[pc[c]] \/ Ahead[pc'[c]] = 0
    BY <1>4, AheadOf
  <2>4. /\ StepsLeft(c) = Ahead[pc[c]] + 2 * Len(inbox[c])
        /\ StepsLeft(c)' = Ahead[pc'[c]] + 2 * 0
    BY <2>1, StepsAre
  <2> QED BY <2>2, <2>3, <2>4
<1>5. CASE Stop
  BY <1>4, <1>5 DEF Stop
<1>6. ASSUME NEW d \in Conns, Connect(d) \/ Send(d) \/ Shut(d) PROVE StepsLeft(c)' <= StepsLeft(c)
  <2>1. CASE Shut(d)
    BY <1>2, <2>1 DEF Shut
  <2>2. CASE Connect(d) \/ Send(d)
    <3>1. d # c
      BY <2>2 DEF Connect, Send
    <3>2. pc'[c] = pc[c] /\ inbox'[c] = inbox[c]
      BY <2>2, <3>1 DEF Connect, Send, IInv, TypeOK, InStep
    <3> QED BY <1>2, <3>2
  <2> QED BY <1>6, <2>1, <2>2
<1>7. ASSUME NEW d \in Conns, Reset(d) PROVE StepsLeft(c)' <= StepsLeft(c)
  <2>1. pc'[c] = pc[c] /\ inbox'[c] = IF c = d THEN <<>> ELSE inbox[c]
    BY <1>7 DEF Reset, IInv, InStep
  <2> QED BY <1>2, <1>4, <2>1
<1>8. ASSUME NEW d \in Conns, Handler(d) PROVE StepsLeft(c)' <= StepsLeft(c)
  BY <1>1, <1>8, HandlerNear, HandlerAlone
<1> QED BY <1>3, <1>5, <1>6, <1>7, <1>8 DEF Next

\* The handler of a client that has left has a number of steps left that each of its
\* steps lowers and that nothing raises: it cannot go round for ever.
THEOREM HandlersShrink == Spec => [](\A c \in Conns : StepsLeft(c) \in Nat) /\ HandlersNear
<1>1. IInv => \A c \in Conns : StepsLeft(c) \in Nat
  BY StepsTyped
<1>2. IInv /\ [Next]_vars =>
        [\A c \in Conns : peer[c] \in {"shut", "reset"} =>
           /\ StepsLeft(c)' <= StepsLeft(c)
           /\ Handler(c) => StepsLeft(c)' < StepsLeft(c)]_vars
  BY LeaverNear, HandlerNear
<1> QED BY <1>1, <1>2, Inductive, PTL DEF Spec, HandlersNear
===========================================================================
