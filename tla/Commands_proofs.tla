--------------------------- MODULE Commands_proofs ---------------------------
(***************************************************************************)
(* Proofs about the two commands of the repository. Of plchealth           *)
(* (PlcHealth): for every set of command lines, every set of frames the    *)
(* target can answer with, every segmentation and any number of polls. Of  *)
(* assetinv (AssetInv): for every set of documents of any length, every    *)
(* map of labels, every list of hints and every relation between texts.    *)
(***************************************************************************)
EXTENDS PlcHealth, AssetInv, FiniteSetTheorems, SequenceTheorems, WellFoundedInduction, TLAPS


---------------------------------------------------------------------------
(* The inductive invariant: where the process is, what it holds there, and *)
(* what has come up so far.                                                *)

InProbe == pc \in {"connect", "send", "head", "body"}

\* The probe, its frames and the record match the control state.
Control ==
  /\ opt.proto # "auto" => proto = opt.proto
  /\ pc = "check" => proto = "auto" /\ opt.proto = "auto" /\ step = 1 /\ szl = NoFrame
  /\ InProbe => proto \in Protos /\ step <= Len(Exchanges(proto))
  /\ wire # NoFrame => proto \in Protos /\ wire \in FrameOf(proto)
  /\ pc \in {"check", "connect", "send"} => wire = NoFrame
  /\ pc = "head" /\ want = 0 => wire # NoFrame
  /\ pc = "body" => wire # NoFrame
  /\ InProbe => (szl # NoFrame <=> (proto = "s7" /\ step = 4))
  /\ pc \in {"check", "connect", "send", "head", "body"} => health = NoRecord
  /\ pc = "emit" => health \in PLCHealth
  /\ health # NoRecord => health.proto = proto
  /\ exit = NoCode <=> pc # "exited"

\* What the replies read so far have said.
Said ==
  (IF szl = NoFrame THEN {} ELSE Says("s7", "szl0424", szl, opt))
  \cup (IF wire = NoFrame THEN {} ELSE Says(proto, request, wire, opt))

\* Nothing else has come up but malformed replies that were not looked at; and
\* a record that waits to be reported is justified.
Evidence ==
  /\ pc = "check" => told = {}
  /\ InProbe => Said \subseteq told /\ told \subseteq Said \cup {"garbled"}
  /\ pc = "emit" => Contract!Justified(ExitCode(health), told)
  /\ pc = "emit" => "unwritable" \notin told
  /\ pc \in {"emit", "exited"} /\ "lost" \in told => health = unreachable(proto)
  /\ pc = "exited" /\ "unwritable" \notin told /\ "lost" \in told => exit = 2

\* The ports --proto auto has found closed.
Tried ==
  /\ opt.proto = "auto" /\ proto \in Protos => refused = Earlier(proto)
  /\ opt.proto = "auto" /\ pc = "check" => refused = Earlier(AutoOrder[idx])
  /\ opt.proto = "auto" /\ proto = "auto" /\ pc # "check" => refused = Protos

\* The report files.
Files ==
  /\ InProbe \/ pc = "check" => \A o \in Outputs : disk[o] # "new"
  /\ \A o \in Outputs : disk[o] = "new" => o \in opt.out /\ health # NoRecord
  /\ exit \in {0, 2} => \A o \in opt.out : disk[o] = "new"
  /\ "json" \in opt.out /\ disk["csv"] = "new" => disk["json"] = "new"

IInv == TypeOK /\ Control /\ Evidence /\ Tried /\ Files

---------------------------------------------------------------------------
(* Lemmas about the operators of HealthModel, HealthMocks and Says.        *)

LEMMA ModbusTyped ==
  ASSUME NEW f \in FrameOf("modbus")
  PROVE  f.body \in Int /\ f.data \in ModbusData /\ Got(f) \in Nat
<1>1. f.body \in Int /\ f.data \in ModbusData
  BY DEF FrameOf, DataOf, Body
<1>. QED BY <1>1 DEF Got

LEMMA S7Typed ==
  ASSUME NEW f \in FrameOf("s7")
  PROVE  /\ f.body \in Int /\ f.body >= -4 /\ Got(f) \in Nat
         /\ f.data.state \in 0..255 /\ f.data.event \in Nat
<1>1. f.body \in Int /\ f.body >= -4 /\ f.data \in S7Data
  BY DEF FrameOf, DataOf, Body
<1>. QED BY <1>1 DEF S7Data, Got

LEMMA EnipTyped ==
  ASSUME NEW f \in FrameOf("enip")
  PROVE  /\ f.data.status \in Nat /\ f.data.state \in 0..255
         /\ ItemLen(f) \in Int
<1>1. f.body \in Int /\ f.data \in EnipData
  BY DEF FrameOf, DataOf, Body
<1>2. f.data.item \in Nat
  BY <1>1 DEF EnipData
<1>3. Got(f) \in Nat
  BY <1>1 DEF Got
<1>4. ItemLen(f) \in Int
  BY <1>2, <1>3 DEF ItemLen
<1>. QED BY <1>1, <1>4 DEF EnipData

\* The mocks answer every request of a probe with a frame of its protocol.
LEMMA RepliesTyped ==
  ASSUME NEW p \in Protos, NEW s \in 1..Len(Exchanges(p)),
         NEW f \in MockReplies(p, Exchanges(p)[s])
  PROVE  f \in FrameOf(p)
<1>1. CASE p = "modbus"
  <2>1. PICK e \in BOOLEAN, b \in BOOLEAN : f = ModbusMock(e, b)
    BY <1>1 DEF MockReplies
  <2>. QED BY <1>1, <2>1 DEF ModbusMock, ModbusData, Body, FrameOf, DataOf
<1>2. CASE p = "enip"
  <2>1. PICK w \in StatusWords, c \in CipStates : f = EnipMock(w, c)
    BY <1>2 DEF MockReplies
  <2>2. w \in Nat /\ c \in 0..255
    BY StatusWordsAssumption, CipStatesAssumption
  <2>. QED BY <1>2, <2>1, <2>2 DEF EnipMock, EnipData, Body, FrameOf, DataOf
<1>3. CASE p = "s7"
  <2>1. PICK c \in CpuStates, e \in DiagEvents : f = S7Mock(Exchanges(p)[s], c, e)
    BY <1>3 DEF MockReplies
  <2>2. c \in 0..255 /\ e \in Nat
    BY CpuStatesAssumption, DiagEventsAssumption
  <2>3. Exchanges(p)[s] \in {"cotp", "setup", "szl0424", "szl00a0"}
    BY <1>3 DEF Exchanges
  <2>4. S7Mock(Exchanges(p)[s], c, e) \in [body : Body, data : S7Data]
    <3>1. CASE Exchanges(p)[s] = "cotp"
      BY <3>1 DEF S7Mock, S7Data, Body
    <3>2. CASE Exchanges(p)[s] = "setup"
      BY <3>2 DEF S7Mock, S7Data, Body
    <3>3. CASE Exchanges(p)[s] = "szl0424"
      BY <3>3, <2>2 DEF S7Mock, S7Data, Body
    <3>4. CASE Exchanges(p)[s] = "szl00a0"
      BY <3>4, <2>2 DEF S7Mock, S7Data, Body
    <3>. QED BY <2>3, <3>1, <3>2, <3>3, <3>4
  <2>. QED BY <1>3, <2>1, <2>4 DEF FrameOf, DataOf
<1>. QED BY <1>1, <1>2, <1>3 DEF Protos

\* A reply tells facts of the target only, never one of the network or the disk.
TargetFacts == {"running", "stopped", "fault", "garbled", "bit", "cipfault"}

LEMMA SaysTyped ==
  ASSUME NEW p \in Protos, NEW req, NEW f, NEW o
  PROVE  Says(p, req, f, o) \subseteq TargetFacts
BY DEF Says, SaysModbus, SaysS7, SaysEnip, TargetFacts, Protos

LEMMA SaidTyped ==
  ASSUME wire # NoFrame => proto \in Protos
  PROVE  Said \subseteq TargetFacts /\ "lost" \notin Said /\ "unwritable" \notin Said
<1>1. "s7" \in Protos
  BY DEF Protos
<1>2. Said \subseteq TargetFacts
  BY <1>1, SaysTyped DEF Said
<1>. QED BY <1>2 DEF TargetFacts

\* A reply too short for what a probe indexes is malformed.
LEMMA RaisesGarbled ==
  ASSUME NEW f, NEW req, NEW o
  PROVE  /\ f \in FrameOf("modbus") /\ ModbusRaises(f)
              => "garbled" \in Says("modbus", req, f, o)
         /\ f \in FrameOf("enip") /\ EnipRaises(f)
              => "garbled" \in Says("enip", req, f, o)
<1>1. ASSUME f \in FrameOf("modbus"), ModbusRaises(f)
      PROVE  ~WellFormed("modbus", req, f)
  BY <1>1, ModbusTyped DEF ModbusRaises, WellFormed, ModbusData
<1>2. ASSUME f \in FrameOf("enip"), EnipRaises(f)
      PROVE  ~WellFormed("enip", req, f)
  BY <1>2, EnipTyped DEF EnipRaises, WellFormed
<1>. QED BY <1>1, <1>2 DEF Says

\* A record that a probe has computed, and that the facts justify reporting.
Owed(h, facts) ==
  h \in PLCHealth /\ h.reachable /\ Contract!Justified(ExitCode(h), facts)

LEMMA OwedFaulty ==
  ASSUME NEW p \in Protos, NEW s \in State, NEW faults \in SUBSET FaultSource,
         NEW facts, s # "RUN" \/ faults # {},
         facts \cap {"fault", "stopped", "garbled"} # {} \/ "bit" \in facts \ Blind(opt)
  PROVE  Owed(answered(p, s, faults), facts)
BY DEF Owed, answered, ExitCode, healthy, Contract!Justified, PLCHealth

LEMMA OwedHealthy ==
  ASSUME NEW p \in Protos, NEW facts, "running" \in facts,
         facts \subseteq {"running"} \cup Blind(opt)
  PROVE  Owed(answered(p, "RUN", {}), facts)
BY DEF Owed, answered, ExitCode, healthy, Contract!Justified, PLCHealth, State

\* What each probe computes from the frames it has read is justified by what
\* those frames said.
LEMMA ModbusJustified ==
  ASSUME NEW f \in FrameOf("modbus"), opt \in OptionsType, NEW facts, NEW req,
         ~ModbusRaises(f),
         Says("modbus", req, f, opt) \subseteq facts,
         facts \subseteq Says("modbus", req, f, opt) \cup {"garbled"}
  PROVE  Owed(ModbusHealth(f, opt.bit /\ opt.proto = "modbus"), facts)
<1>1. CASE f.data.exc \/ ((opt.bit /\ opt.proto = "modbus") /\ RegisterBit(f))
  <2>1. ModbusHealth(f, opt.bit /\ opt.proto = "modbus")
          = answered("modbus", "FAULT", {"modbus"})
    BY <1>1 DEF ModbusHealth
  <2>2. "fault" \in facts \/ "bit" \in facts \ Blind(opt)
    BY <1>1 DEF Says, SaysModbus, Blind
  <2>. QED BY <2>1, <2>2, OwedFaulty DEF Protos, State, FaultSource
<1>2. CASE ~(f.data.exc \/ ((opt.bit /\ opt.proto = "modbus") /\ RegisterBit(f)))
  <2>1. ModbusHealth(f, opt.bit /\ opt.proto = "modbus") = answered("modbus", "RUN", {})
    BY <1>2 DEF ModbusHealth
  <2>2. "running" \in facts /\ facts \subseteq {"running"} \cup Blind(opt)
    BY <1>2 DEF Says, SaysModbus, Blind, OptionsType
  <2>. QED BY <2>1, <2>2, OwedHealthy DEF Protos
<1>. QED BY <1>1, <1>2

LEMMA EnipJustified ==
  ASSUME NEW f \in FrameOf("enip"), opt \in OptionsType, NEW facts, NEW req,
         ~EnipRaises(f),
         Says("enip", req, f, opt) \subseteq facts,
         facts \subseteq Says("enip", req, f, opt) \cup {"garbled"}
  PROVE  Owed(EnipHealth(f), facts)
<1> DEFINE st == f.data.state
           faults == cip_status_faults(f.data.status)
<1>0. ItemLen(f) >= 28 /\ ~(ItemLen(f) < 28)
  BY EnipTyped DEF EnipRaises
<1>1. CASE st = 2 \/ faults # {}
  <2>1. EnipHealth(f) = answered("enip", "FAULT", faults)
    BY <1>1 DEF EnipHealth
  <2>2. facts \cap {"fault", "stopped"} # {}
    BY <1>0, <1>1 DEF Says, SaysEnip
  <2>. QED BY <2>1, <2>2, OwedFaulty DEF Protos, State, FaultSource, cip_status_faults
<1>2. CASE ~(st = 2 \/ faults # {}) /\ st \in {1, 3}
  <2>1. EnipHealth(f) = answered("enip", "STOP", {})
    BY <1>2 DEF EnipHealth
  <2>2. facts \cap {"fault", "stopped"} # {}
    BY <1>0, <1>2 DEF Says, SaysEnip
  <2>. QED BY <2>1, <2>2, OwedFaulty DEF Protos, State, FaultSource
<1>3. CASE ~(st = 2 \/ faults # {}) /\ st \notin {1, 3}
  <2>1. EnipHealth(f) = answered("enip", "RUN", {})
    BY <1>3 DEF EnipHealth
  <2>2. "running" \in facts /\ facts \subseteq {"running"} \cup Blind(opt)
    BY <1>0, <1>3 DEF Says, SaysEnip, Blind
  <2>. QED BY <2>1, <2>2, OwedHealthy DEF Protos
<1>. QED BY <1>1, <1>2, <1>3

LEMMA S7Justified ==
  ASSUME NEW szl_ \in FrameOf("s7"), NEW diag \in FrameOf("s7"),
         opt \in OptionsType, NEW facts,
         Says("s7", "szl0424", szl_, opt) \cup Says("s7", "szl00a0", diag, opt) \subseteq facts,
         facts \subseteq Says("s7", "szl0424", szl_, opt)
                           \cup Says("s7", "szl00a0", diag, opt) \cup {"garbled"}
  PROVE  Owed(S7Health(szl_, diag), facts)
<1> DEFINE st == s7_cpu_state(LastByte(szl_))
           faults == IF TailWord(diag) # 0 THEN {"s7-diag"} ELSE {}
<1>0. st \in State /\ faults \in SUBSET FaultSource
  BY DEF s7_cpu_state, State, FaultSource
<1>1. S7Health(szl_, diag) = answered("s7", st, faults)
  BY DEF S7Health
<1>2. /\ szl_.body \in Int /\ szl_.body >= -4 /\ szl_.data.state \in 0..255 /\ diag.body \in Int
      /\ Got(szl_) \in Nat /\ Got(diag) \in Nat
  BY S7Typed
<1>3. CASE st # "RUN"
  <2>1. Got(szl_) >= 1 => szl_.data.state # 8
    BY <1>2, <1>3 DEF s7_cpu_state, LastByte
  <2>2. facts \cap {"stopped", "garbled"} # {}
    BY <1>2, <2>1 DEF Says, SaysS7, WellFormed
  <2>. QED BY <1>0, <1>1, <1>3, <2>2, OwedFaulty DEF Protos
<1>4. CASE faults # {}
  <2>1. Got(diag) >= 12 => diag.data.event # 0
    BY <1>2, <1>4 DEF TailWord
  <2>2. facts \cap {"fault", "garbled"} # {}
    BY <1>2, <2>1 DEF Says, SaysS7, WellFormed
  <2>. QED BY <1>0, <1>1, <1>4, <2>2, OwedFaulty DEF Protos
<1>5. CASE st = "RUN" /\ faults = {}
  <2>1. Got(szl_) >= 1 /\ szl_.data.state = 8
    <3>1. LastByte(szl_) = 8
      BY <1>5 DEF s7_cpu_state
    <3>2. Got(szl_) = 0 => LastByte(szl_) \in 0..4
      BY <1>2 DEF LastByte, Got
    <3>. QED BY <1>2, <3>1, <3>2 DEF LastByte
  <2>2. Got(diag) >= 12 => diag.data.event = 0
    BY <1>2, <1>5 DEF TailWord
  <2>3. "running" \in facts /\ facts \subseteq {"running"} \cup Blind(opt)
    BY <2>1, <2>2 DEF Says, SaysS7, Blind
  <2>. QED BY <1>1, <1>5, <2>3, OwedHealthy DEF Protos
<1>. QED BY <1>3, <1>4, <1>5

---------------------------------------------------------------------------
(* Facts about the constants of the code and the values that mean "none".  *)

LEMMA ExchangeFacts ==
  /\ Len(Exchanges("modbus")) = 1 /\ Len(Exchanges("enip")) = 1
  /\ Len(Exchanges("s7")) = 4
  /\ Exchanges("s7")[3] = "szl0424" /\ Exchanges("s7")[4] = "szl00a0"
  /\ Exchanges("s7")[1] = "cotp" /\ Exchanges("s7")[2] = "setup"
BY DEF Exchanges

LEMMA OrderFacts ==
  /\ Len(AutoOrder) = 3
  /\ AutoOrder[1] = "modbus" /\ AutoOrder[2] = "s7" /\ AutoOrder[3] = "enip"
BY DEF AutoOrder

LEMMA OrderTyped == \A i \in 1..3 : AutoOrder[i] \in Protos
<1>1. \A i \in 1..3 : i = 1 \/ i = 2 \/ i = 3
  OBVIOUS
<1>. QED BY <1>1, OrderFacts DEF Protos

LEMMA LastExchange ==
  ASSUME NEW p \in Protos
  PROVE  Len(Exchanges(p)) \in 1..4 /\ (p # "s7" => Len(Exchanges(p)) = 1)
BY ExchangeFacts DEF Protos

LEMMA OneExchange == \A p \in Protos : 1 <= Len(Exchanges(p))
<1>1. \A n \in 1..4 : 1 <= n
  OBVIOUS
<1>. QED  BY <1>1, LastExchange

LEMMA GotTyped ==
  ASSUME NEW p, NEW f \in FrameOf(p)
  PROVE  Got(f) \in Nat
<1>1. f.body \in Int
  BY DEF FrameOf, Body
<1>. QED BY <1>1 DEF Got

LEMMA EarlierFacts ==
  /\ Earlier("modbus") = {}
  /\ Earlier("s7") = {"modbus"}
  /\ Earlier("enip") = {"modbus", "s7"}
<1>1. \A i \in 1..3 : i = 1 \/ i = 2 \/ i = 3
  OBVIOUS
<1>. QED BY <1>1, OrderFacts DEF Earlier, Protos

LEMMA NoCodeFact == NoCode = -1
BY DEF NoCode, Contract!NoCode

LEMMA FrameNotNone ==
  ASSUME NEW p, NEW f \in FrameOf(p)
  PROVE  f # NoFrame
<1>1. DOMAIN f = {"body", "data"}
  BY DEF FrameOf
<1>2. DOMAIN NoFrame = {"none"}
  BY DEF NoFrame
<1>. QED BY <1>1, <1>2

LEMMA RecordNotNone ==
  ASSUME NEW h \in PLCHealth
  PROVE  h # NoRecord
<1>1. DOMAIN h = {"proto", "reachable", "state", "faults"}
  BY DEF PLCHealth
<1>2. DOMAIN NoRecord = {"none"}
  BY DEF NoRecord
<1>. QED BY <1>1, <1>2

LEMMA UnreachableRecord ==
  ASSUME NEW p \in Protos \cup {"auto"}
  PROVE  /\ unreachable(p) \in PLCHealth /\ ExitCode(unreachable(p)) = 2
         /\ unreachable(p).proto = p
BY DEF unreachable, PLCHealth, State, FaultSource, ExitCode

\* The same name stands for the same set in this module and in the contract.
LEMMA FactsTyped == TargetFacts \subseteq Contract!Facts
BY DEF TargetFacts, Contract!Facts

---------------------------------------------------------------------------
(* The invariant holds initially.                                          *)

LEMMA InitInv == Init => IInv
<1>. SUFFICES ASSUME Init PROVE IInv
  OBVIOUS
<1>0. opt \in OptionsType
  BY OptionsAssumption DEF Init
<1>1. TypeOK
  BY <1>0, OrderFacts, MaxPollsAssumption
  DEF Init, TypeOK, OptionsType, Outputs
<1>2. Control
  <2>1. CASE opt.proto = "auto"
    BY <2>1, NoCodeFact DEF Init, Control, InProbe
  <2>2. CASE opt.proto \in Protos
    <3>1. opt.proto # "auto"
      BY <2>2 DEF Protos
    <3>. QED  BY <2>2, <3>1, OneExchange, NoCodeFact DEF Init, Control, InProbe
  <2>. QED  BY <1>0, <2>1, <2>2 DEF OptionsType
<1>3. Evidence
  BY DEF Init, Evidence, InProbe, Said
<1>4. Tried
  BY <1>0, OrderFacts, EarlierFacts DEF Init, Tried, OptionsType, Protos
<1>5. Files
  BY NoCodeFact DEF Init, Files, Outputs
<1>. QED BY <1>1, <1>2, <1>3, <1>4, <1>5 DEF IInv

---------------------------------------------------------------------------
(* Each step preserves the invariant.                                      *)

LEMMA CheckOpenInv == IInv /\ CheckOpen => IInv'
<1>. SUFFICES ASSUME IInv, CheckOpen PROVE IInv'
  OBVIOUS
<1>1. TypeOK'
  BY OrderFacts DEF IInv, TypeOK, CheckOpen, Protos
<1>2. Control'
  <2>1. AutoOrder[idx] \in Protos
    BY OrderFacts, OrderTyped DEF IInv, TypeOK
  <2>2. 1 <= Len(Exchanges(AutoOrder[idx]))
    BY <2>1, OneExchange
  <2>. QED BY <2>1, <2>2 DEF IInv, Control, CheckOpen, InProbe
<1>3. Evidence'
  BY DEF IInv, Evidence, CheckOpen, Control, InProbe, Said
<1>4. Tried'
  BY OrderFacts DEF IInv, Tried, CheckOpen, Control, TypeOK, Protos
<1>5. Files'
  BY DEF IInv, Files, CheckOpen, InProbe
<1>. QED BY <1>1, <1>2, <1>3, <1>4, <1>5 DEF IInv

LEMMA CheckRefusedInv == IInv /\ CheckRefused => IInv'
<1>. SUFFICES ASSUME IInv, CheckRefused PROVE IInv'
  OBVIOUS
<1>1. TypeOK'
  <2>1. AutoOrder[idx] \in Protos
    BY OrderFacts, OrderTyped DEF IInv, TypeOK
  <2>2. idx' \in 1..Len(AutoOrder)
    BY OrderFacts DEF IInv, TypeOK, CheckRefused
  <2>3. health' \in PLCHealth \cup {NoRecord} /\ told' \subseteq Contract!Facts
    <3>1. unreachable("auto") \in PLCHealth
      BY UnreachableRecord
    <3>. QED BY <3>1 DEF IInv, TypeOK, CheckRefused, Contract!Facts
  <2>. QED BY <2>1, <2>2, <2>3 DEF IInv, TypeOK, CheckRefused
<1>2. Control'
  BY OrderFacts, UnreachableRecord DEF IInv, Control, CheckRefused, TypeOK, InProbe
<1>3. Evidence'
  BY UnreachableRecord DEF IInv, Evidence, CheckRefused, Control, TypeOK, InProbe, Contract!Justified
<1>4. Tried'
  BY OrderFacts, EarlierFacts DEF IInv, Tried, CheckRefused, Control, TypeOK, Protos
<1>5. Files'
  BY DEF IInv, Files, CheckRefused, InProbe, Control, TypeOK
<1>. QED BY <1>1, <1>2, <1>3, <1>4, <1>5 DEF IInv

LEMMA ConnectedInv == IInv /\ Connected => IInv'
<1>. SUFFICES ASSUME IInv, Connected PROVE IInv'
  OBVIOUS
<1>1. TypeOK'
  BY DEF IInv, TypeOK, Connected
<1>2. Control'
  BY DEF IInv, Control, Connected, InProbe
<1>3. Evidence'
  BY DEF IInv, Evidence, Connected, InProbe, Said, request, Control
<1>4. Tried'
  BY DEF IInv, Tried, Connected, InProbe, Control
<1>5. Files'
  BY DEF IInv, Files, Connected, InProbe
<1>. QED BY <1>1, <1>2, <1>3, <1>4, <1>5 DEF IInv

LEMMA SentInv == IInv /\ Sent => IInv'
<1>. SUFFICES ASSUME IInv, Sent PROVE IInv'
  OBVIOUS
<1>1. TypeOK'
  BY DEF IInv, TypeOK, Sent, HeadLen
<1>2. Control'
  BY DEF IInv, Control, Sent, InProbe, TypeOK, HeadLen
<1>3. Evidence'
  BY DEF IInv, Evidence, Sent, InProbe, Said, request, Control
<1>4. Tried'
  BY DEF IInv, Tried, Sent, InProbe, Control
<1>5. Files'
  BY DEF IInv, Files, Sent, InProbe
<1>. QED BY <1>1, <1>2, <1>3, <1>4, <1>5 DEF IInv

LEMMA HeadReadInv == IInv /\ HeadRead => IInv'
<1>. SUFFICES ASSUME IInv, HeadRead PROVE IInv'
  OBVIOUS
<1>1. TypeOK'
  <2>1. Got(wire) \in Nat
    BY GotTyped DEF IInv, Control, HeadRead
  <2>. QED BY <2>1 DEF IInv, TypeOK, HeadRead
<1>2. Control'
  BY DEF IInv, Control, HeadRead, InProbe
<1>3. Evidence'
  BY DEF IInv, Evidence, HeadRead, InProbe, Said, request
<1>4. Tried'
  BY DEF IInv, Tried, HeadRead, InProbe
<1>5. Files'
  BY DEF IInv, Files, HeadRead, InProbe
<1>. QED BY <1>1, <1>2, <1>3, <1>4, <1>5 DEF IInv

LEMMA DeliverInv == IInv /\ Deliver => IInv'
<1>. SUFFICES ASSUME IInv, Deliver PROVE IInv'
  OBVIOUS
<1>1. TypeOK'
  BY SegmentsAssumption DEF IInv, TypeOK, Deliver
<1>2. Control'
  BY DEF IInv, Control, Deliver, InProbe
<1>3. Evidence'
  BY DEF IInv, Evidence, Deliver, InProbe, Said, request
<1>4. Tried'
  BY DEF IInv, Tried, Deliver, InProbe
<1>5. Files'
  BY DEF IInv, Files, Deliver, InProbe
<1>. QED BY <1>1, <1>2, <1>3, <1>4, <1>5 DEF IInv

LEMMA LostInv == IInv /\ Lost => IInv'
<1>. SUFFICES ASSUME IInv, Lost PROVE IInv'
  OBVIOUS
<1>1. TypeOK'
  BY UnreachableRecord DEF IInv, TypeOK, Lost, Contract!Facts
<1>2. Control'
  BY UnreachableRecord DEF IInv, Control, Lost, TypeOK, InProbe
<1>3. Evidence'
  <2>1. unreachable(proto) \in PLCHealth /\ ExitCode(unreachable(proto)) = 2
    BY UnreachableRecord DEF IInv, TypeOK
  <2>2. "unwritable" \notin told
    BY SaidTyped DEF IInv, Control, Evidence, Lost, InProbe
  <2>. QED BY <2>1, <2>2 DEF IInv, Evidence, Lost, InProbe, Contract!Justified
<1>4. Tried'
  BY DEF IInv, Tried, Lost, InProbe, Control
<1>5. Files'
  BY RecordNotNone, UnreachableRecord DEF IInv, Files, Lost, InProbe, TypeOK
<1>. QED BY <1>1, <1>2, <1>3, <1>4, <1>5 DEF IInv

LEMMA NextExchangeInv == IInv /\ NextExchange => IInv'
<1>. SUFFICES ASSUME IInv, NextExchange PROVE IInv'
  OBVIOUS
<1>a. /\ proto \in Protos /\ step \in 1..4 /\ step < Len(Exchanges(proto))
      /\ step' = step + 1
  BY DEF IInv, TypeOK, Control, InProbe, NextExchange
<1>b. proto = "s7" /\ step \in 1..3 /\ step' \in 2..4 /\ Len(Exchanges(proto)) = 4
  <2> DEFINE last == Len(Exchanges(proto))
  <2>1. last \in 1..4 /\ (proto # "s7" => last = 1)
    BY <1>a, LastExchange
  <2>2. step \in 1..4 /\ step < last /\ step' = step + 1
    BY <1>a
  <2>3. proto = "s7" => last = 4
    BY ExchangeFacts
  <2> HIDE DEF last
  <2>4. proto = "s7" /\ step \in 1..3 /\ step' \in 2..4 /\ last = 4
    BY <2>1, <2>2, <2>3
  <2>. QED BY <2>4 DEF last
<1>c. wire # NoFrame /\ wire \in FrameOf("s7")
  BY <1>b DEF IInv, Control, NextExchange
<1>1. TypeOK'
  <2>1. szl' \in FrameOf("s7") \cup {NoFrame}
    BY <1>c DEF IInv, TypeOK, NextExchange
  <2>. QED BY <1>b, <2>1 DEF IInv, TypeOK, NextExchange
<1>2. Control'
  <2>1. request = "szl0424" <=> step = 3
    BY <1>b, ExchangeFacts DEF request
  <2>2. szl' # NoFrame <=> step' = 4
    BY <1>a, <1>b, <1>c, <2>1 DEF IInv, Control, InProbe, NextExchange
  <2>3. step' <= Len(Exchanges(proto'))
    BY <1>b DEF NextExchange
  <2>. QED BY <1>b, <2>2, <2>3 DEF IInv, Control, InProbe, NextExchange
<1>3. Evidence'
  <2>1. proto = "s7" /\ "s7" \in Protos
    BY <1>b DEF Protos
  <2>2. CASE step = 3
    <3>1. request = "szl0424" /\ szl = NoFrame /\ wire # NoFrame
      BY <1>b, <1>c, <2>2, ExchangeFacts DEF IInv, Control, InProbe, NextExchange, request
    <3>2. Said' = Said
      BY <2>1, <3>1 DEF Said, NextExchange
    <3>. QED BY <3>2 DEF IInv, Evidence, InProbe, NextExchange
  <2>3. CASE step # 3
    <3>1. request \in {"cotp", "setup"} /\ szl = NoFrame /\ wire # NoFrame
      BY <1>b, <1>c, <2>3, ExchangeFacts DEF IInv, Control, InProbe, NextExchange, request
    <3>2. Said \subseteq {"garbled"} /\ Said' = {}
      BY <2>1, <3>1 DEF Said, NextExchange, Says, SaysS7
    <3>. QED BY <3>2 DEF IInv, Evidence, InProbe, NextExchange
  <2>. QED BY <2>2, <2>3
<1>4. Tried'
  BY DEF IInv, Tried, NextExchange, InProbe, Control
<1>5. Files'
  BY DEF IInv, Files, NextExchange, InProbe
<1>. QED BY <1>1, <1>2, <1>3, <1>4, <1>5 DEF IInv

\* A probe that has read its last reply: what it holds is what was said.
LEMMA ProbeDone ==
  ASSUME IInv, pc = "body", step = Len(Exchanges(proto))
  PROVE  /\ proto \in Protos /\ wire \in FrameOf(proto) /\ wire # NoFrame
         /\ opt \in OptionsType
         /\ Says(proto, request, wire, opt) \subseteq told
         /\ "lost" \notin told /\ "unwritable" \notin told
         /\ proto # "s7" =>
              told \subseteq Says(proto, request, wire, opt) \cup {"garbled"}
         /\ proto = "s7" =>
              /\ request = "szl00a0" /\ szl \in FrameOf("s7")
              /\ Says("s7", "szl0424", szl, opt) \subseteq told
              /\ told \subseteq Says("s7", "szl0424", szl, opt)
                    \cup Says("s7", "szl00a0", wire, opt) \cup {"garbled"}
<1>1. proto \in Protos /\ wire \in FrameOf(proto) /\ wire # NoFrame /\ opt \in OptionsType
  BY DEF IInv, Control, TypeOK, InProbe
<1>2. Said \subseteq told /\ told \subseteq Said \cup {"garbled"}
  BY DEF IInv, Evidence, InProbe
<1>3. "lost" \notin Said /\ "unwritable" \notin Said
  BY <1>1, SaidTyped
<1>4. Says(proto, request, wire, opt) \subseteq Said
  BY <1>1 DEF Said
<1>5. ASSUME proto # "s7" PROVE Said = Says(proto, request, wire, opt)
  <2>1. szl = NoFrame
    BY <1>5 DEF IInv, Control, InProbe
  <2>. QED BY <1>1, <2>1 DEF Said
<1>6. ASSUME proto = "s7"
      PROVE  /\ request = "szl00a0" /\ szl \in FrameOf("s7")
             /\ Said = Says("s7", "szl0424", szl, opt)
                          \cup Says("s7", "szl00a0", wire, opt)
  <2>1. step = 4 /\ request = "szl00a0"
    BY <1>6, ExchangeFacts DEF request
  <2>2. szl # NoFrame /\ szl \in FrameOf("s7")
    BY <1>6, <2>1 DEF IInv, Control, InProbe, TypeOK
  <2>. QED BY <1>1, <1>6, <2>1, <2>2 DEF Said
<1>. QED BY <1>1, <1>2, <1>3, <1>4, <1>5, <1>6

LEMMA ProbedProto ==
  ASSUME proto \in Protos
  PROVE  Probed.proto = proto
<1>1. CASE proto = "modbus"
  BY <1>1 DEF Probed, ModbusHealth, answered
<1>2. CASE proto = "s7"
  BY <1>2 DEF Probed, S7Health, answered
<1>3. CASE proto = "enip"
  BY <1>3 DEF Probed, EnipHealth, answered
<1>. QED BY <1>1, <1>2, <1>3 DEF Protos

\* The record a probe computes is justified by what was said.
LEMMA ProbedOwed ==
  ASSUME IInv, pc = "body", step = Len(Exchanges(proto)), ~Raises
  PROVE  Owed(Probed, told)
<1>1. CASE proto = "modbus"
  <2>1. ~ModbusRaises(wire)
    BY <1>1 DEF Raises
  <2>. QED BY <1>1, <2>1, ProbeDone, ModbusJustified DEF Probed
<1>2. CASE proto = "enip"
  <2>1. ~EnipRaises(wire)
    BY <1>2 DEF Raises
  <2>. QED BY <1>2, <2>1, ProbeDone, EnipJustified DEF Probed
<1>3. CASE proto = "s7"
  BY <1>3, ProbeDone, S7Justified DEF Probed
<1>. QED BY <1>1, <1>2, <1>3, ProbeDone DEF Protos

LEMMA ProbeRaisesInv == IInv /\ ProbeRaises => IInv'
<1>. SUFFICES ASSUME IInv, ProbeRaises PROVE IInv'
  OBVIOUS
<1>1. TypeOK'
  BY NoCodeFact DEF IInv, TypeOK, ProbeRaises, Traceback
<1>2. Control'
  BY NoCodeFact DEF IInv, Control, ProbeRaises, InProbe, Traceback
<1>3. Evidence'
  <2>1. "lost" \notin told /\ "unwritable" \notin told
    BY ProbeDone DEF ProbeRaises
  <2>. QED BY <2>1 DEF IInv, Evidence, InProbe, ProbeRaises, Traceback
<1>4. Tried'
  BY DEF IInv, Tried, ProbeRaises, InProbe, Control, Traceback
<1>5. Files'
  BY DEF IInv, Files, ProbeRaises, InProbe, Traceback
<1>. QED BY <1>1, <1>2, <1>3, <1>4, <1>5 DEF IInv

LEMMA ProbeReturnsInv == IInv /\ ProbeReturns => IInv'
<1>. SUFFICES ASSUME IInv, ProbeReturns PROVE IInv'
  OBVIOUS
<1>0. Probed \in PLCHealth /\ Contract!Justified(ExitCode(Probed), told)
  BY ProbedOwed DEF ProbeReturns, Owed
<1>a. "lost" \notin told /\ "unwritable" \notin told
  BY ProbeDone DEF ProbeReturns
<1>1. TypeOK'
  BY <1>0 DEF IInv, TypeOK, ProbeReturns
<1>2. Control'
  BY <1>0, ProbeDone, ProbedProto DEF IInv, Control, ProbeReturns, InProbe
<1>3. Evidence'
  BY <1>0, <1>a DEF IInv, Evidence, InProbe, ProbeReturns, Contract!Justified, Blind
<1>4. Tried'
  BY DEF IInv, Tried, ProbeReturns, InProbe, Control
<1>5. Files'
  BY <1>0, RecordNotNone DEF IInv, Files, InProbe, ProbeReturns
<1>. QED BY <1>1, <1>2, <1>3, <1>4, <1>5 DEF IInv

LEMMA WriteReportInv == IInv /\ WriteReport => IInv'
<1>. SUFFICES ASSUME IInv, WriteReport PROVE IInv'
  OBVIOUS
<1>1. TypeOK'
  BY DEF IInv, TypeOK, WriteReport, Outputs
<1>2. Control'
  BY DEF IInv, Control, WriteReport, InProbe
<1>3. Evidence'
  BY DEF IInv, Evidence, WriteReport, InProbe, Contract!Justified, Blind
<1>4. Tried'
  BY DEF IInv, Tried, WriteReport, InProbe, Control
<1>5. Files'
  <2>1. health # NoRecord
    BY RecordNotNone DEF IInv, Control, WriteReport
  <2>2. PICK o \in Outputs : NextOutput(o) /\ disk' = [disk EXCEPT ![o] = "new"]
    BY DEF WriteReport
  <2>3. disk \in [Outputs -> {"none", "old", "partial", "new"}] /\ exit = NoCode
    BY DEF IInv, TypeOK, Control, WriteReport
  <2>. QED BY <2>1, <2>2, <2>3, NoCodeFact
           DEF IInv, Files, WriteReport, NextOutput, Written, InProbe, Outputs
<1>. QED BY <1>1, <1>2, <1>3, <1>4, <1>5 DEF IInv

LEMMA WriteFailsInv == IInv /\ WriteFails => IInv'
<1>. SUFFICES ASSUME IInv, WriteFails PROVE IInv'
  OBVIOUS
<1>1. TypeOK'
  BY DEF IInv, TypeOK, WriteFails, Traceback, Contract!Facts, Outputs
<1>2. Control'
  BY NoCodeFact DEF IInv, Control, WriteFails, InProbe, Traceback
<1>3. Evidence'
  BY DEF IInv, Evidence, WriteFails, InProbe, Traceback
<1>4. Tried'
  BY DEF IInv, Tried, WriteFails, InProbe, Traceback, Control
<1>5. Files'
  <2>1. health # NoRecord
    BY RecordNotNone DEF IInv, Control, WriteFails
  <2>2. PICK o \in Outputs : NextOutput(o) /\ disk' \in {disk, [disk EXCEPT ![o] = "partial"]}
    BY DEF WriteFails
  <2>3. disk \in [Outputs -> {"none", "old", "partial", "new"}] /\ exit' = 1
    BY DEF IInv, TypeOK, WriteFails, Traceback
  <2>. QED BY <2>1, <2>2, <2>3
           DEF IInv, Files, WriteFails, NextOutput, Written, InProbe, Outputs, Traceback
<1>. QED BY <1>1, <1>2, <1>3, <1>4, <1>5 DEF IInv

LEMMA ExitInv == IInv /\ Exit => IInv'
<1>. SUFFICES ASSUME IInv, Exit PROVE IInv'
  OBVIOUS
<1>1. TypeOK'
  BY NoCodeFact DEF IInv, TypeOK, Exit, ExitCode
<1>2. Control'
  BY NoCodeFact DEF IInv, Control, Exit, InProbe, ExitCode
<1>3. Evidence'
  <2>1. "lost" \in told => health = unreachable(proto)
    BY DEF IInv, Evidence, Exit
  <2>2. ExitCode(unreachable(proto)) = 2
    BY UnreachableRecord DEF IInv, TypeOK
  <2>. QED BY <2>1, <2>2 DEF IInv, Evidence, InProbe, Exit
<1>4. Tried'
  BY DEF IInv, Tried, Exit, InProbe, Control
<1>5. Files'
  BY NoCodeFact DEF IInv, Files, Exit, InProbe, Control, Written, TypeOK, OptionsType
<1>. QED BY <1>1, <1>2, <1>3, <1>4, <1>5 DEF IInv

LEMMA AnswerInv == IInv /\ Answer => IInv'
<1>. SUFFICES ASSUME IInv, Answer PROVE IInv'
  OBVIOUS
<1>a. PICK f \in MockReplies(proto, request) \cup OtherFrames[proto] :
        wire' = f /\ told' = told \cup Says(proto, request, f, opt)
  BY DEF Answer
<1>b. proto \in Protos /\ step \in 1..Len(Exchanges(proto)) /\ f \in FrameOf(proto)
  <2>1. proto \in Protos /\ step \in 1..4 /\ step <= Len(Exchanges(proto))
    BY DEF IInv, TypeOK, Control, InProbe, Answer
  <2>2. step \in 1..Len(Exchanges(proto))
    BY <2>1, LastExchange
  <2>. QED BY <1>a, <2>1, <2>2, RepliesTyped, OtherFramesAssumption DEF request
<1>c. Says(proto, request, f, opt) \subseteq TargetFacts
  BY <1>b, SaysTyped
<1>d. f # NoFrame
  BY <1>b, FrameNotNone
<1>1. TypeOK'
  BY <1>a, <1>b, <1>c, FactsTyped DEF IInv, TypeOK, Answer, Protos
<1>2. Control'
  BY <1>a, <1>b, <1>d DEF IInv, Control, Answer, InProbe
<1>3. Evidence'
  <2>1. Said' = Said \cup Says(proto, request, f, opt)
    BY <1>a, <1>b, <1>d DEF Said, Answer, request
  <2>. QED BY <1>a, <2>1 DEF IInv, Evidence, InProbe, Answer
<1>4. Tried'
  BY DEF IInv, Tried, Answer, InProbe, Control
<1>5. Files'
  BY DEF IInv, Files, Answer, InProbe
<1>. QED BY <1>1, <1>2, <1>3, <1>4, <1>5 DEF IInv

LEMMA NextPollInv == IInv /\ NextPoll => IInv'
<1>. SUFFICES ASSUME IInv, NextPoll PROVE IInv'
  OBVIOUS
<1>1. TypeOK'
  <2>1. opt \in OptionsType /\ opt.proto \in Protos \cup {"auto"}
    BY DEF IInv, TypeOK, OptionsType
  <2>2. disk' \in [Outputs -> {"none", "old", "partial", "new"}]
    BY DEF IInv, TypeOK, NextPoll
  <2>. QED BY <2>1, <2>2, OrderFacts, MaxPollsAssumption DEF IInv, TypeOK, NextPoll, StartPoll
<1>2. Control'
  <2>1. opt.proto # "auto" => opt.proto \in Protos
    BY DEF IInv, TypeOK, OptionsType
  <2>2. ASSUME opt.proto # "auto" PROVE 1 <= Len(Exchanges(opt.proto))
    <3>1. Len(Exchanges(opt.proto)) \in 1..4
      BY <2>1, <2>2, LastExchange
    <3>. QED BY <3>1
  <2>. QED BY <2>1, <2>2, NoCodeFact DEF IInv, Control, NextPoll, StartPoll, InProbe
<1>3. Evidence'
  BY DEF IInv, Evidence, NextPoll, InProbe, Said, StartPoll
<1>4. Tried'
  BY OrderFacts, EarlierFacts DEF IInv, Tried, NextPoll, StartPoll, Protos
<1>5. Files'
  BY NoCodeFact DEF IInv, Files, NextPoll, StartPoll, InProbe, TypeOK, Outputs
<1>. QED BY <1>1, <1>2, <1>3, <1>4, <1>5 DEF IInv

LEMMA StutterInv == IInv /\ UNCHANGED vars => IInv'
BY DEF IInv, TypeOK, Control, Evidence, Tried, Files, InProbe, Said, request, vars, Contract!Justified, Blind

LEMMA StepInv == IInv /\ [Next]_vars => IInv'
BY CheckOpenInv, CheckRefusedInv, ConnectedInv, SentInv, LostInv, DeliverInv,
   HeadReadInv, NextExchangeInv, ProbeRaisesInv, ProbeReturnsInv,
   WriteReportInv, WriteFailsInv, ExitInv, AnswerInv, NextPollInv, StutterInv
DEF Next, Process

---------------------------------------------------------------------------
(* Theorems.                                                               *)

\* The inductive invariant holds in every state the program reaches.
THEOREM Inductive == Spec => []IInv
<1>. QED BY InitInv, StepInv, PTL DEF Spec

\* The process never leaves its types: no read ever waits for a negative number
\* of bytes, however malformed the length in a header (framing.recv_exactly).
THEOREM TypeCorrect == Spec => []TypeOK
<1>1. IInv => TypeOK
  BY DEF IInv
<1>. QED BY <1>1, Inductive, PTL

\* --proto auto probes a protocol only when every earlier port was found closed,
\* and gives up only when all are (poller.poll).
THEOREM AutoOrdered == Spec => []AutoTriesInOrder
<1>1. IInv => AutoTriesInOrder
  <2>. SUFFICES ASSUME IInv, opt.proto = "auto"
                PROVE  /\ proto # "auto" => refused = Earlier(proto)
                       /\ health = unreachable("auto") => refused = Protos
    BY DEF AutoTriesInOrder
  <2>1. proto # "auto" => refused = Earlier(proto)
    BY DEF IInv, Tried, TypeOK
  <2>2. ASSUME health = unreachable("auto") PROVE refused = Protos
    <3>1. health # NoRecord
      BY <2>2, UnreachableRecord, RecordNotNone
    <3>2. pc # "check" /\ ~InProbe
      BY <3>1 DEF IInv, Control, InProbe
    <3>3. proto = "auto"
      BY <2>2, <3>1, UnreachableRecord DEF IInv, Control
    <3>. QED BY <3>2, <3>3 DEF IInv, Tried
  <2>. QED BY <2>1, <2>2
<1>. QED BY <1>1, Inductive, PTL

\* Whatever exchange a connection is lost in, the poll reports UNREACHABLE and
\* exits with 2 (the except OSError of every probe).
THEOREM LostReported == Spec => []LostExitsTwo
<1>1. IInv => LostExitsTwo
  BY DEF IInv, Evidence, LostExitsTwo
<1>. QED BY <1>1, Inductive, PTL

\* The report files a scheduler reads agree with the exit code (cli._emit).
THEOREM ReportsTruthful == Spec => []ReportsMatchExit
<1>1. IInv => ReportsMatchExit
  BY DEF IInv, Files, ReportsMatchExit
<1>. QED BY <1>1, Inductive, PTL

\* A poll implements the contract of its exit code: every step of the process
\* and its target is a step of PollContract or leaves it alone.
THEOREM ExitCodesJustified == Spec => ExitJustified
<1>1. Init => Contract!Init
  BY DEF Init, Contract!Init, NoCode, Blind, Contract!Facts
<1>2. IInv /\ IInv' /\ [Next]_vars => [Contract!Next]_<<told, exit, Blind(opt)>>
  <2>0. ASSUME [Next]_vars PROVE opt' = opt /\ Blind(opt)' = Blind(opt)
    <3>1. opt' = opt
      BY <2>0 DEF Next, Process, vars, CheckOpen, CheckRefused, Connected, Sent, Lost,
                  Deliver, HeadRead, NextExchange, ProbeRaises, ProbeReturns, WriteReport,
                  WriteFails, Exit, Answer, NextPoll
    <3>. QED BY <3>1 DEF Blind
  <2>. SUFFICES ASSUME IInv, IInv', [Next]_vars, ~UNCHANGED <<told, exit>>
                PROVE  Contract!Learn \/ Contract!Conclude \/ Contract!NextPoll
    BY <2>0 DEF Contract!Next
  <2>1. told \subseteq Contract!Facts /\ told' \subseteq Contract!Facts
    BY DEF IInv, TypeOK
  <2>2. /\ exit = NoCode <=> pc # "exited"
        /\ exit' = NoCode <=> pc' # "exited"
        /\ NoCode = -1 /\ NoCode = Contract!NoCode
    BY NoCodeFact DEF IInv, Control, NoCode
  <2>3. CASE CheckRefused \/ Lost \/ Answer
    <3>1. exit = NoCode /\ exit' = NoCode /\ told \subseteq told'
      BY <2>2, <2>3 DEF CheckRefused, Lost, Answer
    <3>. QED BY <2>1, <2>2, <3>1 DEF Contract!Learn
  <2>4. CASE ProbeRaises
    <3>1. "garbled" \in told
      BY <2>4, ProbeDone, RaisesGarbled DEF ProbeRaises, Raises
    <3>2. exit = NoCode /\ exit' = 1 /\ told' = told
      BY <2>2, <2>4 DEF ProbeRaises, Traceback
    <3>3. Contract!Justified(exit', told')
      BY <3>1, <3>2 DEF Contract!Justified
    <3>. QED BY <2>1, <2>2, <3>2, <3>3 DEF Contract!Conclude
  <2>5. CASE WriteFails
    <3>1. exit = NoCode /\ exit' = 1 /\ told' = told \cup {"unwritable"}
      BY <2>2, <2>5 DEF WriteFails, Traceback
    <3>2. Contract!Justified(exit', told')
      BY <3>1 DEF Contract!Justified
    <3>. QED BY <2>1, <2>2, <3>1, <3>2 DEF Contract!Conclude
  <2>6. CASE Exit
    <3>1. exit = NoCode /\ exit' = ExitCode(health) /\ told' = told
      BY <2>2, <2>6 DEF Exit
    <3>2. Contract!Justified(exit', told') /\ exit' \in 0..2
      BY <2>6, <3>1 DEF IInv, Evidence, Exit, ExitCode
    <3>. QED BY <2>1, <2>2, <3>1, <3>2 DEF Contract!Conclude
  <2>7. CASE NextPoll
    BY <2>2, <2>7 DEF NextPoll, StartPoll, Contract!NextPoll
  <2>8. CASE \/ CheckOpen \/ Connected \/ Sent \/ Deliver \/ HeadRead
             \/ NextExchange \/ ProbeReturns \/ WriteReport \/ UNCHANGED vars
    BY <2>8 DEF CheckOpen, Connected, Sent, Deliver, HeadRead, NextExchange,
                ProbeReturns, WriteReport, vars
  <2>. QED BY <2>3, <2>4, <2>5, <2>6, <2>7, <2>8 DEF Next, Process
<1>. QED BY <1>1, <1>2, Inductive, PTL DEF Spec, ExitJustified, Contract!Spec

---------------------------------------------------------------------------
(* How near a poll is to its end. Every step of the process brings it      *)
(* nearer: the phases of a poll come in order and every one is bounded, by *)
(* the bytes still awaited or by the files still to write. What fairness   *)
(* adds in PollEnds is that the process is not stopped for ever.           *)

Phase ==
  CASE pc = "check"   -> 18 - idx
    [] pc = "connect" -> 14
    [] pc = "send"    -> 3 * (4 - step) + 4
    [] pc = "head"    -> 3 * (4 - step) + 3
    [] pc = "body"    -> 3 * (4 - step) + 2
    [] pc = "emit"    -> 1
    [] OTHER          -> 0

Unwritten(o) == IF Written(o) THEN 0 ELSE 1

Left ==
  IF pc \in {"head", "body"} THEN want
  ELSE IF pc = "emit" THEN Unwritten("json") + Unwritten("csv") ELSE 0

Nearer == Phase' < Phase \/ (Phase' = Phase /\ Left' < Left)

\* A step of the process brings the poll nearer to its end, however small the pieces of
\* the replies are and whatever length their headers claim (framing.recv_exactly waits
\* for what it was asked for and no more); an answer of the target does not put it off.
PollNears ==
  [][(Process => Nearer) /\ (Answer => Phase' = Phase /\ Left' = Left)]_vars

LEMMA MeasureTyped ==
  ASSUME TypeOK
  PROVE  Phase \in Nat /\ Left \in Nat
<1>1. idx \in 1..3 /\ step \in 1..4 /\ want \in Nat
  BY OrderFacts DEF TypeOK
<1>2. QED
  BY <1>1 DEF Phase, Left, Unwritten

LEMMA StepNears ==
  ASSUME TypeOK, Process
  PROVE  Nearer
<1>1. idx \in 1..3 /\ step \in 1..4 /\ want \in Nat /\ Len(AutoOrder) = 3
  BY OrderFacts DEF TypeOK
<1>2. CASE CheckOpen
  BY <1>1, <1>2 DEF CheckOpen, Nearer, Phase
<1>3. CASE CheckRefused
  BY <1>1, <1>3 DEF CheckRefused, Nearer, Phase
<1>4. CASE Connected
  BY <1>1, <1>4 DEF Connected, Nearer, Phase
<1>5. CASE Sent
  BY <1>1, <1>5 DEF Sent, Nearer, Phase
<1>6. CASE Lost
  BY <1>1, <1>6 DEF Lost, Nearer, Phase
<1>7. CASE Deliver
  <2>1. PICK n \in Segments : want' = IF n < want THEN want - n ELSE 0
    BY <1>7 DEF Deliver
  <2>2. n \in Nat \ {0}
    BY SegmentsAssumption
  <2>3. want' < want
    BY <1>1, <1>7, <2>1, <2>2 DEF Deliver
  <2>4. Phase' = Phase /\ Left = want /\ Left' = want'
    BY <1>7 DEF Deliver, Phase, Left
  <2>5. QED
    BY <2>3, <2>4 DEF Nearer
<1>8. CASE HeadRead
  BY <1>1, <1>8 DEF HeadRead, Nearer, Phase
<1>9. CASE NextExchange
  BY <1>1, <1>9 DEF NextExchange, Nearer, Phase
<1>10. CASE ProbeRaises \/ ProbeReturns
  BY <1>1, <1>10 DEF ProbeRaises, ProbeReturns, Traceback, Nearer, Phase
<1>11. CASE WriteReport
  <2>1. PICK o \in Outputs : ~Written(o) /\ disk' = [disk EXCEPT ![o] = "new"]
    BY <1>11 DEF WriteReport, NextOutput
  <2>2. disk \in [Outputs -> {"none", "old", "partial", "new"}] /\ opt' = opt /\ pc' = pc /\ pc = "emit"
    BY <1>11 DEF WriteReport, TypeOK
  <2>3. Written(o)' /\ \A q \in Outputs \ {o} : Written(q)' = Written(q)
    BY <2>1, <2>2 DEF Written
  <2>4. Left' < Left
    BY <2>1, <2>2, <2>3 DEF Left, Unwritten, Outputs
  <2>5. Phase' = Phase
    BY <1>11 DEF WriteReport, Phase
  <2>6. QED
    BY <2>4, <2>5 DEF Nearer
<1>12. CASE WriteFails \/ Exit
  BY <1>12 DEF WriteFails, Exit, Traceback, Nearer, Phase
<1>13. QED
  BY <1>2, <1>3, <1>4, <1>5, <1>6, <1>7, <1>8, <1>9, <1>10, <1>11, <1>12 DEF Process

\* Its two measures are natural numbers, so a poll takes only so many steps.
THEOREM PollShrinks == Spec => [](Phase \in Nat /\ Left \in Nat) /\ PollNears
<1>1. IInv => TypeOK
  BY DEF IInv
<1>2. TypeOK => Phase \in Nat /\ Left \in Nat
  BY MeasureTyped
<1>3. TypeOK /\ [Next]_vars =>
        [(Process => Nearer) /\ (Answer => Phase' = Phase /\ Left' = Left)]_vars
  <2>1. TypeOK /\ Process => Nearer
    BY StepNears
  <2>2. Answer => Phase' = Phase /\ Left' = Left
    BY DEF Answer, Phase, Left
  <2>3. QED
    BY <2>1, <2>2
<1>4. QED
  BY <1>1, <1>2, <1>3, Inductive, PTL DEF Spec, PollNears

---------------------------------------------------------------------------
(* Facts about numbers and sequences, for the asset inventory below.       *)
(* Induction is by the least counterexample: the theorems of the library   *)
(* that state it in general take an operator as their parameter.           *)

Below == {p \in Nat \X Nat : p[1] < p[2]}

LEMMA BelowWellFounded == IsWellFoundedOn(Below, Nat)
BY NatLessThanWellFounded DEF OpToRel, Below

\* A set of natural numbers has a least element.
LEMMA Least ==
  ASSUME NEW T \in SUBSET Nat, T # {}
  PROVE  \E x \in T : \A y \in T : x <= y
<1>1. PICK x \in T : \A y \in T : <<y, x>> \notin Below
  BY BelowWellFounded, WFMin
<1>2. ASSUME NEW y \in T
      PROVE  x <= y
  <2>1. ~(y < x)
    BY <1>1 DEF Below
  <2>2. QED
    BY <2>1
<1>3. QED
  BY <1>2

\* A set of numbers up to n has a greatest element.
LEMMA Greatest ==
  ASSUME NEW n \in Nat, NEW T \in SUBSET (1..n), T # {}
  PROVE  Max(T) \in T /\ \A y \in T : y <= Max(T)
<1> DEFINE U == {n - x : x \in T}
<1>1. U \in SUBSET Nat /\ U # {}
  <2>1. \A x \in T : x \in 1..n
    OBVIOUS
  <2>2. \A x \in T : n - x \in Nat
    BY <2>1
  <2>3. QED
    BY <2>2
<1>2. PICK u \in U : \A y \in U : u <= y
  <2> HIDE DEF U
  <2>1. QED
    BY <1>1, Least
<1>3. PICK x \in T : u = n - x
  OBVIOUS
<1>4. ASSUME NEW y \in T
      PROVE  x >= y
  <2>1. n - x <= n - y
    BY <1>2, <1>3
  <2>2. QED
    BY <2>1
<1>5. QED
  BY <1>4 DEF Max

\* Induction over the natural numbers.
LEMMA SetInduction ==
  ASSUME NEW S, 0 \in S, \A n \in Nat : n \in S => n + 1 \in S
  PROVE  \A n \in Nat : n \in S
<1>1. SUFFICES ASSUME NEW m \in Nat \ S PROVE FALSE
  OBVIOUS
<1>2. PICK x \in Nat \ S : \A y \in Nat \ S : x <= y
  BY <1>1, Least
<1>3. x - 1 \in Nat /\ (x - 1) + 1 = x
  BY <1>2
<1>4. x - 1 \in S
  BY <1>2, <1>3
<1>5. QED
  BY <1>2, <1>3, <1>4

\* g tells, for every i up to n, what the first i sequences of ss are together.
Flattens(g, ss, n) == g = [i \in 1..n |-> IF i = 1 THEN ss[i] ELSE g[i - 1] \o ss[i]]

\* There is such a g, for every n.
LEMMA FlattenExists ==
  ASSUME NEW ss
  PROVE  \A n \in Nat : \E g : Flattens(g, ss, n)
<1> DEFINE S == {n \in Nat : \E g : Flattens(g, ss, n)}
<1>1. 0 \in S
  <2>1. Flattens([i \in 1..0 |-> ss[i]], ss, 0)
    BY DEF Flattens
  <2>2. QED
    BY <2>1
<1>2. ASSUME NEW n \in Nat, n \in S
      PROVE  n + 1 \in S
  <2>1. PICK g : Flattens(g, ss, n)
    BY <1>2
  <2> DEFINE h == [i \in 1..(n + 1) |->
                    IF i = n + 1 THEN (IF i = 1 THEN ss[i] ELSE g[n] \o ss[i]) ELSE g[i]]
  <2>2. ASSUME NEW i \in 1..(n + 1)
        PROVE  h[i] = IF i = 1 THEN ss[i] ELSE h[i - 1] \o ss[i]
    <3>1. CASE i = n + 1
      <4>1. i # 1 => i - 1 \in 1..(n + 1) /\ i - 1 # n + 1 /\ i - 1 = n
        BY <3>1
      <4>2. i # 1 => h[i - 1] = g[n]
        BY <4>1
      <4>3. h[i] = IF i = 1 THEN ss[i] ELSE g[n] \o ss[i]
        BY <3>1
      <4>4. QED
        BY <4>2, <4>3
    <3>2. CASE i # n + 1
      <4>1. i \in 1..n
        BY <3>2
      <4>2. i # 1 => i - 1 \in 1..(n + 1) /\ i - 1 # n + 1
        BY <3>2
      <4>3. i # 1 => h[i - 1] = g[i - 1]
        BY <4>2
      <4>4. h[i] = g[i]
        BY <3>2
      <4>5. g[i] = IF i = 1 THEN ss[i] ELSE g[i - 1] \o ss[i]
        BY <2>1, <4>1 DEF Flattens
      <4>6. QED
        BY <4>3, <4>4, <4>5
    <3>3. QED
      BY <3>1, <3>2
  <2>3. h = [i \in 1..(n + 1) |-> h[i]]
    OBVIOUS
  <2>4. Flattens(h, ss, n + 1)
    <3> HIDE DEF h
    <3>1. QED
      BY <2>2, <2>3 DEF Flattens
  <2>5. QED
    BY <2>4
<1>3. QED
  <2> HIDE DEF S
  <2>1. \A n \in Nat : n \in S
    BY <1>1, <1>2, SetInduction
  <2>2. QED
    BY <2>1 DEF S

\* FlattenSeq is the last value of such a g.
LEMMA FlattenByPrefix ==
  ASSUME NEW ss, Len(ss) \in Nat \ {0}
  PROVE  \E g : Flattens(g, ss, Len(ss)) /\ FlattenSeq(ss) = g[Len(ss)]
<1> DEFINE g == CHOOSE h : Flattens(h, ss, Len(ss))
<1>1. Flattens(g, ss, Len(ss))
  BY FlattenExists
<1>2. FlattenSeq(ss) = g[Len(ss)]
  BY DEF FlattenSeq, Flattens
<1>3. QED
  BY <1>1, <1>2

\* q lists what f says of the members of P: of each once, and of nothing else.
Lists(q, P, f) ==
  /\ q \in Seq({f[p] : p \in P})
  /\ \E w \in Bijection(1..Len(q), P) : \A n \in 1..Len(q) : q[n] = f[w[n]]

\* The lists of two disjoint sets, one after the other, list both.
LEMMA ConcatLists ==
  ASSUME NEW q, NEW r, NEW P, NEW R, NEW f,
         Lists(q, P, f), Lists(r, R, f), P \cap R = {}
  PROVE  Lists(q \o r, P \cup R, f)
<1> DEFINE All == {f[p] : p \in P \cup R}
<1>1. q \in Seq(All) /\ r \in Seq(All)
  <2>1. {f[p] : p \in P} \subseteq All /\ {f[p] : p \in R} \subseteq All
    OBVIOUS
  <2> HIDE DEF All
  <2>2. QED
    BY <2>1, SeqMonotonic DEF Lists
<1>2. PICK u \in Bijection(1..Len(q), P) : \A n \in 1..Len(q) : q[n] = f[u[n]]
  BY DEF Lists
<1>3. PICK v \in Bijection(1..Len(r), R) : \A n \in 1..Len(r) : r[n] = f[v[n]]
  BY DEF Lists
<1>4. Len(q) \in Nat /\ Len(r) \in Nat
  BY <1>1, LenProperties
<1>5. q \o r \in Seq(All) /\ Len(q \o r) = Len(q) + Len(r)
  BY <1>1, ConcatProperties
<1>6. \A n \in 1..(Len(q) + Len(r)) : (q \o r)[n] = IF n <= Len(q) THEN q[n] ELSE r[n - Len(q)]
  <2> HIDE DEF All
  <2>1. QED
    BY <1>1, ConcatProperties
<1> DEFINE D == 1..(Len(q) + Len(r))
           w == [n \in D |-> IF n <= Len(q) THEN u[n] ELSE v[n - Len(q)]]
<1>7. /\ u \in [1..Len(q) -> P] /\ v \in [1..Len(r) -> R]
      /\ \A a, b \in 1..Len(q) : u[a] = u[b] => a = b
      /\ \A a, b \in 1..Len(r) : v[a] = v[b] => a = b
      /\ \A p \in P : \E a \in 1..Len(q) : u[a] = p
      /\ \A p \in R : \E a \in 1..Len(r) : v[a] = p
  BY DEF Bijection, Injection, IsInjective, Surjection
<1>8. \A n \in D : (n <= Len(q) => n \in 1..Len(q)) /\ (~(n <= Len(q)) => n - Len(q) \in 1..Len(r))
  BY <1>4
<1>9. w \in [D -> P \cup R]
  <2>1. ASSUME NEW n \in D
        PROVE  (IF n <= Len(q) THEN u[n] ELSE v[n - Len(q)]) \in P \cup R
    BY <1>7, <1>8
  <2>2. QED
    BY <2>1
<1>10. \A a, b \in D : w[a] = w[b] => a = b
  <2>1. ASSUME NEW a \in D, NEW b \in D, w[a] = w[b]
        PROVE  a = b
    <3>1. CASE a <= Len(q) /\ b <= Len(q)
      <4>1. u[a] = u[b]
        BY <2>1, <3>1
      <4>2. QED
        BY <3>1, <4>1, <1>7, <1>8
    <3>2. CASE a <= Len(q) /\ ~(b <= Len(q))
      <4>1. u[a] = v[b - Len(q)] /\ u[a] \in P /\ v[b - Len(q)] \in R
        BY <2>1, <3>2, <1>7, <1>8
      <4>2. QED
        BY <4>1
    <3>3. CASE ~(a <= Len(q)) /\ b <= Len(q)
      <4>1. u[b] = v[a - Len(q)] /\ u[b] \in P /\ v[a - Len(q)] \in R
        BY <2>1, <3>3, <1>7, <1>8
      <4>2. QED
        BY <4>1
    <3>4. CASE ~(a <= Len(q)) /\ ~(b <= Len(q))
      <4>1. v[a - Len(q)] = v[b - Len(q)]
        BY <2>1, <3>4
      <4>2. a - Len(q) = b - Len(q)
        BY <3>4, <4>1, <1>7, <1>8
      <4>3. QED
        BY <4>2, <1>4
    <3>5. QED
      BY <3>1, <3>2, <3>3, <3>4
  <2>2. QED
    BY <2>1
<1>11. \A p \in P \cup R : \E n \in D : w[n] = p
  <2>1. ASSUME NEW p \in P
        PROVE  \E n \in D : w[n] = p
    <3>1. PICK a \in 1..Len(q) : u[a] = p
      BY <1>7
    <3>2. a \in D /\ a <= Len(q)
      BY <1>4
    <3>3. QED
      BY <3>1, <3>2
  <2>2. ASSUME NEW p \in R
        PROVE  \E n \in D : w[n] = p
    <3>1. PICK a \in 1..Len(r) : v[a] = p
      BY <1>7
    <3>2. a + Len(q) \in D /\ ~(a + Len(q) <= Len(q)) /\ (a + Len(q)) - Len(q) = a
      BY <1>4
    <3>3. w[a + Len(q)] = v[a]
      BY <3>2
    <3>4. QED
      BY <3>1, <3>2, <3>3
  <2>3. QED
    BY <2>1, <2>2
<1>12. w \in Bijection(1..Len(q \o r), P \cup R)
  <2> HIDE DEF w, All
  <2>1. w \in Injection(D, P \cup R) /\ w \in Surjection(D, P \cup R)
    BY <1>9, <1>10, <1>11 DEF Injection, IsInjective, Surjection
  <2>2. QED
    BY <2>1, <1>5 DEF Bijection
<1>13. \A n \in D : (q \o r)[n] = f[w[n]]
  <2>1. ASSUME NEW n \in D
        PROVE  (q \o r)[n] = f[w[n]]
    <3>1. CASE n <= Len(q)
      <4>1. (q \o r)[n] = q[n] /\ w[n] = u[n]
        BY <3>1, <1>6
      <4>2. QED
        BY <4>1, <3>1, <1>2, <1>8
    <3>2. CASE ~(n <= Len(q))
      <4>1. (q \o r)[n] = r[n - Len(q)] /\ w[n] = v[n - Len(q)]
        BY <3>2, <1>6
      <4>2. QED
        BY <4>1, <3>2, <1>3, <1>8
    <3>3. QED
      BY <3>1, <3>2
  <2>2. QED
    BY <2>1
<1>14. QED
  <2> HIDE DEF w
  <2>1. QED
    BY <1>5, <1>12, <1>13 DEF Lists

\* The empty list and the list of one.
LEMMA EmptyLists ==
  ASSUME NEW f
  PROVE  Lists(<<>>, {}, f)
<1> DEFINE w == [n \in 1..0 |-> 0]
<1>1. w \in Injection(1..0, {}) /\ w \in Surjection(1..0, {})
  BY DEF Injection, IsInjective, Surjection
<1>2. QED
  BY <1>1, EmptySeq DEF Lists, Bijection

LEMMA SingleLists ==
  ASSUME NEW f, NEW p
  PROVE  Lists(<<f[p]>>, {p}, f)
<1> DEFINE w == [n \in 1..1 |-> p]
<1>1. w \in Injection(1..1, {p}) /\ w \in Surjection(1..1, {p})
  BY DEF Injection, IsInjective, Surjection
<1>2. <<f[p]>> \in Seq({f[x] : x \in {p}}) /\ Len(<<f[p]>>) = 1
  OBVIOUS
<1>3. QED
  BY <1>1, <1>2 DEF Lists, Bijection

\* A sequence of lists of disjoint sets, flattened, lists them all.
LEMMA FlattenLists ==
  ASSUME NEW n \in Nat, NEW ss, Len(ss) = n, ss = [i \in 1..n |-> ss[i]],
         NEW P, NEW f,
         \A i \in 1..n : Lists(ss[i], P[i], f),
         \A i, j \in 1..n : i # j => P[i] \cap P[j] = {}
  PROVE  Lists(FlattenSeq(ss), UNION {P[i] : i \in 1..n}, f)
<1>1. CASE n = 0
  <2>1. FlattenSeq(ss) = ss
    BY <1>1 DEF FlattenSeq
  <2>2. ss = <<>> /\ UNION {P[i] : i \in 1..n} = {}
    BY <1>1
  <2>3. QED
    BY <2>1, <2>2, EmptyLists
<1>2. CASE n # 0
  <2>1. PICK g : Flattens(g, ss, n) /\ FlattenSeq(ss) = g[n]
    BY <1>2, FlattenByPrefix
  <2> DEFINE Upto(k) == UNION {P[i] : i \in 1..k}
             S == {k \in Nat : k \in 1..n => Lists(g[k], Upto(k), f)}
  <2>2. 0 \in S
    OBVIOUS
  <2>3. ASSUME NEW k \in Nat, k \in S
        PROVE  k + 1 \in S
    <3>1. SUFFICES ASSUME k + 1 \in 1..n
                   PROVE  Lists(g[k + 1], Upto(k + 1), f)
      OBVIOUS
    <3>2. g[k + 1] = IF k + 1 = 1 THEN ss[k + 1] ELSE g[(k + 1) - 1] \o ss[k + 1]
      BY <2>1, <3>1 DEF Flattens
    <3>3. Upto(k + 1) = Upto(k) \cup P[k + 1]
      <4>1. 1..(k + 1) = 1..k \cup {k + 1}
        OBVIOUS
      <4>2. QED
        BY <4>1
    <3>4. CASE k = 0
      <4>1. k + 1 = 1 /\ Upto(k) = {}
        BY <3>4
      <4>2. Upto(1) = P[1] /\ g[1] = ss[1]
        <5> HIDE DEF Upto
        <5>1. QED
          BY <3>2, <3>3, <4>1
      <4>3. Lists(ss[1], P[1], f)
        BY <3>1, <4>1
      <4>4. QED
        <5> HIDE DEF Upto
        <5>1. QED
          BY <4>1, <4>2, <4>3
    <3>5. CASE k # 0
      <4>5. k \in 1..n /\ k + 1 # 1 /\ (k + 1) - 1 = k
        BY <3>1, <3>5
      <4>1. k \in 1..n /\ g[k + 1] = g[k] \o ss[k + 1]
        BY <3>2, <4>5
      <4>2. Lists(g[k], Upto(k), f) /\ Lists(ss[k + 1], P[k + 1], f)
        BY <4>1, <3>1, <2>3
      <4>3. Upto(k) \cap P[k + 1] = {}
        <5>1. \A i \in 1..k : i \in 1..n /\ i # k + 1
          BY <4>1
        <5>2. QED
          BY <5>1, <3>1
      <4>4. QED
        <5> HIDE DEF Upto
        <5>1. QED
          BY <4>1, <4>2, <4>3, <3>3, ConcatLists
    <3>6. QED
      BY <3>4, <3>5
  <2>4. \A k \in Nat : k \in S
    <3> HIDE DEF S
    <3>1. QED
      BY <2>2, <2>3, SetInduction
  <2>5. Lists(g[n], Upto(n), f)
    <3>1. n \in 1..n
      BY <1>2
    <3>2. n \in S
      BY <2>4
    <3>3. QED
      BY <3>1, <3>2
  <2>6. QED
    BY <2>1, <2>5
<1>3. QED
  BY <1>1, <1>2

---------------------------------------------------------------------------
(* The parser of the asset inventory.                                      *)

\* Of the elements of q with an index in T: those that are usable, those with the key k,
\* and for every key the text said last.
Speaks(q, T) == {i \in T : Usable(q[i])}
On(q, T, k) == {i \in Speaks(q, T) : q[i].key = k}
LastSaid(q, T) == [k \in {q[i].key : i \in Speaks(q, T)} |-> q[Max(On(q, T, k))].text]

\* What the last element of T adds.
LEMMA LastSaidStep ==
  ASSUME NEW n \in Nat, NEW q, NEW T \in SUBSET (1..n), T # {}
  PROVE  LastSaid(q, T) = LET m == Max(T)
                          IN  IF Usable(q[m]) THEN Put(LastSaid(q, T \ {m}), q[m].key, q[m].text)
                              ELSE LastSaid(q, T \ {m})
<1> DEFINE m == Max(T)
           R == T \ {m}
<1>1. m \in T /\ \A y \in T : y <= m
  BY Greatest
<1>2. CASE ~Usable(q[m])
  <2>1. Speaks(q, T) = Speaks(q, R)
    BY <1>2 DEF Speaks
  <2>2. \A k : On(q, T, k) = On(q, R, k)
    BY <2>1 DEF On
  <2>3. LastSaid(q, T) = LastSaid(q, R)
    BY <2>1, <2>2 DEF LastSaid
  <2>4. QED
    BY <2>3, <1>2
<1>3. CASE Usable(q[m])
  <2>1. Speaks(q, T) = Speaks(q, R) \cup {m}
    BY <1>1, <1>3 DEF Speaks
  <2>2. \A k : k # q[m].key => On(q, T, k) = On(q, R, k)
    BY <2>1 DEF On
  <2>3. Max(On(q, T, q[m].key)) = m
    <3>1. m \in On(q, T, q[m].key) /\ On(q, T, q[m].key) \subseteq T
      BY <2>1 DEF On, Speaks
    <3>2. /\ Max(On(q, T, q[m].key)) \in On(q, T, q[m].key)
          /\ \A y \in On(q, T, q[m].key) : y <= Max(On(q, T, q[m].key))
      BY <3>1, Greatest
    <3>3. Max(On(q, T, q[m].key)) \in Nat /\ m \in Nat
      <4> HIDE DEF m
      <4>1. m \in T /\ Max(On(q, T, q[m].key)) \in T
        BY <1>1, <3>1, <3>2
      <4>2. \A x \in T : x \in 1..n
        OBVIOUS
      <4>3. \A x \in T : x \in Nat
        BY <4>2
      <4>4. QED
        BY <4>1, <4>3
    <3>4. QED
      BY <1>1, <3>1, <3>2, <3>3
  <2>4. {q[i].key : i \in Speaks(q, T)} = {q[i].key : i \in Speaks(q, R)} \cup {q[m].key}
    BY <2>1
  <2>5. DOMAIN LastSaid(q, R) = {q[i].key : i \in Speaks(q, R)}
    BY DEF LastSaid
  <2>6. \A k \in {q[i].key : i \in Speaks(q, R)} : LastSaid(q, R)[k] = q[Max(On(q, R, k))].text
    BY DEF LastSaid
  <2>7. \A k \in DOMAIN LastSaid(q, R) \cup {q[m].key} :
           q[Max(On(q, T, k))].text = IF k = q[m].key THEN q[m].text ELSE LastSaid(q, R)[k]
    BY <2>2, <2>3, <2>5, <2>6
  <2>8. LastSaid(q, T) = [k \in DOMAIN LastSaid(q, R) \cup {q[m].key} |-> q[Max(On(q, T, k))].text]
    BY <2>4, <2>5 DEF LastSaid
  <2>9. LastSaid(q, T) = Put(LastSaid(q, R), q[m].key, q[m].text)
    BY <2>7, <2>8 DEF Put
  <2>10. QED
    BY <2>9, <1>3
<1>4. QED
  BY <1>2, <1>3

\* it tells what the fold of script_fields makes of every set of indices.
FoldsTo(it, q, n) ==
  it = [T \in SUBSET (1..n) |->
          IF T = {} THEN <<>>
          ELSE LET m == Max(T)
               IN  IF Usable(q[m]) THEN Put(it[T \ {m}], q[m].key, q[m].text) ELSE it[T \ {m}]]

\* What is said last is such an it, so there is one; and any such it tells, for all the
\* elements, what is said last.
LEMMA FoldExists ==
  ASSUME NEW n \in Nat, NEW q
  PROVE  \E it : FoldsTo(it, q, n)
<1> DEFINE it == [T \in SUBSET (1..n) |-> LastSaid(q, T)]
           Step(T) == IF T = {} THEN <<>>
                      ELSE LET m == Max(T)
                           IN  IF Usable(q[m]) THEN Put(it[T \ {m}], q[m].key, q[m].text)
                               ELSE it[T \ {m}]
<1>1. ASSUME NEW T \in SUBSET (1..n)
      PROVE  LastSaid(q, T) = Step(T)
  <2>1. CASE T = {}
    <3>1. Speaks(q, T) = {}
      BY <2>1 DEF Speaks
    <3>2. LastSaid(q, T) = <<>>
      BY <3>1 DEF LastSaid
    <3>3. QED
      BY <3>2, <2>1
  <2>2. CASE T # {}
    <3>1. T \ {Max(T)} \in SUBSET (1..n)
      OBVIOUS
    <3>2. it[T \ {Max(T)}] = LastSaid(q, T \ {Max(T)})
      BY <3>1
    <3> HIDE DEF it
    <3>3. QED
      BY <3>2, <2>2, LastSaidStep
  <2>3. QED
    BY <2>1, <2>2
<1>2. it = [T \in SUBSET (1..n) |-> Step(T)]
  <2> HIDE DEF Step
  <2>1. QED
    BY <1>1
<1>3. QED
  BY <1>2 DEF FoldsTo

LEMMA FoldIsLastSaid ==
  ASSUME NEW n \in Nat, NEW q, NEW it, FoldsTo(it, q, n)
  PROVE  it[1..n] = LastSaid(q, 1..n)
<1> DEFINE S == {k \in Nat : k <= n => it[1..k] = LastSaid(q, 1..k)}
<1>1. 0 \in S
  <2>1. 1..0 = {} /\ 1..0 \in SUBSET (1..n)
    OBVIOUS
  <2>2. it[1..0] = <<>>
    BY <2>1 DEF FoldsTo
  <2>3. LastSaid(q, 1..0) = <<>>
    BY <2>1 DEF LastSaid, Speaks
  <2>4. QED
    BY <2>2, <2>3
<1>2. ASSUME NEW k \in Nat, k \in S
      PROVE  k + 1 \in S
  <2>1. SUFFICES ASSUME k + 1 <= n
                 PROVE  it[1..(k + 1)] = LastSaid(q, 1..(k + 1))
    OBVIOUS
  <2>2. /\ 1..(k + 1) \in SUBSET (1..n) /\ 1..(k + 1) # {}
        /\ k + 1 \in 1..(k + 1) /\ \A y \in 1..(k + 1) : y <= k + 1
    BY <2>1
  <2>3. Max(1..(k + 1)) = k + 1
    <3>1. Max(1..(k + 1)) \in 1..(k + 1) /\ k + 1 <= Max(1..(k + 1))
      BY <2>2, Greatest
    <3>2. QED
      BY <3>1
  <2>4. (1..(k + 1)) \ {k + 1} = 1..k
    OBVIOUS
  <2>5. it[1..k] = LastSaid(q, 1..k)
    BY <1>2, <2>1
  <2>6. it[1..(k + 1)] = IF Usable(q[k + 1]) THEN Put(it[1..k], q[k + 1].key, q[k + 1].text)
                         ELSE it[1..k]
    BY <2>2, <2>3, <2>4 DEF FoldsTo
  <2>7. LastSaid(q, 1..(k + 1)) = IF Usable(q[k + 1])
                                  THEN Put(LastSaid(q, 1..k), q[k + 1].key, q[k + 1].text)
                                  ELSE LastSaid(q, 1..k)
    <3> DEFINE T == 1..(k + 1)
    <3>1. LastSaid(q, T) = LET m == Max(T)
                           IN  IF Usable(q[m]) THEN Put(LastSaid(q, T \ {m}), q[m].key, q[m].text)
                               ELSE LastSaid(q, T \ {m})
      BY <2>2, LastSaidStep
    <3>2. QED
      BY <3>1, <2>3, <2>4
  <2>8. QED
    BY <2>5, <2>6, <2>7
<1>3. \A k \in Nat : k \in S
  <2> HIDE DEF S
  <2>1. QED
    BY <1>1, <1>2, SetInduction
<1>4. n \in S
  BY <1>3
<1>5. QED
  BY <1>4

\* The fold of script_fields makes what is said last.
LEMMA FieldsAreLastSaid ==
  ASSUME NEW s, DOMAIN s.elems = 1..Len(s.elems), Len(s.elems) \in Nat
  PROVE  script_fields(s) = LastSaid(s.elems, DOMAIN s.elems)
<1> DEFINE it == CHOOSE g : FoldsTo(g, s.elems, Len(s.elems))
<1>1. FoldsTo(it, s.elems, Len(s.elems))
  BY FoldExists
<1>2. script_fields(s) = it[DOMAIN s.elems]
  BY DEF script_fields, FoldLeft, MapThenFoldSet, FoldsTo
<1>3. QED
  BY <1>1, <1>2, FoldIsLastSaid

\* A script that leaves a record.
Reports(s) == \E n \in DOMAIN s.elems : Usable(s.elems[n])

LEMMA ScriptType ==
  ASSUME NEW s \in Script
  PROVE  /\ Len(s.elems) \in Nat /\ DOMAIN s.elems = 1..Len(s.elems)
         /\ \A i \in DOMAIN s.elems : s.elems[i] \in Element
BY DEF Script

\* The fields of a script have, for the key of every usable element and for no other, the
\* text said last; a script without a usable element has none.
LEMMA ScriptFields ==
  ASSUME NEW s \in Script
  PROVE  /\ \A k \in DOMAIN script_fields(s) : SaysLast(s, k, script_fields(s)[k])
         /\ \A i \in DOMAIN s.elems : Usable(s.elems[i]) => s.elems[i].key \in DOMAIN script_fields(s)
         /\ DOMAIN script_fields(s) # {} <=> Reports(s)
<1> DEFINE q == s.elems
           D == DOMAIN q
<1>1. script_fields(s) = LastSaid(q, D)
  BY ScriptType, FieldsAreLastSaid
<1>2. DOMAIN script_fields(s) = {q[i].key : i \in Speaks(q, D)}
  BY <1>1 DEF LastSaid
<1>3. ASSUME NEW k \in DOMAIN script_fields(s)
      PROVE  SaysLast(s, k, script_fields(s)[k])
  <2> DEFINE m == Max(On(q, D, k))
  <2>1. script_fields(s)[k] = q[m].text
    BY <1>1, <1>2, <1>3 DEF LastSaid
  <2>2. On(q, D, k) # {} /\ On(q, D, k) \subseteq 1..Len(q)
    BY <1>2, ScriptType DEF On, Speaks
  <2>3. m \in On(q, D, k) /\ \A j \in On(q, D, k) : j <= m
    BY <2>2, ScriptType, Greatest
  <2>4. m \in D /\ q[m].key = k /\ Usable(q[m]) /\ m \in Nat
    BY <2>3, ScriptType DEF On, Speaks
  <2>5. q[m] = [key |-> k, text |-> script_fields(s)[k]]
    BY <2>1, <2>4, ScriptType DEF Element
  <2>6. ASSUME NEW j \in (m + 1)..Len(q), q[j].key = k
        PROVE  q[j].text = NoText
    <3>1. j \in D /\ ~(j <= m)
      BY <2>4, ScriptType
    <3>2. j \notin On(q, D, k)
      BY <3>1, <2>3
    <3>3. ~Usable(q[j])
      BY <2>6, <3>1, <3>2 DEF On, Speaks
    <3>4. QED
      BY <2>4, <2>6, <3>3 DEF Usable
  <2>7. QED
    <3> HIDE DEF m
    <3>1. QED
      BY <2>4, <2>5, <2>6 DEF SaysLast
<1>4. \A i \in D : Usable(q[i]) => q[i].key \in DOMAIN script_fields(s)
  BY <1>2 DEF Speaks
<1>5. DOMAIN script_fields(s) # {} <=> Reports(s)
  BY <1>2 DEF Speaks, Reports
<1>6. QED
  BY <1>3, <1>4, <1>5

\* The address of a host is one of its own; it has none only if it has hardware addresses.
LEMMA HostAddress ==
  ASSUME NEW h \in Host
  PROVE  /\ host_address(h) = NoText => \A i \in DOMAIN h.addrs : h.addrs[i].type = "mac"
         /\ host_address(h) # NoText => \E i \in DOMAIN h.addrs : h.addrs[i].addr = host_address(h)
<1> DEFINE ips == {i \in DOMAIN h.addrs : h.addrs[i].type \in {"ipv4", "ipv6"}}
<1>1. \A i \in DOMAIN h.addrs : i \in Nat /\ h.addrs[i] \in Address
  BY DEF Host
<1>2. CASE ips = {}
  <2>1. host_address(h) = NoText
    BY <1>2 DEF host_address
  <2>2. QED
    BY <2>1, <1>1, <1>2 DEF Address
<1>3. CASE ips # {}
  <2>1. host_address(h) = h.addrs[Min(ips)].addr
    BY <1>3 DEF host_address
  <2>2. Min(ips) \in ips
    <3>1. ips \in SUBSET Nat
      BY <1>1
    <3>2. \E x \in ips : \A y \in ips : x <= y
      <4> HIDE DEF ips
      <4>1. QED
        BY <3>1, <1>3, Least
    <3>3. QED
      <4> HIDE DEF ips
      <4>1. QED
        BY <3>2 DEF Min
  <2>3. host_address(h) # NoText
    BY <1>1, <2>1, <2>2 DEF Address
  <2>4. QED
    BY <2>1, <2>2, <2>3
<1>4. QED
  BY <1>2, <1>3

\* The record of a script of a host, of the script at a position of d, and the positions
\* of the scripts of host i that leave one.
Record(h, s) == [host |-> host_address(h), script |-> s.id, fields |-> script_fields(s)]
RecordAt(d) == [p \in Nat \X Nat |-> Record(d.hosts[p[1]], d.hosts[p[1]].scripts[p[2]])]
SpeakingAt(d, i) == {<<i, j>> : j \in {k \in DOMAIN d.hosts[i].scripts : Reports(d.hosts[i].scripts[k])}}

LEMMA HostType ==
  ASSUME NEW d \in Document
  PROVE  /\ Len(d.hosts) \in Nat /\ DOMAIN d.hosts = 1..Len(d.hosts)
         /\ \A i \in DOMAIN d.hosts :
              /\ d.hosts[i] \in Host
              /\ Len(d.hosts[i].scripts) \in Nat
              /\ DOMAIN d.hosts[i].scripts = 1..Len(d.hosts[i].scripts)
              /\ \A j \in DOMAIN d.hosts[i].scripts : d.hosts[i].scripts[j] \in Script
<1>1. d.hosts \in Seq(Host)
  BY DEF Document
<1>2. \A i \in DOMAIN d.hosts : d.hosts[i] \in Host
  BY <1>1
<1>3. ASSUME NEW h \in Host
      PROVE  /\ Len(h.scripts) \in Nat /\ DOMAIN h.scripts = 1..Len(h.scripts)
             /\ \A j \in DOMAIN h.scripts : h.scripts[j] \in Script
  <2>1. h.scripts \in Seq(Script)
    BY DEF Host
  <2>2. QED
    BY <2>1
<1>4. QED
  BY <1>1, <1>2, <1>3

LEMMA HostRecords ==
  ASSUME NEW d \in Document, NEW i \in DOMAIN d.hosts
  PROVE  Lists(host_records(d.hosts[i]), SpeakingAt(d, i), RecordAt(d))
<1> DEFINE h == d.hosts[i]
           n == Len(h.scripts)
           ss == [j \in DOMAIN h.scripts |-> script_records(h, h.scripts[j])]
           P == [j \in 1..n |-> IF Reports(h.scripts[j]) THEN {<<i, j>>} ELSE {}]
<1>1. n \in Nat /\ DOMAIN h.scripts = 1..n /\ i \in Nat /\ \A j \in 1..n : h.scripts[j] \in Script
  BY HostType
<1>2. Len(ss) = n /\ ss = [j \in 1..n |-> ss[j]]
  BY <1>1
<1>3. ASSUME NEW j \in 1..n
      PROVE  Lists(ss[j], P[j], RecordAt(d))
  <2>1. ss[j] = script_records(h, h.scripts[j])
    BY <1>1
  <2>2. RecordAt(d)[<<i, j>>] = Record(h, h.scripts[j])
    BY <1>1 DEF RecordAt
  <2>3. CASE Reports(h.scripts[j])
    <3>1. ss[j] = <<RecordAt(d)[<<i, j>>]>>
      BY <1>1, <2>1, <2>2, <2>3, ScriptFields DEF script_records, Record
    <3>2. QED
      BY <3>1, <2>3, SingleLists
  <2>4. CASE ~Reports(h.scripts[j])
    <3>1. ss[j] = <<>>
      BY <1>1, <2>1, <2>4, ScriptFields DEF script_records
    <3>2. QED
      BY <3>1, <2>4, EmptyLists
  <2>5. QED
    BY <2>3, <2>4
<1>4. \A j, k \in 1..n : j # k => P[j] \cap P[k] = {}
  OBVIOUS
<1>5. UNION {P[j] : j \in 1..n} = SpeakingAt(d, i)
  BY <1>1 DEF SpeakingAt
<1>6. Lists(FlattenSeq(ss), UNION {P[j] : j \in 1..n}, RecordAt(d))
  <2> HIDE DEF ss, P, n
  <2>1. QED
    BY <1>1, <1>2, <1>3, <1>4, FlattenLists
<1>7. QED
  BY <1>5, <1>6 DEF host_records

\* The parser leaves one record for every script of the document that said anything, and
\* no other; each is of its host and its script. (assetinv/parser.py, parse_xml, for
\* documents of any length.)
THEOREM ParserListsSpeaking ==
  ASSUME NEW d \in Document
  PROVE  Lists(parse_xml(d), Speaking(d), RecordAt(d))
<1> DEFINE n == Len(d.hosts)
           ss == [i \in DOMAIN d.hosts |-> host_records(d.hosts[i])]
           P == [i \in 1..n |-> SpeakingAt(d, i)]
<1>1. n \in Nat /\ DOMAIN d.hosts = 1..n
  BY HostType
<1>2. Len(ss) = n /\ ss = [i \in 1..n |-> ss[i]]
  BY <1>1
<1>3. ASSUME NEW i \in 1..n
      PROVE  Lists(ss[i], P[i], RecordAt(d))
  BY <1>1, HostRecords
<1>4. \A i, j \in 1..n : i # j => P[i] \cap P[j] = {}
  BY DEF SpeakingAt
<1>5. UNION {P[i] : i \in 1..n} = Speaking(d)
  BY <1>1 DEF Speaking, SpeakingAt, Reports
<1>6. Lists(FlattenSeq(ss), UNION {P[i] : i \in 1..n}, RecordAt(d))
  <2> HIDE DEF ss, P, n
  <2>1. QED
    BY <1>1, <1>2, <1>3, <1>4, FlattenLists
<1>7. QED
  BY <1>5, <1>6 DEF parse_xml

\* An asset without a product is given no hint.
LEMMA NoProductNoHints ==
  ASSUME NEW a, a.canon.product = NoText
  PROVE  correlate(a) = <<>>
<1> DEFINE n == Len(Bundle)
           ss == [i \in DOMAIN Bundle |-> IF matches(Bundle[i], a) THEN Bundle[i].cves ELSE <<>>]
           P == [i \in 1..n |-> {}]
           f == [p \in {} |-> 0]
<1>1. n \in Nat /\ DOMAIN Bundle = 1..n
  BY BundleAssumption
<1>2. ASSUME NEW i \in 1..n
      PROVE  ~matches(Bundle[i], a)
  <2>1. Bundle[i] \in Hint
    BY BundleAssumption
  <2>2. Bundle[i].product_match # NoText /\ <<Bundle[i].product_match, NoText>> \notin Within
    BY <2>1 DEF Hint
  <2>3. QED
    BY <2>2 DEF matches, Holds
<1>3. Len(ss) = n /\ ss = [i \in 1..n |-> ss[i]]
  BY <1>1
<1>4. ASSUME NEW i \in 1..n
      PROVE  Lists(ss[i], P[i], f)
  <2>1. ss[i] = <<>> /\ P[i] = {}
    BY <1>1, <1>2
  <2>2. QED
    BY <2>1, EmptyLists
<1>5. \A i, j \in 1..n : i # j => P[i] \cap P[j] = {}
  OBVIOUS
<1>6. UNION {P[i] : i \in 1..n} = {}
  OBVIOUS
<1>7. Lists(FlattenSeq(ss), {}, f)
  <2> HIDE DEF ss, P, n, f
  <2>1. Lists(FlattenSeq(ss), UNION {P[i] : i \in 1..n}, f)
    BY <1>1, <1>3, <1>4, <1>5, FlattenLists
  <2>2. QED
    BY <2>1, <1>6
<1>8. FlattenSeq(ss) = <<>>
  <2> DEFINE q == FlattenSeq(ss)
  <2>1. q \in Seq({f[p] : p \in {}}) /\ Bijection(1..Len(q), {}) # {}
    BY <1>7 DEF Lists
  <2> HIDE DEF q, ss, f
  <2>2. 1..Len(q) = {} /\ Len(q) \in Nat
    BY <2>1, LenProperties DEF Bijection, Injection
  <2>3. QED
    BY <2>1, <2>2, EmptySeq DEF q
<1>9. QED
  BY <1>8 DEF correlate

\* What is built of the record of a script tells what the script said.
LEMMA AssetTells ==
  ASSUME NEW h \in Host, NEW s \in Script, want_cve \in BOOLEAN
  PROVE  Tells(asset(Record(h, s)), h, s)
<1> DEFINE r == Record(h, s)
           b == normalize(r)
           a == asset(r)
<1>1. /\ b.host = host_address(h) /\ b.script = s.id /\ b.raw = script_fields(s)
      /\ b.cve_hints = <<>>
      /\ \A c \in Canonical : b.canon[c] # NoText =>
           \E k \in DOMAIN script_fields(s) : script_fields(s)[k] = b.canon[c]
  BY DEF normalize, Record
<1>2. /\ a.host = b.host /\ a.script = b.script /\ a.raw = b.raw /\ a.canon = b.canon
      /\ a.cve_hints = IF want_cve THEN correlate(b) ELSE b.cve_hints
  BY DEF asset, normalize
<1>3. a.cve_hints # <<>> => want_cve /\ a.canon.product # NoText
  <2> HIDE DEF a, b
  <2>1. QED
    BY <1>1, <1>2, NoProductNoHints
<1>4. QED
  <2> HIDE DEF a, b, r
  <2>1. /\ a.host = NoText => \A i \in DOMAIN h.addrs : h.addrs[i].type = "mac"
        /\ a.host # NoText => \E i \in DOMAIN h.addrs : h.addrs[i].addr = a.host
    BY <1>1, <1>2, HostAddress
  <2>2. /\ \A k \in DOMAIN a.raw : SaysLast(s, k, a.raw[k])
        /\ \A i \in DOMAIN s.elems : Usable(s.elems[i]) => s.elems[i].key \in DOMAIN a.raw
    BY <1>1, <1>2, ScriptFields
  <2>3. Tells(a, h, s)
    BY <1>1, <1>2, <1>3, <2>1, <2>2 DEF Tells
  <2>4. QED
    BY <2>3 DEF a, r

---------------------------------------------------------------------------
(* The command.                                                            *)

\* The asset of a record, when hints are asked for or not.
AssetOf(w, r) == IF w THEN [normalize(r) EXCEPT !.cve_hints = correlate(normalize(r))] ELSE normalize(r)

\* The records are those of the document.
Parsed ==
  /\ stage \in {"parse", "build", "emit", "write", "return", "done"} => doc \in Documents
  /\ stage \in {"build", "emit", "write", "return", "done"} =>
       doc.wellformed /\ records = parse_xml(doc)
  /\ file # Old => doc \in Documents

\* The assets are those of the first records, and of all of them before a file is opened.
Made == {AssetOf(want_cve, records[i]) : i \in 1..Len(records)}

Built ==
  /\ want_cve \in BOOLEAN
  /\ Len(records) \in Nat /\ Len(assets) <= Len(records)
  /\ assets \in Seq(Made)
  /\ \A i \in 1..Len(assets) : assets[i] = AssetOf(want_cve, records[i])
  /\ stage \in {"read", "parse"} => assets = <<>>
  /\ stage \in {"emit", "write", "return", "done"} => Len(assets) = Len(records)

\* The file is the old one until it is opened, and whole once it is closed.
Filed ==
  /\ stage \in {"read", "parse", "build", "emit"} => file = Old
  /\ stage \in {"write", "return", "done"} => file # Old
  /\ stage \in {"return", "done"} => file.whole
  /\ file # Old => file \in [whole : BOOLEAN, from : {"new"}, assets : Seq(Made)]

RunInv == Parsed /\ Built /\ Filed /\ OldKeptUntilBuilt

LEMMA RecordsType ==
  ASSUME NEW d \in Documents
  PROVE  Len(parse_xml(d)) \in Nat
<1>1. d \in Document
  BY DocumentsAssumption
<1>2. QED
  BY <1>1, ParserListsSpeaking, LenProperties DEF Lists

\* One more asset is built.
LEMMA BuildStep ==
  ASSUME Built, Build, stage' # "emit"
  PROVE  Built'
<1> DEFINE x == AssetOf(want_cve, records[Len(assets) + 1])
<1>1. /\ stage = "build" /\ Len(assets) # Len(records) /\ assets' = Append(assets, x)
      /\ UNCHANGED <<stage, want_cve, records>>
  BY DEF Build, asset, AssetOf
<1>2. assets \in Seq(Made) /\ Len(assets) \in Nat
  BY LenProperties DEF Built
<1>3. Len(assets) + 1 \in 1..Len(records)
  BY <1>1, <1>2 DEF Built
<1>4. x \in Made
  BY <1>3 DEF Made
<1>5. /\ assets' \in Seq(Made) /\ Len(assets') = Len(assets) + 1
      /\ \A i \in 1..Len(assets) : assets'[i] = assets[i]
      /\ assets'[Len(assets) + 1] = x
  <2> HIDE DEF x
  <2>1. QED
    BY <1>1, <1>2, <1>4
<1>6. \A i \in 1..Len(assets') : assets'[i] = AssetOf(want_cve, records[i])
  <2>1. ASSUME NEW i \in 1..Len(assets')
        PROVE  assets'[i] = AssetOf(want_cve, records[i])
    <3> HIDE DEF x
    <3>1. i \in 1..Len(assets) \/ i = Len(assets) + 1
      BY <1>2, <1>5
    <3>2. CASE i \in 1..Len(assets)
      BY <3>2, <1>5 DEF Built
    <3>3. CASE i = Len(assets) + 1
      <4>1. assets'[i] = x
        BY <1>5, <3>3
      <4>2. QED
        BY <4>1, <3>3 DEF x
    <3>4. QED
      BY <3>1, <3>2, <3>3
  <2>2. QED
    BY <2>1
<1>7. Len(assets') <= Len(records)
  BY <1>3, <1>5, <1>2
<1>8. QED
  <2> HIDE DEF x
  <2>1. QED
    BY <1>1, <1>5, <1>6, <1>7 DEF Built, Made

\* One more asset is written.
LEMMA WriteStep ==
  ASSUME RunInv, WriteSome
  PROVE  Filed' /\ OldKeptUntilBuilt'
<1> DEFINE n == Len(file.assets)
           x == assets[n + 1]
<1>1. /\ stage = "write" /\ n < Len(assets) /\ file' = [file EXCEPT !.assets = Append(@, x)]
      /\ UNCHANGED <<stage, want_cve, doc, records, assets>>
  BY DEF WriteSome
<1>2. file # Old /\ file \in [whole : BOOLEAN, from : {"new"}, assets : Seq(Made)]
  BY <1>1 DEF RunInv, Filed
<1>3. n \in Nat /\ Len(assets) \in Nat /\ assets \in Seq(Made)
  BY <1>2, LenProperties DEF RunInv, Built
<1>4. n + 1 \in 1..Len(assets)
  BY <1>1, <1>3
<1>5. x \in Made
  BY <1>3, <1>4, ElementOfSeq
<1>6. file'.assets = Append(file.assets, x) /\ file'.whole = file.whole /\ file'.from = "new"
      /\ file' \in [whole : BOOLEAN, from : {"new"}, assets : Seq(Made)]
  <2> HIDE DEF x
  <2>1. Append(file.assets, x) \in Seq(Made)
    BY <1>2, <1>5
  <2> QED BY <1>1, <1>2, <2>1
<1>7. file' # Old
  BY <1>6 DEF Old
<1>8. /\ Len(file'.assets) = n + 1
      /\ \A i \in 1..n : file'.assets[i] = file.assets[i]
      /\ file'.assets[n + 1] = x
  <2> HIDE DEF x
  <2> QED BY <1>2, <1>3, <1>5, <1>6
<1>9. Made' = Made
  BY <1>1 DEF Made
<1>10. Filed'
  BY <1>1, <1>6, <1>7, <1>9 DEF Filed
<1>11. \A i \in 1..Len(file'.assets) : file'.assets[i] = assets[i]
  <2>1. \A i \in 1..n : file.assets[i] = assets[i]
    BY <1>2 DEF RunInv, OldKeptUntilBuilt
  <2> QED BY <1>3, <1>8, <2>1
<1>12. ~file.whole
  BY <1>1, <1>2 DEF RunInv, OldKeptUntilBuilt
<1>13. OldKeptUntilBuilt'
  BY <1>1, <1>2, <1>3, <1>4, <1>6, <1>7, <1>8, <1>11, <1>12 DEF RunInv, OldKeptUntilBuilt
<1> QED BY <1>10, <1>13

\* The inductive invariant of the command assetinv (assetinv/cli.py, main).
THEOREM RunInductive == RunSpec => []RunInv
<1>1. RunInit => RunInv
  <2> SUFFICES ASSUME RunInit PROVE RunInv
    OBVIOUS
  <2>1. Built
    BY EmptySeq DEF RunInit, Built, Made
  <2>2. QED
    BY <2>1 DEF RunInit, RunInv, Parsed, Filed, OldKeptUntilBuilt
<1>2. RunInv /\ [RunNext]_run => RunInv'
  <2> SUFFICES ASSUME RunInv, [RunNext]_run PROVE RunInv'
    OBVIOUS
  <2> USE DEF RunInv
  <2>1. CASE Read
    <3>1. Built'
      BY <2>1 DEF Read, Built, Made
    <3>2. QED
      BY <2>1, <3>1 DEF Read, Parsed, Filed, Made, OldKeptUntilBuilt
  <2>2. CASE Parse
    <3>1. CASE doc.wellformed
      <4>1. /\ stage = "parse" /\ stage' = "build" /\ records' = parse_xml(doc)
            /\ UNCHANGED <<want_cve, doc, assets, file>>
        BY <2>2, <3>1 DEF Parse
      <4>2. Len(records') \in Nat
        BY <4>1, RecordsType DEF Parsed
      <4>3. assets' = <<>>
        BY <4>1 DEF Built
      <4>4. Built'
        BY <4>1, <4>2, <4>3, EmptySeq DEF Built, Made
      <4>5. QED
        BY <4>1, <4>4, <3>1 DEF Parsed, Filed, Made, OldKeptUntilBuilt
    <3>2. CASE ~doc.wellformed
      <4>1. Built'
        BY <2>2, <3>2 DEF Parse, Built, Made
      <4>2. QED
        BY <2>2, <3>2, <4>1 DEF Parse, Parsed, Filed, Made, OldKeptUntilBuilt
    <3>3. QED
      BY <3>1, <3>2
  <2>3. CASE Build
    <3>1. CASE stage' = "emit"
      <4>1. Len(assets) = Len(records) /\ UNCHANGED <<want_cve, doc, records, assets, file>>
        BY <2>3, <3>1 DEF Build
      <4>2. Built'
        BY <3>1, <4>1 DEF Built, Made
      <4>3. QED
        BY <2>3, <3>1, <4>1, <4>2 DEF Build, Parsed, Filed, Made, OldKeptUntilBuilt
    <3>2. CASE stage' # "emit"
      <4>1. Built'
        BY <2>3, <3>2, BuildStep
      <4>2. QED
        BY <2>3, <3>2, <4>1 DEF Build, Parsed, Filed, Made, OldKeptUntilBuilt
    <3>3. QED
      BY <3>1, <3>2
  <2>4. CASE Open
    <3>1. /\ stage = "emit" /\ stage' = "write" /\ file = Old
          /\ file' = [whole |-> FALSE, from |-> "new", assets |-> <<>>]
          /\ UNCHANGED <<want_cve, doc, records, assets>>
      BY <2>4 DEF Open, Filed
    <3>2. Built'
      BY <3>1 DEF Built, Made
    <3>3. <<>> \in Seq(Made') /\ Len(<<>>) = 0 /\ file' # Old
      BY <3>1, EmptySeq DEF Old
    <3>4. Parsed' /\ Filed'
      BY <3>1, <3>3 DEF Parsed, Filed
    <3>5. Len(assets) \in Nat /\ Len(file'.assets) = 0 /\ ~file'.whole
      BY <3>1, LenProperties DEF Built
    <3>6. QED
      BY <3>1, <3>2, <3>3, <3>4, <3>5 DEF Parsed, Built, OldKeptUntilBuilt
  <2>5. CASE WriteSome
    <3>1. Built' /\ Parsed'
      BY <2>5 DEF WriteSome, Built, Parsed, Filed, Made
    <3>2. QED
      BY <2>5, <3>1, WriteStep
  <2>6. CASE Write
    <3>1. /\ stage = "write" /\ stage' = "return" /\ Len(file.assets) = Len(assets)
          /\ file' = [file EXCEPT !.whole = TRUE]
          /\ UNCHANGED <<want_cve, doc, records, assets>>
      BY <2>6 DEF Write
    <3>2. Built' /\ Made' = Made
      BY <3>1 DEF Built, Made
    <3>3. file # Old /\ file \in [whole : BOOLEAN, from : {"new"}, assets : Seq(Made)]
      BY <3>1 DEF Filed
    <3>4. /\ file'.whole /\ file'.assets = file.assets /\ file' # Old
          /\ file' \in [whole : BOOLEAN, from : {"new"}, assets : Seq(Made)]
      BY <3>1, <3>3 DEF Old
    <3>5. QED
      BY <3>1, <3>2, <3>3, <3>4 DEF Parsed, Filed, OldKeptUntilBuilt
  <2>8. CASE Return
    <3>1. Built'
      BY <2>8 DEF Return, Built, Made
    <3>2. QED
      BY <2>8, <3>1 DEF Return, Parsed, Built, Filed, Made, OldKeptUntilBuilt
  <2>9. CASE Stopped
    <3>1. Built'
      BY <2>9 DEF Stopped, Built, Made
    <3>2. QED
      BY <2>9, <3>1 DEF Stopped, Parsed, Built, Filed, Made, OldKeptUntilBuilt
  <2>7. CASE UNCHANGED run
    BY <2>7 DEF run, Parsed, Built, Filed, Made, OldKeptUntilBuilt
  <2>10. QED
    BY <2>1, <2>2, <2>3, <2>4, <2>5, <2>6, <2>7, <2>8, <2>9 DEF RunNext
<1>3. QED
  BY <1>1, <1>2, PTL DEF RunSpec

\* The inventory of the run before stays as it was until every asset of the new one is
\* there (cli.py, main: the text is made before the file is opened); what is written of the
\* new one, whole or cut short, are its first assets, and all of them if the run ends well.
THEOREM OldKept == RunSpec => []OldKeptUntilBuilt
<1>1. RunInv => OldKeptUntilBuilt
  BY DEF RunInv
<1>2. QED
  BY <1>1, RunInductive, PTL

LEMMA SpeakingType ==
  ASSUME NEW d \in Document, NEW p \in Speaking(d)
  PROVE  /\ p \in Nat \X Nat
         /\ d.hosts[p[1]] \in Host /\ d.hosts[p[1]].scripts[p[2]] \in Script
<1>1. PICK i \in DOMAIN d.hosts : \E j \in DOMAIN d.hosts[i].scripts : p = <<i, j>>
  BY DEF Speaking
<1>2. PICK j \in DOMAIN d.hosts[i].scripts : p = <<i, j>>
  BY <1>1
<1>3. QED
  BY <1>2, HostType

\* A file that is complete is the inventory of the document.
LEMMA DoneIsFaithful ==
  ASSUME RunInv
  PROVE  InventoryFaithful
<1> SUFFICES ASSUME file.whole, file # Old
             PROVE  LET tells(i, p) == Tells(file.assets[i], doc.hosts[p[1]], doc.hosts[p[1]].scripts[p[2]])
                    IN  /\ Len(file.assets) = Cardinality(Speaking(doc))
                        /\ \A p \in Speaking(doc) : \E i \in DOMAIN file.assets : tells(i, p)
                        /\ \A i \in DOMAIN file.assets : \E p \in Speaking(doc) : tells(i, p)
  BY DEF InventoryFaithful
<1> DEFINE n == Len(records)
           P == Speaking(doc)
           tells(i, p) == Tells(file.assets[i], doc.hosts[p[1]], doc.hosts[p[1]].scripts[p[2]])
<1>1. doc \in Document /\ records = parse_xml(doc)
  BY DocumentsAssumption DEF RunInv, Parsed, OldKeptUntilBuilt
<1>2. /\ Len(assets) = n /\ n \in Nat /\ want_cve \in BOOLEAN
      /\ Len(file.assets) = n /\ \A i \in 1..n : file.assets[i] = assets[i]
  BY DEF RunInv, OldKeptUntilBuilt, Built
<1>3. DOMAIN file.assets = 1..n
  BY <1>2, LenProperties DEF RunInv, Filed
<1>4. \A i \in 1..n : file.assets[i] = asset(records[i])
  BY <1>2 DEF RunInv, Built, AssetOf, asset
<1>5. PICK w \in Bijection(1..n, P) : \A i \in 1..n : records[i] = RecordAt(doc)[w[i]]
  BY <1>1, ParserListsSpeaking DEF Lists
<1>6. w \in [1..n -> P] /\ \A p \in P : \E i \in 1..n : w[i] = p
  BY <1>5 DEF Bijection, Injection, Surjection
<1>7. ASSUME NEW i \in 1..n
      PROVE  tells(i, w[i])
  <2>1. w[i] \in P
    BY <1>6
  <2> DEFINE h == doc.hosts[w[i][1]]
             s == doc.hosts[w[i][1]].scripts[w[i][2]]
  <2>2. w[i] \in Nat \X Nat /\ h \in Host /\ s \in Script
    BY <2>1, <1>1, SpeakingType
  <2>3. records[i] = Record(h, s)
    BY <1>5, <2>2 DEF RecordAt
  <2>4. Tells(asset(Record(h, s)), h, s)
    <3> HIDE DEF h, s
    <3>1. QED
      BY <2>2, <1>2, AssetTells
  <2>5. QED
    BY <2>3, <2>4, <1>2, <1>4
<1>8. Cardinality(P) = n
  BY <1>2, <1>5, FS_CountingElements DEF ExistsBijection
<1>9. \A p \in P : \E i \in 1..n : tells(i, p)
  BY <1>6, <1>7
<1>10. \A i \in 1..n : \E p \in P : tells(i, p)
  BY <1>6, <1>7
<1>11. QED
  BY <1>2, <1>3, <1>8, <1>9, <1>10

\* An inventory that is whole has one asset for every script that said anything, and
\* no other, and each tells what its script said (parser.py, normalize.py, cve.py, cli.py).
THEOREM Faithful == RunSpec => []InventoryFaithful
BY RunInductive, DoneIsFaithful, PTL
=============================================================================
