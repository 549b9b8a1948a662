------------------------------ MODULE MelsecQ ------------------------------
(***************************************************************************)
(* The MELSEC-Q emulator (sandbox/melsecq_mock_server.py): a thread per    *)
(* connection that reads a header of 14 bytes, then what the frame states, *)
(* and answers it before it reads the next. The two frame formats are told *)
(* apart by the subheader; the extended one carries a number, which the    *)
(* handler compares with the last to flag replays.                         *)
(*                                                                         *)
(* A frame is what its header makes of it. One that has not come whole is  *)
(* one that has not come: both reads wait for it alike.                    *)
(***************************************************************************)
EXTENDS Integers, Sequences

CONSTANTS
  Conns,     \* the connections
  Frames,    \* what a client may send
  MaxAsked   \* bound: frames a client sends

U16 == 65535

\* A frame: its subheader, the command (0x5000 only), the number, the device and the
\* points (extended only), and how many bytes of data it states.
Frame == [sub : {"5000", "0401", "1401", "0500", "other"}, cmd : Nat, src : 0..U16,
          dev : {"D", "M", "X", "Y", "other"}, points : 0..U16, size : Nat]

ASSUME FramesAssumption == Frames \subseteq Frame

VARIABLES
  pc,        \* the handler: "run", "pause" (the scan delay), "close", "done"
  peer,      \* the client: "open", "closed", or "reset"
  wire,      \* frames sent and not yet read
  last_seq,  \* the last number, -1 before the first
  served,    \* history: every number that was handled, and whether it was flagged
  asked,     \* frames the client has sent
  answered   \* the number of the last that was answered

vars == <<pc, peer, wire, last_seq, served, asked, answered>>

Init ==
  /\ pc = [c \in Conns |-> "run"]
  /\ peer = [c \in Conns |-> "open"]
  /\ wire = [c \in Conns |-> <<>>]
  /\ last_seq = [c \in Conns |-> -1]
  /\ served = [c \in Conns |-> <<>>]
  /\ asked = [c \in Conns |-> 0]
  /\ answered = [c \in Conns |-> 0]

---------------------------------------------------------------------------
(* Answers: an error code and how many bytes of data.                      *)

SUCCESS == 0
ILLEGAL_CMD == 49233
ILLEGAL_DEVICE == 49236
ILLEGAL_LENGTH == 49241

CPU_TYPE == 257
MODEL == 256
VERSION == 275

Err(code) == [err |-> code, size |-> 2]
Resp(n) == [err |-> SUCCESS, size |-> 2 + n]

\* The three identification strings fill 16 bytes each.
handle_5000(f) == IF f.cmd \in {CPU_TYPE, MODEL, VERSION} THEN Resp(16) ELSE Err(ILLEGAL_CMD)

BIT_DEVICES == {"M", "X", "Y"}

handle_device_read(f) ==
  IF f.size < 6 \/ f.points = 0 \/ f.points > 256 THEN Err(ILLEGAL_LENGTH)
  ELSE IF f.dev \in BIT_DEVICES THEN Resp(f.points)
  ELSE IF f.dev = "D" THEN Resp(2 * f.points)
  ELSE Err(ILLEGAL_DEVICE)

\* A write is accepted and not kept.
handle_device_write(f) == IF f.size < 4 THEN Err(ILLEGAL_LENGTH) ELSE Resp(0)

handle_loop_test(f) == Resp(f.size)

handle_extended(f) ==
  CASE f.sub = "0401" -> handle_device_read(f)
    [] f.sub = "1401" -> handle_device_write(f)
    [] f.sub = "0500" -> handle_loop_test(f)
    [] OTHER -> Err(ILLEGAL_CMD)

\* An answer carries the number after the request's and its own size in 16 bits each.
CanBePacked(f) == f.src + 1 <= U16 /\ handle_extended(f).size <= U16

\* A 0x5000 frame without room for timer, command and subcommand is not parsed.
Unparsed(f) == f.sub = "5000" /\ f.size < 7

---------------------------------------------------------------------------
(* Clients.                                                                *)

Send(c) ==
  /\ peer[c] = "open" /\ asked[c] < MaxAsked
  /\ \E f \in Frames : wire' = [wire EXCEPT ![c] = Append(@, f)]
  /\ asked' = [asked EXCEPT ![c] = @ + 1]
  /\ UNCHANGED <<pc, peer, last_seq, served, answered>>

Leave(c) ==
  /\ peer[c] = "open"
  /\ \E how \in {"closed", "reset"} : peer' = [peer EXCEPT ![c] = how]
  /\ UNCHANGED <<pc, wire, last_seq, served, asked, answered>>

---------------------------------------------------------------------------
(* The handler.                                                            *)

Running(c) == pc[c] = "run"
Front(c) == Head(wire[c])
Number(c) == asked[c] - Len(wire[c]) + 1

\* The header is 14 bytes whatever the format: one of a frame shorter than that
\* takes bytes of the next.
Arrived(c) ==
  /\ wire[c] # <<>>
  /\ Front(c).sub = "5000" /\ Front(c).size < 4 => Len(wire[c]) > 1

\* recv_exactly gives nothing: 30 s of silence, or the end of the stream.
RecvNothing(c) ==
  /\ Running(c)
  /\ ~Arrived(c) \/ peer[c] = "reset"
  /\ pc' = [pc EXCEPT ![c] = "close"]
  /\ UNCHANGED <<peer, wire, last_seq, served, asked, answered>>

Read(c) ==
  /\ Running(c) /\ Arrived(c)
  /\ wire' = [wire EXCEPT ![c] = Tail(@)]

Reject(c) ==
  /\ Read(c) /\ Unparsed(Front(c))
  /\ pc' = [pc EXCEPT ![c] = "close"]
  /\ UNCHANGED <<peer, last_seq, served, asked, answered>>

\* sendall: the first data for a client that has closed is lost, the next raises.
Sent(c) ==
  IF peer[c] = "reset"
  THEN pc' = [pc EXCEPT ![c] = "close"] /\ UNCHANGED <<peer, answered>>
  ELSE /\ peer' = [peer EXCEPT ![c] = IF @ = "open" THEN "open" ELSE "reset"]
       /\ answered' = [answered EXCEPT ![c] = Number(c)]
       /\ pc' = [pc EXCEPT ![c] = "pause"]

Serve5000(c) ==
  /\ Read(c) /\ Front(c).sub = "5000" /\ ~Unparsed(Front(c))
  /\ Sent(c)
  /\ UNCHANGED <<last_seq, served, asked>>

\* Mutant: a frame sent again at once is not seen.
ReplayedBelow(c) == Front(c).src < last_seq[c]

Replayed(c) == Front(c).src <= last_seq[c]

\* Mutant: a frame whose answer cannot be packed is passed over.
ServeExtendedSkips(c) ==
  /\ Read(c) /\ Front(c).sub # "5000"
  /\ served' = [served EXCEPT ![c] = Append(@, [src |-> Front(c).src, flagged |-> Replayed(c)])]
  /\ last_seq' = [last_seq EXCEPT ![c] = Front(c).src]
  /\ IF CanBePacked(Front(c)) THEN Sent(c) ELSE UNCHANGED <<pc, peer, answered>>
  /\ UNCHANGED asked

\* A number not above the last is flagged, and becomes the last all the same; an
\* answer that cannot be packed ends the connection.
ServeExtended(c) ==
  /\ Read(c) /\ Front(c).sub # "5000"
  /\ served' = [served EXCEPT ![c] = Append(@, [src |-> Front(c).src, flagged |-> Replayed(c)])]
  /\ last_seq' = [last_seq EXCEPT ![c] = Front(c).src]
  /\ IF CanBePacked(Front(c)) THEN Sent(c)
     ELSE pc' = [pc EXCEPT ![c] = "close"] /\ UNCHANGED <<peer, answered>>
  /\ UNCHANGED asked

Resume(c) ==
  /\ pc[c] = "pause"
  /\ pc' = [pc EXCEPT ![c] = "run"]
  /\ UNCHANGED <<peer, wire, last_seq, served, asked, answered>>

CloseSocket(c) ==
  /\ pc[c] = "close"
  /\ pc' = [pc EXCEPT ![c] = "done"]
  /\ UNCHANGED <<peer, wire, last_seq, served, asked, answered>>

Handler(c) ==
  \/ RecvNothing(c) \/ Reject(c) \/ Serve5000(c) \/ ServeExtended(c)
  \/ Resume(c) \/ CloseSocket(c)

Next == \E c \in Conns : Send(c) \/ Leave(c) \/ Handler(c)

\* Every handler is a thread; clients may do nothing.
Spec == Init /\ [][Next]_vars /\ \A c \in Conns : WF_vars(Handler(c))

---------------------------------------------------------------------------
(* Properties.                                                             *)

\* Every variable has its type; last_seq is the number last handled, and the frames
\* read are those sent and no longer waiting.
TypeOK ==
  /\ pc \in [Conns -> {"run", "pause", "close", "done"}]
  /\ peer \in [Conns -> {"open", "closed", "reset"}]
  /\ wire \in [Conns -> Seq(Frame)]
  /\ served \in [Conns -> Seq([src : 0..U16, flagged : BOOLEAN])]
  /\ asked \in [Conns -> Nat] /\ answered \in [Conns -> Nat]
  /\ last_seq \in [Conns -> -1..U16]
  /\ \A c \in Conns :
       last_seq[c] = IF served[c] = <<>> THEN -1 ELSE served[c][Len(served[c])].src

\* The bar is lowered by every replay, yet no replay goes by in silence: between a
\* number and a later one that is not above it there is a flag, at the later one or
\* at another that came between.
NoSilentReplay ==
  \A c \in Conns : \A j \in DOMAIN served[c] : \A i \in 1..(j - 1) :
    served[c][j].src <= served[c][i].src => \E k \in (i + 1)..j : served[c][k].flagged

\* A connection is open until its handler has closed it.
open == [c \in Conns |-> pc[c] # "done"]

Talk == INSTANCE Dialogue WITH
  Conns <- Conns, Lossless <- TRUE, asked <- asked, answered <- answered, open <- open

\* Every frame is answered, in turn, until the handler ends: a frame that cannot be
\* parsed, or whose answer cannot be packed, ends it and is never passed over.
EveryFrameInTurn == Talk!Spec
===========================================================================
