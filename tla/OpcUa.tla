-------------------------------- MODULE OpcUa -------------------------------
(***************************************************************************)
(* The OPC UA emulator (sandbox/opcua_mock_server.py): a thread per        *)
(* connection that cuts messages from what it has received by the length   *)
(* each states, and answers HEL, OPN, CLO and the services of MSG. The     *)
(* handlers share nothing.                                                 *)
(*                                                                         *)
(* A message is its type, how far its stated length reaches and what the   *)
(* handler branches on. A length is "exact", "long" (to the end of the     *)
(* next message), "bad" (under 12 or over 65536) or, in a HEL, "short"     *)
(* (some of it) or "zero". What remains of a message whose front is gone   *)
(* reads as Junk, which is of no known type.                               *)
(***************************************************************************)
EXTENDS Naturals, Sequences, FiniteSetsExt

CONSTANTS
  Conns,      \* the connections
  Messages,   \* what a client may send, but for the channel and the number
  MaxAsked    \* bound: messages a client sends

\* Any other service reads like "read": it is answered. An OPN or a CLO has none.
Services == {"none", "read", "browsenone", "unknown", "stub", "unparsed", "truncated", "overlarge"}

\* Only the length of a HEL is believed as it stands.
Lengths(type) == {"exact", "long"} \cup IF type = "HEL" THEN {"short", "zero"} ELSE {"bad"}

ASSUME MessagesAssumption ==
  \A m \in Messages :
    /\ m.type \in {"HEL", "OPN", "CLO", "MSG"}
    /\ m.length \in Lengths(m.type) /\ m.service \in Services

VARIABLES
  pc,        \* "run", then "close" and "done"
  peer,      \* the client: "open", "closed", or "reset" once it refused data
  wire,      \* messages sent and not yet received whole
  part,      \* how much of the first of them was received
  buf,       \* messages received whole and not yet handled
  channel,   \* channel_id, 0 before the first OPN
  handshake_done,
  asked,     \* messages the client has sent
  answered,  \* the number of the last message that was answered
  again,     \* history: a message was answered a second time
  told,      \* the channels the client was told
  refused    \* history: the channel of a message that ended the connection

vars == <<pc, peer, wire, part, buf, channel, handshake_done, asked, answered,
          again, told, refused>>

None == 99
Junk == [type |-> "JUNK", length |-> "exact", service |-> "none", channel |-> 0, no |-> 0]

Parts == {"none", "head", "body"}  \* nothing, fewer than 8 bytes, or more

Init ==
  /\ pc = [c \in Conns |-> "run"]
  /\ peer = [c \in Conns |-> "open"]
  /\ wire = [c \in Conns |-> <<>>]
  /\ part = [c \in Conns |-> "none"]
  /\ buf = [c \in Conns |-> <<>>]
  /\ channel = [c \in Conns |-> 0]
  /\ handshake_done = [c \in Conns |-> FALSE]
  /\ asked = [c \in Conns |-> 0]
  /\ answered = [c \in Conns |-> 0]
  /\ again = [c \in Conns |-> FALSE]
  /\ told = [c \in Conns |-> {}]
  /\ refused = [c \in Conns |-> None]

---------------------------------------------------------------------------
(* Clients. A MSG names a channel the client was told, or channel 0, or   *)
(* one it made up; other messages' channel is not looked at.               *)

Foreign == 98

Send(c) ==
  /\ peer[c] = "open" /\ asked[c] < MaxAsked
  /\ \E m \in Messages, ch \in told[c] \cup {0, Foreign} :
       /\ m.type # "MSG" => ch = 0
       /\ wire' = [wire EXCEPT ![c] = Append(@,
            [type |-> m.type, length |-> m.length, service |-> m.service,
             channel |-> ch, no |-> asked[c] + 1])]
  /\ asked' = [asked EXCEPT ![c] = @ + 1]
  /\ UNCHANGED <<pc, peer, part, buf, channel, handshake_done, answered, again, told, refused>>

Leave(c) ==
  /\ peer[c] = "open"
  /\ peer' = [peer EXCEPT ![c] = "closed"]
  /\ UNCHANGED <<pc, wire, part, buf, channel, handshake_done, asked, answered, again, told, refused>>

---------------------------------------------------------------------------
(* The receive buffer.                                                     *)

\* The message at the front, once its type and length can be read.
Known(c) == buf[c] # <<>> \/ part[c] = "body"
Front(c) == IF buf[c] # <<>> THEN Head(buf[c]) ELSE Head(wire[c])

\* All that the length of the front message asks for has come.
Complete(c) ==
  CASE Front(c).length = "long" -> Len(buf[c]) >= 2
    [] Front(c).length = "exact" /\ Front(c).type # "JUNK" -> buf[c] # <<>>
    [] OTHER -> TRUE

NeedsMore(c) == ~(Known(c) /\ Complete(c))

\* Mutant: a HEL with a wrong length is acknowledged and left in the buffer.
ConsumeUnlessShort(c) ==
  CASE Front(c).length \in {"zero", "short"} -> UNCHANGED <<buf, wire, part>>
    [] Front(c).length = "long" ->
         buf' = [buf EXCEPT ![c] = Tail(Tail(@))] /\ UNCHANGED <<wire, part>>
    [] OTHER -> buf' = [buf EXCEPT ![c] = Tail(@)] /\ UNCHANGED <<wire, part>>

\* The front message goes, a long one with the next, a short one in part.
Consume(c) ==
  CASE Front(c).length = "zero" -> UNCHANGED <<buf, wire, part>>
    [] Front(c).length = "short" ->
         IF buf[c] # <<>>
         THEN buf' = [buf EXCEPT ![c] = <<Junk>> \o Tail(@)] /\ UNCHANGED <<wire, part>>
         ELSE /\ wire' = [wire EXCEPT ![c] = <<Junk>> \o Tail(@)]
              /\ part' = [part EXCEPT ![c] = "none"]
              /\ UNCHANGED buf
    [] Front(c).length = "long" ->
         buf' = [buf EXCEPT ![c] = Tail(Tail(@))] /\ UNCHANGED <<wire, part>>
    [] OTHER -> buf' = [buf EXCEPT ![c] = Tail(@)] /\ UNCHANGED <<wire, part>>

\* buf = b"": the messages behind go too, and one that had begun loses its front.
Clear(c) ==
  /\ buf' = [buf EXCEPT ![c] = <<>>]
  /\ wire' = [wire EXCEPT ![c] =
                IF part[c] = "none" THEN @
                ELSE (IF Head(@).type = "JUNK" THEN <<>> ELSE <<Junk>>) \o Tail(@)]
  /\ part' = [part EXCEPT ![c] = "none"]

Running(c) == pc[c] = "run"
Ends(c) == pc' = [pc EXCEPT ![c] = "close"]

\* A chunk is any number of messages and some of the next.
Recv(c) ==
  /\ Running(c) /\ NeedsMore(c)
  /\ \E k \in 0..Len(wire[c]), p \in Parts :
       /\ k = Len(wire[c]) => p = "none"
       /\ k = 0 => <<part[c], p>> \in {<<"none", "head">>, <<"none", "body">>, <<"head", "body">>}
       /\ buf' = [buf EXCEPT ![c] = @ \o SubSeq(wire[c], 1, k)]
       /\ wire' = [wire EXCEPT ![c] = SubSeq(@, k + 1, Len(@))]
       /\ part' = [part EXCEPT ![c] = p]
  /\ UNCHANGED <<pc, peer, channel, handshake_done, asked, answered, again, told, refused>>

\* recv gives nothing: 60 s of silence, or the end of what the client sent, the
\* last message perhaps cut short.
RecvNothing(c) ==
  /\ Running(c) /\ NeedsMore(c)
  /\ peer[c] = "open" \/ Len(wire[c]) <= IF part[c] = "none" THEN 0 ELSE 1
  /\ Ends(c)
  /\ UNCHANGED <<peer, wire, part, buf, channel, handshake_done, asked, answered, again, told, refused>>

---------------------------------------------------------------------------
(* Handling a message. The first data sent to a client that has closed is  *)
(* lost, the next raises, which ends the handler where it is not caught.   *)

\* Mutant: a send that fails is never noticed.
SentNeverRaises(c, caught) ==
  /\ peer' = [peer EXCEPT ![c] = IF @ = "open" THEN "open" ELSE "reset"]
  /\ answered' = [answered EXCEPT ![c] = Max({@, Front(c).no})]
  /\ again' = [again EXCEPT ![c] = @ \/ Front(c).no <= answered[c]]
  /\ UNCHANGED pc

Sent(c, caught) ==
  /\ peer' = [peer EXCEPT ![c] = IF @ = "open" THEN "open" ELSE "reset"]
  /\ IF peer[c] = "reset" /\ ~caught THEN Ends(c) /\ UNCHANGED <<answered, again>>
     ELSE /\ answered' = [answered EXCEPT ![c] = Max({@, Front(c).no})]
          /\ again' = [again EXCEPT ![c] = @ \/ Front(c).no <= answered[c]]
          /\ UNCHANGED pc

\* The ACK goes out whatever the HEL says.
HandleHello(c) ==
  /\ Running(c) /\ Known(c) /\ Complete(c) /\ Front(c).type = "HEL"
  /\ Consume(c) /\ Sent(c, FALSE)
  /\ UNCHANGED <<channel, handshake_done, asked, told, refused>>

\* An unknown type or a length that cannot be: the buffer is thrown away.
ThrowAway(c) ==
  /\ Running(c) /\ Known(c)
  /\ Front(c).type = "JUNK" \/ Front(c).length = "bad"
  /\ Clear(c)
  /\ UNCHANGED <<pc, peer, channel, handshake_done, asked, answered, again, told, refused>>

Chunk(c, type) ==
  Running(c) /\ Known(c) /\ Complete(c) /\ Front(c).type = type /\ Front(c).length # "bad"

\* Mutant: every OPN draws a channel.
HandleOpenAnew(c) ==
  /\ Chunk(c, "OPN")
  /\ channel' = [channel EXCEPT ![c] = @ + 1]
  /\ handshake_done' = [handshake_done EXCEPT ![c] = TRUE]
  /\ told' = [told EXCEPT ![c] = @ \cup {channel'[c]}]
  /\ Consume(c) /\ Sent(c, FALSE)
  /\ UNCHANGED <<asked, refused>>

\* The first OPN draws the channel; a later one is told the same.
HandleOpen(c) ==
  /\ Chunk(c, "OPN")
  /\ channel' = [channel EXCEPT ![c] = IF handshake_done[c] THEN @ ELSE @ + 1]
  /\ handshake_done' = [handshake_done EXCEPT ![c] = TRUE]
  /\ told' = [told EXCEPT ![c] = @ \cup {channel'[c]}]
  /\ Consume(c) /\ Sent(c, FALSE)
  /\ UNCHANGED <<asked, refused>>

\* Mutant: the socket is closed before the answer is sent.
HandleCloseTooSoon(c) ==
  /\ Chunk(c, "CLO")
  /\ answered' = [answered EXCEPT ![c] = Max({@, Front(c).no})]
  /\ pc' = [pc EXCEPT ![c] = "done"]
  /\ Consume(c)
  /\ UNCHANGED <<peer, channel, handshake_done, asked, again, told, refused>>

HandleClose(c) ==
  /\ Chunk(c, "CLO")
  /\ answered' = [answered EXCEPT ![c] = Max({@, Front(c).no})]
  /\ Consume(c) /\ Ends(c)
  /\ UNCHANGED <<peer, channel, handshake_done, asked, again, told, refused>>

\* A service message is dropped if it is too short or cannot be parsed; one that
\* names another channel, or that raises in the parser or the encoder, ends the
\* connection.
Dropped == {"stub", "unparsed"}
Raising == {"truncated", "overlarge"}
\* A Browse of nothing and an unknown service are answered with an empty GOOD,
\* and a send that fails is not noticed there.
Swallowing == {"browsenone", "unknown"}

HandleDropped(c) ==
  /\ Chunk(c, "MSG")
  /\ \/ Front(c).service = "stub"
     \/ Front(c).service = "unparsed" /\ Front(c).channel = channel[c]
  /\ Consume(c)
  /\ UNCHANGED <<pc, peer, channel, handshake_done, asked, answered, again, told, refused>>

HandleForeign(c) ==
  /\ Chunk(c, "MSG")
  /\ Front(c).service # "stub" /\ Front(c).channel # channel[c]
  /\ refused' = [refused EXCEPT ![c] = Front(c).channel]
  /\ Consume(c) /\ Ends(c)
  /\ UNCHANGED <<peer, channel, handshake_done, asked, answered, again, told>>

HandleRaising(c) ==
  /\ Chunk(c, "MSG")
  /\ Front(c).service \in Raising /\ Front(c).channel = channel[c]
  /\ Consume(c) /\ Ends(c)
  /\ UNCHANGED <<peer, channel, handshake_done, asked, answered, again, told, refused>>

HandleService(c) ==
  /\ Chunk(c, "MSG")
  /\ Front(c).service \notin Dropped \cup Raising /\ Front(c).channel = channel[c]
  /\ Consume(c) /\ Sent(c, Front(c).service \in Swallowing)
  /\ UNCHANGED <<channel, handshake_done, asked, told, refused>>

\* finally: the socket is closed.
CloseSocket(c) ==
  /\ pc[c] = "close"
  /\ pc' = [pc EXCEPT ![c] = "done"]
  /\ UNCHANGED <<peer, wire, part, buf, channel, handshake_done, asked, answered, again, told, refused>>

Handler(c) ==
  \/ CloseSocket(c)
  \/ Recv(c) \/ RecvNothing(c) \/ ThrowAway(c) \/ HandleHello(c) \/ HandleOpen(c)
  \/ HandleClose(c) \/ HandleDropped(c) \/ HandleForeign(c) \/ HandleRaising(c)
  \/ HandleService(c)

Next == \E c \in Conns : Send(c) \/ Leave(c) \/ Handler(c)

\* Every handler is a thread; clients may do nothing.
Spec == Init /\ [][Next]_vars /\ \A c \in Conns : WF_vars(Handler(c))

---------------------------------------------------------------------------
(* Properties.                                                             *)

open == [c \in Conns |-> pc[c] # "done"]

Talk == INSTANCE Dialogue WITH
  Conns <- Conns, Lossless <- FALSE, asked <- asked, answered <- answered, open <- open

\* However messages are cut, thrown away or dropped, what is answered was asked
\* and in its turn. (A message that is passed over is passed over for good.)
AnswersInTurn == Talk!Spec

Spinning(c) ==
  Running(c) /\ Known(c) /\ Front(c).type = "HEL" /\ Front(c).length = "zero"

\* Nothing is handled twice but a HEL that states length 0: it stays at the front
\* of the buffer and is acknowledged over and over, and nothing behind it is read.
OnlyEmptyHelRepeats ==
  \A c \in Conns : again[c] /\ Running(c) => Spinning(c)

\* A client that keeps to a channel it was told is never cut off for it, however
\* often it repeats the OPN and whatever else it pipelines.
NeverRefusedOnItsChannel == \A c \in Conns : refused[c] \notin told[c]

\* Every handler ends, by the timeout if nothing else, unless an empty HEL keeps it
\* busy; then it ends when the client leaves.
HandlersEnd ==
  \A c \in Conns :
    /\ Running(c) ~> (pc[c] = "done" \/ Spinning(c))
    /\ peer[c] # "open" ~> pc[c] = "done"
===========================================================================
