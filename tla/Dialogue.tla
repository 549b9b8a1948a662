------------------------------ MODULE Dialogue ------------------------------
(***************************************************************************)
(* What a client of one of the emulators may count on, whatever the        *)
(* protocol: its requests are numbered as it sends them; an answer is the  *)
(* answer to a request that was sent, no request is answered twice or out  *)
(* of turn, and nothing is answered once the server has closed. A lossless *)
(* server answers every request in turn until it closes; another one may   *)
(* pass requests over.                                                     *)
(***************************************************************************)
EXTENDS Naturals

CONSTANTS
  Conns,     \* the connections
  Lossless   \* whether no request may be passed over

VARIABLES
  asked,     \* how many requests each client has sent
  answered,  \* the number of the last request of each that was answered
  open       \* whether the server has yet to close each connection

Init ==
  /\ asked = [c \in Conns |-> 0]
  /\ answered = [c \in Conns |-> 0]
  /\ open = [c \in Conns |-> TRUE]

Ask(c) ==
  /\ asked' = [asked EXCEPT ![c] = @ + 1]
  /\ UNCHANGED <<answered, open>>

Answer(c) ==
  /\ open[c]
  /\ \E k \in (answered[c] + 1)..asked[c] :
       /\ Lossless => k = answered[c] + 1
       /\ answered' = [answered EXCEPT ![c] = k]
  /\ UNCHANGED <<asked, open>>

\* One connection is closed, or all that are open (the process ends).
Close ==
  /\ open' \in [Conns -> BOOLEAN] /\ open' # open
  /\ \A c \in Conns : open'[c] => open[c]
  /\ UNCHANGED <<asked, answered>>

Next == Close \/ \E c \in Conns : Ask(c) \/ Answer(c)

Spec == Init /\ [][Next]_<<asked, answered, open>>
===========================================================================
