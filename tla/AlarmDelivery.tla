--------------------------- MODULE AlarmDelivery ---------------------------
(***************************************************************************)
(* What becomes of an alarm the FF HSE emulator raises: it waits until one *)
(* connection takes it or until it is trimmed away; the connection that    *)
(* took it tells its client once or loses it. No alarm is ever taken by    *)
(* two connections, told twice, or comes back.                             *)
(***************************************************************************)
CONSTANTS
  Alarms,  \* the alarms that may be raised
  Conns    \* the connections

VARIABLE place  \* where each alarm is

\* A place and, once a connection has taken the alarm, that connection.
Free(p) == [at |-> p, by |-> {}]
With(p, c) == [at |-> p, by |-> {c}]

Places ==
  {Free(p) : p \in {"unborn", "queued", "trimmed"}}
  \cup {With(p, c) : p \in {"held", "told", "lost"}, c \in Conns}

Init == place = [a \in Alarms |-> Free("unborn")]

\* The places an alarm may go to from where it is.
Onward(here, there) ==
  \/ here = Free("unborn") /\ there = Free("queued")
  \/ here = Free("queued") /\ there = Free("trimmed")
  \/ \E c \in Conns :
       \/ here = Free("queued") /\ there = With("held", c)
       \/ here = With("held", c) /\ there \in {With("told", c), With("lost", c)}

\* Several alarms may move in one step (a poll takes all that wait).
Move ==
  /\ place' \in [Alarms -> Places]
  /\ place' # place
  /\ \A a \in Alarms : place'[a] = place[a] \/ Onward(place[a], place'[a])

Spec == Init /\ [][Move]_place
===========================================================================
