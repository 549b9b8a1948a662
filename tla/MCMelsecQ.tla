------------------------------ MODULE MCMelsecQ -----------------------------
(***************************************************************************)
(* Small instance of MelsecQ: one connection (they share nothing) that     *)
(* pipelines up to four frames of both formats, at the edges of the number *)
(* and of the size.                                                        *)
(***************************************************************************)
EXTENDS MelsecQ

CONSTANT c1

F(sub, cmd, src, dev, points, size) ==
  [sub |-> sub, cmd |-> cmd, src |-> src, dev |-> dev, points |-> points, size |-> size]

MCFrames ==
  {F("5000", 257, 0, "other", 0, 7), F("5000", 257, 0, "other", 0, 6),
   F("5000", 257, 0, "other", 0, 3),
   F("0401", 0, 1, "D", 256, 6), F("0401", 0, 2, "D", 257, 6), F("0401", 0, 3, "M", 1, 5),
   F("1401", 0, 0, "D", 0, 4), F("0500", 0, 65534, "other", 0, 65533),
   F("0500", 0, 2, "other", 0, 65534), F("other", 0, 65535, "other", 0, 0)}
===========================================================================
