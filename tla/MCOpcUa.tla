------------------------------- MODULE MCOpcUa ------------------------------
(***************************************************************************)
(* Small instance of OpcUa: one connection (they share nothing) that       *)
(* pipelines up to three messages, well formed or not.                      *)
(***************************************************************************)
EXTENDS OpcUa

CONSTANT c1

Msg(t, n, s) == [type |-> t, length |-> n, service |-> s]
MCMessages ==
  {Msg("HEL", "exact", "none"), Msg("HEL", "zero", "none"), Msg("HEL", "short", "none"),
   Msg("OPN", "exact", "none"), Msg("OPN", "bad", "none"), Msg("CLO", "exact", "none"),
   Msg("MSG", "long", "read"), Msg("MSG", "exact", "browsenone"),
   Msg("MSG", "exact", "unparsed"), Msg("MSG", "exact", "stub"),
   Msg("MSG", "exact", "overlarge")}
===========================================================================
