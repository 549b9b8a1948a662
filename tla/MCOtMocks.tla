----------------------------- MODULE MCOtMocks ------------------------------
(***************************************************************************)
(* Small instance of OtMocks: a standalone server, the inline one whose    *)
(* handler gives three answers and waits five seconds at most, and the     *)
(* datagram server.                                                        *)
(***************************************************************************)
EXTENDS OtMocks

MCOrder == <<"opcua", "pcworx", "profinet">>

MCMaxAsked == [s \in Inline |-> IF s = "pcworx" THEN 2 ELSE 1]
===========================================================================
