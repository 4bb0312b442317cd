--------------------------- MODULE MCRmaClientServer ---------------------------
(***************************************************************************)
(* RmaClientServer for TLC: Rma.cfg gives the constants their values.      *)
(***************************************************************************)
EXTENDS RmaClientServer

================================================================================
