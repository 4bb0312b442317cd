----------------------------- MODULE MCTestBuffers -----------------------------
(***************************************************************************)
(* TestBuffers for TLC.                                                    *)
(***************************************************************************)
EXTENDS TestBuffers
================================================================================
