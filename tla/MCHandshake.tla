------------------------------ MODULE MCHandshake ------------------------------
(***************************************************************************)
(* Handshake for TLC.  Bytes are digits of base 2; one rkey is empty, one   *)
(* worker address is longer than the other and begins with a zero byte.     *)
(***************************************************************************)
EXTENDS Handshake

MCWorkerAddrs == {<<1>>, <<0, 1, 1>>}
MCRKeys == {<<>>, <<1, 0>>}

================================================================================
