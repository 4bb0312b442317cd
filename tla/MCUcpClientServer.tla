--------------------------- MODULE MCUcpClientServer ---------------------------
(***************************************************************************)
(* UcpClientServer for TLC.                                                *)
(***************************************************************************)
EXTENDS UcpClientServer, TLC

\* Clients are interchangeable (used by runs without temporal properties).
ClientSymmetry == Permutations(Clients)

--------------------------------------------------------------------------------
(***************************************************************************)
(* What comments of ucp_client_server.c say and the code does not do.      *)
(***************************************************************************)

\* "Send and receive a message using Active Message API. [...] The server gets
\* a message from the client" (lines 532-535), once per iteration: the k-th
\* receive yields the k-th message, with eager messages too.
AmIterationGetsItsMessage ==
    \A c \in Clients : \A k \in DOMAIN rcvd[c] : rcvd[c][k] = [from |-> c, id |-> k - 1]

\* "Register recv callback on the client side to receive FIN message" (line
\* 951): a client that was accepted receives its FIN when nothing fails.
AmClientGetsFin ==
    \A c \in Clients : conn_request = c ~> ret[c] = "ok"

================================================================================
