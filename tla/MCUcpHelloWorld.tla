---------------------------- MODULE MCUcpHelloWorld ----------------------------
(***************************************************************************)
(* UcpHelloWorld for TLC.                                                  *)
(***************************************************************************)
EXTENDS UcpHelloWorld

--------------------------------------------------------------------------------
(***************************************************************************)
(* What the checks of ucp_hello_world.c are there for and do not achieve.  *)
(***************************************************************************)

\* CHKERR_JUMP_RETVAL(ret != (int)sizeof(addr_len), "receive address length\n",
\* err_addr, ret) (line 472): a client that has failed does not exit with 0.
ExitZeroMeansShown ==
    pc["client"] = "end" /\ ret["client"] = "zero" => shown # "none"

\* CHKERR_JUMP(msg == NULL, "allocate memory\n", err_ep) (line 191): the program
\* does not go on to send from or receive into msg when it was not allocated.
MsgIsAllocated ==
    \A p \in Procs : pc[p] \in {"sendwait", "recvwait"} => msg[p] \in {"host", "cuda"}

================================================================================
