--------------------------- MODULE UcpSessionProofs ---------------------------
(***************************************************************************)
(* More theorems about UcpClientServer: the phases of each process, the    *)
(* life of the server's endpoints, and the refinement of AckedTransfer.    *)
(***************************************************************************)
EXTENDS UcpClientServerProofs

(***************************************************************************)
(* A step is a step of one process: what the others see of it is at most   *)
(* the answer to a send of theirs.                                         *)
(***************************************************************************)
SameLocal(q) ==
    /\ pc'[q] = pc[q] /\ iter'[q] = iter[q] /\ prog'[q] = prog[q] /\ ret'[q] = ret[q]
    /\ buf'[q] = buf[q] /\ am_data_desc'[q] = am_data_desc[q] /\ handler'[q] = handler[q]
    /\ connection_closed'[q] = connection_closed[q]
    /\ req'[q] = req[q] \/ (req[q] = "send" /\ req'[q] \in {"sent", "nak"})

StepOf(p) == opt' = opt /\ \A q \in Procs \ {p} : SameLocal(q)

--------------------------------------------------------------------------------
(***************************************************************************)
(* Phases: what the program counter says about the other local variables.  *)
(***************************************************************************)
SendReqs == {"send", "sent", "nak", "ok", "err"}
RecvReqs == {"recv", "fetch", "ok", "err"}

\* A request exists only inside client_server_communication (or died there),
\* and it is of the kind the direction of the transfer asks for.
RequestPhase(p) ==
    /\ req[p] # "none" => pc[p] \in {"wait", "dead"}
    /\ pc[p] = "wait" /\ Receiver(p) => req[p] \in RecvReqs
    /\ pc[p] = "wait" /\ ~Receiver(p) => req[p] \in SendReqs

\* Inside the AM receive loop recv_buf points to the buffers just allocated; an
\* eager message needs no request, so the wait after the loop runs no callback.
AmPhase(p) ==
    /\ pc[p] = "amwait" => opt.api = "am" /\ am_data_desc[p].recv_buf = "live" /\ Receiver(p)
    /\ am_data_desc[p].is_rndv => opt.rndv
    /\ am_data_desc[p].complete => opt.api = "am"
    /\ opt.api = "am" /\ pc[p] = "wait" /\ Receiver(p) =>
         /\ req[p] # "recv"
         /\ ~opt.rndv => req[p] = "ok" /\ ~prog[p]

\* A client's place in its loop.
ClientPhase(c) ==
    /\ pc[c] \in PcStates \ {"init", "accept", "drain", "exit"}
    /\ iter[c] <= opt.n
    /\ pc[c] = "start" => iter[c] = 0
    /\ pc[c] = "reg" => iter[c] = opt.n
    /\ handler[c] => iter[c] = opt.n
    /\ ret[c] # "none" => pc[c] \in {"close", "done", "dead"}

\* The server's AM handler is registered from the accept loop on.
ServerPhase ==
    opt.api = "am" /\ pc[Server] \in SessionPcs \cup {"accept"} => handler[Server]

PhaseInv ==
    /\ \A p \in Procs : RequestPhase(p) /\ AmPhase(p)
    /\ \A c \in Clients : ClientPhase(c)
    /\ ServerPhase

\* A bound that is not met leaves room for one more.
LEMMA NatStep ==
    ASSUME NEW a \in Nat, NEW b \in Nat, a <= b, a # b
    PROVE  a + 1 <= b
  OBVIOUS

\* What a step of one process has to show for the phases.
LEMMA PhaseFrame ==
    ASSUME Typed, PhaseInv, NEW p \in Procs, StepOf(p),
           RequestPhase(p)', AmPhase(p)', p \in Clients => ClientPhase(p)',
           p = Server => ServerPhase'
    PROVE  PhaseInv'
  <1> USE NamesAssumption DEF Procs
  <1>1. opt' = opt /\ \A q \in Procs \ {p} : SameLocal(q)
    BY DEF StepOf
  <1>2. ASSUME NEW q \in Procs, q # p
        PROVE  RequestPhase(q)'
    <2>1. RequestPhase(q) /\ SameLocal(q)
      BY <1>1, <1>2 DEF PhaseInv
    <2> QED
      BY <1>1, <2>1 DEF RequestPhase, SameLocal, Receiver, InFin, SendReqs, RecvReqs
  <1>3. ASSUME NEW q \in Procs, q # p
        PROVE  AmPhase(q)'
    <2>1. AmPhase(q) /\ RequestPhase(q) /\ SameLocal(q)
      BY <1>1, <1>3 DEF PhaseInv
    <2> QED
      BY <1>1, <2>1 DEF AmPhase, RequestPhase, SameLocal, Receiver, InFin, RecvReqs
  <1>4. ASSUME NEW c \in Clients, c # p
        PROVE  ClientPhase(c)'
    <2>1. ClientPhase(c) /\ SameLocal(c)
      BY <1>1, <1>4 DEF PhaseInv
    <2> QED
      BY <1>1, <2>1 DEF ClientPhase, SameLocal
  <1>5. p # Server => ServerPhase'
    BY <1>1 DEF SameLocal, PhaseInv, ServerPhase
  <1> QED
    BY <1>2, <1>3, <1>4, <1>5 DEF PhaseInv

\* AllocFails is a step of one process.
LEMMA Step_AllocFails ==
    ASSUME Typed, NEW p \in Procs, AllocFails(p)
    PROVE  StepOf(p)
  BY NamesAssumption DEF Typed, TypeOK, Procs, AllocFails, StepOf, SameLocal

\* Send is a step of one process.
LEMMA Step_Send ==
    ASSUME Typed, NEW p \in Procs, Send(p)
    PROVE  StepOf(p)
  BY NamesAssumption DEF Typed, TypeOK, Procs, Send, StepOf, SameLocal

\* Recv is a step of one process.
LEMMA Step_Recv ==
    ASSUME Typed, NEW p \in Procs, Recv(p)
    PROVE  StepOf(p)
  BY NamesAssumption DEF Typed, TypeOK, Procs, Recv, StepOf, SameLocal

\* AmRecv is a step of one process.
LEMMA Step_AmRecv ==
    ASSUME Typed, NEW p \in Procs, AmRecv(p)
    PROVE  StepOf(p)
  BY NamesAssumption DEF Typed, TypeOK, Procs, AmRecv, StepOf, SameLocal

\* AmArrived is a step of one process.
LEMMA Step_AmArrived ==
    ASSUME Typed, NEW p \in Procs, AmArrived(p)
    PROVE  StepOf(p)
  BY NamesAssumption DEF Typed, TypeOK, Procs, AmArrived, StepOf, SameLocal

\* FinalizeError is a step of one process.
LEMMA Step_FinalizeError ==
    ASSUME Typed, NEW p \in Procs, FinalizeError(p)
    PROVE  StepOf(p)
  BY NamesAssumption DEF Typed, TypeOK, Procs, FinalizeError, FreeIov, StepOf, SameLocal

\* FinalizeData is a step of one process.
LEMMA Step_FinalizeData ==
    ASSUME Typed, NEW p \in Procs, FinalizeData(p)
    PROVE  StepOf(p)
  BY NamesAssumption DEF Typed, TypeOK, Procs, FinalizeData, FreeIov, StepOf, SameLocal

\* FinalizeFin is a step of one process.
LEMMA Step_FinalizeFin ==
    ASSUME Typed, NEW p \in Procs, FinalizeFin(p)
    PROVE  StepOf(p)
  BY NamesAssumption DEF Typed, TypeOK, Procs, FinalizeFin, FreeIov, StepOf, SameLocal

\* SendCb is a step of one process.
LEMMA Step_SendCb ==
    ASSUME Typed, NEW p \in Procs, SendCb(p)
    PROVE  StepOf(p)
  BY NamesAssumption DEF Typed, TypeOK, Procs, SendCb, StepOf, SameLocal

\* FetchCb is a step of one process.
LEMMA Step_FetchCb ==
    ASSUME Typed, NEW p \in Procs, FetchCb(p)
    PROVE  StepOf(p)
  BY NamesAssumption DEF Typed, TypeOK, Procs, FetchCb, Confirm, StepOf, SameLocal

\* RecvCb is a step of one process.
LEMMA Step_RecvCb ==
    ASSUME Typed, NEW p \in Procs, RecvCb(p)
    PROVE  StepOf(p)
  <1>0. ReqAfterArrival(p)
    BY ReqAfter_RecvCb
  <1> QED
    BY <1>0 DEF Typed, TypeOK, RecvCb, ReqAfterArrival, StepOf, SameLocal

\* AmDropped is a step of one process.
LEMMA Step_AmDropped ==
    ASSUME Typed, NEW p \in Procs, AmDropped(p)
    PROVE  StepOf(p)
  <1>0. ReqAfterArrival(p)
    BY ReqAfter_AmDropped
  <1> QED
    BY <1>0 DEF Typed, TypeOK, AmDropped, ReqAfterArrival, StepOf, SameLocal

\* ucp_am_data_cb is a step of one process.
LEMMA Step_ucp_am_data_cb ==
    ASSUME Typed, NEW p \in Procs, ucp_am_data_cb(p)
    PROVE  StepOf(p)
  <1>0. ReqAfterArrival(p)
    BY ReqAfter_ucp_am_data_cb
  <1> QED
    BY <1>0 DEF Typed, TypeOK, ucp_am_data_cb, AmDispatched, ReqAfterArrival, StepOf, SameLocal

\* err_cb is a step of one process.
LEMMA Step_err_cb ==
    ASSUME Typed, NEW p \in Procs, err_cb(p)
    PROVE  StepOf(p)
  BY NamesAssumption DEF Typed, TypeOK, Procs, err_cb, StepOf, SameLocal

\* Progress is a step of one process.
LEMMA Step_Progress ==
    ASSUME Typed, NEW p \in Procs, Progress(p)
    PROVE  StepOf(p)
  BY NamesAssumption DEF Typed, TypeOK, Procs, Progress, StepOf, SameLocal

\* The death of a process is a step of one process.
LEMMA Step_Die ==
    ASSUME Typed, NEW p \in Procs, Die(p)
    PROVE  StepOf(p)
  BY NamesAssumption DEF Typed, TypeOK, Procs, Die, StepOf, SameLocal

\* StartClient is a step of one process.
LEMMA Step_StartClient ==
    ASSUME Typed, NEW c0 \in Clients, StartClient(c0)
    PROVE  StepOf(c0)
  BY NamesAssumption DEF Typed, TypeOK, Procs, StartClient, StepOf, SameLocal

\* StartClientFails is a step of one process.
LEMMA Step_StartClientFails ==
    ASSUME Typed, NEW c0 \in Clients, StartClientFails(c0)
    PROVE  StepOf(c0)
  BY NamesAssumption DEF Typed, TypeOK, Procs, StartClientFails, StepOf, SameLocal

\* RegisterFinHandler is a step of one process.
LEMMA Step_RegisterFinHandler ==
    ASSUME Typed, NEW c0 \in Clients, RegisterFinHandler(c0)
    PROVE  StepOf(c0)
  BY NamesAssumption DEF Typed, TypeOK, Procs, RegisterFinHandler, Registered, StepOf,
     SameLocal

\* CloseClient is a step of one process.
LEMMA Step_CloseClient ==
    ASSUME Typed, NEW c0 \in Clients, CloseClient(c0)
    PROVE  StepOf(c0)
  BY NamesAssumption DEF Typed, TypeOK, Procs, CloseClient, StepOf, SameLocal

\* server_conn_handle_cb is a step of one process.
LEMMA Step_server_conn_handle_cb ==
    ASSUME Typed, NEW c0 \in Clients, server_conn_handle_cb(c0)
    PROVE  StepOf(Server)
  BY NamesAssumption DEF Typed, TypeOK, Procs, server_conn_handle_cb, StepOf, SameLocal

\* StartServer is a step of one process.
LEMMA Step_StartServer ==
    ASSUME Typed, StartServer
    PROVE  StepOf(Server)
  BY NamesAssumption DEF Typed, TypeOK, Procs, StartServer, Registered, StepOf,
     SameLocal

\* ServerSetupFails is a step of one process.
LEMMA Step_ServerSetupFails ==
    ASSUME Typed, ServerSetupFails
    PROVE  StepOf(Server)
  BY NamesAssumption DEF Typed, TypeOK, Procs, ServerSetupFails, StepOf, SameLocal

\* CreateEp is a step of one process.
LEMMA Step_CreateEp ==
    ASSUME Typed, CreateEp
    PROVE  StepOf(Server)
  BY NamesAssumption DEF Typed, TypeOK, Procs, CreateEp, StepOf, SameLocal

\* Drained is a step of one process.
LEMMA Step_Drained ==
    ASSUME Typed, Drained
    PROVE  StepOf(Server)
  BY NamesAssumption DEF Typed, TypeOK, Procs, Drained, StepOf, SameLocal

\* NextClient is a step of one process.
LEMMA Step_NextClient ==
    ASSUME Typed, NextClient
    PROVE  StepOf(Server)
  BY NamesAssumption DEF Typed, TypeOK, Procs, NextClient, CloseServerEp, StepOf,
     SameLocal

\* ServerExit is a step of one process.
LEMMA Step_ServerExit ==
    ASSUME Typed, ServerExit
    PROVE  StepOf(Server)
  BY NamesAssumption DEF Typed, TypeOK, Procs, ServerExit, CloseServerEp, StepOf,
     SameLocal

\* AllocFails keeps the phases.
LEMMA Phase_AllocFails ==
    ASSUME Typed, Typed', PhaseInv, NEW p \in Procs, AllocFails(p)
    PROVE  PhaseInv'
  <1> USE NamesAssumption, OptFields DEF Typed, TypeOK, SessionHasClient, SessionPcs, Procs,
     Receiver, InFin, AllocFails
  <1>0. StepOf(p)
    BY Step_AllocFails
  <1>a. RequestPhase(p) /\ AmPhase(p) /\ (p \in Clients => ClientPhase(p)) /\ ServerPhase
    BY DEF PhaseInv
  <1>1. RequestPhase(p)'
    BY <1>a DEF RequestPhase, SendReqs, RecvReqs
  <1>2. AmPhase(p)'
    BY <1>a DEF AmPhase, RequestPhase, RecvReqs
  <1>3. p \in Clients => ClientPhase(p)'
    BY <1>a DEF ClientPhase, PcStates
  <1>4. p = Server => ServerPhase'
    BY <1>a DEF ServerPhase
  <1> QED
    BY <1>0, <1>1, <1>2, <1>3, <1>4, PhaseFrame

\* Send keeps the phases.
LEMMA Phase_Send ==
    ASSUME Typed, Typed', PhaseInv, NEW p \in Procs, Send(p)
    PROVE  PhaseInv'
  <1> USE NamesAssumption, OptFields DEF Typed, TypeOK, SessionHasClient, SessionPcs, Procs,
     Receiver, InFin, Send, SendResults
  <1>0. StepOf(p)
    BY Step_Send
  <1>a. RequestPhase(p) /\ AmPhase(p) /\ (p \in Clients => ClientPhase(p)) /\ ServerPhase
    BY DEF PhaseInv
  <1>1. RequestPhase(p)'
    BY <1>a DEF RequestPhase, SendReqs, RecvReqs
  <1>2. AmPhase(p)'
    BY <1>a DEF AmPhase, RequestPhase, RecvReqs
  <1>3. p \in Clients => ClientPhase(p)'
    BY <1>a DEF ClientPhase, PcStates
  <1>4. p = Server => ServerPhase'
    BY <1>a DEF ServerPhase
  <1> QED
    BY <1>0, <1>1, <1>2, <1>3, <1>4, PhaseFrame

\* Recv keeps the phases.
LEMMA Phase_Recv ==
    ASSUME Typed, Typed', PhaseInv, NEW p \in Procs, Recv(p)
    PROVE  PhaseInv'
  <1> USE NamesAssumption, OptFields DEF Typed, TypeOK, SessionHasClient, SessionPcs, Procs,
     Receiver, InFin, Recv, RecvResults
  <1>0. StepOf(p)
    BY Step_Recv
  <1>a. RequestPhase(p) /\ AmPhase(p) /\ (p \in Clients => ClientPhase(p)) /\ ServerPhase
    BY DEF PhaseInv
  <1>1. RequestPhase(p)'
    BY <1>a DEF RequestPhase, SendReqs, RecvReqs
  <1>2. AmPhase(p)'
    BY <1>a DEF AmPhase, RequestPhase, RecvReqs
  <1>3. p \in Clients => ClientPhase(p)'
    BY <1>a DEF ClientPhase, PcStates
  <1>4. p = Server => ServerPhase'
    BY <1>a DEF ServerPhase
  <1> QED
    BY <1>0, <1>1, <1>2, <1>3, <1>4, PhaseFrame

\* AmRecv keeps the phases.
LEMMA Phase_AmRecv ==
    ASSUME Typed, Typed', PhaseInv, NEW p \in Procs, AmRecv(p)
    PROVE  PhaseInv'
  <1> USE NamesAssumption, OptFields DEF Typed, TypeOK, SessionHasClient, SessionPcs, Procs,
     Receiver, InFin, AmRecv
  <1>0. StepOf(p)
    BY Step_AmRecv
  <1>a. RequestPhase(p) /\ AmPhase(p) /\ (p \in Clients => ClientPhase(p)) /\ ServerPhase
    BY DEF PhaseInv
  <1>1. RequestPhase(p)'
    BY <1>a DEF RequestPhase, SendReqs, RecvReqs
  <1>2. AmPhase(p)'
    BY <1>a DEF AmPhase, RequestPhase, RecvReqs
  <1>3. p \in Clients => ClientPhase(p)'
    BY <1>a DEF ClientPhase, PcStates
  <1>4. p = Server => ServerPhase'
    BY <1>a DEF ServerPhase
  <1> QED
    BY <1>0, <1>1, <1>2, <1>3, <1>4, PhaseFrame

\* AmArrived keeps the phases.
LEMMA Phase_AmArrived ==
    ASSUME Typed, Typed', PhaseInv, NEW p \in Procs, AmArrived(p)
    PROVE  PhaseInv'
  <1> USE NamesAssumption, OptFields DEF Typed, TypeOK, SessionHasClient, SessionPcs, Procs,
     Receiver, InFin, AmArrived, Taken, LoopDone
  <1>0. StepOf(p)
    BY Step_AmArrived
  <1>a. RequestPhase(p) /\ AmPhase(p) /\ (p \in Clients => ClientPhase(p)) /\ ServerPhase
    BY DEF PhaseInv
  <1>1. RequestPhase(p)'
    BY <1>a DEF RequestPhase, SendReqs, RecvReqs, AmPhase
  <1>2. AmPhase(p)'
    BY <1>a DEF AmPhase, RequestPhase, RecvReqs
  <1>3. p \in Clients => ClientPhase(p)'
    BY <1>a DEF ClientPhase, PcStates, AmPhase
  <1>4. p = Server => ServerPhase'
    BY <1>a DEF ServerPhase
  <1> QED
    BY <1>0, <1>1, <1>2, <1>3, <1>4, PhaseFrame

\* FinalizeError keeps the phases.
LEMMA Phase_FinalizeError ==
    ASSUME Typed, Typed', PhaseInv, NEW p \in Procs, FinalizeError(p)
    PROVE  PhaseInv'
  <1> USE NamesAssumption, OptFields DEF Typed, TypeOK, SessionHasClient, SessionPcs, Procs,
     Receiver, InFin, FinalizeError, FreeIov
  <1>0. StepOf(p)
    BY Step_FinalizeError
  <1>a. RequestPhase(p) /\ AmPhase(p) /\ (p \in Clients => ClientPhase(p)) /\ ServerPhase
    BY DEF PhaseInv
  <1>1. RequestPhase(p)'
    BY <1>a DEF RequestPhase, SendReqs, RecvReqs
  <1>2. AmPhase(p)'
    BY <1>a DEF AmPhase, RequestPhase, RecvReqs
  <1>3. p \in Clients => ClientPhase(p)'
    BY <1>a DEF ClientPhase, PcStates
  <1>4. p = Server => ServerPhase'
    BY <1>a DEF ServerPhase
  <1> QED
    BY <1>0, <1>1, <1>2, <1>3, <1>4, PhaseFrame

\* FinalizeData keeps the phases.
LEMMA Phase_FinalizeData ==
    ASSUME Typed, Typed', PhaseInv, NEW p \in Procs, FinalizeData(p)
    PROVE  PhaseInv'
  <1> USE NamesAssumption, OptFields DEF Typed, TypeOK, SessionHasClient, SessionPcs, Procs,
     Receiver, InFin, FinalizeData, FreeIov, AfterIter
  <1>0. StepOf(p)
    BY Step_FinalizeData
  <1>a. RequestPhase(p) /\ AmPhase(p) /\ (p \in Clients => ClientPhase(p)) /\ ServerPhase
    BY DEF PhaseInv
  <1>1. RequestPhase(p)'
    BY <1>a DEF RequestPhase, SendReqs, RecvReqs
  <1>2. AmPhase(p)'
    BY <1>a DEF AmPhase, RequestPhase, RecvReqs
  <1>3. p \in Clients => ClientPhase(p)'
    <2> SUFFICES ASSUME p \in Clients PROVE ClientPhase(p)'
      OBVIOUS
    <2>0. iter[p] \in Nat /\ opt.n \in Nat /\ iter[p] <= opt.n /\ iter[p] # opt.n
      BY <1>a DEF ClientPhase
    <2>1. iter'[p] = iter[p] + 1 /\ iter'[p] <= opt.n /\ opt' = opt
      <3>1. iter'[p] = iter[p] + 1 /\ opt' = opt
        OBVIOUS
      <3>2. iter[p] + 1 <= opt.n
        BY <2>0, NatStep
      <3> QED
        BY <3>1, <3>2
    <2>2. pc'[p] = IF iter'[p] = opt.n /\ opt.api = "am" THEN "reg" ELSE "comm"
      BY <2>1
    <2>3. handler'[p] = handler[p] /\ ret'[p] = ret[p] /\ iter[p] # opt.n /\ pc[p] = "wait"
      OBVIOUS
    <2> QED
      BY <1>a, <2>1, <2>2, <2>3 DEF ClientPhase, PcStates
  <1>4. p = Server => ServerPhase'
    BY <1>a DEF ServerPhase
  <1> QED
    BY <1>0, <1>1, <1>2, <1>3, <1>4, PhaseFrame

\* FinalizeFin keeps the phases.
LEMMA Phase_FinalizeFin ==
    ASSUME Typed, Typed', PhaseInv, NEW p \in Procs, FinalizeFin(p)
    PROVE  PhaseInv'
  <1> USE NamesAssumption, OptFields DEF Typed, TypeOK, SessionHasClient, SessionPcs, Procs,
     Receiver, InFin, FinalizeFin, FreeIov
  <1>0. StepOf(p)
    BY Step_FinalizeFin
  <1>a. RequestPhase(p) /\ AmPhase(p) /\ (p \in Clients => ClientPhase(p)) /\ ServerPhase
    BY DEF PhaseInv
  <1>1. RequestPhase(p)'
    BY <1>a DEF RequestPhase, SendReqs, RecvReqs
  <1>2. AmPhase(p)'
    BY <1>a DEF AmPhase, RequestPhase, RecvReqs
  <1>3. p \in Clients => ClientPhase(p)'
    <2> SUFFICES ASSUME p \in Clients PROVE ClientPhase(p)'
      OBVIOUS
    <2>1. iter' = iter /\ opt' = opt /\ handler' = handler
      OBVIOUS
    <2>2. pc'[p] = "close"
      OBVIOUS
    <2> QED
      BY <1>a, <2>1, <2>2 DEF ClientPhase, PcStates
  <1>4. p = Server => ServerPhase'
    BY <1>a DEF ServerPhase
  <1> QED
    BY <1>0, <1>1, <1>2, <1>3, <1>4, PhaseFrame

\* SendCb keeps the phases.
LEMMA Phase_SendCb ==
    ASSUME Typed, Typed', PhaseInv, NEW p \in Procs, SendCb(p)
    PROVE  PhaseInv'
  <1> USE NamesAssumption, OptFields DEF Typed, TypeOK, SessionHasClient, SessionPcs, Procs,
     Receiver, InFin, SendCb, InDataLoop, DataLoops
  <1>0. StepOf(p)
    BY Step_SendCb
  <1>a. RequestPhase(p) /\ AmPhase(p) /\ (p \in Clients => ClientPhase(p)) /\ ServerPhase
    BY DEF PhaseInv
  <1>1. RequestPhase(p)'
    BY <1>a DEF RequestPhase, SendReqs, RecvReqs
  <1>2. AmPhase(p)'
    BY <1>a DEF AmPhase, RequestPhase, RecvReqs
  <1>3. p \in Clients => ClientPhase(p)'
    BY <1>a DEF ClientPhase, PcStates
  <1>4. p = Server => ServerPhase'
    BY <1>a DEF ServerPhase
  <1> QED
    BY <1>0, <1>1, <1>2, <1>3, <1>4, PhaseFrame

\* FetchCb keeps the phases.
LEMMA Phase_FetchCb ==
    ASSUME Typed, Typed', PhaseInv, NEW p \in Procs, FetchCb(p)
    PROVE  PhaseInv'
  <1> USE NamesAssumption, OptFields DEF Typed, TypeOK, SessionHasClient, SessionPcs, Procs,
     Receiver, InFin, FetchCb, InDataLoop, DataLoops, Confirm
  <1>0. StepOf(p)
    BY Step_FetchCb
  <1>a. RequestPhase(p) /\ AmPhase(p) /\ (p \in Clients => ClientPhase(p)) /\ ServerPhase
    BY DEF PhaseInv
  <1>1. RequestPhase(p)'
    BY <1>a DEF RequestPhase, SendReqs, RecvReqs
  <1>2. AmPhase(p)'
    BY <1>a DEF AmPhase, RequestPhase, RecvReqs
  <1>3. p \in Clients => ClientPhase(p)'
    BY <1>a DEF ClientPhase, PcStates
  <1>4. p = Server => ServerPhase'
    BY <1>a DEF ServerPhase
  <1> QED
    BY <1>0, <1>1, <1>2, <1>3, <1>4, PhaseFrame

\* RecvCb keeps the phases.
LEMMA Phase_RecvCb ==
    ASSUME Typed, Typed', PhaseInv, NEW p \in Procs, RecvCb(p)
    PROVE  PhaseInv'
  <1> USE NamesAssumption, OptFields DEF Typed, TypeOK, SessionHasClient, SessionPcs, Procs,
     Receiver, InFin, RecvCb, InDataLoop, DataLoops, In
  <1>0. StepOf(p)
    BY Step_RecvCb
  <1>a. RequestPhase(p) /\ AmPhase(p) /\ (p \in Clients => ClientPhase(p)) /\ ServerPhase
    BY DEF PhaseInv
  <1>b. \/ req'[p] = req[p]
        \/ req[p] = "send" /\ req'[p] \in {"sent", "nak"}
        \/ req[p] = "recv" /\ req'[p] \in {"fetch", "ok"}
    BY ReqAfter_RecvCb DEF ReqAfterArrival
  <1>1. RequestPhase(p)'
    BY <1>a, <1>b DEF RequestPhase, SendReqs, RecvReqs
  <1>2. AmPhase(p)'
    BY <1>a, <1>b DEF AmPhase, RequestPhase, RecvReqs
  <1>3. p \in Clients => ClientPhase(p)'
    BY <1>a, <1>b DEF ClientPhase, PcStates
  <1>4. p = Server => ServerPhase'
    BY <1>a, <1>b DEF ServerPhase
  <1> QED
    BY <1>0, <1>1, <1>2, <1>3, <1>4, PhaseFrame

\* AmDropped keeps the phases.
LEMMA Phase_AmDropped ==
    ASSUME Typed, Typed', PhaseInv, NEW p \in Procs, AmDropped(p)
    PROVE  PhaseInv'
  <1> USE NamesAssumption, OptFields DEF Typed, TypeOK, SessionHasClient, SessionPcs, Procs,
     Receiver, InFin, AmDropped, InDataLoop, DataLoops, In
  <1>0. StepOf(p)
    BY Step_AmDropped
  <1>a. RequestPhase(p) /\ AmPhase(p) /\ (p \in Clients => ClientPhase(p)) /\ ServerPhase
    BY DEF PhaseInv
  <1>b. \/ req'[p] = req[p]
        \/ req[p] = "send" /\ req'[p] \in {"sent", "nak"}
        \/ req[p] = "recv" /\ req'[p] \in {"fetch", "ok"}
    BY ReqAfter_AmDropped DEF ReqAfterArrival
  <1>1. RequestPhase(p)'
    BY <1>a, <1>b DEF RequestPhase, SendReqs, RecvReqs
  <1>2. AmPhase(p)'
    BY <1>a, <1>b DEF AmPhase, RequestPhase, RecvReqs
  <1>3. p \in Clients => ClientPhase(p)'
    BY <1>a, <1>b DEF ClientPhase, PcStates
  <1>4. p = Server => ServerPhase'
    BY <1>a, <1>b DEF ServerPhase
  <1> QED
    BY <1>0, <1>1, <1>2, <1>3, <1>4, PhaseFrame

\* ucp_am_data_cb keeps the phases.
LEMMA Phase_ucp_am_data_cb ==
    ASSUME Typed, Typed', PhaseInv, NEW p \in Procs, ucp_am_data_cb(p)
    PROVE  PhaseInv'
  <1> USE NamesAssumption, OptFields DEF Typed, TypeOK, SessionHasClient, SessionPcs, Procs,
     Receiver, InFin, ucp_am_data_cb, AmDispatched, InDataLoop, DataLoops, In
  <1>0. StepOf(p)
    BY Step_ucp_am_data_cb
  <1>a. RequestPhase(p) /\ AmPhase(p) /\ (p \in Clients => ClientPhase(p)) /\ ServerPhase
    BY DEF PhaseInv
  <1>b. \/ req'[p] = req[p]
        \/ req[p] = "send" /\ req'[p] \in {"sent", "nak"}
        \/ req[p] = "recv" /\ req'[p] \in {"fetch", "ok"}
    BY ReqAfter_ucp_am_data_cb DEF ReqAfterArrival
  <1>1. RequestPhase(p)'
    BY <1>a, <1>b DEF RequestPhase, SendReqs, RecvReqs
  <1>2. AmPhase(p)'
    <2>1. \/ am_data_desc'[p] = am_data_desc[p]
          \/ /\ am_data_desc'[p].is_rndv = opt.rndv
             /\ am_data_desc'[p].recv_buf = am_data_desc[p].recv_buf
      <3>1. CASE WrongLength(p)
        BY <3>1
      <3>2. CASE ~WrongLength(p)
        <4>1. am_data_desc' = [am_data_desc EXCEPT ![p] =
                [complete |-> TRUE, is_rndv |-> opt.rndv,
                 recv_buf |-> am_data_desc[p].recv_buf,
                 desc |-> IF opt.rndv THEN Head(In(p)) ELSE am_data_desc[p].desc]]
          BY <3>2
        <4> QED
          BY <4>1
      <3> QED
        BY <3>1, <3>2
    <2>2. opt' = opt /\ opt.api = "am" /\ pc' = pc /\ prog' = prog /\ iter' = iter
      OBVIOUS
    <2> QED
      BY <1>a, <1>b, <2>1, <2>2 DEF AmPhase, RequestPhase, RecvReqs
  <1>3. p \in Clients => ClientPhase(p)'
    BY <1>a, <1>b DEF ClientPhase, PcStates
  <1>4. p = Server => ServerPhase'
    BY <1>a, <1>b DEF ServerPhase
  <1> QED
    BY <1>0, <1>1, <1>2, <1>3, <1>4, PhaseFrame

\* err_cb keeps the phases.
LEMMA Phase_err_cb ==
    ASSUME Typed, Typed', PhaseInv, NEW p \in Procs, err_cb(p)
    PROVE  PhaseInv'
  <1> USE NamesAssumption, OptFields DEF Typed, TypeOK, SessionHasClient, SessionPcs, Procs,
     Receiver, InFin, err_cb, InDataLoop, DataLoops, FailedReq
  <1>0. StepOf(p)
    BY Step_err_cb
  <1>a. RequestPhase(p) /\ AmPhase(p) /\ (p \in Clients => ClientPhase(p)) /\ ServerPhase
    BY DEF PhaseInv
  <1>1. RequestPhase(p)'
    BY <1>a DEF RequestPhase, SendReqs, RecvReqs
  <1>2. AmPhase(p)'
    BY <1>a DEF AmPhase, RequestPhase, RecvReqs
  <1>3. p \in Clients => ClientPhase(p)'
    BY <1>a DEF ClientPhase, PcStates
  <1>4. p = Server => ServerPhase'
    BY <1>a DEF ServerPhase
  <1> QED
    BY <1>0, <1>1, <1>2, <1>3, <1>4, PhaseFrame

\* Progress keeps the phases.
LEMMA Phase_Progress ==
    ASSUME Typed, Typed', PhaseInv, NEW p \in Procs, Progress(p)
    PROVE  PhaseInv'
  <1> USE NamesAssumption, OptFields DEF Typed, TypeOK, SessionHasClient, SessionPcs, Procs,
     Receiver, InFin, Progress, LoopDone, DataLoops
  <1>0. StepOf(p)
    BY Step_Progress
  <1>a. RequestPhase(p) /\ AmPhase(p) /\ (p \in Clients => ClientPhase(p)) /\ ServerPhase
    BY DEF PhaseInv
  <1>1. RequestPhase(p)'
    BY <1>a DEF RequestPhase, SendReqs, RecvReqs
  <1>2. AmPhase(p)'
    BY <1>a DEF AmPhase, RequestPhase, RecvReqs
  <1>3. p \in Clients => ClientPhase(p)'
    BY <1>a DEF ClientPhase, PcStates
  <1>4. p = Server => ServerPhase'
    BY <1>a DEF ServerPhase
  <1> QED
    BY <1>0, <1>1, <1>2, <1>3, <1>4, PhaseFrame

\* The death of a process keeps the phases.
LEMMA Phase_Die ==
    ASSUME Typed, Typed', PhaseInv, NEW p \in Procs, Die(p)
    PROVE  PhaseInv'
  <1> USE NamesAssumption, OptFields DEF Typed, TypeOK, SessionHasClient, SessionPcs, Procs,
     Receiver, InFin, Die
  <1>0. StepOf(p)
    BY Step_Die
  <1>a. RequestPhase(p) /\ AmPhase(p) /\ (p \in Clients => ClientPhase(p)) /\ ServerPhase
    BY DEF PhaseInv
  <1>1. RequestPhase(p)'
    BY <1>a DEF RequestPhase, SendReqs, RecvReqs
  <1>2. AmPhase(p)'
    BY <1>a DEF AmPhase, RequestPhase, RecvReqs
  <1>3. p \in Clients => ClientPhase(p)'
    BY <1>a DEF ClientPhase, PcStates
  <1>4. p = Server => ServerPhase'
    BY <1>a DEF ServerPhase
  <1> QED
    BY <1>0, <1>1, <1>2, <1>3, <1>4, PhaseFrame

\* StartClient keeps the phases.
LEMMA Phase_StartClient ==
    ASSUME Typed, Typed', PhaseInv, NEW c0 \in Clients, StartClient(c0)
    PROVE  PhaseInv'
  <1> USE NamesAssumption, OptFields DEF Typed, TypeOK, SessionHasClient, SessionPcs, Procs,
     Receiver, InFin, StartClient, AfterIter
  <1>0. StepOf(c0)
    BY Step_StartClient
  <1>a. RequestPhase(c0) /\ AmPhase(c0) /\ (c0 \in Clients => ClientPhase(c0)) /\ ServerPhase
    BY DEF PhaseInv
  <1>1. RequestPhase(c0)'
    BY <1>a DEF RequestPhase, SendReqs, RecvReqs
  <1>2. AmPhase(c0)'
    BY <1>a DEF AmPhase, RequestPhase, RecvReqs
  <1>3. c0 \in Clients => ClientPhase(c0)'
    BY <1>a DEF ClientPhase, PcStates
  <1>4. c0 = Server => ServerPhase'
    BY <1>a DEF ServerPhase
  <1> QED
    BY <1>0, <1>1, <1>2, <1>3, <1>4, PhaseFrame

\* StartClientFails keeps the phases.
LEMMA Phase_StartClientFails ==
    ASSUME Typed, Typed', PhaseInv, NEW c0 \in Clients, StartClientFails(c0)
    PROVE  PhaseInv'
  <1> USE NamesAssumption, OptFields DEF Typed, TypeOK, SessionHasClient, SessionPcs, Procs,
     Receiver, InFin, StartClientFails
  <1>0. StepOf(c0)
    BY Step_StartClientFails
  <1>a. RequestPhase(c0) /\ AmPhase(c0) /\ (c0 \in Clients => ClientPhase(c0)) /\ ServerPhase
    BY DEF PhaseInv
  <1>1. RequestPhase(c0)'
    BY <1>a DEF RequestPhase, SendReqs, RecvReqs
  <1>2. AmPhase(c0)'
    BY <1>a DEF AmPhase, RequestPhase, RecvReqs
  <1>3. c0 \in Clients => ClientPhase(c0)'
    BY <1>a DEF ClientPhase, PcStates
  <1>4. c0 = Server => ServerPhase'
    BY <1>a DEF ServerPhase
  <1> QED
    BY <1>0, <1>1, <1>2, <1>3, <1>4, PhaseFrame

\* RegisterFinHandler keeps the phases.
LEMMA Phase_RegisterFinHandler ==
    ASSUME Typed, Typed', PhaseInv, NEW c0 \in Clients, RegisterFinHandler(c0)
    PROVE  PhaseInv'
  <1> USE NamesAssumption, OptFields DEF Typed, TypeOK, SessionHasClient, SessionPcs, Procs,
     Receiver, InFin, RegisterFinHandler, Registered
  <1>0. StepOf(c0)
    BY Step_RegisterFinHandler
  <1>a. RequestPhase(c0) /\ AmPhase(c0) /\ (c0 \in Clients => ClientPhase(c0)) /\ ServerPhase
    BY DEF PhaseInv
  <1>1. RequestPhase(c0)'
    BY <1>a DEF RequestPhase, SendReqs, RecvReqs
  <1>2. AmPhase(c0)'
    BY <1>a DEF AmPhase, RequestPhase, RecvReqs
  <1>3. c0 \in Clients => ClientPhase(c0)'
    BY <1>a DEF ClientPhase, PcStates
  <1>4. c0 = Server => ServerPhase'
    BY <1>a DEF ServerPhase
  <1> QED
    BY <1>0, <1>1, <1>2, <1>3, <1>4, PhaseFrame

\* CloseClient keeps the phases.
LEMMA Phase_CloseClient ==
    ASSUME Typed, Typed', PhaseInv, NEW c0 \in Clients, CloseClient(c0)
    PROVE  PhaseInv'
  <1> USE NamesAssumption, OptFields DEF Typed, TypeOK, SessionHasClient, SessionPcs, Procs,
     Receiver, InFin, CloseClient
  <1>0. StepOf(c0)
    BY Step_CloseClient
  <1>a. RequestPhase(c0) /\ AmPhase(c0) /\ (c0 \in Clients => ClientPhase(c0)) /\ ServerPhase
    BY DEF PhaseInv
  <1>1. RequestPhase(c0)'
    BY <1>a DEF RequestPhase, SendReqs, RecvReqs
  <1>2. AmPhase(c0)'
    BY <1>a DEF AmPhase, RequestPhase, RecvReqs
  <1>3. c0 \in Clients => ClientPhase(c0)'
    BY <1>a DEF ClientPhase, PcStates
  <1>4. c0 = Server => ServerPhase'
    BY <1>a DEF ServerPhase
  <1> QED
    BY <1>0, <1>1, <1>2, <1>3, <1>4, PhaseFrame

\* server_conn_handle_cb keeps the phases.
LEMMA Phase_server_conn_handle_cb ==
    ASSUME Typed, Typed', PhaseInv, NEW c0 \in Clients, server_conn_handle_cb(c0)
    PROVE  PhaseInv'
  <1> USE NamesAssumption, OptFields DEF Typed, TypeOK, SessionHasClient, SessionPcs, Procs,
     Receiver, InFin, server_conn_handle_cb
  <1>0. StepOf(Server)
    BY Step_server_conn_handle_cb
  <1>a. RequestPhase(Server) /\ AmPhase(Server) /\ (Server \in Clients => ClientPhase(Server)) /\ ServerPhase
    BY DEF PhaseInv
  <1>1. RequestPhase(Server)'
    BY <1>a DEF RequestPhase, SendReqs, RecvReqs
  <1>2. AmPhase(Server)'
    BY <1>a DEF AmPhase, RequestPhase, RecvReqs
  <1>3. Server \in Clients => ClientPhase(Server)'
    BY <1>a DEF ClientPhase, PcStates
  <1>4. Server = Server => ServerPhase'
    BY <1>a DEF ServerPhase
  <1> QED
    BY <1>0, <1>1, <1>2, <1>3, <1>4, PhaseFrame

\* StartServer keeps the phases.
LEMMA Phase_StartServer ==
    ASSUME Typed, Typed', PhaseInv, StartServer
    PROVE  PhaseInv'
  <1> USE NamesAssumption, OptFields DEF Typed, TypeOK, SessionHasClient, SessionPcs, Procs,
     Receiver, InFin, StartServer, Registered
  <1>0. StepOf(Server)
    BY Step_StartServer
  <1>a. RequestPhase(Server) /\ AmPhase(Server) /\ (Server \in Clients => ClientPhase(Server)) /\ ServerPhase
    BY DEF PhaseInv
  <1>1. RequestPhase(Server)'
    BY <1>a DEF RequestPhase, SendReqs, RecvReqs
  <1>2. AmPhase(Server)'
    BY <1>a DEF AmPhase, RequestPhase, RecvReqs
  <1>3. Server \in Clients => ClientPhase(Server)'
    BY <1>a DEF ClientPhase, PcStates
  <1>4. Server = Server => ServerPhase'
    BY <1>a DEF ServerPhase
  <1> QED
    BY <1>0, <1>1, <1>2, <1>3, <1>4, PhaseFrame

\* ServerSetupFails keeps the phases.
LEMMA Phase_ServerSetupFails ==
    ASSUME Typed, Typed', PhaseInv, ServerSetupFails
    PROVE  PhaseInv'
  <1> USE NamesAssumption, OptFields DEF Typed, TypeOK, SessionHasClient, SessionPcs, Procs,
     Receiver, InFin, ServerSetupFails, LoopDone
  <1>0. StepOf(Server)
    BY Step_ServerSetupFails
  <1>a. RequestPhase(Server) /\ AmPhase(Server) /\ (Server \in Clients => ClientPhase(Server)) /\ ServerPhase
    BY DEF PhaseInv
  <1>1. RequestPhase(Server)'
    BY <1>a DEF RequestPhase, SendReqs, RecvReqs
  <1>2. AmPhase(Server)'
    BY <1>a DEF AmPhase, RequestPhase, RecvReqs
  <1>3. Server \in Clients => ClientPhase(Server)'
    BY <1>a DEF ClientPhase, PcStates
  <1>4. Server = Server => ServerPhase'
    BY <1>a DEF ServerPhase
  <1> QED
    BY <1>0, <1>1, <1>2, <1>3, <1>4, PhaseFrame

\* CreateEp keeps the phases.
LEMMA Phase_CreateEp ==
    ASSUME Typed, Typed', PhaseInv, CreateEp
    PROVE  PhaseInv'
  <1> USE NamesAssumption, OptFields DEF Typed, TypeOK, SessionHasClient, SessionPcs, Procs,
     Receiver, InFin, CreateEp, AfterIter, LoopDone
  <1>0. StepOf(Server)
    BY Step_CreateEp
  <1>a. RequestPhase(Server) /\ AmPhase(Server) /\ (Server \in Clients => ClientPhase(Server)) /\ ServerPhase
    BY DEF PhaseInv
  <1>1. RequestPhase(Server)'
    BY <1>a DEF RequestPhase, SendReqs, RecvReqs
  <1>2. AmPhase(Server)'
    BY <1>a DEF AmPhase, RequestPhase, RecvReqs
  <1>3. Server \in Clients => ClientPhase(Server)'
    BY <1>a DEF ClientPhase, PcStates
  <1>4. Server = Server => ServerPhase'
    BY <1>a DEF ServerPhase
  <1> QED
    BY <1>0, <1>1, <1>2, <1>3, <1>4, PhaseFrame

\* Drained keeps the phases.
LEMMA Phase_Drained ==
    ASSUME Typed, Typed', PhaseInv, Drained
    PROVE  PhaseInv'
  <1> USE NamesAssumption, OptFields DEF Typed, TypeOK, SessionHasClient, SessionPcs, Procs,
     Receiver, InFin, Drained, LoopDone
  <1>0. StepOf(Server)
    BY Step_Drained
  <1>a. RequestPhase(Server) /\ AmPhase(Server) /\ (Server \in Clients => ClientPhase(Server)) /\ ServerPhase
    BY DEF PhaseInv
  <1>1. RequestPhase(Server)'
    BY <1>a DEF RequestPhase, SendReqs, RecvReqs
  <1>2. AmPhase(Server)'
    BY <1>a DEF AmPhase, RequestPhase, RecvReqs
  <1>3. Server \in Clients => ClientPhase(Server)'
    BY <1>a DEF ClientPhase, PcStates
  <1>4. Server = Server => ServerPhase'
    BY <1>a DEF ServerPhase
  <1> QED
    BY <1>0, <1>1, <1>2, <1>3, <1>4, PhaseFrame

\* NextClient keeps the phases.
LEMMA Phase_NextClient ==
    ASSUME Typed, Typed', PhaseInv, NextClient
    PROVE  PhaseInv'
  <1> USE NamesAssumption, OptFields DEF Typed, TypeOK, SessionHasClient, SessionPcs, Procs,
     Receiver, InFin, NextClient, CloseServerEp
  <1>0. StepOf(Server)
    BY Step_NextClient
  <1>a. RequestPhase(Server) /\ AmPhase(Server) /\ (Server \in Clients => ClientPhase(Server)) /\ ServerPhase
    BY DEF PhaseInv
  <1>1. RequestPhase(Server)'
    BY <1>a DEF RequestPhase, SendReqs, RecvReqs
  <1>2. AmPhase(Server)'
    BY <1>a DEF AmPhase, RequestPhase, RecvReqs
  <1>3. Server \in Clients => ClientPhase(Server)'
    BY <1>a DEF ClientPhase, PcStates
  <1>4. Server = Server => ServerPhase'
    BY <1>a DEF ServerPhase
  <1> QED
    BY <1>0, <1>1, <1>2, <1>3, <1>4, PhaseFrame

\* ServerExit keeps the phases.
LEMMA Phase_ServerExit ==
    ASSUME Typed, Typed', PhaseInv, ServerExit
    PROVE  PhaseInv'
  <1> USE NamesAssumption, OptFields DEF Typed, TypeOK, SessionHasClient, SessionPcs, Procs,
     Receiver, InFin, ServerExit, CloseServerEp
  <1>0. StepOf(Server)
    BY Step_ServerExit
  <1>a. RequestPhase(Server) /\ AmPhase(Server) /\ (Server \in Clients => ClientPhase(Server)) /\ ServerPhase
    BY DEF PhaseInv
  <1>1. RequestPhase(Server)'
    BY <1>a DEF RequestPhase, SendReqs, RecvReqs
  <1>2. AmPhase(Server)'
    BY <1>a DEF AmPhase, RequestPhase, RecvReqs
  <1>3. Server \in Clients => ClientPhase(Server)'
    BY <1>a DEF ClientPhase, PcStates
  <1>4. Server = Server => ServerPhase'
    BY <1>a DEF ServerPhase
  <1> QED
    BY <1>0, <1>1, <1>2, <1>3, <1>4, PhaseFrame

\* Every step keeps the phases.
LEMMA PhaseNext ==
    ASSUME Typed, Typed', PhaseInv, [Next]_vars
    PROVE  PhaseInv'
  <1>1. ASSUME NEW p \in Procs, Communicate(p)
        PROVE  PhaseInv'
    BY <1>1, Phase_AllocFails, Phase_Send, Phase_Recv, Phase_AmRecv, Phase_AmArrived,
       Phase_FinalizeError, Phase_FinalizeData, Phase_FinalizeFin DEF Communicate
  <1>2. ASSUME NEW p \in Procs, Callback(p)
        PROVE  PhaseInv'
    BY <1>2, Phase_SendCb, Phase_FetchCb, Phase_RecvCb, Phase_AmDropped,
       Phase_ucp_am_data_cb, Phase_err_cb, Phase_Die DEF Callback, AmCopyFaults
  <1>3. CASE ServerStep
    BY <1>1, <1>2, <1>3, Phase_StartServer, Phase_ServerSetupFails, Phase_CreateEp,
       Phase_Drained, Phase_NextClient, Phase_ServerExit, Phase_server_conn_handle_cb,
       Phase_Progress DEF ServerStep, Procs
  <1>4. ASSUME NEW c \in Clients, ClientStep(c)
        PROVE  PhaseInv'
    BY <1>1, <1>2, <1>4, Phase_StartClient, Phase_StartClientFails,
       Phase_RegisterFinHandler, Phase_CloseClient, Phase_Progress DEF ClientStep, Procs
  <1>5. CASE UNCHANGED vars
    BY <1>5 DEF vars, PhaseInv, RequestPhase, ClientPhase, ServerPhase, AmPhase,
       Receiver, InFin
  <1> QED
    BY <1>3, <1>4, <1>5, Phase_Die DEF Next, Idle, Crash

\* They hold initially.
LEMMA PhaseInit == Init => PhaseInv
  BY NamesAssumption, OptFields DEF Init, PhaseInv, RequestPhase, AmPhase, ClientPhase,
     ServerPhase, Procs, SessionPcs, PcStates

--------------------------------------------------------------------------------
(***************************************************************************)
(* The life of the server's endpoints.                                     *)
(***************************************************************************)
Ended(c) == pc[c] \in {"done", "dead"}

\* A client that waits for the server has no endpoint on the server's side.
WaitingNoEp ==
    \A c \in Clients :
      \/ pc[c] = "start"
      \/ c \in backlog
      \/ pc[Server] = "accept" /\ c = conn_request
      => ep[Server][c] = "none"

\* Nothing was received from a client that has not had an endpoint there.
FreshEp == \A c \in Clients : ep[Server][c] = "none" => rcvd[c] = <<>>

\* Nothing was sent to it either.
FinServed == \A c \in Clients : FinUnderWay(c) => c \in Served

\* The client of a session has one.
SessionEp == pc[Server] \in SessionPcs => ep[Server][conn_request] \in {"open", "failed"}

\* A server that goes on has closed complete sessions only.
ClosedComplete ==
    \A c \in Clients : ep[Server][c] = "closed" /\ ~ServerGone => Len(rcvd[c]) = opt.n

\* connection_closed speaks of the session's own endpoint: err_cb of an earlier
\* session cannot end the wait for this client.
ClosedFlag ==
    /\ pc[Server] \in SessionPcs /\ connection_closed[Server] =>
         ep[Server][conn_request] = "failed"
    /\ pc[Server] = "close" /\ ret[Server] = "none" =>
         ep[Server][conn_request] = "failed"

\* Without broken links an endpoint fails only because of its peer: the
\* server's after the client ended, the client's after the server refused it,
\* closed or ended.
FailedForReason ==
    "link" \notin Faults =>
      \A c \in Clients :
        /\ ep[c][Server] = "closed" => Ended(c)
        /\ ep[c][Server] # "rejected"
        /\ ep[Server][c] \in {"failed", "closed"} /\ ~ServerGone => Ended(c)
        /\ ep[c][Server] = "failed" =>
             \/ Ended(c) \/ ServerGone
             \/ ep[Server][c] \in {"closed", "rejected"}
             \/ /\ ep[Server][c] = "none" /\ pc[c] # "start"
                /\ c \notin backlog /\ c # conn_request

EndpointInv ==
    /\ WaitingNoEp /\ FreshEp /\ FinServed /\ SessionEp /\ ClosedComplete
    /\ ClosedFlag /\ FailedForReason

\* AllocFails keeps what is said of the endpoints.
LEMMA Ends_AllocFails ==
    ASSUME Typed, Typed', CountInv, PhaseInv, EndpointInv, NEW p \in Procs, AllocFails(p)
    PROVE  EndpointInv'
  <1> USE NamesAssumption, OptFields DEF Typed, TypeOK, SessionHasClient, SessionPcs,
     EndpointInv, Peer, Procs, ServerGone, AllocFails
  <1>1. WaitingNoEp'
    BY DEF WaitingNoEp, CountInv, WaitingIsFresh
  <1>2. FreshEp'
    BY DEF FreshEp, SessionEp
  <1>3. FinServed'
    BY DEF FinServed, FinUnderWay, Served, CountInv, FinWaitReceives
  <1>4. SessionEp'
    BY DEF SessionEp
  <1>5. ClosedComplete'
    BY DEF ClosedComplete, SessionEp, CountInv, SessionCount
  <1>6. ClosedFlag'
    BY DEF ClosedFlag, SessionEp
  <1>7. FailedForReason'
    BY DEF FailedForReason, Ended, CountInv, WaitingIsFresh, SessionEp
  <1> QED
    BY <1>1, <1>2, <1>3, <1>4, <1>5, <1>6, <1>7

\* Send keeps what is said of the endpoints.
LEMMA Ends_Send ==
    ASSUME Typed, Typed', CountInv, PhaseInv, EndpointInv, NEW p \in Procs, Send(p)
    PROVE  EndpointInv'
  <1> USE NamesAssumption, OptFields DEF Typed, TypeOK, SessionHasClient, SessionPcs,
     EndpointInv, Peer, Procs, ServerGone, Send, SendResults
  <1>1. WaitingNoEp'
    BY DEF WaitingNoEp, CountInv, WaitingIsFresh
  <1>2. FreshEp'
    BY DEF FreshEp, SessionEp
  <1>3. FinServed'
    <2> SUFFICES ASSUME NEW c \in Clients, FinUnderWay(c)'
                 PROVE  c \in Served
      BY DEF FinServed, Served
    <2>1. CASE p = Server
      <3>1. c # conn_request => FinUnderWay(c)
        BY <2>1 DEF FinUnderWay
      <3>2. conn_request \in Served
        BY <2>1 DEF SessionEp, Served
      <3> QED
        BY <3>1, <3>2 DEF FinServed
    <2>2. CASE p \in Clients
      <3>1. ~InFin(p)
        BY <2>2 DEF Receiver
      <3>2. FinUnderWay(c)
        BY <2>2, <3>1 DEF FinUnderWay, InFin
      <3> QED
        BY <3>2 DEF FinServed
    <2> QED
      BY <2>1, <2>2
  <1>4. SessionEp'
    BY DEF SessionEp
  <1>5. ClosedComplete'
    BY DEF ClosedComplete, SessionEp, CountInv, SessionCount
  <1>6. ClosedFlag'
    BY DEF ClosedFlag, SessionEp
  <1>7. FailedForReason'
    BY DEF FailedForReason, Ended, CountInv, WaitingIsFresh, SessionEp
  <1> QED
    BY <1>1, <1>2, <1>3, <1>4, <1>5, <1>6, <1>7

\* Recv keeps what is said of the endpoints.
LEMMA Ends_Recv ==
    ASSUME Typed, Typed', CountInv, PhaseInv, EndpointInv, NEW p \in Procs, Recv(p)
    PROVE  EndpointInv'
  <1> USE NamesAssumption, OptFields DEF Typed, TypeOK, SessionHasClient, SessionPcs,
     EndpointInv, Peer, Procs, ServerGone, Recv, RecvResults
  <1>1. WaitingNoEp'
    BY DEF WaitingNoEp, CountInv, WaitingIsFresh
  <1>2. FreshEp'
    BY DEF FreshEp, SessionEp
  <1>3. FinServed'
    BY DEF FinServed, FinUnderWay, Served, CountInv, FinWaitReceives
  <1>4. SessionEp'
    BY DEF SessionEp
  <1>5. ClosedComplete'
    BY DEF ClosedComplete, SessionEp, CountInv, SessionCount
  <1>6. ClosedFlag'
    BY DEF ClosedFlag, SessionEp
  <1>7. FailedForReason'
    BY DEF FailedForReason, Ended, CountInv, WaitingIsFresh, SessionEp
  <1> QED
    BY <1>1, <1>2, <1>3, <1>4, <1>5, <1>6, <1>7

\* AmRecv keeps what is said of the endpoints.
LEMMA Ends_AmRecv ==
    ASSUME Typed, Typed', CountInv, PhaseInv, EndpointInv, NEW p \in Procs, AmRecv(p)
    PROVE  EndpointInv'
  <1> USE NamesAssumption, OptFields DEF Typed, TypeOK, SessionHasClient, SessionPcs,
     EndpointInv, Peer, Procs, ServerGone, AmRecv
  <1>1. WaitingNoEp'
    BY DEF WaitingNoEp, CountInv, WaitingIsFresh
  <1>2. FreshEp'
    BY DEF FreshEp, SessionEp
  <1>3. FinServed'
    BY DEF FinServed, FinUnderWay, Served, CountInv, FinWaitReceives
  <1>4. SessionEp'
    BY DEF SessionEp
  <1>5. ClosedComplete'
    BY DEF ClosedComplete, SessionEp, CountInv, SessionCount
  <1>6. ClosedFlag'
    BY DEF ClosedFlag, SessionEp
  <1>7. FailedForReason'
    BY DEF FailedForReason, Ended, CountInv, WaitingIsFresh, SessionEp
  <1> QED
    BY <1>1, <1>2, <1>3, <1>4, <1>5, <1>6, <1>7

\* AmArrived keeps what is said of the endpoints.
LEMMA Ends_AmArrived ==
    ASSUME Typed, Typed', CountInv, PhaseInv, EndpointInv, NEW p \in Procs, AmArrived(p)
    PROVE  EndpointInv'
  <1> USE NamesAssumption, OptFields DEF Typed, TypeOK, SessionHasClient, SessionPcs,
     EndpointInv, Peer, Procs, ServerGone, AmArrived, Taken, LoopDone
  <1>1. WaitingNoEp'
    BY DEF WaitingNoEp, CountInv, WaitingIsFresh
  <1>2. FreshEp'
    BY DEF FreshEp, SessionEp
  <1>3. FinServed'
    BY DEF FinServed, FinUnderWay, Served, CountInv, FinWaitReceives
  <1>4. SessionEp'
    BY DEF SessionEp
  <1>5. ClosedComplete'
    BY DEF ClosedComplete, SessionEp, CountInv, SessionCount
  <1>6. ClosedFlag'
    BY DEF ClosedFlag, SessionEp
  <1>7. FailedForReason'
    BY DEF FailedForReason, Ended, CountInv, WaitingIsFresh, SessionEp
  <1> QED
    BY <1>1, <1>2, <1>3, <1>4, <1>5, <1>6, <1>7

\* FinalizeError keeps what is said of the endpoints.
LEMMA Ends_FinalizeError ==
    ASSUME Typed, Typed', CountInv, PhaseInv, EndpointInv, NEW p \in Procs, FinalizeError(p)
    PROVE  EndpointInv'
  <1> USE NamesAssumption, OptFields DEF Typed, TypeOK, SessionHasClient, SessionPcs,
     EndpointInv, Peer, Procs, ServerGone, FinalizeError, FreeIov
  <1>1. WaitingNoEp'
    BY DEF WaitingNoEp, CountInv, WaitingIsFresh
  <1>2. FreshEp'
    BY DEF FreshEp, SessionEp
  <1>3. FinServed'
    BY DEF FinServed, FinUnderWay, Served, CountInv, FinWaitReceives
  <1>4. SessionEp'
    BY DEF SessionEp
  <1>5. ClosedComplete'
    BY DEF ClosedComplete, SessionEp, CountInv, SessionCount
  <1>6. ClosedFlag'
    BY DEF ClosedFlag, SessionEp
  <1>7. FailedForReason'
    BY DEF FailedForReason, Ended, CountInv, WaitingIsFresh, SessionEp
  <1> QED
    BY <1>1, <1>2, <1>3, <1>4, <1>5, <1>6, <1>7

\* FinalizeData keeps what is said of the endpoints.
LEMMA Ends_FinalizeData ==
    ASSUME Typed, Typed', CountInv, PhaseInv, EndpointInv, NEW p \in Procs, FinalizeData(p)
    PROVE  EndpointInv'
  <1> USE NamesAssumption, OptFields DEF Typed, TypeOK, SessionHasClient, SessionPcs,
     EndpointInv, Peer, Procs, ServerGone, FinalizeData, FreeIov, AfterIter
  <1>1. WaitingNoEp'
    BY DEF WaitingNoEp, CountInv, WaitingIsFresh
  <1>2. FreshEp'
    BY DEF FreshEp, SessionEp
  <1>3. FinServed'
    BY DEF FinServed, FinUnderWay, Served, CountInv, FinWaitReceives
  <1>4. SessionEp'
    BY DEF SessionEp
  <1>5. ClosedComplete'
    BY DEF ClosedComplete, SessionEp, CountInv, SessionCount
  <1>6. ClosedFlag'
    BY DEF ClosedFlag, SessionEp
  <1>7. FailedForReason'
    BY DEF FailedForReason, Ended, CountInv, WaitingIsFresh, SessionEp
  <1> QED
    BY <1>1, <1>2, <1>3, <1>4, <1>5, <1>6, <1>7

\* FinalizeFin keeps what is said of the endpoints.
LEMMA Ends_FinalizeFin ==
    ASSUME Typed, Typed', CountInv, PhaseInv, EndpointInv, NEW p \in Procs, FinalizeFin(p)
    PROVE  EndpointInv'
  <1> USE NamesAssumption, OptFields DEF Typed, TypeOK, SessionHasClient, SessionPcs,
     EndpointInv, Peer, Procs, ServerGone, FinalizeFin, FreeIov
  <1>1. WaitingNoEp'
    BY DEF WaitingNoEp, CountInv, WaitingIsFresh
  <1>2. FreshEp'
    BY DEF FreshEp, SessionEp
  <1>3. FinServed'
    <2> SUFFICES ASSUME NEW c \in Clients, FinUnderWay(c)'
                 PROVE  c \in Served
      BY DEF FinServed, Served
    <2>1. FinUnderWay(c)
      <3>1. CASE p = c
        <4>1. pc[c] = "wait" /\ req[c] = "ok" /\ iter[c] = opt.n
          BY <3>1 DEF InFin
        <4> QED
          BY ONLY <4>1 DEF FinUnderWay
      <3>2. CASE p # c
        <4>1. net' = net /\ unexp' = unexp /\ iter' = iter /\ opt' = opt
          OBVIOUS
        <4>2. pc'[c] = pc[c] /\ req'[c] = req[c]
          BY <3>2
        <4>3. ret'[c] = ret[c]
          BY <3>2
        <4>4. am_data_desc'[c] = am_data_desc[c]
          BY <3>2
        <4> QED
          BY ONLY FinUnderWay(c)', <4>1, <4>2, <4>3, <4>4 DEF FinUnderWay
      <3> QED
        BY <3>1, <3>2
    <2> QED
      BY <2>1 DEF FinServed
  <1>4. SessionEp'
    BY DEF SessionEp
  <1>5. ClosedComplete'
    BY DEF ClosedComplete, SessionEp, CountInv, SessionCount
  <1>6. ClosedFlag'
    BY DEF ClosedFlag, SessionEp
  <1>7. FailedForReason'
    <2>1. ep' = ep /\ backlog' = backlog /\ conn_request' = conn_request
      OBVIOUS
    <2>2. \A c \in Clients : Ended(c) => Ended(c)'
      BY DEF Ended
    <2>3. ServerGone' = ServerGone
      OBVIOUS
    <2>4. \A c \in Clients : pc[c] # "start" => pc'[c] # "start"
      OBVIOUS
    <2> QED
      BY <2>1, <2>2, <2>3, <2>4 DEF FailedForReason
  <1> QED
    BY <1>1, <1>2, <1>3, <1>4, <1>5, <1>6, <1>7

\* SendCb keeps what is said of the endpoints.
LEMMA Ends_SendCb ==
    ASSUME Typed, Typed', CountInv, PhaseInv, EndpointInv, NEW p \in Procs, SendCb(p)
    PROVE  EndpointInv'
  <1> USE NamesAssumption, OptFields DEF Typed, TypeOK, SessionHasClient, SessionPcs,
     EndpointInv, Peer, Procs, ServerGone, SendCb, InDataLoop, DataLoops
  <1>1. WaitingNoEp'
    BY DEF WaitingNoEp, CountInv, WaitingIsFresh
  <1>2. FreshEp'
    BY DEF FreshEp, SessionEp
  <1>3. FinServed'
    BY DEF FinServed, FinUnderWay, Served, CountInv, FinWaitReceives
  <1>4. SessionEp'
    BY DEF SessionEp
  <1>5. ClosedComplete'
    BY DEF ClosedComplete, SessionEp, CountInv, SessionCount
  <1>6. ClosedFlag'
    BY DEF ClosedFlag, SessionEp
  <1>7. FailedForReason'
    BY DEF FailedForReason, Ended, CountInv, WaitingIsFresh, SessionEp
  <1> QED
    BY <1>1, <1>2, <1>3, <1>4, <1>5, <1>6, <1>7

\* FetchCb keeps what is said of the endpoints.
LEMMA Ends_FetchCb ==
    ASSUME Typed, Typed', CountInv, PhaseInv, EndpointInv, NEW p \in Procs, FetchCb(p)
    PROVE  EndpointInv'
  <1> USE NamesAssumption, OptFields DEF Typed, TypeOK, SessionHasClient, SessionPcs,
     EndpointInv, Peer, Procs, ServerGone, FetchCb, InDataLoop, DataLoops, Confirm
  <1>1. WaitingNoEp'
    BY DEF WaitingNoEp, CountInv, WaitingIsFresh
  <1>2. FreshEp'
    BY DEF FreshEp, SessionEp
  <1>3. FinServed'
    BY DEF FinServed, FinUnderWay, Served, CountInv, FinWaitReceives
  <1>4. SessionEp'
    BY DEF SessionEp
  <1>5. ClosedComplete'
    BY DEF ClosedComplete, SessionEp, CountInv, SessionCount
  <1>6. ClosedFlag'
    BY DEF ClosedFlag, SessionEp
  <1>7. FailedForReason'
    BY DEF FailedForReason, Ended, CountInv, WaitingIsFresh, SessionEp
  <1> QED
    BY <1>1, <1>2, <1>3, <1>4, <1>5, <1>6, <1>7

\* RecvCb keeps what is said of the endpoints.
LEMMA Ends_RecvCb ==
    ASSUME Typed, Typed', CountInv, PhaseInv, EndpointInv, NEW p \in Procs, RecvCb(p)
    PROVE  EndpointInv'
  <1> USE NamesAssumption, OptFields DEF Typed, TypeOK, SessionHasClient, SessionPcs,
     EndpointInv, Peer, Procs, ServerGone, RecvCb, InDataLoop, DataLoops, In
  <1>0. ReqAfterArrival(p)
    BY ReqAfter_RecvCb
  <1>1. WaitingNoEp'
    BY <1>0 DEF WaitingNoEp, CountInv, WaitingIsFresh, ReqAfterArrival
  <1>2. FreshEp'
    BY <1>0 DEF FreshEp, SessionEp, ReqAfterArrival
  <1>3. FinServed'
    <2> SUFFICES ASSUME NEW c \in Clients, FinUnderWay(c)'
                 PROVE  c \in Served
      BY DEF FinServed, Served
    <2>1. In(p) # <<>>
      OBVIOUS
    <2>2. p \in Clients => FinUnderWay(p)
      BY <2>1 DEF FinUnderWay
    <2>3. ASSUME c # p
          PROVE  FinUnderWay(c)
      <3>1. net'[Server][c] = net[Server][c]
        BY <2>3
      <3>2. am_data_desc'[c] = am_data_desc[c] /\ unexp'[c] = unexp[c]
        BY <2>3
      <3>3. pc'[c] = "wait" /\ iter'[c] = opt'.n /\ req'[c] \in {"fetch", "ok"}
            => pc[c] = "wait" /\ iter[c] = opt.n /\ req[c] \in {"fetch", "ok"}
        BY <1>0, <2>3 DEF CountInv, FinWaitReceives, ReqAfterArrival
      <3> QED
        BY <3>1, <3>2, <3>3 DEF FinUnderWay
    <2> QED
      BY <2>2, <2>3 DEF FinServed
  <1>4. SessionEp'
    BY <1>0 DEF SessionEp, ReqAfterArrival
  <1>5. ClosedComplete'
    BY <1>0 DEF ClosedComplete, SessionEp, CountInv, SessionCount, ReqAfterArrival
  <1>6. ClosedFlag'
    BY <1>0 DEF ClosedFlag, SessionEp, ReqAfterArrival
  <1>7. FailedForReason'
    BY <1>0 DEF FailedForReason, Ended, CountInv, WaitingIsFresh, SessionEp,
       ReqAfterArrival
  <1> QED
    BY <1>1, <1>2, <1>3, <1>4, <1>5, <1>6, <1>7

\* AmDropped keeps what is said of the endpoints.
LEMMA Ends_AmDropped ==
    ASSUME Typed, Typed', CountInv, PhaseInv, EndpointInv, NEW p \in Procs, AmDropped(p)
    PROVE  EndpointInv'
  <1> USE NamesAssumption, OptFields DEF Typed, TypeOK, SessionHasClient, SessionPcs,
     EndpointInv, Peer, Procs, ServerGone, AmDropped, InDataLoop, DataLoops, In
  <1>0. ReqAfterArrival(p)
    BY ReqAfter_AmDropped
  <1>1. WaitingNoEp'
    BY <1>0 DEF WaitingNoEp, CountInv, WaitingIsFresh, ReqAfterArrival
  <1>2. FreshEp'
    BY <1>0 DEF FreshEp, SessionEp, ReqAfterArrival
  <1>3. FinServed'
    <2> SUFFICES ASSUME NEW c \in Clients, FinUnderWay(c)'
                 PROVE  c \in Served
      BY DEF FinServed, Served
    <2>1. In(p) # <<>>
      OBVIOUS
    <2>2. p \in Clients => FinUnderWay(p)
      BY <2>1 DEF FinUnderWay
    <2>3. ASSUME c # p
          PROVE  FinUnderWay(c)
      <3>1. net'[Server][c] = net[Server][c]
        BY <2>3
      <3>2. am_data_desc'[c] = am_data_desc[c] /\ unexp'[c] = unexp[c]
        BY <2>3
      <3>3. pc'[c] = "wait" /\ iter'[c] = opt'.n /\ req'[c] \in {"fetch", "ok"}
            => pc[c] = "wait" /\ iter[c] = opt.n /\ req[c] \in {"fetch", "ok"}
        BY <1>0, <2>3 DEF CountInv, FinWaitReceives, ReqAfterArrival
      <3> QED
        BY <3>1, <3>2, <3>3 DEF FinUnderWay
    <2> QED
      BY <2>2, <2>3 DEF FinServed
  <1>4. SessionEp'
    BY <1>0 DEF SessionEp, ReqAfterArrival
  <1>5. ClosedComplete'
    BY <1>0 DEF ClosedComplete, SessionEp, CountInv, SessionCount, ReqAfterArrival
  <1>6. ClosedFlag'
    BY <1>0 DEF ClosedFlag, SessionEp, ReqAfterArrival
  <1>7. FailedForReason'
    BY <1>0 DEF FailedForReason, Ended, CountInv, WaitingIsFresh, SessionEp,
       ReqAfterArrival
  <1> QED
    BY <1>1, <1>2, <1>3, <1>4, <1>5, <1>6, <1>7

\* ucp_am_data_cb keeps what is said of the endpoints.
LEMMA Ends_ucp_am_data_cb ==
    ASSUME Typed, Typed', CountInv, PhaseInv, EndpointInv, NEW p \in Procs, ucp_am_data_cb(p)
    PROVE  EndpointInv'
  <1> USE NamesAssumption, OptFields DEF Typed, TypeOK, SessionHasClient, SessionPcs,
     EndpointInv, Peer, Procs, ServerGone, ucp_am_data_cb, AmDispatched, InDataLoop, DataLoops, In
  <1>0. ReqAfterArrival(p)
    BY ReqAfter_ucp_am_data_cb
  <1>1. WaitingNoEp'
    BY <1>0 DEF WaitingNoEp, CountInv, WaitingIsFresh, ReqAfterArrival
  <1>2. FreshEp'
    BY <1>0 DEF FreshEp, SessionEp, ReqAfterArrival
  <1>3. FinServed'
    <2> SUFFICES ASSUME NEW c \in Clients, FinUnderWay(c)'
                 PROVE  c \in Served
      BY DEF FinServed, Served
    <2>1. In(p) # <<>>
      OBVIOUS
    <2>2. p \in Clients => FinUnderWay(p)
      BY <2>1 DEF FinUnderWay
    <2>3. ASSUME c # p
          PROVE  FinUnderWay(c)
      <3>1. net'[Server][c] = net[Server][c]
        BY <2>3
      <3>2. am_data_desc'[c] = am_data_desc[c] /\ unexp'[c] = unexp[c]
        BY <2>3
      <3>3. pc'[c] = "wait" /\ iter'[c] = opt'.n /\ req'[c] \in {"fetch", "ok"}
            => pc[c] = "wait" /\ iter[c] = opt.n /\ req[c] \in {"fetch", "ok"}
        BY <1>0, <2>3 DEF CountInv, FinWaitReceives, ReqAfterArrival
      <3> QED
        BY <3>1, <3>2, <3>3 DEF FinUnderWay
    <2> QED
      BY <2>2, <2>3 DEF FinServed
  <1>4. SessionEp'
    BY <1>0 DEF SessionEp, ReqAfterArrival
  <1>5. ClosedComplete'
    BY <1>0 DEF ClosedComplete, SessionEp, CountInv, SessionCount, ReqAfterArrival
  <1>6. ClosedFlag'
    BY <1>0 DEF ClosedFlag, SessionEp, ReqAfterArrival
  <1>7. FailedForReason'
    BY <1>0 DEF FailedForReason, Ended, CountInv, WaitingIsFresh, SessionEp,
       ReqAfterArrival
  <1> QED
    BY <1>1, <1>2, <1>3, <1>4, <1>5, <1>6, <1>7

\* err_cb keeps what is said of the endpoints.
LEMMA Ends_err_cb ==
    ASSUME Typed, Typed', CountInv, PhaseInv, EndpointInv, NEW p \in Procs, err_cb(p)
    PROVE  EndpointInv'
  <1> USE NamesAssumption, OptFields DEF Typed, TypeOK, SessionHasClient, SessionPcs,
     EndpointInv, Peer, Procs, ServerGone, err_cb, InDataLoop, DataLoops, FailedReq
  <1>1. WaitingNoEp'
    BY DEF WaitingNoEp, CountInv, WaitingIsFresh
  <1>2. FreshEp'
    BY DEF FreshEp, SessionEp
  <1>3. FinServed'
    BY DEF FinServed, FinUnderWay, Served, CountInv, FinWaitReceives
  <1>4. SessionEp'
    BY DEF SessionEp
  <1>5. ClosedComplete'
    BY DEF ClosedComplete, SessionEp, CountInv, SessionCount
  <1>6. ClosedFlag'
    BY DEF ClosedFlag, SessionEp
  <1>7. FailedForReason'
    <2> SUFFICES ASSUME "link" \notin Faults, NEW c \in Clients
                 PROVE  /\ ep'[c][Server] = "closed" => Ended(c)'
                        /\ ep'[c][Server] # "rejected"
                        /\ ep'[Server][c] \in {"failed", "closed"} /\ ~ServerGone' =>
                             Ended(c)'
                        /\ ep'[c][Server] = "failed" =>
                             \/ Ended(c)' \/ ServerGone'
                             \/ ep'[Server][c] \in {"closed", "rejected"}
                             \/ /\ ep'[Server][c] = "none" /\ pc'[c] # "start"
                                /\ c \notin backlog' /\ c # conn_request'
      BY DEF FailedForReason
    <2>1. pc' = pc /\ backlog' = backlog /\ conn_request' = conn_request
      OBVIOUS
    <2>2. (Ended(c) <=> Ended(c)') /\ (ServerGone <=> ServerGone')
      BY <2>1 DEF Ended
    <2>3. CASE p = Server
      <3>1. /\ ~ServerGone /\ conn_request \in Clients /\ ep[Server][conn_request] = "open"
            /\ ep[conn_request][Server] \in {"failed", "closed", "rejected"}
        BY <2>3 DEF PeerGone
      <3>2. Ended(conn_request)
        BY <3>1 DEF FailedForReason
      <3>3. ep' = [ep EXCEPT ![Server][conn_request] = "failed"]
        BY <2>3
      <3>4. /\ ep'[c][Server] = ep[c][Server]
            /\ c # conn_request => ep'[Server][c] = ep[Server][c]
        BY <3>1, <3>3
      <3> QED
        BY <2>1, <2>2, <3>2, <3>4 DEF FailedForReason
    <2>4. CASE p \in Clients
      <3>1. ep' = [ep EXCEPT ![p][Server] = "failed"] /\ ~Ended(p) /\ pc[p] # "start"
        BY <2>4 DEF Ended
      <3>2. ep[Server][p] = "failed" => ServerGone
        BY <2>4, <3>1 DEF FailedForReason
      <3>3. ep'[Server] = ep[Server] /\ ep'[p][Server] = "failed"
        BY <2>4, <3>1
      <3>4. c # p => ep'[c] = ep[c]
        BY <3>1
      <3>5. CASE c = p
        BY <2>1, <2>2, <2>4, <3>1, <3>2, <3>3, <3>5 DEF PeerGone, FailedForReason
      <3>6. CASE c # p
        BY <2>1, <2>2, <3>3, <3>4, <3>6 DEF FailedForReason
      <3> QED
        BY <3>5, <3>6
    <2> QED
      BY <2>3, <2>4
  <1> QED
    BY <1>1, <1>2, <1>3, <1>4, <1>5, <1>6, <1>7

\* Progress keeps what is said of the endpoints.
LEMMA Ends_Progress ==
    ASSUME Typed, Typed', CountInv, PhaseInv, EndpointInv, NEW p \in Procs, Progress(p)
    PROVE  EndpointInv'
  <1> USE NamesAssumption, OptFields DEF Typed, TypeOK, SessionHasClient, SessionPcs,
     EndpointInv, Peer, Procs, ServerGone, Progress, LoopDone, DataLoops
  <1>1. WaitingNoEp'
    BY DEF WaitingNoEp, CountInv, WaitingIsFresh
  <1>2. FreshEp'
    BY DEF FreshEp, SessionEp
  <1>3. FinServed'
    BY DEF FinServed, FinUnderWay, Served, CountInv, FinWaitReceives
  <1>4. SessionEp'
    BY DEF SessionEp
  <1>5. ClosedComplete'
    BY DEF ClosedComplete, SessionEp, CountInv, SessionCount
  <1>6. ClosedFlag'
    BY DEF ClosedFlag, SessionEp
  <1>7. FailedForReason'
    BY DEF FailedForReason, Ended, CountInv, WaitingIsFresh, SessionEp
  <1> QED
    BY <1>1, <1>2, <1>3, <1>4, <1>5, <1>6, <1>7

\* The death of a process keeps what is said of the endpoints.
LEMMA Ends_Die ==
    ASSUME Typed, Typed', CountInv, PhaseInv, EndpointInv, NEW p \in Procs, Die(p)
    PROVE  EndpointInv'
  <1> USE NamesAssumption, OptFields DEF Typed, TypeOK, SessionHasClient, SessionPcs,
     EndpointInv, Peer, Procs, ServerGone, Die
  <1>1. WaitingNoEp'
    BY DEF WaitingNoEp, CountInv, WaitingIsFresh
  <1>2. FreshEp'
    BY DEF FreshEp, SessionEp
  <1>3. FinServed'
    BY DEF FinServed, FinUnderWay, Served, CountInv, FinWaitReceives
  <1>4. SessionEp'
    BY DEF SessionEp
  <1>5. ClosedComplete'
    BY DEF ClosedComplete, SessionEp, CountInv, SessionCount
  <1>6. ClosedFlag'
    BY DEF ClosedFlag, SessionEp
  <1>7. FailedForReason'
    BY DEF FailedForReason, Ended, CountInv, WaitingIsFresh, SessionEp
  <1> QED
    BY <1>1, <1>2, <1>3, <1>4, <1>5, <1>6, <1>7

\* StartClient keeps what is said of the endpoints.
LEMMA Ends_StartClient ==
    ASSUME Typed, Typed', CountInv, PhaseInv, EndpointInv, NEW c0 \in Clients, StartClient(c0)
    PROVE  EndpointInv'
  <1> USE NamesAssumption, OptFields DEF Typed, TypeOK, SessionHasClient, SessionPcs,
     EndpointInv, Peer, Procs, ServerGone, StartClient, AfterIter
  <1>1. WaitingNoEp'
    BY DEF WaitingNoEp, CountInv, WaitingIsFresh
  <1>2. FreshEp'
    BY DEF FreshEp, SessionEp
  <1>3. FinServed'
    BY DEF FinServed, FinUnderWay, Served, CountInv, FinWaitReceives
  <1>4. SessionEp'
    BY DEF SessionEp
  <1>5. ClosedComplete'
    BY DEF ClosedComplete, SessionEp, CountInv, SessionCount
  <1>6. ClosedFlag'
    BY DEF ClosedFlag, SessionEp
  <1>7. FailedForReason'
    BY DEF FailedForReason, Ended, CountInv, WaitingIsFresh, SessionEp
  <1> QED
    BY <1>1, <1>2, <1>3, <1>4, <1>5, <1>6, <1>7

\* StartClientFails keeps what is said of the endpoints.
LEMMA Ends_StartClientFails ==
    ASSUME Typed, Typed', CountInv, PhaseInv, EndpointInv, NEW c0 \in Clients, StartClientFails(c0)
    PROVE  EndpointInv'
  <1> USE NamesAssumption, OptFields DEF Typed, TypeOK, SessionHasClient, SessionPcs,
     EndpointInv, Peer, Procs, ServerGone, StartClientFails
  <1>1. WaitingNoEp'
    BY DEF WaitingNoEp, CountInv, WaitingIsFresh
  <1>2. FreshEp'
    BY DEF FreshEp, SessionEp
  <1>3. FinServed'
    BY DEF FinServed, FinUnderWay, Served, CountInv, FinWaitReceives
  <1>4. SessionEp'
    BY DEF SessionEp
  <1>5. ClosedComplete'
    BY DEF ClosedComplete, SessionEp, CountInv, SessionCount
  <1>6. ClosedFlag'
    BY DEF ClosedFlag, SessionEp
  <1>7. FailedForReason'
    BY DEF FailedForReason, Ended, CountInv, WaitingIsFresh, SessionEp
  <1> QED
    BY <1>1, <1>2, <1>3, <1>4, <1>5, <1>6, <1>7

\* RegisterFinHandler keeps what is said of the endpoints.
LEMMA Ends_RegisterFinHandler ==
    ASSUME Typed, Typed', CountInv, PhaseInv, EndpointInv, NEW c0 \in Clients, RegisterFinHandler(c0)
    PROVE  EndpointInv'
  <1> USE NamesAssumption, OptFields DEF Typed, TypeOK, SessionHasClient, SessionPcs,
     EndpointInv, Peer, Procs, ServerGone, RegisterFinHandler, Registered
  <1>1. WaitingNoEp'
    BY DEF WaitingNoEp, CountInv, WaitingIsFresh
  <1>2. FreshEp'
    BY DEF FreshEp, SessionEp
  <1>3. FinServed'
    BY DEF FinServed, FinUnderWay, Served, CountInv, FinWaitReceives
  <1>4. SessionEp'
    BY DEF SessionEp
  <1>5. ClosedComplete'
    BY DEF ClosedComplete, SessionEp, CountInv, SessionCount
  <1>6. ClosedFlag'
    BY DEF ClosedFlag, SessionEp
  <1>7. FailedForReason'
    BY DEF FailedForReason, Ended, CountInv, WaitingIsFresh, SessionEp
  <1> QED
    BY <1>1, <1>2, <1>3, <1>4, <1>5, <1>6, <1>7

\* CloseClient keeps what is said of the endpoints.
LEMMA Ends_CloseClient ==
    ASSUME Typed, Typed', CountInv, PhaseInv, EndpointInv, NEW c0 \in Clients, CloseClient(c0)
    PROVE  EndpointInv'
  <1> USE NamesAssumption, OptFields DEF Typed, TypeOK, SessionHasClient, SessionPcs,
     EndpointInv, Peer, Procs, ServerGone, CloseClient
  <1>1. WaitingNoEp'
    BY DEF WaitingNoEp, CountInv, WaitingIsFresh
  <1>2. FreshEp'
    BY DEF FreshEp, SessionEp
  <1>3. FinServed'
    BY DEF FinServed, FinUnderWay, Served, CountInv, FinWaitReceives
  <1>4. SessionEp'
    BY DEF SessionEp
  <1>5. ClosedComplete'
    BY DEF ClosedComplete, SessionEp, CountInv, SessionCount
  <1>6. ClosedFlag'
    BY DEF ClosedFlag, SessionEp
  <1>7. FailedForReason'
    BY DEF FailedForReason, Ended, CountInv, WaitingIsFresh, SessionEp
  <1> QED
    BY <1>1, <1>2, <1>3, <1>4, <1>5, <1>6, <1>7

\* server_conn_handle_cb keeps what is said of the endpoints.
LEMMA Ends_server_conn_handle_cb ==
    ASSUME Typed, Typed', CountInv, PhaseInv, EndpointInv, NEW c0 \in Clients, server_conn_handle_cb(c0)
    PROVE  EndpointInv'
  <1> USE NamesAssumption, OptFields DEF Typed, TypeOK, SessionHasClient, SessionPcs,
     EndpointInv, Peer, Procs, ServerGone, server_conn_handle_cb
  <1>11. /\ ep[Server][c0] = "none" /\ c0 \in backlog /\ pc[Server] = "accept"
         /\ pc' = pc /\ backlog' = backlog \ {c0} /\ rcvd' = rcvd /\ opt' = opt
    BY DEF WaitingNoEp
  <1>12. \/ ep' = ep /\ conn_request' = c0 /\ conn_request = NoClient
         \/ ep' = [ep EXCEPT ![Server][c0] = "rejected"] /\ conn_request' = conn_request
    OBVIOUS
  <1>13. \A c \in Clients : /\ ep'[c] = ep[c]
                            /\ c # c0 => ep'[Server][c] = ep[Server][c]
    <2>1. CASE ep' = ep
      BY <2>1
    <2>2. CASE ep' = [ep EXCEPT ![Server][c0] = "rejected"]
      BY <2>2
    <2> QED
      BY <1>12, <2>1, <2>2
  <1>14. ep'[Server][c0] \in {"none", "rejected"}
    BY <1>11, <1>12
  <1>15. conn_request' = c0 => ep' = ep
    BY <1>11, <1>12 DEF CountInv, WaitingIsFresh
  <1>1. WaitingNoEp'
    BY <1>11, <1>12, <1>13, <1>14, <1>15 DEF WaitingNoEp, CountInv, WaitingIsFresh
  <1>2. FreshEp'
    BY <1>11, <1>12, <1>13, <1>14, <1>15 DEF FreshEp, SessionEp
  <1>3. FinServed'
    <2> SUFFICES ASSUME NEW c \in Clients, FinUnderWay(c)'
                 PROVE  c \in Served'
      BY DEF FinServed
    <2>1. FinUnderWay(c)
      BY DEF FinUnderWay
    <2>2. c \in Served
      BY <2>1 DEF FinServed
    <2> QED
      BY <1>11, <1>13, <2>2 DEF Served
  <1>4. SessionEp'
    BY <1>11, <1>12, <1>13, <1>14, <1>15 DEF SessionEp
  <1>5. ClosedComplete'
    <2> SUFFICES ASSUME NEW c \in Clients, ep'[Server][c] = "closed"
                 PROVE  Len(rcvd[c]) = opt.n
      BY <1>11 DEF ClosedComplete
    <2>1. ep[Server][c] = "closed" /\ ~ServerGone
      BY <1>11, <1>13, <1>14
    <2> QED
      BY <2>1 DEF ClosedComplete
  <1>6. ClosedFlag'
    BY <1>11, <1>12, <1>13, <1>14, <1>15 DEF ClosedFlag, SessionEp
  <1>7. FailedForReason'
    <2> SUFFICES ASSUME "link" \notin Faults, NEW c \in Clients
                 PROVE  /\ ep'[c][Server] = "closed" => Ended(c)'
                        /\ ep'[c][Server] # "rejected"
                        /\ ep'[Server][c] \in {"failed", "closed"} /\ ~ServerGone' =>
                             Ended(c)'
                        /\ ep'[c][Server] = "failed" =>
                             \/ Ended(c)' \/ ServerGone'
                             \/ ep'[Server][c] \in {"closed", "rejected"}
                             \/ /\ ep'[Server][c] = "none" /\ pc'[c] # "start"
                                /\ c \notin backlog' /\ c # conn_request'
      BY DEF FailedForReason
    <2>1. (Ended(c) <=> Ended(c)') /\ (ServerGone <=> ServerGone') /\ ~ServerGone
      BY <1>11 DEF Ended
    <2>2. CASE c = c0
      BY <1>11, <1>13, <1>14, <2>1, <2>2 DEF FailedForReason
    <2>3. CASE c # c0
      <3>1. conn_request' = c => conn_request = c
        BY <1>12, <2>3
      <3> QED
        BY <1>11, <1>13, <2>1, <2>3, <3>1 DEF FailedForReason
    <2> QED
      BY <2>2, <2>3
  <1> QED
    BY <1>1, <1>2, <1>3, <1>4, <1>5, <1>6, <1>7

\* StartServer keeps what is said of the endpoints.
LEMMA Ends_StartServer ==
    ASSUME Typed, Typed', CountInv, PhaseInv, EndpointInv, StartServer
    PROVE  EndpointInv'
  <1> USE NamesAssumption, OptFields DEF Typed, TypeOK, SessionHasClient, SessionPcs,
     EndpointInv, Peer, Procs, ServerGone, StartServer, Registered
  <1>1. WaitingNoEp'
    BY DEF WaitingNoEp, CountInv, WaitingIsFresh
  <1>2. FreshEp'
    BY DEF FreshEp, SessionEp
  <1>3. FinServed'
    BY DEF FinServed, FinUnderWay, Served, CountInv, FinWaitReceives
  <1>4. SessionEp'
    BY DEF SessionEp
  <1>5. ClosedComplete'
    BY DEF ClosedComplete, SessionEp, CountInv, SessionCount
  <1>6. ClosedFlag'
    BY DEF ClosedFlag, SessionEp
  <1>7. FailedForReason'
    BY DEF FailedForReason, Ended, CountInv, WaitingIsFresh, SessionEp
  <1> QED
    BY <1>1, <1>2, <1>3, <1>4, <1>5, <1>6, <1>7

\* ServerSetupFails keeps what is said of the endpoints.
LEMMA Ends_ServerSetupFails ==
    ASSUME Typed, Typed', CountInv, PhaseInv, EndpointInv, ServerSetupFails
    PROVE  EndpointInv'
  <1> USE NamesAssumption, OptFields DEF Typed, TypeOK, SessionHasClient, SessionPcs,
     EndpointInv, Peer, Procs, ServerGone, ServerSetupFails, LoopDone
  <1>1. WaitingNoEp'
    BY DEF WaitingNoEp, CountInv, WaitingIsFresh
  <1>2. FreshEp'
    BY DEF FreshEp, SessionEp
  <1>3. FinServed'
    BY DEF FinServed, FinUnderWay, Served, CountInv, FinWaitReceives
  <1>4. SessionEp'
    BY DEF SessionEp
  <1>5. ClosedComplete'
    BY DEF ClosedComplete, SessionEp, CountInv, SessionCount
  <1>6. ClosedFlag'
    BY DEF ClosedFlag, SessionEp
  <1>7. FailedForReason'
    BY DEF FailedForReason, Ended, CountInv, WaitingIsFresh, SessionEp
  <1> QED
    BY <1>1, <1>2, <1>3, <1>4, <1>5, <1>6, <1>7

\* CreateEp keeps what is said of the endpoints.
LEMMA Ends_CreateEp ==
    ASSUME Typed, Typed', CountInv, PhaseInv, EndpointInv, CreateEp
    PROVE  EndpointInv'
  <1> USE NamesAssumption, OptFields DEF Typed, TypeOK, SessionHasClient, SessionPcs,
     EndpointInv, Peer, Procs, ServerGone, CreateEp, AfterIter, LoopDone
  <1>1. WaitingNoEp'
    BY DEF WaitingNoEp, CountInv, WaitingIsFresh
  <1>2. FreshEp'
    BY DEF FreshEp, SessionEp
  <1>3. FinServed'
    BY DEF FinServed, FinUnderWay, Served, CountInv, FinWaitReceives
  <1>4. SessionEp'
    BY DEF SessionEp
  <1>5. ClosedComplete'
    BY DEF ClosedComplete, SessionEp, CountInv, SessionCount
  <1>6. ClosedFlag'
    BY DEF ClosedFlag, SessionEp
  <1>7. FailedForReason'
    <2> SUFFICES ASSUME "link" \notin Faults, NEW c \in Clients
                 PROVE  /\ ep'[c][Server] = "closed" => Ended(c)'
                        /\ ep'[c][Server] # "rejected"
                        /\ ep'[Server][c] \in {"failed", "closed"} /\ ~ServerGone' =>
                             Ended(c)'
                        /\ ep'[c][Server] = "failed" =>
                             \/ Ended(c)' \/ ServerGone'
                             \/ ep'[Server][c] \in {"closed", "rejected"}
                             \/ /\ ep'[Server][c] = "none" /\ pc'[c] # "start"
                                /\ c \notin backlog' /\ c # conn_request'
      BY DEF FailedForReason
    <2>1. (Ended(c) <=> Ended(c)') /\ ~ServerGone /\ ~ServerGone' /\ conn_request \in Clients
      BY DEF Ended
    <2>2. /\ ep'[c] = ep[c] /\ (pc'[c] = pc[c])
          /\ backlog' = backlog /\ conn_request' = conn_request
          /\ c # conn_request => ep'[Server][c] = ep[Server][c]
      OBVIOUS
    <2>3. /\ ep'[Server][conn_request] = "open"
          /\ ep[Server][conn_request] = "none"
      BY <2>1 DEF WaitingNoEp
    <2> QED
      BY <2>1, <2>2, <2>3 DEF FailedForReason
  <1> QED
    BY <1>1, <1>2, <1>3, <1>4, <1>5, <1>6, <1>7

\* Drained keeps what is said of the endpoints.
LEMMA Ends_Drained ==
    ASSUME Typed, Typed', CountInv, PhaseInv, EndpointInv, Drained
    PROVE  EndpointInv'
  <1> USE NamesAssumption, OptFields DEF Typed, TypeOK, SessionHasClient, SessionPcs,
     EndpointInv, Peer, Procs, ServerGone, Drained, LoopDone
  <1>1. WaitingNoEp'
    BY DEF WaitingNoEp, CountInv, WaitingIsFresh
  <1>2. FreshEp'
    BY DEF FreshEp, SessionEp
  <1>3. FinServed'
    BY DEF FinServed, FinUnderWay, Served, CountInv, FinWaitReceives
  <1>4. SessionEp'
    BY DEF SessionEp
  <1>5. ClosedComplete'
    BY DEF ClosedComplete, SessionEp, CountInv, SessionCount
  <1>6. ClosedFlag'
    BY DEF ClosedFlag, SessionEp
  <1>7. FailedForReason'
    BY DEF FailedForReason, Ended, CountInv, WaitingIsFresh, SessionEp
  <1> QED
    BY <1>1, <1>2, <1>3, <1>4, <1>5, <1>6, <1>7

\* NextClient keeps what is said of the endpoints.
LEMMA Ends_NextClient ==
    ASSUME Typed, Typed', CountInv, PhaseInv, EndpointInv, NextClient
    PROVE  EndpointInv'
  <1> USE NamesAssumption, OptFields DEF Typed, TypeOK, SessionHasClient, SessionPcs,
     EndpointInv, Peer, Procs, ServerGone, NextClient, CloseServerEp
  <1>1. WaitingNoEp'
    BY DEF WaitingNoEp, CountInv, WaitingIsFresh
  <1>2. FreshEp'
    BY DEF FreshEp, SessionEp
  <1>3. FinServed'
    BY DEF FinServed, FinUnderWay, Served, CountInv, FinWaitReceives
  <1>4. SessionEp'
    BY DEF SessionEp
  <1>5. ClosedComplete'
    BY DEF ClosedComplete, SessionEp, CountInv, SessionCount
  <1>6. ClosedFlag'
    BY DEF ClosedFlag, SessionEp
  <1>7. FailedForReason'
    <2> SUFFICES ASSUME "link" \notin Faults, NEW c \in Clients
                 PROVE  /\ ep'[c][Server] = "closed" => Ended(c)'
                        /\ ep'[c][Server] # "rejected"
                        /\ ep'[Server][c] \in {"failed", "closed"} /\ ~ServerGone' =>
                             Ended(c)'
                        /\ ep'[c][Server] = "failed" =>
                             \/ Ended(c)' \/ ServerGone'
                             \/ ep'[Server][c] \in {"closed", "rejected"}
                             \/ /\ ep'[Server][c] = "none" /\ pc'[c] # "start"
                                /\ c \notin backlog' /\ c # conn_request'
      BY DEF FailedForReason
    <2>1. (Ended(c) <=> Ended(c)') /\ ~ServerGone /\ ~ServerGone' /\ conn_request \in Clients
      BY DEF Ended
    <2>2. /\ ep'[c] = ep[c] /\ (pc'[c] = pc[c])
          /\ backlog' = backlog /\ conn_request' = NoClient
          /\ c # conn_request => ep'[Server][c] = ep[Server][c]
      BY <2>1
    <2>3. /\ ep'[Server][conn_request] = "closed"
          /\ ep[Server][conn_request] = "failed"
      BY <2>1 DEF ClosedFlag
    <2> QED
      BY <2>1, <2>2, <2>3 DEF FailedForReason
  <1> QED
    BY <1>1, <1>2, <1>3, <1>4, <1>5, <1>6, <1>7

\* ServerExit keeps what is said of the endpoints.
LEMMA Ends_ServerExit ==
    ASSUME Typed, Typed', CountInv, PhaseInv, EndpointInv, ServerExit
    PROVE  EndpointInv'
  <1> USE NamesAssumption, OptFields DEF Typed, TypeOK, SessionHasClient, SessionPcs,
     EndpointInv, Peer, Procs, ServerGone, ServerExit, CloseServerEp
  <1>1. WaitingNoEp'
    BY DEF WaitingNoEp, CountInv, WaitingIsFresh
  <1>2. FreshEp'
    BY DEF FreshEp, SessionEp
  <1>3. FinServed'
    BY DEF FinServed, FinUnderWay, Served, CountInv, FinWaitReceives
  <1>4. SessionEp'
    BY DEF SessionEp
  <1>5. ClosedComplete'
    BY DEF ClosedComplete, SessionEp, CountInv, SessionCount
  <1>6. ClosedFlag'
    BY DEF ClosedFlag, SessionEp
  <1>7. FailedForReason'
    BY DEF FailedForReason, Ended, CountInv, WaitingIsFresh, SessionEp
  <1> QED
    BY <1>1, <1>2, <1>3, <1>4, <1>5, <1>6, <1>7

\* Every step keeps what is said of the endpoints.
LEMMA EndsNext ==
    ASSUME Typed, Typed', CountInv, PhaseInv, EndpointInv, [Next]_vars
    PROVE  EndpointInv'
  <1>1. ASSUME NEW p \in Procs, Communicate(p)
        PROVE  EndpointInv'
    BY <1>1, Ends_AllocFails, Ends_Send, Ends_Recv, Ends_AmRecv, Ends_AmArrived,
       Ends_FinalizeError, Ends_FinalizeData, Ends_FinalizeFin DEF Communicate
  <1>2. ASSUME NEW p \in Procs, Callback(p)
        PROVE  EndpointInv'
    BY <1>2, Ends_SendCb, Ends_FetchCb, Ends_RecvCb, Ends_AmDropped,
       Ends_ucp_am_data_cb, Ends_err_cb, Ends_Die DEF Callback, AmCopyFaults
  <1>3. CASE ServerStep
    BY <1>1, <1>2, <1>3, Ends_StartServer, Ends_ServerSetupFails, Ends_CreateEp,
       Ends_Drained, Ends_NextClient, Ends_ServerExit, Ends_server_conn_handle_cb,
       Ends_Progress DEF ServerStep, Procs
  <1>4. ASSUME NEW c \in Clients, ClientStep(c)
        PROVE  EndpointInv'
    BY <1>1, <1>2, <1>4, Ends_StartClient, Ends_StartClientFails,
       Ends_RegisterFinHandler, Ends_CloseClient, Ends_Progress DEF ClientStep, Procs
  <1>5. CASE UNCHANGED vars
    BY <1>5 DEF vars, EndpointInv, WaitingNoEp, FreshEp, FinServed, FinUnderWay, Served,
       SessionEp, ClosedComplete, ServerGone, ClosedFlag, FailedForReason, Ended
  <1> QED
    BY <1>3, <1>4, <1>5, Ends_Die DEF Next, Idle, Crash

\* They hold initially.
LEMMA EndsInit == Init => EndpointInv
  BY NamesAssumption DEF Init, EndpointInv, WaitingNoEp, FreshEp, FinServed, FinUnderWay,
     SessionEp, ClosedComplete, ClosedFlag, FailedForReason, Procs, SessionPcs

--------------------------------------------------------------------------------
(***************************************************************************)
(* Theorems.                                                               *)
(***************************************************************************)
SessionInv == Typed /\ CountInv /\ PhaseInv /\ EndpointInv

\* The inductive invariant behind the theorems below: in every reachable state
\* the phases of the processes and the life of the server's endpoints are as
\* described, with every API and whatever fails.
THEOREM Sessions == Spec => []SessionInv
  <1>1. Init => SessionInv
    BY TypedInit, CountsInit, PhaseInit, EndsInit DEF SessionInv
  <1>2. SessionInv /\ [Next]_vars => SessionInv'
    BY TypedNext, CountsNext, PhaseNext, EndsNext DEF SessionInv
  <1> QED
    BY <1>1, <1>2, PTL DEF Spec

\* The server's ep_close with FORCE after a session that succeeded (run_server)
\* comes only after that client ended, when no link breaks: it cannot destroy a
\* FIN that is still in flight.
THEOREM ForceClose == Spec => []ForceCloseAfterClient
  <1>1. SessionInv => ForceCloseAfterClient
    BY DEF SessionInv, EndpointInv, FailedForReason, ForceCloseAfterClient, Ended, ServerGone
  <1> QED
    BY Sessions, <1>1, PTL

--------------------------------------------------------------------------------
(***************************************************************************)
(* How a process comes to ep_close, and the one FIN of a session.          *)
(***************************************************************************)

\* Why p is in ep_close.  The server closes with as many receives as iterations;
\* a client registers its handler once and closes with a result.  A process that
\* waits for eager active messages fails only when it cannot allocate.
ClosedFor(p) ==
    /\ p = Server => /\ ret[p] # "ok"
                     /\ pc[p] = "close" => Len(rcvd[conn_request]) = iter[p]
    /\ p \in Clients => /\ handler[p] => pc[p] \notin {"start", "reg"}
                        /\ pc[p] = "close" => ret[p] # "none"
    /\ /\ opt.api = "am" /\ ~opt.rndv /\ handler[p] /\ Receiver(p)
       /\ pc[p] = "close" /\ ret[p] = "err"
       => "alloc" \in Faults

CloseInv == \A p \in Procs : ClosedFor(p)

\* The FIN has come to client c.
FinTaken(c) ==
    \/ unexp[c] # <<>>
    \/ am_data_desc[c].complete
    \/ pc[c] = "wait" /\ iter[c] = opt.n /\ req[c] \in {"fetch", "ok"}
    \/ ret[c] = "ok"

\* The server sends one FIN in a session, and no other message.
FinInv ==
    /\ pc[Server] = "comm" /\ iter[Server] = opt.n => ~FinUnderWay(conn_request)
    /\ \A c \in Clients :
         net[Server][c] # <<>> => Len(net[Server][c]) = 1 /\ ~FinTaken(c)

\* A step of one process, seen by the others.
LEMMA CloseFrame ==
    ASSUME CloseInv, NEW p \in Procs, StepOf(p), ClosedFor(p)',
           p # Server => conn_request' = conn_request /\ rcvd' = rcvd
    PROVE  CloseInv'
  <1> SUFFICES ASSUME NEW q \in Procs, q # p
               PROVE  ClosedFor(q)'
    BY DEF CloseInv
  <1>1. ClosedFor(q) /\ SameLocal(q) /\ opt' = opt
    BY DEF CloseInv, StepOf
  <1> QED
    BY <1>1 DEF ClosedFor, SameLocal, Receiver, InFin

\* A step that leaves the control of the programs alone.
LEMMA CloseQuiet ==
    ASSUME CloseInv, UNCHANGED <<opt, pc, iter, ret, handler, conn_request, rcvd>>
    PROVE  CloseInv'
  BY DEF CloseInv, ClosedFor, Receiver, InFin

\* AllocFails keeps the reasons of a close.
LEMMA Close_AllocFails ==
    ASSUME SessionInv, SessionInv', CloseInv, NEW p \in Procs, AllocFails(p)
    PROVE  CloseInv'
  <1>0. p \in Procs /\ StepOf(p) /\ opt' = opt
    BY Step_AllocFails DEF SessionInv, StepOf, Procs
  <1>1. ClosedFor(p)
    BY <1>0 DEF CloseInv
  <1>2. ClosedFor(p)'
    BY <1>0, <1>1, NamesAssumption, OptFields DEF ClosedFor, SessionInv, Typed, TypeOK,
       SessionHasClient, SessionPcs, Procs, Receiver, InFin, AfterIter, CountInv,
       SessionCount, PhaseInv, ClientPhase, RequestPhase, AmPhase, RecvReqs,
       AllocFails
  <1>3. p # Server => conn_request' = conn_request /\ rcvd' = rcvd
    BY DEF AllocFails
  <1> QED
    BY <1>0, <1>2, <1>3, CloseFrame

\* Send keeps the reasons of a close.
LEMMA Close_Send ==
    ASSUME SessionInv, SessionInv', CloseInv, NEW p \in Procs, Send(p)
    PROVE  CloseInv'
  <1>0. p \in Procs /\ StepOf(p) /\ opt' = opt
    BY Step_Send DEF SessionInv, StepOf, Procs
  <1>1. ClosedFor(p)
    BY <1>0 DEF CloseInv
  <1>2. ClosedFor(p)'
    BY <1>0, <1>1, NamesAssumption, OptFields DEF ClosedFor, SessionInv, Typed, TypeOK,
       SessionHasClient, SessionPcs, Procs, Receiver, InFin, AfterIter, CountInv,
       SessionCount, PhaseInv, ClientPhase, RequestPhase, AmPhase, RecvReqs,
       Send
  <1>3. p # Server => conn_request' = conn_request /\ rcvd' = rcvd
    BY DEF Send
  <1> QED
    BY <1>0, <1>2, <1>3, CloseFrame

\* Recv keeps the reasons of a close.
LEMMA Close_Recv ==
    ASSUME SessionInv, SessionInv', CloseInv, NEW p \in Procs, Recv(p)
    PROVE  CloseInv'
  <1>0. p \in Procs /\ StepOf(p) /\ opt' = opt
    BY Step_Recv DEF SessionInv, StepOf, Procs
  <1>1. ClosedFor(p)
    BY <1>0 DEF CloseInv
  <1>2. ClosedFor(p)'
    BY <1>0, <1>1, NamesAssumption, OptFields DEF ClosedFor, SessionInv, Typed, TypeOK,
       SessionHasClient, SessionPcs, Procs, Receiver, InFin, AfterIter, CountInv,
       SessionCount, PhaseInv, ClientPhase, RequestPhase, AmPhase, RecvReqs,
       Recv
  <1>3. p # Server => conn_request' = conn_request /\ rcvd' = rcvd
    BY DEF Recv
  <1> QED
    BY <1>0, <1>2, <1>3, CloseFrame

\* AmRecv keeps the reasons of a close.
LEMMA Close_AmRecv ==
    ASSUME SessionInv, SessionInv', CloseInv, NEW p \in Procs, AmRecv(p)
    PROVE  CloseInv'
  <1>0. p \in Procs /\ StepOf(p) /\ opt' = opt
    BY Step_AmRecv DEF SessionInv, StepOf, Procs
  <1>1. ClosedFor(p)
    BY <1>0 DEF CloseInv
  <1>2. ClosedFor(p)'
    BY <1>0, <1>1, NamesAssumption, OptFields DEF ClosedFor, SessionInv, Typed, TypeOK,
       SessionHasClient, SessionPcs, Procs, Receiver, InFin, AfterIter, CountInv,
       SessionCount, PhaseInv, ClientPhase, RequestPhase, AmPhase, RecvReqs,
       AmRecv
  <1>3. p # Server => conn_request' = conn_request /\ rcvd' = rcvd
    BY DEF AmRecv
  <1> QED
    BY <1>0, <1>2, <1>3, CloseFrame

\* AmArrived keeps the reasons of a close.
LEMMA Close_AmArrived ==
    ASSUME SessionInv, SessionInv', CloseInv, NEW p \in Procs, AmArrived(p)
    PROVE  CloseInv'
  <1>0. p \in Procs /\ StepOf(p) /\ opt' = opt
    BY Step_AmArrived DEF SessionInv, StepOf, Procs
  <1>1. ClosedFor(p)
    BY <1>0 DEF CloseInv
  <1>2. ClosedFor(p)'
    BY <1>0, <1>1, NamesAssumption, OptFields DEF ClosedFor, SessionInv, Typed, TypeOK,
       SessionHasClient, SessionPcs, Procs, Receiver, InFin, AfterIter, CountInv,
       SessionCount, PhaseInv, ClientPhase, RequestPhase, AmPhase, RecvReqs,
       AmArrived
  <1>3. p # Server => conn_request' = conn_request /\ rcvd' = rcvd
    BY DEF AmArrived
  <1> QED
    BY <1>0, <1>2, <1>3, CloseFrame

\* FinalizeError keeps the reasons of a close.
LEMMA Close_FinalizeError ==
    ASSUME SessionInv, SessionInv', CloseInv, NEW p \in Procs, FinalizeError(p)
    PROVE  CloseInv'
  <1>0. p \in Procs /\ StepOf(p) /\ opt' = opt
    BY Step_FinalizeError DEF SessionInv, StepOf, Procs
  <1>1. ClosedFor(p)
    BY <1>0 DEF CloseInv
  <1>2. ClosedFor(p)'
    <2> USE <1>0 DEF FinalizeError
    <2>1. ret'[p] = "err" /\ pc'[p] = "close" /\ iter'[p] = iter[p] /\ handler'[p] = handler[p]
      BY DEF SessionInv, Typed, TypeOK
    <2>2. p = Server => Len(rcvd'[conn_request']) = iter'[p]
      BY <2>1 DEF SessionInv, CountInv, SessionCount
    <2>3. opt.api = "am" /\ ~opt.rndv => ~Receiver(p)
      BY DEF SessionInv, PhaseInv, AmPhase
    <2>4. Receiver(p)' <=> Receiver(p)
      BY <2>1 DEF Receiver, InFin
    <2>5. p \in Clients => p # Server
      BY NamesAssumption
    <2> QED
      BY <2>1, <2>2, <2>3, <2>4, <2>5 DEF ClosedFor
  <1>3. p # Server => conn_request' = conn_request /\ rcvd' = rcvd
    BY DEF FinalizeError
  <1> QED
    BY <1>0, <1>2, <1>3, CloseFrame

\* FinalizeData keeps the reasons of a close.
LEMMA Close_FinalizeData ==
    ASSUME SessionInv, SessionInv', CloseInv, NEW p \in Procs, FinalizeData(p)
    PROVE  CloseInv'
  <1>0. p \in Procs /\ StepOf(p) /\ opt' = opt
    BY Step_FinalizeData DEF SessionInv, StepOf, Procs
  <1>1. ClosedFor(p)
    BY <1>0 DEF CloseInv
  <1>2. ClosedFor(p)'
    BY <1>0, <1>1, NamesAssumption, OptFields DEF ClosedFor, SessionInv, Typed, TypeOK,
       SessionHasClient, SessionPcs, Procs, Receiver, InFin, AfterIter, CountInv,
       SessionCount, PhaseInv, ClientPhase, RequestPhase, AmPhase, RecvReqs,
       FinalizeData
  <1>3. p # Server => conn_request' = conn_request /\ rcvd' = rcvd
    BY DEF FinalizeData
  <1> QED
    BY <1>0, <1>2, <1>3, CloseFrame

\* FinalizeFin keeps the reasons of a close.
LEMMA Close_FinalizeFin ==
    ASSUME SessionInv, SessionInv', CloseInv, NEW p \in Procs, FinalizeFin(p)
    PROVE  CloseInv'
  <1>0. p \in Procs /\ StepOf(p) /\ opt' = opt
    BY Step_FinalizeFin DEF SessionInv, StepOf, Procs
  <1>1. ClosedFor(p)
    BY <1>0 DEF CloseInv
  <1>2. ClosedFor(p)'
    BY <1>0, <1>1, NamesAssumption, OptFields DEF ClosedFor, SessionInv, Typed, TypeOK,
       SessionHasClient, SessionPcs, Procs, Receiver, InFin, AfterIter, CountInv,
       SessionCount, PhaseInv, ClientPhase, RequestPhase, AmPhase, RecvReqs,
       FinalizeFin
  <1>3. p # Server => conn_request' = conn_request /\ rcvd' = rcvd
    BY DEF FinalizeFin
  <1> QED
    BY <1>0, <1>2, <1>3, CloseFrame

\* The death of a process keeps the reasons of a close.
LEMMA Close_Die ==
    ASSUME SessionInv, SessionInv', CloseInv, NEW p \in Procs, Die(p)
    PROVE  CloseInv'
  <1>0. p \in Procs /\ StepOf(p) /\ opt' = opt
    BY Step_Die DEF SessionInv, StepOf, Procs
  <1>1. ClosedFor(p)
    BY <1>0 DEF CloseInv
  <1>2. ClosedFor(p)'
    BY <1>0, <1>1, NamesAssumption, OptFields DEF ClosedFor, SessionInv, Typed, TypeOK,
       SessionHasClient, SessionPcs, Procs, Receiver, InFin, AfterIter, CountInv,
       SessionCount, PhaseInv, ClientPhase, RequestPhase, AmPhase, RecvReqs,
       Die
  <1>3. p # Server => conn_request' = conn_request /\ rcvd' = rcvd
    BY DEF Die
  <1> QED
    BY <1>0, <1>2, <1>3, CloseFrame

\* StartClient keeps the reasons of a close.
LEMMA Close_StartClient ==
    ASSUME SessionInv, SessionInv', CloseInv, NEW c0 \in Clients, StartClient(c0)
    PROVE  CloseInv'
  <1>0. c0 \in Procs /\ StepOf(c0) /\ opt' = opt
    BY Step_StartClient DEF SessionInv, StepOf, Procs
  <1>1. ClosedFor(c0)
    BY <1>0 DEF CloseInv
  <1>2. ClosedFor(c0)'
    BY <1>0, <1>1, NamesAssumption, OptFields DEF ClosedFor, SessionInv, Typed, TypeOK,
       SessionHasClient, SessionPcs, Procs, Receiver, InFin, AfterIter, CountInv,
       SessionCount, PhaseInv, ClientPhase, RequestPhase, AmPhase, RecvReqs,
       StartClient
  <1>3. c0 # Server => conn_request' = conn_request /\ rcvd' = rcvd
    BY DEF StartClient
  <1> QED
    BY <1>0, <1>2, <1>3, CloseFrame

\* StartClientFails keeps the reasons of a close.
LEMMA Close_StartClientFails ==
    ASSUME SessionInv, SessionInv', CloseInv, NEW c0 \in Clients, StartClientFails(c0)
    PROVE  CloseInv'
  <1>0. c0 \in Procs /\ StepOf(c0) /\ opt' = opt
    BY Step_StartClientFails DEF SessionInv, StepOf, Procs
  <1>1. ClosedFor(c0)
    BY <1>0 DEF CloseInv
  <1>2. ClosedFor(c0)'
    BY <1>0, <1>1, NamesAssumption, OptFields DEF ClosedFor, SessionInv, Typed, TypeOK,
       SessionHasClient, SessionPcs, Procs, Receiver, InFin, AfterIter, CountInv,
       SessionCount, PhaseInv, ClientPhase, RequestPhase, AmPhase, RecvReqs,
       StartClientFails
  <1>3. c0 # Server => conn_request' = conn_request /\ rcvd' = rcvd
    BY DEF StartClientFails
  <1> QED
    BY <1>0, <1>2, <1>3, CloseFrame

\* RegisterFinHandler keeps the reasons of a close.
LEMMA Close_RegisterFinHandler ==
    ASSUME SessionInv, SessionInv', CloseInv, NEW c0 \in Clients, RegisterFinHandler(c0)
    PROVE  CloseInv'
  <1>0. c0 \in Procs /\ StepOf(c0) /\ opt' = opt
    BY Step_RegisterFinHandler DEF SessionInv, StepOf, Procs
  <1>1. ClosedFor(c0)
    BY <1>0 DEF CloseInv
  <1>2. ClosedFor(c0)'
    BY <1>0, <1>1, NamesAssumption, OptFields DEF ClosedFor, SessionInv, Typed, TypeOK,
       SessionHasClient, SessionPcs, Procs, Receiver, InFin, AfterIter, CountInv,
       SessionCount, PhaseInv, ClientPhase, RequestPhase, AmPhase, RecvReqs,
       RegisterFinHandler, Registered
  <1>3. c0 # Server => conn_request' = conn_request /\ rcvd' = rcvd
    BY DEF RegisterFinHandler, Registered
  <1> QED
    BY <1>0, <1>2, <1>3, CloseFrame

\* CloseClient keeps the reasons of a close.
LEMMA Close_CloseClient ==
    ASSUME SessionInv, SessionInv', CloseInv, NEW c0 \in Clients, CloseClient(c0)
    PROVE  CloseInv'
  <1>0. c0 \in Procs /\ StepOf(c0) /\ opt' = opt
    BY Step_CloseClient DEF SessionInv, StepOf, Procs
  <1>1. ClosedFor(c0)
    BY <1>0 DEF CloseInv
  <1>2. ClosedFor(c0)'
    BY <1>0, <1>1, NamesAssumption, OptFields DEF ClosedFor, SessionInv, Typed, TypeOK,
       SessionHasClient, SessionPcs, Procs, Receiver, InFin, AfterIter, CountInv,
       SessionCount, PhaseInv, ClientPhase, RequestPhase, AmPhase, RecvReqs,
       CloseClient
  <1>3. c0 # Server => conn_request' = conn_request /\ rcvd' = rcvd
    BY DEF CloseClient
  <1> QED
    BY <1>0, <1>2, <1>3, CloseFrame

\* StartServer keeps the reasons of a close.
LEMMA Close_StartServer ==
    ASSUME SessionInv, SessionInv', CloseInv, StartServer
    PROVE  CloseInv'
  <1>0. Server \in Procs /\ StepOf(Server) /\ opt' = opt
    BY Step_StartServer DEF SessionInv, StepOf, Procs
  <1>1. ClosedFor(Server)
    BY <1>0 DEF CloseInv
  <1>2. ClosedFor(Server)'
    BY <1>0, <1>1, NamesAssumption, OptFields DEF ClosedFor, SessionInv, Typed, TypeOK,
       SessionHasClient, SessionPcs, Procs, Receiver, InFin, AfterIter, CountInv,
       SessionCount, PhaseInv, ClientPhase, RequestPhase, AmPhase, RecvReqs,
       StartServer, Registered
  <1>3. Server # Server => conn_request' = conn_request /\ rcvd' = rcvd
    BY DEF StartServer, Registered
  <1> QED
    BY <1>0, <1>2, <1>3, CloseFrame

\* ServerSetupFails keeps the reasons of a close.
LEMMA Close_ServerSetupFails ==
    ASSUME SessionInv, SessionInv', CloseInv, ServerSetupFails
    PROVE  CloseInv'
  <1>0. Server \in Procs /\ StepOf(Server) /\ opt' = opt
    BY Step_ServerSetupFails DEF SessionInv, StepOf, Procs
  <1>1. ClosedFor(Server)
    BY <1>0 DEF CloseInv
  <1>2. ClosedFor(Server)'
    BY <1>0, <1>1, NamesAssumption, OptFields DEF ClosedFor, SessionInv, Typed, TypeOK,
       SessionHasClient, SessionPcs, Procs, Receiver, InFin, AfterIter, CountInv,
       SessionCount, PhaseInv, ClientPhase, RequestPhase, AmPhase, RecvReqs,
       ServerSetupFails, LoopDone
  <1>3. Server # Server => conn_request' = conn_request /\ rcvd' = rcvd
    BY DEF ServerSetupFails, LoopDone
  <1> QED
    BY <1>0, <1>2, <1>3, CloseFrame

\* CreateEp keeps the reasons of a close.
LEMMA Close_CreateEp ==
    ASSUME SessionInv, SessionInv', CloseInv, CreateEp
    PROVE  CloseInv'
  <1>0. Server \in Procs /\ StepOf(Server) /\ opt' = opt
    BY Step_CreateEp DEF SessionInv, StepOf, Procs
  <1>1. ClosedFor(Server)
    BY <1>0 DEF CloseInv
  <1>2. ClosedFor(Server)'
    BY <1>0, <1>1, NamesAssumption, OptFields DEF ClosedFor, SessionInv, Typed, TypeOK,
       SessionHasClient, SessionPcs, Procs, Receiver, InFin, AfterIter, CountInv,
       SessionCount, PhaseInv, ClientPhase, RequestPhase, AmPhase, RecvReqs,
       CreateEp, LoopDone
  <1>3. Server # Server => conn_request' = conn_request /\ rcvd' = rcvd
    BY DEF CreateEp, LoopDone
  <1> QED
    BY <1>0, <1>2, <1>3, CloseFrame

\* Drained keeps the reasons of a close.
LEMMA Close_Drained ==
    ASSUME SessionInv, SessionInv', CloseInv, Drained
    PROVE  CloseInv'
  <1>0. Server \in Procs /\ StepOf(Server) /\ opt' = opt
    BY Step_Drained DEF SessionInv, StepOf, Procs
  <1>1. ClosedFor(Server)
    BY <1>0 DEF CloseInv
  <1>2. ClosedFor(Server)'
    BY <1>0, <1>1, NamesAssumption, OptFields DEF ClosedFor, SessionInv, Typed, TypeOK,
       SessionHasClient, SessionPcs, Procs, Receiver, InFin, AfterIter, CountInv,
       SessionCount, PhaseInv, ClientPhase, RequestPhase, AmPhase, RecvReqs,
       Drained, LoopDone
  <1>3. Server # Server => conn_request' = conn_request /\ rcvd' = rcvd
    BY DEF Drained, LoopDone
  <1> QED
    BY <1>0, <1>2, <1>3, CloseFrame

\* NextClient keeps the reasons of a close.
LEMMA Close_NextClient ==
    ASSUME SessionInv, SessionInv', CloseInv, NextClient
    PROVE  CloseInv'
  <1>0. Server \in Procs /\ StepOf(Server) /\ opt' = opt
    BY Step_NextClient DEF SessionInv, StepOf, Procs
  <1>1. ClosedFor(Server)
    BY <1>0 DEF CloseInv
  <1>2. ClosedFor(Server)'
    BY <1>0, <1>1, NamesAssumption, OptFields DEF ClosedFor, SessionInv, Typed, TypeOK,
       SessionHasClient, SessionPcs, Procs, Receiver, InFin, AfterIter, CountInv,
       SessionCount, PhaseInv, ClientPhase, RequestPhase, AmPhase, RecvReqs,
       NextClient, CloseServerEp
  <1>3. Server # Server => conn_request' = conn_request /\ rcvd' = rcvd
    BY DEF NextClient, CloseServerEp
  <1> QED
    BY <1>0, <1>2, <1>3, CloseFrame

\* ServerExit keeps the reasons of a close.
LEMMA Close_ServerExit ==
    ASSUME SessionInv, SessionInv', CloseInv, ServerExit
    PROVE  CloseInv'
  <1>0. Server \in Procs /\ StepOf(Server) /\ opt' = opt
    BY Step_ServerExit DEF SessionInv, StepOf, Procs
  <1>1. ClosedFor(Server)
    BY <1>0 DEF CloseInv
  <1>2. ClosedFor(Server)'
    BY <1>0, <1>1, NamesAssumption, OptFields DEF ClosedFor, SessionInv, Typed, TypeOK,
       SessionHasClient, SessionPcs, Procs, Receiver, InFin, AfterIter, CountInv,
       SessionCount, PhaseInv, ClientPhase, RequestPhase, AmPhase, RecvReqs,
       ServerExit, CloseServerEp
  <1>3. Server # Server => conn_request' = conn_request /\ rcvd' = rcvd
    BY DEF ServerExit, CloseServerEp
  <1> QED
    BY <1>0, <1>2, <1>3, CloseFrame

\* server_conn_handle_cb keeps the reasons of a close.
LEMMA Close_server_conn_handle_cb ==
    ASSUME SessionInv, SessionInv', CloseInv, NEW c0 \in Clients, server_conn_handle_cb(c0)
    PROVE  CloseInv'
  <1>0. Server \in Procs /\ StepOf(Server) /\ opt' = opt
    BY Step_server_conn_handle_cb DEF SessionInv, StepOf, Procs
  <1>1. ClosedFor(Server)
    BY <1>0 DEF CloseInv
  <1>2. ClosedFor(Server)'
    BY <1>0, <1>1, NamesAssumption, OptFields DEF ClosedFor, SessionInv, Typed, TypeOK,
       SessionHasClient, SessionPcs, Procs, Receiver, InFin, AfterIter, CountInv,
       SessionCount, PhaseInv, ClientPhase, RequestPhase, AmPhase, RecvReqs,
       server_conn_handle_cb
  <1>3. Server # Server => conn_request' = conn_request /\ rcvd' = rcvd
    BY DEF server_conn_handle_cb
  <1> QED
    BY <1>0, <1>2, <1>3, CloseFrame

\* Every step keeps them.
LEMMA CloseNext ==
    ASSUME SessionInv, SessionInv', CloseInv, [Next]_vars
    PROVE  CloseInv'
  <1>1. ASSUME NEW p \in Procs, Communicate(p)
        PROVE  CloseInv'
    BY <1>1, Close_AllocFails, Close_Send, Close_Recv, Close_AmRecv, Close_AmArrived,
       Close_FinalizeError, Close_FinalizeData, Close_FinalizeFin DEF Communicate
  <1>2. ASSUME NEW p \in Procs, Callback(p)
        PROVE  CloseInv'
    <2>1. CASE AmCopyFaults(p)
      BY <2>1, Close_Die DEF AmCopyFaults
    <2>2. CASE ~AmCopyFaults(p)
      BY <1>2, <2>2, CloseQuiet DEF Callback, SendCb, FetchCb, RecvCb, AmDropped,
         ucp_am_data_cb, err_cb
    <2> QED
      BY <2>1, <2>2
  <1>3. ASSUME NEW p \in Procs, Progress(p)
        PROVE  CloseInv'
    BY <1>3, CloseQuiet DEF Progress
  <1>4. CASE ServerStep
    BY <1>1, <1>2, <1>3, <1>4, Close_StartServer, Close_ServerSetupFails, Close_CreateEp,
       Close_Drained, Close_NextClient, Close_ServerExit, Close_server_conn_handle_cb
       DEF ServerStep, Procs
  <1>5. ASSUME NEW c \in Clients, ClientStep(c)
        PROVE  CloseInv'
    BY <1>1, <1>2, <1>3, <1>5, Close_StartClient, Close_StartClientFails,
       Close_RegisterFinHandler, Close_CloseClient DEF ClientStep, Procs
  <1>6. CASE UNCHANGED vars
    BY <1>6, CloseQuiet DEF vars
  <1> QED
    BY <1>4, <1>5, <1>6, Close_Die DEF Next, Idle, Crash

\* A client's step leaves the FIN sent to it where it is, or loses it.
FinKept(p) ==
    /\ net'[Server][p] \in {net[Server][p], <<>>}
    /\ FinTaken(p)' => FinTaken(p)

\* A client's step takes the FIN.
FinComes(p) == net[Server][p] # <<>> /\ net'[Server][p] = Tail(net[Server][p])

\* Either way there is at most one.
LEMMA ClientFin ==
    ASSUME SessionInv, FinInv, NEW p \in Clients, StepOf(p), conn_request' = conn_request,
           \A c \in Clients \ {p} : net'[Server][c] = net[Server][c] /\ unexp'[c] = unexp[c],
           FinKept(p) \/ FinComes(p)
    PROVE  FinInv'
  <1>1. /\ SameLocal(Server) /\ opt' = opt /\ Server \in Procs
        /\ \A c \in Clients \ {p} : SameLocal(c)
    BY NamesAssumption DEF StepOf, Procs
  <1>2. \A c \in Clients \ {p} : FinTaken(c)' <=> FinTaken(c)
    BY <1>1 DEF FinTaken, SameLocal
  <1>3. \A c \in Clients : FinUnderWay(c) <=> net[Server][c] # <<>> \/ FinTaken(c)
    BY DEF FinUnderWay, FinTaken
  <1>4. \A c \in Clients : FinUnderWay(c)' <=> net'[Server][c] # <<>> \/ FinTaken(c)'
    BY DEF FinUnderWay, FinTaken
  <1>5. net[Server][p] \in Seq(Message)
    BY <1>1 DEF SessionInv, Typed, TypeOK, Procs
  <1>6. \A c \in Clients : net'[Server][c] # <<>> => Len(net'[Server][c]) = 1 /\ ~FinTaken(c)'
    <2>1. net'[Server][p] # <<>> => Len(net'[Server][p]) = 1 /\ ~FinTaken(p)'
      <3>1. net[Server][p] # <<>> => Len(net[Server][p]) = 1 /\ ~FinTaken(p)
        BY DEF FinInv
      <3>2. CASE FinKept(p)
        BY <3>1, <3>2 DEF FinKept
      <3>3. CASE FinComes(p)
        <4>1. Tail(net[Server][p]) \in Seq(Message) /\ Len(Tail(net[Server][p])) = 0
          BY <1>5, <3>1, <3>3 DEF FinComes
        <4>2. \A s \in Seq(Message) : Len(s) = 0 => s = <<>>
          OBVIOUS
        <4>3. Tail(net[Server][p]) = <<>>
          BY <4>1, <4>2
        <4> QED
          BY <3>3, <4>3 DEF FinComes
      <3> QED
        BY <3>2, <3>3
    <2> QED
      BY <1>2, <2>1 DEF FinInv
  <1>7. ASSUME pc'[Server] = "comm", iter'[Server] = opt'.n
        PROVE  ~FinUnderWay(conn_request)'
    <2>1. conn_request \in Clients /\ ~FinUnderWay(conn_request)
      BY <1>1, <1>7 DEF SameLocal, FinInv, SessionInv, Typed, SessionHasClient, SessionPcs
    <2>2. net[Server][conn_request] = <<>> /\ ~FinTaken(conn_request)
      BY <1>3, <2>1
    <2>3. net'[Server][conn_request] = <<>> /\ ~FinTaken(conn_request)'
      BY <1>2, <2>1, <2>2 DEF FinKept, FinComes
    <2> QED
      BY <1>4, <2>1, <2>3
  <1> QED
    BY <1>6, <1>7 DEF FinInv

\* What a step of the server does to it.
LEMMA ServerFin ==
    ASSUME SessionInv, FinInv, StepOf(Server), \A c \in Clients : unexp'[c] = unexp[c],
           \A c \in Clients : net'[Server][c] = net[Server][c],
           pc'[Server] = "comm" /\ iter'[Server] = opt'.n =>
             conn_request' \in Clients /\ ~FinUnderWay(conn_request')
    PROVE  FinInv'
  <1>1. opt' = opt /\ \A c \in Clients : SameLocal(c)
    BY NamesAssumption DEF StepOf, Procs
  <1>2. \A c \in Clients : /\ FinTaken(c)' <=> FinTaken(c)
                           /\ FinUnderWay(c)' <=> FinUnderWay(c)
    BY <1>1 DEF FinTaken, FinUnderWay, SameLocal
  <1> QED
    BY <1>2 DEF FinInv

\* AllocFails of a client keeps it.
LEMMA FinC_AllocFails ==
    ASSUME SessionInv, FinInv, NEW p \in Clients, AllocFails(p)
    PROVE  FinInv'
  <1>0. p \in Procs /\ Server \in Procs /\ StepOf(p)
    BY Step_AllocFails DEF SessionInv, Procs
  <1>1. conn_request' = conn_request
    BY DEF AllocFails
  <1>2. \A c \in Clients \ {p} : net'[Server][c] = net[Server][c] /\ unexp'[c] = unexp[c]
    BY <1>0, NamesAssumption DEF SessionInv, Typed, TypeOK, Procs, AllocFails
  <1>3. FinKept(p)
    BY <1>0, NamesAssumption DEF SessionInv, Typed, TypeOK, Procs, CountInv,
       FinWaitReceives,
       PhaseInv, RequestPhase, FinKept, FinTaken,
       AllocFails
  <1> QED
    BY <1>0, <1>1, <1>2, <1>3, ClientFin

\* Send of a client keeps it.
LEMMA FinC_Send ==
    ASSUME SessionInv, FinInv, NEW p \in Clients, Send(p)
    PROVE  FinInv'
  <1>0. p \in Procs /\ Server \in Procs /\ StepOf(p)
    BY Step_Send DEF SessionInv, Procs
  <1>1. conn_request' = conn_request
    BY DEF Send, Receiver, InFin, Peer
  <1>2. \A c \in Clients \ {p} : net'[Server][c] = net[Server][c] /\ unexp'[c] = unexp[c]
    BY <1>0, NamesAssumption DEF SessionInv, Typed, TypeOK, Procs, Send, Receiver, InFin,
       Peer
  <1>3. FinKept(p)
    BY <1>0, NamesAssumption DEF SessionInv, Typed, TypeOK, Procs, CountInv,
       FinWaitReceives,
       PhaseInv, RequestPhase, FinKept, FinTaken,
       Send, Receiver, InFin, Peer
  <1> QED
    BY <1>0, <1>1, <1>2, <1>3, ClientFin

\* Recv of a client keeps it.
LEMMA FinC_Recv ==
    ASSUME SessionInv, FinInv, NEW p \in Clients, Recv(p)
    PROVE  FinInv'
  <1>0. p \in Procs /\ Server \in Procs /\ StepOf(p)
    BY Step_Recv DEF SessionInv, Procs
  <1>1. conn_request' = conn_request
    BY DEF Recv, Receiver, InFin
  <1>2. \A c \in Clients \ {p} : net'[Server][c] = net[Server][c] /\ unexp'[c] = unexp[c]
    BY <1>0, NamesAssumption DEF SessionInv, Typed, TypeOK, Procs, Recv, Receiver, InFin
  <1>3. FinKept(p)
    <2>1. net' = net /\ am_data_desc' = am_data_desc /\ ret' = ret
      BY DEF Recv
    <2>2. unexp'[p] # <<>> \/ req'[p] \in {"fetch", "ok"} => unexp[p] # <<>>
      <3>1. PICK r \in RecvResults(p) :
              /\ req' = [req EXCEPT ![p] = r]
              /\ IF r \in {"fetch", "ok"}
                   THEN /\ buf' = [buf EXCEPT ![p] = Head(unexp[p])]
                        /\ unexp' = [unexp EXCEPT ![p] = Tail(@)]
                   ELSE UNCHANGED <<buf, unexp>>
        BY DEF Recv
      <3>2. r \in {"fetch", "ok"} => unexp[p] # <<>>
        BY DEF RecvResults
      <3>3. req'[p] = r
        BY <1>0, <3>1 DEF SessionInv, Typed, TypeOK
      <3> QED
        BY <3>1, <3>2, <3>3
    <2> QED
      BY <2>1, <2>2 DEF FinKept, FinTaken
  <1> QED
    BY <1>0, <1>1, <1>2, <1>3, ClientFin

\* AmRecv of a client keeps it.
LEMMA FinC_AmRecv ==
    ASSUME SessionInv, FinInv, NEW p \in Clients, AmRecv(p)
    PROVE  FinInv'
  <1>0. p \in Procs /\ Server \in Procs /\ StepOf(p)
    BY Step_AmRecv DEF SessionInv, Procs
  <1>1. conn_request' = conn_request
    BY DEF AmRecv
  <1>2. \A c \in Clients \ {p} : net'[Server][c] = net[Server][c] /\ unexp'[c] = unexp[c]
    BY <1>0, NamesAssumption DEF SessionInv, Typed, TypeOK, Procs, AmRecv
  <1>3. FinKept(p)
    BY <1>0, NamesAssumption DEF SessionInv, Typed, TypeOK, Procs, CountInv,
       FinWaitReceives,
       PhaseInv, RequestPhase, FinKept, FinTaken,
       AmRecv
  <1> QED
    BY <1>0, <1>1, <1>2, <1>3, ClientFin

\* AmArrived of a client keeps it.
LEMMA FinC_AmArrived ==
    ASSUME SessionInv, FinInv, NEW p \in Clients, AmArrived(p)
    PROVE  FinInv'
  <1>0. p \in Procs /\ Server \in Procs /\ StepOf(p)
    BY Step_AmArrived DEF SessionInv, Procs
  <1>1. conn_request' = conn_request
    BY DEF AmArrived, LoopDone, Taken
  <1>2. \A c \in Clients \ {p} : net'[Server][c] = net[Server][c] /\ unexp'[c] = unexp[c]
    BY <1>0, NamesAssumption DEF SessionInv, Typed, TypeOK, Procs, AmArrived, LoopDone,
       Taken
  <1>3. FinKept(p)
    BY <1>0, NamesAssumption DEF SessionInv, Typed, TypeOK, Procs, CountInv,
       FinWaitReceives,
       PhaseInv, RequestPhase, FinKept, FinTaken,
       AmArrived, LoopDone, Taken
  <1> QED
    BY <1>0, <1>1, <1>2, <1>3, ClientFin

\* FinalizeError of a client keeps it.
LEMMA FinC_FinalizeError ==
    ASSUME SessionInv, FinInv, NEW p \in Clients, FinalizeError(p)
    PROVE  FinInv'
  <1>0. p \in Procs /\ Server \in Procs /\ StepOf(p)
    BY Step_FinalizeError DEF SessionInv, Procs
  <1>1. conn_request' = conn_request
    BY DEF FinalizeError, FreeIov
  <1>2. \A c \in Clients \ {p} : net'[Server][c] = net[Server][c] /\ unexp'[c] = unexp[c]
    BY <1>0, NamesAssumption DEF SessionInv, Typed, TypeOK, Procs, FinalizeError, FreeIov
  <1>3. FinKept(p)
    BY <1>0, NamesAssumption DEF SessionInv, Typed, TypeOK, Procs, CountInv,
       FinWaitReceives,
       PhaseInv, RequestPhase, FinKept, FinTaken,
       FinalizeError, FreeIov
  <1> QED
    BY <1>0, <1>1, <1>2, <1>3, ClientFin

\* FinalizeData of a client keeps it.
LEMMA FinC_FinalizeData ==
    ASSUME SessionInv, FinInv, NEW p \in Clients, FinalizeData(p)
    PROVE  FinInv'
  <1>0. p \in Procs /\ Server \in Procs /\ StepOf(p)
    BY Step_FinalizeData DEF SessionInv, Procs
  <1>1. conn_request' = conn_request
    BY DEF FinalizeData, FreeIov, AfterIter
  <1>2. \A c \in Clients \ {p} : net'[Server][c] = net[Server][c] /\ unexp'[c] = unexp[c]
    BY <1>0, NamesAssumption DEF SessionInv, Typed, TypeOK, Procs, FinalizeData, FreeIov,
       AfterIter
  <1>3. FinKept(p)
    BY <1>0, NamesAssumption DEF SessionInv, Typed, TypeOK, Procs, CountInv,
       FinWaitReceives,
       PhaseInv, RequestPhase, FinKept, FinTaken,
       FinalizeData, FreeIov, AfterIter
  <1> QED
    BY <1>0, <1>1, <1>2, <1>3, ClientFin

\* FinalizeFin of a client keeps it.
LEMMA FinC_FinalizeFin ==
    ASSUME SessionInv, FinInv, NEW p \in Clients, FinalizeFin(p)
    PROVE  FinInv'
  <1>0. p \in Procs /\ Server \in Procs /\ StepOf(p)
    BY Step_FinalizeFin DEF SessionInv, Procs
  <1>1. conn_request' = conn_request
    BY DEF FinalizeFin, FreeIov, InFin
  <1>2. \A c \in Clients \ {p} : net'[Server][c] = net[Server][c] /\ unexp'[c] = unexp[c]
    BY <1>0, NamesAssumption DEF SessionInv, Typed, TypeOK, Procs, FinalizeFin, FreeIov,
       InFin
  <1>3. FinKept(p)
    BY <1>0, NamesAssumption DEF SessionInv, Typed, TypeOK, Procs, CountInv,
       FinWaitReceives,
       PhaseInv, RequestPhase, FinKept, FinTaken,
       FinalizeFin, FreeIov, InFin
  <1> QED
    BY <1>0, <1>1, <1>2, <1>3, ClientFin

\* SendCb of a client keeps it.
LEMMA FinC_SendCb ==
    ASSUME SessionInv, FinInv, NEW p \in Clients, SendCb(p)
    PROVE  FinInv'
  <1>0. p \in Procs /\ Server \in Procs /\ StepOf(p)
    BY Step_SendCb DEF SessionInv, Procs
  <1>1. conn_request' = conn_request
    BY DEF SendCb
  <1>2. \A c \in Clients \ {p} : net'[Server][c] = net[Server][c] /\ unexp'[c] = unexp[c]
    BY <1>0, NamesAssumption DEF SessionInv, Typed, TypeOK, Procs, SendCb
  <1>3. FinKept(p)
    BY <1>0, NamesAssumption DEF SessionInv, Typed, TypeOK, Procs, CountInv,
       FinWaitReceives,
       PhaseInv, RequestPhase, FinKept, FinTaken,
       SendCb
  <1> QED
    BY <1>0, <1>1, <1>2, <1>3, ClientFin

\* FetchCb of a client keeps it.
LEMMA FinC_FetchCb ==
    ASSUME SessionInv, FinInv, NEW p \in Clients, FetchCb(p)
    PROVE  FinInv'
  <1>0. p \in Procs /\ Server \in Procs /\ StepOf(p)
    BY Step_FetchCb DEF SessionInv, Procs
  <1>1. conn_request' = conn_request
    BY DEF FetchCb
  <1>2. \A c \in Clients \ {p} : net'[Server][c] = net[Server][c] /\ unexp'[c] = unexp[c]
    BY <1>0, NamesAssumption DEF SessionInv, Typed, TypeOK, Procs, FetchCb
  <1>3. FinKept(p)
    BY <1>0, NamesAssumption, ConfirmEffect DEF SessionInv, Typed, TypeOK, Procs, CountInv,
       FinWaitReceives,
       PhaseInv, RequestPhase, FinKept, FinTaken,
       FetchCb
  <1> QED
    BY <1>0, <1>1, <1>2, <1>3, ClientFin

\* RecvCb of a client keeps it.
LEMMA FinC_RecvCb ==
    ASSUME SessionInv, FinInv, NEW p \in Clients, RecvCb(p)
    PROVE  FinInv'
  <1>0. p \in Procs /\ Server \in Procs /\ StepOf(p)
    BY Step_RecvCb DEF SessionInv, Procs
  <1>1. conn_request' = conn_request
    BY DEF RecvCb
  <1>2. \A c \in Clients \ {p} : net'[Server][c] = net[Server][c] /\ unexp'[c] = unexp[c]
    BY <1>0, NamesAssumption DEF SessionInv, Typed, TypeOK, Procs, RecvCb, Peer, In
  <1>3. FinComes(p)
    BY <1>0, NamesAssumption DEF SessionInv, Typed, TypeOK, Procs, FinComes, Peer, In,
       RecvCb
  <1> QED
    BY <1>0, <1>1, <1>2, <1>3, ClientFin

\* AmDropped of a client keeps it.
LEMMA FinC_AmDropped ==
    ASSUME SessionInv, FinInv, NEW p \in Clients, AmDropped(p)
    PROVE  FinInv'
  <1>0. p \in Procs /\ Server \in Procs /\ StepOf(p)
    BY Step_AmDropped DEF SessionInv, Procs
  <1>1. conn_request' = conn_request
    BY DEF AmDropped
  <1>2. \A c \in Clients \ {p} : net'[Server][c] = net[Server][c] /\ unexp'[c] = unexp[c]
    BY <1>0, NamesAssumption DEF SessionInv, Typed, TypeOK, Procs, AmDropped, Peer, In
  <1>3. FinComes(p)
    BY <1>0, NamesAssumption DEF SessionInv, Typed, TypeOK, Procs, FinComes, Peer, In,
       AmDropped
  <1> QED
    BY <1>0, <1>1, <1>2, <1>3, ClientFin

\* ucp_am_data_cb of a client keeps it.
LEMMA FinC_ucp_am_data_cb ==
    ASSUME SessionInv, FinInv, NEW p \in Clients, ucp_am_data_cb(p)
    PROVE  FinInv'
  <1>0. p \in Procs /\ Server \in Procs /\ StepOf(p)
    BY Step_ucp_am_data_cb DEF SessionInv, Procs
  <1>1. conn_request' = conn_request
    BY DEF ucp_am_data_cb, AmDispatched
  <1>2. \A c \in Clients \ {p} : net'[Server][c] = net[Server][c] /\ unexp'[c] = unexp[c]
    BY <1>0, NamesAssumption DEF SessionInv, Typed, TypeOK, Procs, ucp_am_data_cb,
       AmDispatched, Peer, In
  <1>3. FinComes(p)
    BY <1>0, NamesAssumption DEF SessionInv, Typed, TypeOK, Procs, FinComes, Peer, In,
       ucp_am_data_cb, AmDispatched
  <1> QED
    BY <1>0, <1>1, <1>2, <1>3, ClientFin

\* err_cb of a client keeps it.
LEMMA FinC_err_cb ==
    ASSUME SessionInv, FinInv, NEW p \in Clients, err_cb(p)
    PROVE  FinInv'
  <1>0. p \in Procs /\ Server \in Procs /\ StepOf(p)
    BY Step_err_cb DEF SessionInv, Procs
  <1>1. conn_request' = conn_request
    BY DEF err_cb, Peer, FailedReq
  <1>2. \A c \in Clients \ {p} : net'[Server][c] = net[Server][c] /\ unexp'[c] = unexp[c]
    BY <1>0, NamesAssumption DEF SessionInv, Typed, TypeOK, Procs, err_cb, Peer, FailedReq
  <1>3. FinKept(p)
    BY <1>0, NamesAssumption DEF SessionInv, Typed, TypeOK, Procs, CountInv,
       FinWaitReceives,
       PhaseInv, RequestPhase, FinKept, FinTaken,
       err_cb, Peer, FailedReq
  <1> QED
    BY <1>0, <1>1, <1>2, <1>3, ClientFin

\* Progress of a client keeps it.
LEMMA FinC_Progress ==
    ASSUME SessionInv, FinInv, NEW p \in Clients, Progress(p)
    PROVE  FinInv'
  <1>0. p \in Procs /\ Server \in Procs /\ StepOf(p)
    BY Step_Progress DEF SessionInv, Procs
  <1>1. conn_request' = conn_request
    BY DEF Progress
  <1>2. \A c \in Clients \ {p} : net'[Server][c] = net[Server][c] /\ unexp'[c] = unexp[c]
    BY <1>0, NamesAssumption DEF SessionInv, Typed, TypeOK, Procs, Progress
  <1>3. FinKept(p)
    BY <1>0, NamesAssumption DEF SessionInv, Typed, TypeOK, Procs, CountInv,
       FinWaitReceives,
       PhaseInv, RequestPhase, FinKept, FinTaken,
       Progress
  <1> QED
    BY <1>0, <1>1, <1>2, <1>3, ClientFin

\* The death of a client keeps it.
LEMMA FinC_Die ==
    ASSUME SessionInv, FinInv, NEW p \in Clients, Die(p)
    PROVE  FinInv'
  <1>0. p \in Procs /\ Server \in Procs /\ StepOf(p)
    BY Step_Die DEF SessionInv, Procs
  <1>1. conn_request' = conn_request
    BY DEF Die
  <1>2. \A c \in Clients \ {p} : net'[Server][c] = net[Server][c] /\ unexp'[c] = unexp[c]
    BY <1>0, NamesAssumption DEF SessionInv, Typed, TypeOK, Procs, Die
  <1>3. FinKept(p)
    BY <1>0, NamesAssumption DEF SessionInv, Typed, TypeOK, Procs, CountInv,
       FinWaitReceives,
       PhaseInv, RequestPhase, FinKept, FinTaken,
       Die
  <1> QED
    BY <1>0, <1>1, <1>2, <1>3, ClientFin

\* StartClient of a client keeps it.
LEMMA FinC_StartClient ==
    ASSUME SessionInv, FinInv, NEW p \in Clients, StartClient(p)
    PROVE  FinInv'
  <1>0. p \in Procs /\ Server \in Procs /\ StepOf(p)
    BY Step_StartClient DEF SessionInv, Procs
  <1>1. conn_request' = conn_request
    BY DEF StartClient, AfterIter
  <1>2. \A c \in Clients \ {p} : net'[Server][c] = net[Server][c] /\ unexp'[c] = unexp[c]
    BY <1>0, NamesAssumption DEF SessionInv, Typed, TypeOK, Procs, StartClient, AfterIter
  <1>3. FinKept(p)
    BY <1>0, NamesAssumption DEF SessionInv, Typed, TypeOK, Procs, CountInv,
       FinWaitReceives,
       PhaseInv, RequestPhase, FinKept, FinTaken,
       StartClient, AfterIter
  <1> QED
    BY <1>0, <1>1, <1>2, <1>3, ClientFin

\* StartClientFails of a client keeps it.
LEMMA FinC_StartClientFails ==
    ASSUME SessionInv, FinInv, NEW p \in Clients, StartClientFails(p)
    PROVE  FinInv'
  <1>0. p \in Procs /\ Server \in Procs /\ StepOf(p)
    BY Step_StartClientFails DEF SessionInv, Procs
  <1>1. conn_request' = conn_request
    BY DEF StartClientFails
  <1>2. \A c \in Clients \ {p} : net'[Server][c] = net[Server][c] /\ unexp'[c] = unexp[c]
    BY <1>0, NamesAssumption DEF SessionInv, Typed, TypeOK, Procs, StartClientFails
  <1>3. FinKept(p)
    BY <1>0, NamesAssumption DEF SessionInv, Typed, TypeOK, Procs, CountInv,
       FinWaitReceives,
       PhaseInv, RequestPhase, FinKept, FinTaken,
       StartClientFails
  <1> QED
    BY <1>0, <1>1, <1>2, <1>3, ClientFin

\* RegisterFinHandler of a client keeps it.
LEMMA FinC_RegisterFinHandler ==
    ASSUME SessionInv, FinInv, NEW p \in Clients, RegisterFinHandler(p)
    PROVE  FinInv'
  <1>0. p \in Procs /\ Server \in Procs /\ StepOf(p)
    BY Step_RegisterFinHandler DEF SessionInv, Procs
  <1>1. conn_request' = conn_request
    BY DEF RegisterFinHandler
  <1>2. \A c \in Clients \ {p} : net'[Server][c] = net[Server][c] /\ unexp'[c] = unexp[c]
    BY <1>0, NamesAssumption DEF SessionInv, Typed, TypeOK, Procs, RegisterFinHandler
  <1>3. FinKept(p)
    BY <1>0, NamesAssumption DEF SessionInv, Typed, TypeOK, Procs, CountInv,
       FinWaitReceives,
       PhaseInv, RequestPhase, FinKept, FinTaken,
       RegisterFinHandler
  <1> QED
    BY <1>0, <1>1, <1>2, <1>3, ClientFin

\* CloseClient of a client keeps it.
LEMMA FinC_CloseClient ==
    ASSUME SessionInv, FinInv, NEW p \in Clients, CloseClient(p)
    PROVE  FinInv'
  <1>0. p \in Procs /\ Server \in Procs /\ StepOf(p)
    BY Step_CloseClient DEF SessionInv, Procs
  <1>1. conn_request' = conn_request
    BY DEF CloseClient
  <1>2. \A c \in Clients \ {p} : net'[Server][c] = net[Server][c] /\ unexp'[c] = unexp[c]
    BY <1>0, NamesAssumption DEF SessionInv, Typed, TypeOK, Procs, CloseClient
  <1>3. FinKept(p)
    BY <1>0, NamesAssumption DEF SessionInv, Typed, TypeOK, Procs, CountInv,
       FinWaitReceives,
       PhaseInv, RequestPhase, FinKept, FinTaken,
       CloseClient
  <1> QED
    BY <1>0, <1>1, <1>2, <1>3, ClientFin

\* AllocFails of the server keeps it.
LEMMA FinS_AllocFails ==
    ASSUME SessionInv, FinInv, AllocFails(Server)
    PROVE  FinInv'
  <1>0. Server \in Procs /\ StepOf(Server)
    BY Step_AllocFails DEF SessionInv, Procs
  <1>1. \A c \in Clients : unexp'[c] = unexp[c]
    BY <1>0, NamesAssumption DEF SessionInv, Typed, TypeOK, Procs, AllocFails
  <1>2. \A c \in Clients : net'[Server][c] = net[Server][c]
    BY <1>0, NamesAssumption DEF SessionInv, Typed, TypeOK, SessionHasClient, SessionPcs,
       Procs,
       InDataLoop, DataLoops, AllocFails
  <1>3. pc'[Server] # "comm"
    BY <1>0 DEF SessionInv, Typed, TypeOK, AllocFails
  <1> QED
    BY <1>0, <1>1, <1>2, <1>3, ServerFin

\* Recv of the server keeps it.
LEMMA FinS_Recv ==
    ASSUME SessionInv, FinInv, Recv(Server)
    PROVE  FinInv'
  <1>0. Server \in Procs /\ StepOf(Server)
    BY Step_Recv DEF SessionInv, Procs
  <1>1. \A c \in Clients : unexp'[c] = unexp[c]
    BY <1>0, NamesAssumption DEF SessionInv, Typed, TypeOK, Procs, Recv
  <1>2. \A c \in Clients : net'[Server][c] = net[Server][c]
    BY <1>0, NamesAssumption DEF SessionInv, Typed, TypeOK, SessionHasClient, SessionPcs,
       Procs,
       InDataLoop, DataLoops, Recv
  <1>3. pc'[Server] # "comm"
    BY <1>0 DEF SessionInv, Typed, TypeOK, Recv
  <1> QED
    BY <1>0, <1>1, <1>2, <1>3, ServerFin

\* AmRecv of the server keeps it.
LEMMA FinS_AmRecv ==
    ASSUME SessionInv, FinInv, AmRecv(Server)
    PROVE  FinInv'
  <1>0. Server \in Procs /\ StepOf(Server)
    BY Step_AmRecv DEF SessionInv, Procs
  <1>1. \A c \in Clients : unexp'[c] = unexp[c]
    BY <1>0, NamesAssumption DEF SessionInv, Typed, TypeOK, Procs, AmRecv
  <1>2. \A c \in Clients : net'[Server][c] = net[Server][c]
    BY <1>0, NamesAssumption DEF SessionInv, Typed, TypeOK, SessionHasClient, SessionPcs,
       Procs,
       InDataLoop, DataLoops, AmRecv
  <1>3. pc'[Server] # "comm"
    BY <1>0 DEF SessionInv, Typed, TypeOK, AmRecv
  <1> QED
    BY <1>0, <1>1, <1>2, <1>3, ServerFin

\* AmArrived of the server keeps it.
LEMMA FinS_AmArrived ==
    ASSUME SessionInv, FinInv, AmArrived(Server)
    PROVE  FinInv'
  <1>0. Server \in Procs /\ StepOf(Server)
    BY Step_AmArrived DEF SessionInv, Procs
  <1>1. \A c \in Clients : unexp'[c] = unexp[c]
    BY <1>0, NamesAssumption DEF SessionInv, Typed, TypeOK, Procs, AmArrived
  <1>2. \A c \in Clients : net'[Server][c] = net[Server][c]
    BY <1>0, NamesAssumption DEF SessionInv, Typed, TypeOK, SessionHasClient, SessionPcs,
       Procs,
       InDataLoop, DataLoops, AmArrived
  <1>3. pc'[Server] # "comm"
    BY <1>0 DEF SessionInv, Typed, TypeOK, AmArrived
  <1> QED
    BY <1>0, <1>1, <1>2, <1>3, ServerFin

\* FinalizeError of the server keeps it.
LEMMA FinS_FinalizeError ==
    ASSUME SessionInv, FinInv, FinalizeError(Server)
    PROVE  FinInv'
  <1>0. Server \in Procs /\ StepOf(Server)
    BY Step_FinalizeError DEF SessionInv, Procs
  <1>1. \A c \in Clients : unexp'[c] = unexp[c]
    BY <1>0, NamesAssumption DEF SessionInv, Typed, TypeOK, Procs, FinalizeError
  <1>2. \A c \in Clients : net'[Server][c] = net[Server][c]
    BY <1>0, NamesAssumption DEF SessionInv, Typed, TypeOK, SessionHasClient, SessionPcs,
       Procs,
       InDataLoop, DataLoops, FinalizeError
  <1>3. pc'[Server] # "comm"
    BY <1>0 DEF SessionInv, Typed, TypeOK, FinalizeError
  <1> QED
    BY <1>0, <1>1, <1>2, <1>3, ServerFin

\* FinalizeData of the server keeps it.
LEMMA FinS_FinalizeData ==
    ASSUME SessionInv, FinInv, FinalizeData(Server)
    PROVE  FinInv'
  <1>0. Server \in Procs /\ StepOf(Server)
    BY Step_FinalizeData DEF SessionInv, Procs
  <1>1. \A c \in Clients : unexp'[c] = unexp[c]
    BY <1>0, NamesAssumption DEF SessionInv, Typed, TypeOK, Procs, FinalizeData
  <1>2. \A c \in Clients : net'[Server][c] = net[Server][c]
    BY <1>0, NamesAssumption DEF SessionInv, Typed, TypeOK, SessionHasClient, SessionPcs,
       Procs,
       InDataLoop, DataLoops, FinalizeData
  <1>3. ASSUME pc'[Server] = "comm", iter'[Server] = opt'.n
        PROVE  conn_request' \in Clients /\ ~FinUnderWay(conn_request')
    <2>1. conn_request' = conn_request /\ conn_request \in Clients
      BY DEF SessionInv, Typed, SessionHasClient, SessionPcs, FinalizeData
    <2>2. Len(rcvd[conn_request]) = iter[Server] /\ iter[Server] # opt.n
      BY DEF SessionInv, CountInv, SessionCount, FinalizeData, InFin
    <2> QED
      BY <2>1, <2>2 DEF SessionInv, CountInv, FinMeansComplete
  <1> QED
    BY <1>0, <1>1, <1>2, <1>3, ServerFin

\* FinalizeFin of the server keeps it.
LEMMA FinS_FinalizeFin ==
    ASSUME SessionInv, FinInv, FinalizeFin(Server)
    PROVE  FinInv'
  <1>0. Server \in Procs /\ StepOf(Server)
    BY Step_FinalizeFin DEF SessionInv, Procs
  <1>1. \A c \in Clients : unexp'[c] = unexp[c]
    BY <1>0, NamesAssumption DEF SessionInv, Typed, TypeOK, Procs, FinalizeFin
  <1>2. \A c \in Clients : net'[Server][c] = net[Server][c]
    BY <1>0, NamesAssumption DEF SessionInv, Typed, TypeOK, SessionHasClient, SessionPcs,
       Procs,
       InDataLoop, DataLoops, FinalizeFin
  <1>3. pc'[Server] # "comm"
    BY <1>0 DEF SessionInv, Typed, TypeOK, FinalizeFin
  <1> QED
    BY <1>0, <1>1, <1>2, <1>3, ServerFin

\* SendCb of the server keeps it.
LEMMA FinS_SendCb ==
    ASSUME SessionInv, FinInv, SendCb(Server)
    PROVE  FinInv'
  <1>0. Server \in Procs /\ StepOf(Server)
    BY Step_SendCb DEF SessionInv, Procs
  <1>1. \A c \in Clients : unexp'[c] = unexp[c]
    BY <1>0, NamesAssumption DEF SessionInv, Typed, TypeOK, Procs, SendCb
  <1>2. \A c \in Clients : net'[Server][c] = net[Server][c]
    BY <1>0, NamesAssumption DEF SessionInv, Typed, TypeOK, SessionHasClient, SessionPcs,
       Procs,
       InDataLoop, DataLoops, SendCb
  <1>3. ASSUME pc'[Server] = "comm", iter'[Server] = opt'.n
        PROVE  conn_request' \in Clients /\ ~FinUnderWay(conn_request')
    BY <1>3 DEF SessionInv, Typed, SessionHasClient, SessionPcs, FinInv, SendCb
  <1> QED
    BY <1>0, <1>1, <1>2, <1>3, ServerFin

\* FetchCb of the server keeps it.
LEMMA FinS_FetchCb ==
    ASSUME SessionInv, FinInv, FetchCb(Server)
    PROVE  FinInv'
  <1>0. Server \in Procs /\ StepOf(Server)
    BY Step_FetchCb DEF SessionInv, Procs
  <1>1. \A c \in Clients : unexp'[c] = unexp[c]
    BY <1>0, NamesAssumption DEF SessionInv, Typed, TypeOK, Procs, FetchCb
  <1>2. \A c \in Clients : net'[Server][c] = net[Server][c]
    BY <1>0, NamesAssumption DEF SessionInv, Typed, TypeOK, SessionHasClient, SessionPcs,
       Procs,
       InDataLoop, DataLoops, FetchCb
  <1>3. ASSUME pc'[Server] = "comm", iter'[Server] = opt'.n
        PROVE  conn_request' \in Clients /\ ~FinUnderWay(conn_request')
    BY <1>3 DEF SessionInv, Typed, SessionHasClient, SessionPcs, FinInv, FetchCb
  <1> QED
    BY <1>0, <1>1, <1>2, <1>3, ServerFin

\* RecvCb of the server keeps it.
LEMMA FinS_RecvCb ==
    ASSUME SessionInv, FinInv, RecvCb(Server)
    PROVE  FinInv'
  <1>0. Server \in Procs /\ StepOf(Server)
    BY Step_RecvCb DEF SessionInv, Procs
  <1>1. \A c \in Clients : unexp'[c] = unexp[c]
    BY <1>0, NamesAssumption DEF SessionInv, Typed, TypeOK, Procs, RecvCb, Peer
  <1>2. \A c \in Clients : net'[Server][c] = net[Server][c]
    BY <1>0, NamesAssumption DEF SessionInv, Typed, TypeOK, SessionHasClient, SessionPcs,
       Procs,
       InDataLoop, DataLoops, RecvCb, Peer
  <1>3. ASSUME pc'[Server] = "comm", iter'[Server] = opt'.n
        PROVE  conn_request' \in Clients /\ ~FinUnderWay(conn_request')
    BY <1>3 DEF SessionInv, Typed, SessionHasClient, SessionPcs, FinInv, RecvCb, Peer
  <1> QED
    BY <1>0, <1>1, <1>2, <1>3, ServerFin

\* AmDropped of the server keeps it.
LEMMA FinS_AmDropped ==
    ASSUME SessionInv, FinInv, AmDropped(Server)
    PROVE  FinInv'
  <1>0. Server \in Procs /\ StepOf(Server)
    BY Step_AmDropped DEF SessionInv, Procs
  <1>1. \A c \in Clients : unexp'[c] = unexp[c]
    BY <1>0, NamesAssumption DEF SessionInv, Typed, TypeOK, Procs, AmDropped, Peer
  <1>2. \A c \in Clients : net'[Server][c] = net[Server][c]
    BY <1>0, NamesAssumption DEF SessionInv, Typed, TypeOK, SessionHasClient, SessionPcs,
       Procs,
       InDataLoop, DataLoops, AmDropped, Peer
  <1>3. ASSUME pc'[Server] = "comm", iter'[Server] = opt'.n
        PROVE  conn_request' \in Clients /\ ~FinUnderWay(conn_request')
    BY <1>3 DEF SessionInv, Typed, SessionHasClient, SessionPcs, FinInv, AmDropped, Peer
  <1> QED
    BY <1>0, <1>1, <1>2, <1>3, ServerFin

\* ucp_am_data_cb of the server keeps it.
LEMMA FinS_ucp_am_data_cb ==
    ASSUME SessionInv, FinInv, ucp_am_data_cb(Server)
    PROVE  FinInv'
  <1>0. Server \in Procs /\ StepOf(Server)
    BY Step_ucp_am_data_cb DEF SessionInv, Procs
  <1>1. \A c \in Clients : unexp'[c] = unexp[c]
    BY <1>0, NamesAssumption DEF SessionInv, Typed, TypeOK, Procs, ucp_am_data_cb,
       AmDispatched, Peer
  <1>2. \A c \in Clients : net'[Server][c] = net[Server][c]
    BY <1>0, NamesAssumption DEF SessionInv, Typed, TypeOK, SessionHasClient, SessionPcs,
       Procs,
       InDataLoop, DataLoops, ucp_am_data_cb, AmDispatched, Peer
  <1>3. ASSUME pc'[Server] = "comm", iter'[Server] = opt'.n
        PROVE  conn_request' \in Clients /\ ~FinUnderWay(conn_request')
    BY <1>3 DEF SessionInv, Typed, SessionHasClient, SessionPcs, FinInv, ucp_am_data_cb,
       AmDispatched, Peer
  <1> QED
    BY <1>0, <1>1, <1>2, <1>3, ServerFin

\* err_cb of the server keeps it.
LEMMA FinS_err_cb ==
    ASSUME SessionInv, FinInv, err_cb(Server)
    PROVE  FinInv'
  <1>0. Server \in Procs /\ StepOf(Server)
    BY Step_err_cb DEF SessionInv, Procs
  <1>1. \A c \in Clients : unexp'[c] = unexp[c]
    BY <1>0, NamesAssumption DEF SessionInv, Typed, TypeOK, Procs, err_cb, Peer
  <1>2. \A c \in Clients : net'[Server][c] = net[Server][c]
    BY <1>0, NamesAssumption DEF SessionInv, Typed, TypeOK, SessionHasClient, SessionPcs,
       Procs,
       InDataLoop, DataLoops, err_cb, Peer
  <1>3. ASSUME pc'[Server] = "comm", iter'[Server] = opt'.n
        PROVE  conn_request' \in Clients /\ ~FinUnderWay(conn_request')
    BY <1>3 DEF SessionInv, Typed, SessionHasClient, SessionPcs, FinInv, err_cb, Peer
  <1> QED
    BY <1>0, <1>1, <1>2, <1>3, ServerFin

\* Progress of the server keeps it.
LEMMA FinS_Progress ==
    ASSUME SessionInv, FinInv, Progress(Server)
    PROVE  FinInv'
  <1>0. Server \in Procs /\ StepOf(Server)
    BY Step_Progress DEF SessionInv, Procs
  <1>1. \A c \in Clients : unexp'[c] = unexp[c]
    BY <1>0, NamesAssumption DEF SessionInv, Typed, TypeOK, Procs, Progress
  <1>2. \A c \in Clients : net'[Server][c] = net[Server][c]
    BY <1>0, NamesAssumption DEF SessionInv, Typed, TypeOK, SessionHasClient, SessionPcs,
       Procs,
       InDataLoop, DataLoops, Progress
  <1>3. ASSUME pc'[Server] = "comm", iter'[Server] = opt'.n
        PROVE  conn_request' \in Clients /\ ~FinUnderWay(conn_request')
    BY <1>3 DEF SessionInv, Typed, SessionHasClient, SessionPcs, FinInv, Progress
  <1> QED
    BY <1>0, <1>1, <1>2, <1>3, ServerFin

\* The death of the server keeps it.
LEMMA FinS_Die ==
    ASSUME SessionInv, FinInv, Die(Server)
    PROVE  FinInv'
  <1>0. Server \in Procs /\ StepOf(Server)
    BY Step_Die DEF SessionInv, Procs
  <1>1. \A c \in Clients : unexp'[c] = unexp[c]
    BY <1>0, NamesAssumption DEF SessionInv, Typed, TypeOK, Procs, Die
  <1>2. \A c \in Clients : net'[Server][c] = net[Server][c]
    BY <1>0, NamesAssumption DEF SessionInv, Typed, TypeOK, SessionHasClient, SessionPcs,
       Procs,
       InDataLoop, DataLoops, Die
  <1>3. pc'[Server] # "comm"
    BY <1>0 DEF SessionInv, Typed, TypeOK, Die
  <1> QED
    BY <1>0, <1>1, <1>2, <1>3, ServerFin

\* StartServer keeps it.
LEMMA FinS_StartServer ==
    ASSUME SessionInv, FinInv, StartServer
    PROVE  FinInv'
  <1>0. Server \in Procs /\ StepOf(Server)
    BY Step_StartServer DEF SessionInv, Procs
  <1>1. \A c \in Clients : unexp'[c] = unexp[c]
    BY <1>0, NamesAssumption DEF SessionInv, Typed, TypeOK, Procs, StartServer
  <1>2. \A c \in Clients : net'[Server][c] = net[Server][c]
    BY <1>0, NamesAssumption DEF SessionInv, Typed, TypeOK, SessionHasClient, SessionPcs,
       Procs,
       InDataLoop, DataLoops, StartServer
  <1>3. pc'[Server] # "comm"
    BY <1>0 DEF SessionInv, Typed, TypeOK, StartServer
  <1> QED
    BY <1>0, <1>1, <1>2, <1>3, ServerFin

\* ServerSetupFails keeps it.
LEMMA FinS_ServerSetupFails ==
    ASSUME SessionInv, FinInv, ServerSetupFails
    PROVE  FinInv'
  <1>0. Server \in Procs /\ StepOf(Server)
    BY Step_ServerSetupFails DEF SessionInv, Procs
  <1>1. \A c \in Clients : unexp'[c] = unexp[c]
    BY <1>0, NamesAssumption DEF SessionInv, Typed, TypeOK, Procs, ServerSetupFails
  <1>2. \A c \in Clients : net'[Server][c] = net[Server][c]
    BY <1>0, NamesAssumption DEF SessionInv, Typed, TypeOK, SessionHasClient, SessionPcs,
       Procs,
       InDataLoop, DataLoops, ServerSetupFails
  <1>3. pc'[Server] # "comm"
    BY <1>0 DEF SessionInv, Typed, TypeOK, ServerSetupFails
  <1> QED
    BY <1>0, <1>1, <1>2, <1>3, ServerFin

\* CreateEp keeps it.
LEMMA FinS_CreateEp ==
    ASSUME SessionInv, FinInv, CreateEp
    PROVE  FinInv'
  <1>0. Server \in Procs /\ StepOf(Server)
    BY Step_CreateEp DEF SessionInv, Procs
  <1>1. \A c \in Clients : unexp'[c] = unexp[c]
    BY <1>0, NamesAssumption DEF SessionInv, Typed, TypeOK, Procs, CreateEp
  <1>2. \A c \in Clients : net'[Server][c] = net[Server][c]
    BY <1>0, NamesAssumption DEF SessionInv, Typed, TypeOK, SessionHasClient, SessionPcs,
       Procs,
       InDataLoop, DataLoops, CreateEp
  <1>3. conn_request' \in Clients /\ ~FinUnderWay(conn_request')
    <2>1. conn_request' = conn_request /\ conn_request \in Clients
      BY DEF SessionInv, Typed, TypeOK, CreateEp, LoopDone
    <2>2. ep[Server][conn_request] = "none"
      BY <2>1 DEF SessionInv, EndpointInv, WaitingNoEp, CreateEp
    <2> QED
      BY <2>1, <2>2 DEF SessionInv, EndpointInv, FinServed, Served
  <1> QED
    BY <1>0, <1>1, <1>2, <1>3, ServerFin

\* Drained keeps it.
LEMMA FinS_Drained ==
    ASSUME SessionInv, FinInv, Drained
    PROVE  FinInv'
  <1>0. Server \in Procs /\ StepOf(Server)
    BY Step_Drained DEF SessionInv, Procs
  <1>1. \A c \in Clients : unexp'[c] = unexp[c]
    BY <1>0, NamesAssumption DEF SessionInv, Typed, TypeOK, Procs, Drained
  <1>2. \A c \in Clients : net'[Server][c] = net[Server][c]
    BY <1>0, NamesAssumption DEF SessionInv, Typed, TypeOK, SessionHasClient, SessionPcs,
       Procs,
       InDataLoop, DataLoops, Drained
  <1>3. pc'[Server] # "comm"
    BY <1>0 DEF SessionInv, Typed, TypeOK, Drained
  <1> QED
    BY <1>0, <1>1, <1>2, <1>3, ServerFin

\* NextClient keeps it.
LEMMA FinS_NextClient ==
    ASSUME SessionInv, FinInv, NextClient
    PROVE  FinInv'
  <1>0. Server \in Procs /\ StepOf(Server)
    BY Step_NextClient DEF SessionInv, Procs
  <1>1. \A c \in Clients : unexp'[c] = unexp[c]
    BY <1>0, NamesAssumption DEF SessionInv, Typed, TypeOK, Procs, NextClient, CloseServerEp
  <1>2. \A c \in Clients : net'[Server][c] = net[Server][c]
    BY <1>0, NamesAssumption DEF SessionInv, Typed, TypeOK, SessionHasClient, SessionPcs,
       Procs,
       InDataLoop, DataLoops, NextClient, CloseServerEp
  <1>3. pc'[Server] # "comm"
    BY <1>0 DEF SessionInv, Typed, TypeOK, NextClient, CloseServerEp
  <1> QED
    BY <1>0, <1>1, <1>2, <1>3, ServerFin

\* ServerExit keeps it.
LEMMA FinS_ServerExit ==
    ASSUME SessionInv, FinInv, ServerExit
    PROVE  FinInv'
  <1>0. Server \in Procs /\ StepOf(Server)
    BY Step_ServerExit DEF SessionInv, Procs
  <1>1. \A c \in Clients : unexp'[c] = unexp[c]
    BY <1>0, NamesAssumption DEF SessionInv, Typed, TypeOK, Procs, ServerExit, CloseServerEp
  <1>2. \A c \in Clients : net'[Server][c] = net[Server][c]
    BY <1>0, NamesAssumption DEF SessionInv, Typed, TypeOK, SessionHasClient, SessionPcs,
       Procs,
       InDataLoop, DataLoops, ServerExit, CloseServerEp
  <1>3. pc'[Server] # "comm"
    BY <1>0 DEF SessionInv, Typed, TypeOK, ServerExit, CloseServerEp
  <1> QED
    BY <1>0, <1>1, <1>2, <1>3, ServerFin

\* server_conn_handle_cb keeps it.
LEMMA FinS_server_conn_handle_cb ==
    ASSUME SessionInv, FinInv, NEW c0 \in Clients, server_conn_handle_cb(c0)
    PROVE  FinInv'
  <1>0. Server \in Procs /\ StepOf(Server)
    BY Step_server_conn_handle_cb DEF SessionInv, Procs
  <1>1. \A c \in Clients : unexp'[c] = unexp[c]
    BY <1>0, NamesAssumption DEF SessionInv, Typed, TypeOK, Procs, server_conn_handle_cb
  <1>2. \A c \in Clients : net'[Server][c] = net[Server][c]
    BY <1>0, NamesAssumption DEF SessionInv, Typed, TypeOK, SessionHasClient, SessionPcs,
       Procs,
       InDataLoop, DataLoops, server_conn_handle_cb
  <1>3. pc'[Server] # "comm"
    BY <1>0 DEF SessionInv, Typed, TypeOK, server_conn_handle_cb
  <1> QED
    BY <1>0, <1>1, <1>2, <1>3, ServerFin

\* The server sends the FIN when none is under way.
LEMMA FinS_Send ==
    ASSUME SessionInv, FinInv, Send(Server)
    PROVE  FinInv'
  <1>0. Server \in Procs /\ StepOf(Server)
    BY Step_Send DEF SessionInv, Procs
  <1>1. opt' = opt /\ \A c \in Clients : SameLocal(c)
    BY <1>0, NamesAssumption DEF StepOf, Procs
  <1>2. conn_request \in Clients /\ conn_request' = conn_request /\ pc'[Server] = "wait"
    BY <1>0 DEF SessionInv, Typed, TypeOK, SessionHasClient, SessionPcs, Send
  <1>3. ~FinUnderWay(conn_request)
    BY DEF FinInv, Send, Receiver, InFin
  <1>4. net[Server][conn_request] = <<>> /\ ~FinTaken(conn_request)
    BY <1>3 DEF FinUnderWay, FinTaken
  <1>5. \A c \in Clients : FinTaken(c)' <=> FinTaken(c)
    BY <1>1 DEF FinTaken, SameLocal, Send
  <1>6. \A c \in Clients \ {conn_request} : net'[Server][c] = net[Server][c]
    BY <1>0, <1>2 DEF SessionInv, Typed, TypeOK, Procs, Send, Peer
  <1>7. net'[Server][conn_request] # <<>> => Len(net'[Server][conn_request]) = 1
    <2>1. \/ net'[Server][conn_request] = net[Server][conn_request]
          \/ net'[Server][conn_request] = Append(net[Server][conn_request], CurrentMsg(Server))
      BY <1>0, <1>2 DEF SessionInv, Typed, TypeOK, Procs, Send, Peer
    <2>2. Append(<<>>, CurrentMsg(Server)) = <<CurrentMsg(Server)>>
      OBVIOUS
    <2>3. Len(<<CurrentMsg(Server)>>) = 1
      OBVIOUS
    <2> QED
      BY <1>4, <2>1, <2>2, <2>3
  <1>8. \A c \in Clients : net'[Server][c] # <<>> => Len(net'[Server][c]) = 1 /\ ~FinTaken(c)'
    BY <1>4, <1>5, <1>6, <1>7 DEF FinInv
  <1> QED
    BY <1>2, <1>8 DEF FinInv

\* Every step keeps it.
LEMMA FinNext ==
    ASSUME SessionInv, FinInv, [Next]_vars
    PROVE  FinInv'
  <1>1. ASSUME NEW p \in Procs, Communicate(p)
        PROVE  FinInv'
    <2>1. CASE p \in Clients
      BY <1>1, <2>1, FinC_AllocFails, FinC_Send, FinC_Recv, FinC_AmRecv, FinC_AmArrived,
         FinC_FinalizeError, FinC_FinalizeData, FinC_FinalizeFin DEF Communicate
    <2>2. CASE p = Server
      BY <1>1, <2>2, FinS_AllocFails, FinS_Send, FinS_Recv, FinS_AmRecv, FinS_AmArrived,
         FinS_FinalizeError, FinS_FinalizeData, FinS_FinalizeFin DEF Communicate
    <2> QED
      BY <2>1, <2>2 DEF Procs
  <1>2. ASSUME NEW p \in Procs, Die(p)
        PROVE  FinInv'
    BY <1>2, FinC_Die, FinS_Die DEF Procs
  <1>3. ASSUME NEW p \in Procs, Callback(p)
        PROVE  FinInv'
    <2>1. CASE p \in Clients
      BY <1>2, <1>3, <2>1, FinC_SendCb, FinC_FetchCb, FinC_RecvCb, FinC_AmDropped,
         FinC_ucp_am_data_cb, FinC_err_cb DEF Callback, AmCopyFaults
    <2>2. CASE p = Server
      BY <1>2, <1>3, <2>2, FinS_SendCb, FinS_FetchCb, FinS_RecvCb, FinS_AmDropped,
         FinS_ucp_am_data_cb, FinS_err_cb DEF Callback, AmCopyFaults
    <2> QED
      BY <2>1, <2>2 DEF Procs
  <1>4. CASE ServerStep
    BY <1>1, <1>3, <1>4, FinS_Progress, FinS_StartServer, FinS_ServerSetupFails,
       FinS_CreateEp, FinS_Drained, FinS_NextClient, FinS_ServerExit,
       FinS_server_conn_handle_cb DEF ServerStep, Procs
  <1>5. ASSUME NEW c \in Clients, ClientStep(c)
        PROVE  FinInv'
    BY <1>1, <1>3, <1>5, FinC_Progress, FinC_StartClient, FinC_StartClientFails,
       FinC_RegisterFinHandler, FinC_CloseClient DEF ClientStep, Procs
  <1>6. CASE UNCHANGED vars
    BY <1>6 DEF vars, FinInv, FinUnderWay, FinTaken
  <1> QED
    BY <1>2, <1>4, <1>5, <1>6 DEF Next, Idle, Crash

ClosingInv == SessionInv /\ CloseInv /\ FinInv

\* How each process came to ep_close, and that there is at most one FIN, hold in
\* every reachable state: what the callbacks that run inside ep_close can still
\* meet rests on it.
THEOREM Closing == Spec => []ClosingInv
  <1>1. Init => CloseInv /\ FinInv
    <2> SUFFICES ASSUME Init PROVE CloseInv /\ FinInv
      OBVIOUS
    <2>1. CloseInv
      BY NamesAssumption DEF Init, CloseInv, ClosedFor, Procs
    <2>2. FinInv
      BY NamesAssumption DEF Init, FinInv, Procs
    <2> QED
      BY <2>1, <2>2
  <1>2. SessionInv /\ SessionInv' /\ CloseInv /\ FinInv /\ [Next]_vars
        => CloseInv' /\ FinInv'
    BY CloseNext, FinNext
  <1> QED
    BY <1>1, <1>2, Sessions, PTL DEF Spec, ClosingInv

--------------------------------------------------------------------------------
(***************************************************************************)
(* The refinement.  CreateEp begins an abstract session, FinalizeData of   *)
(* the server delivers, NextClient ends it; a client's verdict comes from  *)
(* FinalizeFin or from one of its failures; the server stops in            *)
(* ServerExit, ServerSetupFails or a crash.  Every other step stutters.    *)
(***************************************************************************)
AbstractStep == Abstract!ANext \/ UNCHANGED Abstract!avars

\* The abstract variables.
LEMMA Stutters ==
    ASSUME opt' = opt, ServerGone' <=> ServerGone, Serving' = Serving, Served' = Served,
           Delivered' = Delivered, Verdict' = Verdict
    PROVE  AbstractStep
  BY DEF AbstractStep, Abstract!avars

\* What AllocFails is to the abstract transfer.
LEMMA Maps_AllocFails ==
    ASSUME SessionInv, SessionInv', NEW p \in Procs, AllocFails(p)
    PROVE  AbstractStep
  <1> USE NamesAssumption DEF SessionInv, Typed, TypeOK, SessionHasClient, Procs, SessionPcs,
     AllocFails
  <1>1. CASE p = Server
    <2>1. opt' = opt /\ (ServerGone' <=> ServerGone) /\ Serving' = Serving
      BY <1>1 DEF ServerGone, Serving
    <2>2. Served' = Served /\ Delivered' = Delivered /\ Verdict' = Verdict
      BY <1>1 DEF Served, Delivered, Verdict
    <2> QED
      BY <2>1, <2>2, Stutters
  <1>2. CASE p \in Clients
    <2>1. opt' = opt /\ (ServerGone' <=> ServerGone) /\ Serving' = Serving
      BY <1>2 DEF ServerGone, Serving
    <2>2. Served' = Served /\ Delivered' = Delivered
      BY DEF Served, Delivered
    <2>3. Verdict[p] = "none"
      BY <1>2 DEF PhaseInv, ClientPhase, Verdict
    <2>4. Verdict' = [Verdict EXCEPT ![p] = "err"]
      BY <1>2 DEF Verdict
    <2> QED
      BY <1>2, <2>1, <2>2, <2>3, <2>4 DEF AbstractStep, Abstract!ANext, Abstract!Fail
  <1> QED
    BY <1>1, <1>2

\* Send changes nothing the abstract transfer sees.
LEMMA Maps_Send ==
    ASSUME SessionInv, SessionInv', NEW p \in Procs, Send(p)
    PROVE  AbstractStep
  <1> USE NamesAssumption DEF SessionInv, Typed, TypeOK, SessionHasClient, Procs, SessionPcs,
     Send
  <1>1. opt' = opt /\ (ServerGone' <=> ServerGone)
    BY DEF ServerGone
  <1>2. Serving' = Serving
    BY DEF Serving
  <1>3. Served' = Served
    BY DEF Served
  <1>4. Delivered' = Delivered /\ Verdict' = Verdict
    BY DEF Delivered, Verdict
  <1> QED
    BY <1>1, <1>2, <1>3, <1>4, Stutters

\* Recv changes nothing the abstract transfer sees.
LEMMA Maps_Recv ==
    ASSUME SessionInv, SessionInv', NEW p \in Procs, Recv(p)
    PROVE  AbstractStep
  <1> USE NamesAssumption DEF SessionInv, Typed, TypeOK, SessionHasClient, Procs, SessionPcs,
     Recv
  <1>1. opt' = opt /\ (ServerGone' <=> ServerGone)
    BY DEF ServerGone
  <1>2. Serving' = Serving
    BY DEF Serving
  <1>3. Served' = Served
    BY DEF Served
  <1>4. Delivered' = Delivered /\ Verdict' = Verdict
    BY DEF Delivered, Verdict
  <1> QED
    BY <1>1, <1>2, <1>3, <1>4, Stutters

\* AmRecv changes nothing the abstract transfer sees.
LEMMA Maps_AmRecv ==
    ASSUME SessionInv, SessionInv', NEW p \in Procs, AmRecv(p)
    PROVE  AbstractStep
  <1> USE NamesAssumption DEF SessionInv, Typed, TypeOK, SessionHasClient, Procs, SessionPcs,
     AmRecv
  <1>1. opt' = opt /\ (ServerGone' <=> ServerGone)
    BY DEF ServerGone
  <1>2. Serving' = Serving
    BY DEF Serving
  <1>3. Served' = Served
    BY DEF Served
  <1>4. Delivered' = Delivered /\ Verdict' = Verdict
    BY DEF Delivered, Verdict
  <1> QED
    BY <1>1, <1>2, <1>3, <1>4, Stutters

\* AmArrived changes nothing the abstract transfer sees.
LEMMA Maps_AmArrived ==
    ASSUME SessionInv, SessionInv', NEW p \in Procs, AmArrived(p)
    PROVE  AbstractStep
  <1> USE NamesAssumption DEF SessionInv, Typed, TypeOK, SessionHasClient, Procs, SessionPcs,
     AmArrived, LoopDone
  <1>1. opt' = opt /\ (ServerGone' <=> ServerGone)
    BY DEF ServerGone
  <1>2. Serving' = Serving
    BY DEF Serving
  <1>3. Served' = Served
    BY DEF Served
  <1>4. Delivered' = Delivered /\ Verdict' = Verdict
    BY DEF Delivered, Verdict
  <1> QED
    BY <1>1, <1>2, <1>3, <1>4, Stutters

\* What FinalizeError is to the abstract transfer.
LEMMA Maps_FinalizeError ==
    ASSUME SessionInv, SessionInv', NEW p \in Procs, FinalizeError(p)
    PROVE  AbstractStep
  <1> USE NamesAssumption DEF SessionInv, Typed, TypeOK, SessionHasClient, Procs, SessionPcs,
     FinalizeError, FreeIov
  <1>1. CASE p = Server
    <2>1. opt' = opt /\ (ServerGone' <=> ServerGone) /\ Serving' = Serving
      BY <1>1 DEF ServerGone, Serving
    <2>2. Served' = Served /\ Delivered' = Delivered /\ Verdict' = Verdict
      BY <1>1 DEF Served, Delivered, Verdict
    <2> QED
      BY <2>1, <2>2, Stutters
  <1>2. CASE p \in Clients
    <2>1. opt' = opt /\ (ServerGone' <=> ServerGone) /\ Serving' = Serving
      BY <1>2 DEF ServerGone, Serving
    <2>2. Served' = Served /\ Delivered' = Delivered
      BY DEF Served, Delivered
    <2>3. Verdict[p] = "none"
      BY <1>2 DEF PhaseInv, ClientPhase, Verdict
    <2>4. Verdict' = [Verdict EXCEPT ![p] = "err"]
      BY <1>2 DEF Verdict
    <2> QED
      BY <1>2, <2>1, <2>2, <2>3, <2>4 DEF AbstractStep, Abstract!ANext, Abstract!Fail
  <1> QED
    BY <1>1, <1>2

\* What FinalizeData is to the abstract transfer.
LEMMA Maps_FinalizeData ==
    ASSUME SessionInv, SessionInv', NEW p \in Procs, FinalizeData(p)
    PROVE  AbstractStep
  <1> USE NamesAssumption DEF SessionInv, Typed, TypeOK, SessionHasClient, Procs, SessionPcs,
     FinalizeData, FreeIov, AfterIter
  <1>1. opt' = opt /\ (ServerGone' <=> ServerGone) /\ Serving' = Serving
    BY DEF ServerGone, Serving
  <1>2. Served' = Served /\ Verdict' = Verdict
    BY DEF Served, Verdict
  <1>3. CASE p = Server
    <2>1. ~ServerGone /\ Serving = conn_request /\ conn_request \in Clients
      BY <1>3 DEF ServerGone, Serving
    <2>2. iter[Server] # opt.n /\ iter[Server] <= opt.n /\ iter[Server] \in Nat /\ opt.n \in Nat
      BY <1>3, OptFields DEF InFin, CountInv, SessionCount
    <2>3. Delivered[conn_request] = iter[Server]
      BY <1>3, <2>1 DEF CountInv, SessionCount, Delivered
    <2>4. iter[Server] < opt.n
      BY <2>2, NatStep
    <2>5. Len(Append(rcvd[conn_request], buf[p])) = Len(rcvd[conn_request]) + 1
      BY <2>1
    <2>6. Delivered' = [Delivered EXCEPT ![conn_request] = @ + 1]
      <3>1. rcvd' = [rcvd EXCEPT ![conn_request] = Append(rcvd[conn_request], buf[p])]
        BY <1>3
      <3>2. \A c \in Clients : Len(rcvd'[c]) =
              IF c = conn_request THEN Len(rcvd[c]) + 1 ELSE Len(rcvd[c])
        BY <2>1, <2>5, <3>1
      <3> QED
        BY <2>1, <3>2 DEF Delivered
    <2> QED
      BY <1>1, <1>2, <2>1, <2>3, <2>4, <2>6 DEF AbstractStep, Abstract!ANext, Abstract!Deliver
  <1>4. CASE p \in Clients
    <2>1. Delivered' = Delivered
      BY <1>4 DEF Delivered
    <2> QED
      BY <1>1, <1>2, <2>1, Stutters
  <1> QED
    BY <1>3, <1>4

\* What FinalizeFin is to the abstract transfer.
LEMMA Maps_FinalizeFin ==
    ASSUME SessionInv, SessionInv', NEW p \in Procs, FinalizeFin(p)
    PROVE  AbstractStep
  <1> USE NamesAssumption DEF SessionInv, Typed, TypeOK, SessionHasClient, Procs, SessionPcs,
     FinalizeFin, FreeIov
  <1>1. CASE p = Server
    <2>1. opt' = opt /\ (ServerGone' <=> ServerGone) /\ Serving' = Serving
      BY <1>1 DEF ServerGone, Serving
    <2>2. Served' = Served /\ Delivered' = Delivered /\ Verdict' = Verdict
      BY <1>1 DEF Served, Delivered, Verdict
    <2> QED
      BY <2>1, <2>2, Stutters
  <1>2. CASE p \in Clients
    <2>1. opt' = opt /\ (ServerGone' <=> ServerGone) /\ Serving' = Serving
      BY <1>2 DEF ServerGone, Serving
    <2>2. Served' = Served /\ Delivered' = Delivered
      BY DEF Served, Delivered
    <2>3. Verdict[p] = "none"
      BY <1>2 DEF PhaseInv, ClientPhase, Verdict
    <2>4. Verdict' = [Verdict EXCEPT ![p] = "ok"]
      <3>1. ret' = [ret EXCEPT ![p] = "ok"]
        BY <1>2
      <3>2. \A c \in Clients : ret'[c] = IF c = p THEN "ok" ELSE ret[c]
        BY <3>1
      <3> QED
        BY <3>2 DEF Verdict
    <2>5. FinUnderWay(p)
      BY <1>2 DEF FinUnderWay, InFin
    <2>6. p \in Served /\ Delivered[p] = opt.n
      BY <1>2, <2>5 DEF EndpointInv, FinServed, CountInv, FinMeansComplete, Delivered
    <2> QED
      BY <1>2, <2>1, <2>2, <2>3, <2>4, <2>6 DEF AbstractStep, Abstract!ANext, Abstract!Ack
  <1> QED
    BY <1>1, <1>2

\* SendCb changes nothing the abstract transfer sees.
LEMMA Maps_SendCb ==
    ASSUME SessionInv, SessionInv', NEW p \in Procs, SendCb(p)
    PROVE  AbstractStep
  <1> USE NamesAssumption DEF SessionInv, Typed, TypeOK, SessionHasClient, Procs, SessionPcs,
     SendCb, InDataLoop, DataLoops
  <1>1. opt' = opt /\ (ServerGone' <=> ServerGone)
    BY DEF ServerGone
  <1>2. Serving' = Serving
    BY DEF Serving
  <1>3. Served' = Served
    BY DEF Served
  <1>4. Delivered' = Delivered /\ Verdict' = Verdict
    BY DEF Delivered, Verdict
  <1> QED
    BY <1>1, <1>2, <1>3, <1>4, Stutters

\* FetchCb changes nothing the abstract transfer sees.
LEMMA Maps_FetchCb ==
    ASSUME SessionInv, SessionInv', NEW p \in Procs, FetchCb(p)
    PROVE  AbstractStep
  <1> USE NamesAssumption DEF SessionInv, Typed, TypeOK, SessionHasClient, Procs, SessionPcs,
     FetchCb, InDataLoop, DataLoops
  <1>1. opt' = opt /\ (ServerGone' <=> ServerGone)
    BY DEF ServerGone
  <1>2. Serving' = Serving
    BY DEF Serving
  <1>3. Served' = Served
    BY DEF Served
  <1>4. Delivered' = Delivered /\ Verdict' = Verdict
    BY DEF Delivered, Verdict
  <1> QED
    BY <1>1, <1>2, <1>3, <1>4, Stutters

\* RecvCb changes nothing the abstract transfer sees.
LEMMA Maps_RecvCb ==
    ASSUME SessionInv, SessionInv', NEW p \in Procs, RecvCb(p)
    PROVE  AbstractStep
  <1> USE NamesAssumption DEF SessionInv, Typed, TypeOK, SessionHasClient, Procs, SessionPcs,
     RecvCb, InDataLoop, DataLoops
  <1>1. opt' = opt /\ (ServerGone' <=> ServerGone)
    BY DEF ServerGone
  <1>2. Serving' = Serving
    BY DEF Serving
  <1>3. Served' = Served
    BY DEF Served
  <1>4. Delivered' = Delivered /\ Verdict' = Verdict
    BY DEF Delivered, Verdict
  <1> QED
    BY <1>1, <1>2, <1>3, <1>4, Stutters

\* AmDropped changes nothing the abstract transfer sees.
LEMMA Maps_AmDropped ==
    ASSUME SessionInv, SessionInv', NEW p \in Procs, AmDropped(p)
    PROVE  AbstractStep
  <1> USE NamesAssumption DEF SessionInv, Typed, TypeOK, SessionHasClient, Procs, SessionPcs,
     AmDropped, InDataLoop, DataLoops
  <1>1. opt' = opt /\ (ServerGone' <=> ServerGone)
    BY DEF ServerGone
  <1>2. Serving' = Serving
    BY DEF Serving
  <1>3. Served' = Served
    BY DEF Served
  <1>4. Delivered' = Delivered /\ Verdict' = Verdict
    BY DEF Delivered, Verdict
  <1> QED
    BY <1>1, <1>2, <1>3, <1>4, Stutters

\* ucp_am_data_cb changes nothing the abstract transfer sees.
LEMMA Maps_ucp_am_data_cb ==
    ASSUME SessionInv, SessionInv', NEW p \in Procs, ucp_am_data_cb(p)
    PROVE  AbstractStep
  <1> USE NamesAssumption DEF SessionInv, Typed, TypeOK, SessionHasClient, Procs, SessionPcs,
     ucp_am_data_cb, AmDispatched, InDataLoop, DataLoops
  <1>1. opt' = opt /\ (ServerGone' <=> ServerGone)
    BY DEF ServerGone
  <1>2. Serving' = Serving
    BY DEF Serving
  <1>3. Served' = Served
    BY DEF Served
  <1>4. Delivered' = Delivered /\ Verdict' = Verdict
    BY DEF Delivered, Verdict
  <1> QED
    BY <1>1, <1>2, <1>3, <1>4, Stutters

\* err_cb changes nothing the abstract transfer sees.
LEMMA Maps_err_cb ==
    ASSUME SessionInv, SessionInv', NEW p \in Procs, err_cb(p)
    PROVE  AbstractStep
  <1> USE NamesAssumption DEF SessionInv, Typed, TypeOK, SessionHasClient, Procs, SessionPcs,
     err_cb, InDataLoop, DataLoops
  <1>1. opt' = opt /\ (ServerGone' <=> ServerGone)
    BY DEF ServerGone
  <1>2. Serving' = Serving
    BY DEF Serving
  <1>3. Served' = Served
    <2>1. \A c \in Clients : \/ ep'[Server][c] = ep[Server][c]
                             \/ ep[Server][c] = "open" /\ ep'[Server][c] = "failed"
      BY DEF Peer
    <2> QED
      BY <2>1 DEF Served
  <1>4. Delivered' = Delivered /\ Verdict' = Verdict
    BY DEF Delivered, Verdict
  <1> QED
    BY <1>1, <1>2, <1>3, <1>4, Stutters

\* Progress changes nothing the abstract transfer sees.
LEMMA Maps_Progress ==
    ASSUME SessionInv, SessionInv', NEW p \in Procs, Progress(p)
    PROVE  AbstractStep
  <1> USE NamesAssumption DEF SessionInv, Typed, TypeOK, SessionHasClient, Procs, SessionPcs,
     Progress, LoopDone, DataLoops
  <1>1. opt' = opt /\ (ServerGone' <=> ServerGone)
    BY DEF ServerGone
  <1>2. Serving' = Serving
    BY DEF Serving
  <1>3. Served' = Served
    BY DEF Served
  <1>4. Delivered' = Delivered /\ Verdict' = Verdict
    BY DEF Delivered, Verdict
  <1> QED
    BY <1>1, <1>2, <1>3, <1>4, Stutters

\* What the death of a process is to the abstract transfer.
LEMMA Maps_Die ==
    ASSUME SessionInv, SessionInv', NEW p \in Procs, pc[p] \notin {"exit", "dead"}, Die(p)
    PROVE  AbstractStep
  <1> USE NamesAssumption DEF SessionInv, Typed, TypeOK, SessionHasClient, Procs, SessionPcs,
     Die
  <1>1. opt' = opt /\ Delivered' = Delivered /\ Verdict' = Verdict
    BY DEF Delivered, Verdict
  <1>2. Served' = Served
    <2>1. \A c \in Clients : \/ ep'[Server][c] = ep[Server][c]
                             \/ ep[Server][c] = "open" /\ ep'[Server][c] = "closed"
      OBVIOUS
    <2> QED
      BY <2>1 DEF Served
  <1>3. CASE p = Server
    <2>1. ~ServerGone /\ ServerGone' /\ Serving' = NoClient
      BY <1>3 DEF ServerGone, Serving
    <2> QED
      BY <1>1, <1>2, <2>1 DEF AbstractStep, Abstract!ANext, Abstract!Stop
  <1>4. CASE p \in Clients
    <2>1. (ServerGone' <=> ServerGone) /\ Serving' = Serving
      BY <1>4 DEF ServerGone, Serving
    <2> QED
      BY <1>1, <1>2, <2>1, Stutters
  <1> QED
    BY <1>3, <1>4

\* StartClient changes nothing the abstract transfer sees.
LEMMA Maps_StartClient ==
    ASSUME SessionInv, SessionInv', NEW c0 \in Clients, StartClient(c0)
    PROVE  AbstractStep
  <1> USE NamesAssumption DEF SessionInv, Typed, TypeOK, SessionHasClient, Procs, SessionPcs,
     StartClient, AfterIter
  <1>1. opt' = opt /\ (ServerGone' <=> ServerGone)
    BY DEF ServerGone
  <1>2. Serving' = Serving
    BY DEF Serving
  <1>3. Served' = Served
    BY DEF Served
  <1>4. Delivered' = Delivered /\ Verdict' = Verdict
    BY DEF Delivered, Verdict
  <1> QED
    BY <1>1, <1>2, <1>3, <1>4, Stutters

\* What StartClientFails is to the abstract transfer.
LEMMA Maps_StartClientFails ==
    ASSUME SessionInv, SessionInv', NEW c0 \in Clients, StartClientFails(c0)
    PROVE  AbstractStep
  <1> USE NamesAssumption DEF SessionInv, Typed, TypeOK, SessionHasClient, Procs, SessionPcs,
     StartClientFails
  <1>1. opt' = opt /\ (ServerGone' <=> ServerGone) /\ Serving' = Serving
    BY DEF ServerGone, Serving
  <1>2. Served' = Served /\ Delivered' = Delivered
    BY DEF Served, Delivered
  <1>3. Verdict[c0] = "none"
    BY DEF PhaseInv, ClientPhase, Verdict
  <1>4. Verdict' = [Verdict EXCEPT ![c0] = "err"]
    BY DEF Verdict
  <1> QED
    BY <1>1, <1>2, <1>3, <1>4 DEF AbstractStep, Abstract!ANext, Abstract!Fail

\* What RegisterFinHandler is to the abstract transfer.
LEMMA Maps_RegisterFinHandler ==
    ASSUME SessionInv, SessionInv', NEW c0 \in Clients, RegisterFinHandler(c0)
    PROVE  AbstractStep
  <1> USE NamesAssumption DEF SessionInv, Typed, TypeOK, SessionHasClient, Procs, SessionPcs,
     RegisterFinHandler
  <1>1. opt' = opt /\ (ServerGone' <=> ServerGone) /\ Serving' = Serving
    BY DEF ServerGone, Serving
  <1>2. Served' = Served /\ Delivered' = Delivered
    BY DEF Served, Delivered
  <1>3. Verdict[c0] = "none"
    BY DEF PhaseInv, ClientPhase, Verdict
  <1>4. Verdict' = Verdict \/ Verdict' = [Verdict EXCEPT ![c0] = "err"]
    BY DEF Verdict
  <1>5. CASE Verdict' = Verdict
    BY <1>1, <1>2, <1>5, Stutters
  <1>6. CASE Verdict' = [Verdict EXCEPT ![c0] = "err"]
    BY <1>1, <1>2, <1>3, <1>6 DEF AbstractStep, Abstract!ANext, Abstract!Fail
  <1> QED
    BY <1>4, <1>5, <1>6

\* CloseClient changes nothing the abstract transfer sees.
LEMMA Maps_CloseClient ==
    ASSUME SessionInv, SessionInv', NEW c0 \in Clients, CloseClient(c0)
    PROVE  AbstractStep
  <1> USE NamesAssumption DEF SessionInv, Typed, TypeOK, SessionHasClient, Procs, SessionPcs,
     CloseClient
  <1>1. opt' = opt /\ (ServerGone' <=> ServerGone)
    BY DEF ServerGone
  <1>2. Serving' = Serving
    BY DEF Serving
  <1>3. Served' = Served
    BY DEF Served
  <1>4. Delivered' = Delivered /\ Verdict' = Verdict
    BY DEF Delivered, Verdict
  <1> QED
    BY <1>1, <1>2, <1>3, <1>4, Stutters

\* server_conn_handle_cb changes nothing the abstract transfer sees.
LEMMA Maps_server_conn_handle_cb ==
    ASSUME SessionInv, SessionInv', NEW c0 \in Clients, server_conn_handle_cb(c0)
    PROVE  AbstractStep
  <1> USE NamesAssumption DEF SessionInv, Typed, TypeOK, SessionHasClient, Procs, SessionPcs,
     server_conn_handle_cb
  <1>1. opt' = opt /\ (ServerGone' <=> ServerGone)
    BY DEF ServerGone
  <1>2. Serving' = Serving
    BY DEF Serving
  <1>3. Served' = Served
    <2>1. ep[Server][c0] = "none"
      BY DEF EndpointInv, WaitingNoEp
    <2>2. \A c \in Clients : \/ ep'[Server][c] = ep[Server][c]
                             \/ c = c0 /\ ep'[Server][c] = "rejected"
      OBVIOUS
    <2> QED
      BY <2>1, <2>2 DEF Served
  <1>4. Delivered' = Delivered /\ Verdict' = Verdict
    BY DEF Delivered, Verdict
  <1> QED
    BY <1>1, <1>2, <1>3, <1>4, Stutters

\* StartServer changes nothing the abstract transfer sees.
LEMMA Maps_StartServer ==
    ASSUME SessionInv, SessionInv', StartServer
    PROVE  AbstractStep
  <1> USE NamesAssumption DEF SessionInv, Typed, TypeOK, SessionHasClient, Procs, SessionPcs,
     StartServer
  <1>1. opt' = opt /\ (ServerGone' <=> ServerGone)
    BY DEF ServerGone
  <1>2. Serving' = Serving
    BY DEF Serving
  <1>3. Served' = Served
    BY DEF Served
  <1>4. Delivered' = Delivered /\ Verdict' = Verdict
    BY DEF Delivered, Verdict
  <1> QED
    BY <1>1, <1>2, <1>3, <1>4, Stutters

\* What ServerSetupFails is to the abstract transfer.
LEMMA Maps_ServerSetupFails ==
    ASSUME SessionInv, SessionInv', ServerSetupFails
    PROVE  AbstractStep
  <1> USE NamesAssumption DEF SessionInv, Typed, TypeOK, SessionHasClient, Procs, SessionPcs,
     ServerSetupFails, LoopDone
  <1>1. ~ServerGone /\ ServerGone' /\ Serving' = NoClient /\ opt' = opt
    BY DEF ServerGone, Serving
  <1>2. Served' = Served
    BY DEF Served
  <1>3. Delivered' = Delivered /\ Verdict' = Verdict
    BY DEF Delivered, Verdict
  <1> QED
    BY <1>1, <1>2, <1>3 DEF AbstractStep, Abstract!ANext, Abstract!Stop

\* What CreateEp is to the abstract transfer.
LEMMA Maps_CreateEp ==
    ASSUME SessionInv, SessionInv', CreateEp
    PROVE  AbstractStep
  <1> USE NamesAssumption DEF SessionInv, Typed, TypeOK, SessionHasClient, Procs, SessionPcs,
     CreateEp, AfterIter, LoopDone
  <1>1. ~ServerGone /\ ~ServerGone' /\ opt' = opt /\ Serving = NoClient
    BY DEF ServerGone, Serving
  <1>2. conn_request \in Clients /\ Serving' = conn_request
    BY DEF Serving
  <1>3. ep[Server][conn_request] = "none"
    BY <1>2 DEF EndpointInv, WaitingNoEp
  <1>4. \A c \in Clients : ep'[Server][c] =
          IF c = conn_request THEN "open" ELSE ep[Server][c]
    OBVIOUS
  <1>5. conn_request \notin Served /\ Served' = Served \cup {conn_request}
    BY <1>2, <1>3, <1>4 DEF Served
  <1>6. Delivered' = Delivered /\ Verdict' = Verdict
    BY DEF Delivered, Verdict
  <1> QED
    BY <1>1, <1>2, <1>5, <1>6 DEF AbstractStep, Abstract!ANext, Abstract!Begin

\* Drained changes nothing the abstract transfer sees.
LEMMA Maps_Drained ==
    ASSUME SessionInv, SessionInv', Drained
    PROVE  AbstractStep
  <1> USE NamesAssumption DEF SessionInv, Typed, TypeOK, SessionHasClient, Procs, SessionPcs,
     Drained, LoopDone
  <1>1. opt' = opt /\ (ServerGone' <=> ServerGone)
    BY DEF ServerGone
  <1>2. Serving' = Serving
    BY DEF Serving
  <1>3. Served' = Served
    BY DEF Served
  <1>4. Delivered' = Delivered /\ Verdict' = Verdict
    BY DEF Delivered, Verdict
  <1> QED
    BY <1>1, <1>2, <1>3, <1>4, Stutters

\* What NextClient is to the abstract transfer.
LEMMA Maps_NextClient ==
    ASSUME SessionInv, SessionInv', NextClient
    PROVE  AbstractStep
  <1> USE NamesAssumption DEF SessionInv, Typed, TypeOK, SessionHasClient, Procs, SessionPcs,
     NextClient, CloseServerEp
  <1>1. /\ ~ServerGone /\ ~ServerGone' /\ opt' = opt
        /\ Serving = conn_request /\ Serving' = NoClient
    BY DEF ServerGone, Serving
  <1>2. Served' = Served
    <2>1. ep[Server][conn_request] \in {"open", "failed"} /\ conn_request \in Clients
      BY DEF EndpointInv, SessionEp
    <2>2. \A c \in Clients : ep'[Server][c] =
            IF c = conn_request THEN "closed" ELSE ep[Server][c]
      OBVIOUS
    <2> QED
      BY <2>1, <2>2 DEF Served
  <1>3. conn_request \in Clients /\ Delivered[conn_request] = opt.n
    BY DEF CountInv, SessionCount, Delivered
  <1>4. Delivered' = Delivered /\ Verdict' = Verdict
    BY DEF Delivered, Verdict
  <1> QED
    BY <1>1, <1>2, <1>3, <1>4 DEF AbstractStep, Abstract!ANext, Abstract!End

\* What ServerExit is to the abstract transfer.
LEMMA Maps_ServerExit ==
    ASSUME SessionInv, SessionInv', ServerExit
    PROVE  AbstractStep
  <1> USE NamesAssumption DEF SessionInv, Typed, TypeOK, SessionHasClient, Procs, SessionPcs,
     ServerExit, CloseServerEp
  <1>1. ~ServerGone /\ ServerGone' /\ Serving' = NoClient /\ opt' = opt
    BY DEF ServerGone, Serving
  <1>2. Served' = Served
    <2>1. ep[Server][conn_request] \in {"open", "failed"} /\ conn_request \in Clients
      BY DEF EndpointInv, SessionEp
    <2>2. \A c \in Clients : ep'[Server][c] =
            IF c = conn_request THEN "closed" ELSE ep[Server][c]
      OBVIOUS
    <2> QED
      BY <2>1, <2>2 DEF Served
  <1>3. Delivered' = Delivered /\ Verdict' = Verdict
    BY DEF Delivered, Verdict
  <1> QED
    BY <1>1, <1>2, <1>3 DEF AbstractStep, Abstract!ANext, Abstract!Stop

\* Every step of the two programs is a step of the abstract transfer or a stutter.
LEMMA MapsNext ==
    ASSUME SessionInv, SessionInv', [Next]_vars
    PROVE  AbstractStep
  <1>1. ASSUME NEW p \in Procs, Communicate(p)
        PROVE  AbstractStep
    BY <1>1, Maps_AllocFails, Maps_Send, Maps_Recv, Maps_AmRecv, Maps_AmArrived,
       Maps_FinalizeError, Maps_FinalizeData, Maps_FinalizeFin DEF Communicate
  <1>2. ASSUME NEW p \in Procs, Callback(p)
        PROVE  AbstractStep
    BY <1>2, Maps_SendCb, Maps_FetchCb, Maps_RecvCb, Maps_AmDropped,
       Maps_ucp_am_data_cb, Maps_err_cb, Maps_Die DEF Callback, AmCopyFaults, EagerCopy,
       AmDispatched, InDataLoop, DataLoops
  <1>3. CASE ServerStep
    BY <1>1, <1>2, <1>3, Maps_StartServer, Maps_ServerSetupFails, Maps_CreateEp,
       Maps_Drained, Maps_NextClient, Maps_ServerExit, Maps_server_conn_handle_cb,
       Maps_Progress DEF ServerStep, Procs
  <1>4. ASSUME NEW c \in Clients, ClientStep(c)
        PROVE  AbstractStep
    BY <1>1, <1>2, <1>4, Maps_StartClient, Maps_StartClientFails,
       Maps_RegisterFinHandler, Maps_CloseClient, Maps_Progress DEF ClientStep, Procs
  <1>5. CASE UNCHANGED vars
    <2>1. opt' = opt /\ (ServerGone' <=> ServerGone) /\ Serving' = Serving
      BY <1>5 DEF vars, ServerGone, Serving
    <2>2. Served' = Served /\ Delivered' = Delivered /\ Verdict' = Verdict
      BY <1>5 DEF vars, Served, Delivered, Verdict
    <2> QED
      BY <2>1, <2>2, Stutters
  <1> QED
    BY <1>3, <1>4, <1>5, Maps_Die DEF Next, Idle, Crash

\* The initial states map to initial states.
LEMMA MapsInit == Init => Abstract!AInit
  <1> SUFFICES ASSUME Init PROVE Abstract!AInit
    OBVIOUS
  <1>1. opt.n \in Iters
    BY DEF Init, Options
  <1>2. ServerGone = FALSE /\ Serving = NoClient /\ Served = {}
    BY NamesAssumption DEF Init, ServerGone, Serving, Served, Procs, SessionPcs
  <1>3. /\ Delivered = [c \in Clients |-> 0]
        /\ Verdict = [c \in Clients |-> "none"]
    BY DEF Init, Delivered, Verdict, Procs
  <1> QED
    BY <1>1, <1>2, <1>3 DEF Abstract!AInit

\* Every behaviour of run_server and the run_clients, with every API, faults,
\* refused connections and crashes included, is one of the abstract transfer:
\* one session at a time and one per client, a session is left only after all
\* its receives or with the end of the server, and a client reports success
\* only for a complete session.
THEOREM Refinement == Spec => ImplementsAckedTransfer
  <1>1. SessionInv /\ SessionInv' /\ [Next]_vars => [Abstract!ANext]_(Abstract!avars)
    BY MapsNext DEF AbstractStep
  <1> QED
    BY <1>1, MapsInit, Sessions, PTL DEF Spec, ImplementsAckedTransfer, Abstract!ASpec

================================================================================
