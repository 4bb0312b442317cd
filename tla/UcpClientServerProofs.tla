------------------------- MODULE UcpClientServerProofs -------------------------
(***************************************************************************)
(* Theorems about UcpClientServer, for every set of clients, every number  *)
(* of iterations, API, protocol and combination of faults.                 *)
(***************************************************************************)
EXTENDS UcpClientServer, TLAPS

\* The types that every action's proof needs.
Typed == TypeOK /\ SessionHasClient

\* A process in a session has a peer, and it is another process.
LEMMA PeerIsProc ==
    ASSUME Typed, NEW p \in Procs, p \in Clients \/ pc[p] \in SessionPcs
    PROVE  /\ Peer(p) \in Procs /\ Peer(p) # p
           /\ p = Server => Peer(p) \in Clients
           /\ p # Server => Peer(p) = Server
  BY NamesAssumption DEF Typed, TypeOK, SessionHasClient, Peer, Procs

\* opt is a record with the fields the actions use.
LEMMA OptFields ==
    ASSUME opt \in Options
    PROVE  opt.n \in Nat /\ opt.rndv \in BOOLEAN /\ opt.odd \subseteq Clients
  BY ItersAssumption, OddSizeAssumption DEF Options

\* What p sends is a message.
LEMMA CurrentMsgType ==
    ASSUME Typed, NEW p \in Procs
    PROVE  CurrentMsg(p) \in Message
  BY OptFields DEF Typed, TypeOK, CurrentMsg, Message, Procs

\* Messages in flight to p are messages.
LEMMA InType ==
    ASSUME Typed, NEW p \in Procs, p \in Clients \/ pc[p] \in SessionPcs
    PROVE  /\ In(p) \in Seq(Message)
           /\ In(p) # <<>> => Head(In(p)) \in Message /\ Tail(In(p)) \in Seq(Message)
  <1>1. Peer(p) \in Procs
    BY PeerIsProc
  <1>2. In(p) \in Seq(Message)
    BY <1>1 DEF Typed, TypeOK, In
  <1> QED
    BY <1>2

\* The programs start with the right types.
LEMMA TypedInit == Init => Typed
  <1> SUFFICES ASSUME Init PROVE Typed
    OBVIOUS
  <1>1. NoMsg \in Message
    BY DEF NoMsg, Message
  <1>2. TypeOK
    BY <1>1, NamesAssumption DEF Init, TypeOK, PcStates, ReqStates, EpStates, AmDesc,
       RecvBuf
  <1>3. SessionHasClient
    BY DEF Init, SessionHasClient, SessionPcs, Procs
  <1> QED
    BY <1>2, <1>3 DEF Typed

\* The placeholder is a message.
LEMMA NoMsgType == NoMsg \in Message
  BY DEF NoMsg, Message

\* Freeing the buffers keeps the type of the descriptor.
LEMMA FreeIovType ==
    ASSUME Typed, NEW p \in Procs
    PROVE  FreeIov(p) \in [Procs -> AmDesc]
  BY DEF Typed, TypeOK, FreeIov, AmDesc, RecvBuf

\* Confirm keeps the type of the requests.
LEMMA ConfirmType ==
    ASSUME NEW r \in [Procs -> ReqStates], NEW p, NEW m, NEW st \in {"sent", "nak"}
    PROVE  Confirm(r, p, m, st) \in [Procs -> ReqStates]
  BY DEF Confirm, ReqStates

\* Taking a message off the channel to p keeps the type of the network.
LEMMA NetTakeType ==
    ASSUME Typed, NEW p \in Procs, p \in Clients \/ pc[p] \in SessionPcs, In(p) # <<>>
    PROVE  [net EXCEPT ![Peer(p)][p] = Tail(@)] \in [Procs -> [Procs -> Seq(Message)]]
  <1>1. Peer(p) \in Procs
    BY PeerIsProc
  <1>2. Tail(net[Peer(p)][p]) \in Seq(Message)
    BY InType DEF In
  <1> QED
    BY <1>1, <1>2 DEF Typed, TypeOK

\* So does discarding what is in flight.
LEMMA NetClearType ==
    ASSUME Typed, NEW p, NEW q
    PROVE  [net EXCEPT ![p][q] = <<>>] \in [Procs -> [Procs -> Seq(Message)]]
  <1>1. <<>> \in Seq(Message)
    OBVIOUS
  <1>2. ASSUME NEW x \in Procs
        PROVE  [net EXCEPT ![p][q] = <<>>][x] \in [Procs -> Seq(Message)]
    BY <1>1 DEF Typed, TypeOK
  <1> QED
    BY <1>2 DEF Typed, TypeOK

\* So does discarding unexpected messages, for their queue.
LEMMA UnexpClearType ==
    ASSUME Typed, NEW p
    PROVE  [unexp EXCEPT ![p] = <<>>] \in [Procs -> Seq(Message)]
  <1>1. <<>> \in Seq(Message)
    OBVIOUS
  <1> QED
    BY <1>1 DEF Typed, TypeOK

\* Setting the state of an endpoint keeps the type of the endpoints.
LEMMA EpSetType ==
    ASSUME Typed, NEW p, NEW q, NEW st \in EpStates
    PROVE  [ep EXCEPT ![p][q] = st] \in [Procs -> [Procs -> EpStates]]
  <1>1. ASSUME NEW x \in Procs
        PROVE  [ep EXCEPT ![p][q] = st][x] \in [Procs -> EpStates]
    BY DEF Typed, TypeOK
  <1> QED
    BY <1>1 DEF Typed, TypeOK

\* Resetting complete keeps the type of the descriptor.
LEMMA TakenType ==
    ASSUME NEW d \in AmDesc
    PROVE  Taken(d) \in AmDesc
  BY DEF Taken, AmDesc

\* A process that runs callbacks of its data worker is in a session.
LEMMA InLoop ==
    ASSUME Typed, NEW p \in Procs, InDataLoop(p)
    PROVE  p \in Clients \/ pc[p] \in SessionPcs
  BY DEF InDataLoop, DataLoops, SessionPcs

\* Recv keeps the types.
LEMMA Typed_Recv ==
    ASSUME Typed, NEW p \in Procs, Recv(p)
    PROVE  Typed'
  <1>1. unexp[p] # <<>> => Head(unexp[p]) \in Message /\ Tail(unexp[p]) \in Seq(Message)
    BY DEF Typed, TypeOK
  <1>2. \A r \in RecvResults(p) : r \in {"fetch", "ok"} => unexp[p] # <<>>
    BY DEF RecvResults
  <1>3. buf' \in [Procs -> Message]
    BY <1>1, <1>2 DEF Typed, TypeOK, Recv
  <1>4. unexp' \in [Procs -> Seq(Message)]
    BY <1>1, <1>2 DEF Typed, TypeOK, Recv
  <1>5. req' \in [Procs -> ReqStates]
    BY DEF Typed, TypeOK, Recv, RecvResults, ReqStates
  <1>6. TypeOK'
    BY <1>1, <1>2, <1>3, <1>4, <1>5 DEF Typed, TypeOK, Recv, PcStates
  <1>7. SessionHasClient'
    BY NamesAssumption DEF Typed, TypeOK, SessionHasClient, SessionPcs, Procs, Recv
  <1> QED
    BY <1>6, <1>7 DEF Typed

\* AmArrived keeps the types.
LEMMA Typed_AmArrived ==
    ASSUME Typed, NEW p \in Procs, AmArrived(p)
    PROVE  Typed'
  <1>1. am_data_desc' \in [Procs -> AmDesc]
    BY TakenType DEF Typed, TypeOK, AmArrived
  <1>2. buf' \in [Procs -> Message]
    BY DEF Typed, TypeOK, AmArrived, AmDesc
  <1>3. req' \in [Procs -> ReqStates]
    BY DEF Typed, TypeOK, AmArrived, ReqStates
  <1>4. TypeOK'
    BY <1>1, <1>2, <1>3 DEF Typed, TypeOK, AmArrived, PcStates
  <1>5. SessionHasClient'
    BY NamesAssumption DEF Typed, TypeOK, SessionHasClient, SessionPcs, Procs, AmArrived
  <1> QED
    BY <1>4, <1>5 DEF Typed

\* FinalizeError keeps the types.
LEMMA Typed_FinalizeError ==
    ASSUME Typed, NEW p \in Procs, FinalizeError(p)
    PROVE  Typed'
  <1>1. am_data_desc' \in [Procs -> AmDesc]
    BY FreeIovType DEF FinalizeError
  <1>2. buf' \in [Procs -> Message]
    BY NoMsgType DEF Typed, TypeOK, FinalizeError
  <1>3. req' \in [Procs -> ReqStates]
    BY DEF Typed, TypeOK, FinalizeError, ReqStates
  <1>4. TypeOK'
    BY <1>1, <1>2, <1>3 DEF Typed, TypeOK, FinalizeError, PcStates
  <1>5. SessionHasClient'
    BY NamesAssumption DEF Typed, TypeOK, SessionHasClient, SessionPcs, Procs,
       FinalizeError
  <1> QED
    BY <1>4, <1>5 DEF Typed

\* FinalizeFin keeps the types.
LEMMA Typed_FinalizeFin ==
    ASSUME Typed, NEW p \in Procs, FinalizeFin(p)
    PROVE  Typed'
  <1>1. am_data_desc' \in [Procs -> AmDesc]
    BY FreeIovType DEF FinalizeFin
  <1>2. buf' \in [Procs -> Message]
    BY NoMsgType DEF Typed, TypeOK, FinalizeFin
  <1>3. req' \in [Procs -> ReqStates]
    BY DEF Typed, TypeOK, FinalizeFin, ReqStates
  <1>4. TypeOK'
    BY <1>1, <1>2, <1>3 DEF Typed, TypeOK, FinalizeFin, PcStates
  <1>5. SessionHasClient'
    BY NamesAssumption DEF Typed, TypeOK, SessionHasClient, SessionPcs, Procs, FinalizeFin
  <1> QED
    BY <1>4, <1>5 DEF Typed

\* FinalizeData keeps the types.
LEMMA Typed_FinalizeData ==
    ASSUME Typed, NEW p \in Procs, FinalizeData(p)
    PROVE  Typed'
  <1>1. am_data_desc' \in [Procs -> AmDesc]
    BY FreeIovType DEF FinalizeData
  <1>2. buf' \in [Procs -> Message]
    BY NoMsgType DEF Typed, TypeOK, FinalizeData
  <1>3. req' \in [Procs -> ReqStates]
    BY DEF Typed, TypeOK, FinalizeData, ReqStates
  <1>4. Append(rcvd[conn_request], buf[p]) \in Seq(Message) \/ conn_request \notin Clients
    BY DEF Typed, TypeOK
  <1>5. rcvd' \in [Clients -> Seq(Message)]
    BY <1>4 DEF Typed, TypeOK, FinalizeData
  <1>6. TypeOK'
    BY <1>1, <1>2, <1>3, <1>4, <1>5 DEF Typed, TypeOK, FinalizeData, PcStates, AfterIter
  <1>7. SessionHasClient'
    BY NamesAssumption DEF Typed, TypeOK, SessionHasClient, SessionPcs, Procs,
       FinalizeData, AfterIter
  <1> QED
    BY <1>6, <1>7 DEF Typed

\* RecvCb keeps the types.
LEMMA Typed_RecvCb ==
    ASSUME Typed, NEW p \in Procs, RecvCb(p)
    PROVE  Typed'
  <1>1. In(p) # <<>> /\ (p \in Clients \/ pc[p] \in SessionPcs)
    BY InLoop DEF RecvCb
  <1>2. net' \in [Procs -> [Procs -> Seq(Message)]]
    BY <1>1, NetTakeType DEF RecvCb
  <1>3. Head(In(p)) \in Message
    BY <1>1, InType
  <1>4. buf' \in [Procs -> Message]
    BY <1>3 DEF Typed, TypeOK, RecvCb
  <1>5. Append(unexp[p], Head(In(p))) \in Seq(Message)
    BY <1>3 DEF Typed, TypeOK
  <1>6. unexp' \in [Procs -> Seq(Message)]
    BY <1>5 DEF Typed, TypeOK, RecvCb
  <1>7. req \in [Procs -> ReqStates] /\ {"ok", "fetch"} \subseteq ReqStates
    BY DEF Typed, TypeOK, ReqStates
  <1>8. \A s \in {"ok", "fetch"} : [req EXCEPT ![p] = s] \in [Procs -> ReqStates]
    BY <1>7
  <1>9. /\ Confirm(req, p, Head(In(p)), "sent") \in [Procs -> ReqStates]
        /\ Confirm([req EXCEPT ![p] = "ok"], p, Head(In(p)), "sent") \in [Procs ->
           ReqStates]
    BY <1>7, <1>8, ConfirmType
  <1>10. req' \in [Procs -> ReqStates]
    BY <1>7, <1>8, <1>9 DEF RecvCb
  <1>11. TypeOK'
    BY <1>1, <1>2, <1>3, <1>4, <1>5, <1>6, <1>7, <1>8, <1>9, <1>10 DEF Typed, TypeOK,
       RecvCb
  <1>12. SessionHasClient'
    BY NamesAssumption DEF Typed, TypeOK, SessionHasClient, SessionPcs, Procs, RecvCb
  <1> QED
    BY <1>11, <1>12 DEF Typed

\* AmDropped keeps the types.
LEMMA Typed_AmDropped ==
    ASSUME Typed, NEW p \in Procs, AmDropped(p)
    PROVE  Typed'
  <1>1. In(p) # <<>> /\ (p \in Clients \/ pc[p] \in SessionPcs)
    BY InLoop DEF AmDropped
  <1>2. net' \in [Procs -> [Procs -> Seq(Message)]]
    BY <1>1, NetTakeType DEF AmDropped
  <1>3. req \in [Procs -> ReqStates]
    BY DEF Typed, TypeOK
  <1>4. req' \in [Procs -> ReqStates]
    BY <1>3, ConfirmType DEF AmDropped
  <1>5. TypeOK'
    BY <1>1, <1>2, <1>3, <1>4 DEF Typed, TypeOK, AmDropped
  <1>6. SessionHasClient'
    BY NamesAssumption DEF Typed, TypeOK, SessionHasClient, SessionPcs, Procs, AmDropped
  <1> QED
    BY <1>5, <1>6 DEF Typed

\* ucp_am_data_cb keeps the types.
LEMMA Typed_ucp_am_data_cb ==
    ASSUME Typed, NEW p \in Procs, ucp_am_data_cb(p)
    PROVE  Typed'
  <1>1. In(p) # <<>> /\ (p \in Clients \/ pc[p] \in SessionPcs)
    BY InLoop DEF ucp_am_data_cb, AmDispatched
  <1>2. net' \in [Procs -> [Procs -> Seq(Message)]]
    BY <1>1, NetTakeType DEF ucp_am_data_cb, AmDispatched
  <1>3. Head(In(p)) \in Message
    BY <1>1, InType
  <1>4. buf' \in [Procs -> Message]
    BY <1>3 DEF Typed, TypeOK, ucp_am_data_cb, AmDispatched
  <1>5. Confirm(req, p, Head(In(p)), "sent") \in [Procs -> ReqStates]
    BY ConfirmType DEF Typed, TypeOK
  <1>6. req' \in [Procs -> ReqStates]
    BY <1>5 DEF Typed, TypeOK, ucp_am_data_cb, AmDispatched
  <1>7. opt.rndv \in BOOLEAN /\ am_data_desc[p] \in AmDesc
    BY OptFields DEF Typed, TypeOK
  <1>8. [complete |-> TRUE, is_rndv |-> opt.rndv, recv_buf |-> am_data_desc[p].recv_buf,
         desc |-> IF opt.rndv THEN Head(In(p)) ELSE am_data_desc[p].desc] \in AmDesc
    BY <1>3, <1>7 DEF AmDesc
  <1>9. am_data_desc' \in [Procs -> AmDesc]
    BY <1>8 DEF Typed, TypeOK, ucp_am_data_cb, AmDispatched
  <1>10. TypeOK'
    BY <1>1, <1>2, <1>3, <1>4, <1>5, <1>6, <1>7, <1>8, <1>9 DEF Typed, TypeOK,
       ucp_am_data_cb, AmDispatched
  <1>11. SessionHasClient'
    BY NamesAssumption DEF Typed, TypeOK, SessionHasClient, SessionPcs, Procs,
       ucp_am_data_cb, AmDispatched
  <1> QED
    BY <1>10, <1>11 DEF Typed

\* err_cb keeps the types.
LEMMA Typed_err_cb ==
    ASSUME Typed, NEW p \in Procs, err_cb(p)
    PROVE  Typed'
  <1>1. net' \in [Procs -> [Procs -> Seq(Message)]]
    BY NetClearType DEF err_cb
  <1>2. unexp' \in [Procs -> Seq(Message)]
    BY DEF Typed, TypeOK, err_cb
  <1>3. req' \in [Procs -> ReqStates]
    BY DEF Typed, TypeOK, err_cb, FailedReq, ReqStates
  <1>4. ep' \in [Procs -> [Procs -> EpStates]]
    BY DEF Typed, TypeOK, err_cb, EpStates
  <1>5. TypeOK'
    BY <1>1, <1>2, <1>3, <1>4 DEF Typed, TypeOK, err_cb
  <1>6. SessionHasClient'
    BY NamesAssumption DEF Typed, TypeOK, SessionHasClient, SessionPcs, Procs, err_cb
  <1> QED
    BY <1>5, <1>6 DEF Typed

\* AllocFails keeps the types.
LEMMA Typed_AllocFails ==
    ASSUME Typed, NEW p \in Procs, AllocFails(p)
    PROVE  Typed'
  <1>1. TypeOK'
    BY DEF Typed, TypeOK, AllocFails, PcStates
  <1>2. SessionHasClient'
    BY NamesAssumption DEF Typed, TypeOK, SessionHasClient, SessionPcs, Procs, AllocFails
  <1> QED
    BY <1>1, <1>2 DEF Typed

\* Send keeps the types.
LEMMA Typed_Send ==
    ASSUME Typed, NEW p \in Procs, Send(p)
    PROVE  Typed'
  <1>1. Peer(p) \in Procs /\ CurrentMsg(p) \in Message
    BY PeerIsProc, CurrentMsgType DEF Send, SessionPcs
  <1>2. net' \in [Procs -> [Procs -> Seq(Message)]]
    BY <1>1 DEF Typed, TypeOK, Send
  <1>3. req' \in [Procs -> ReqStates]
    BY DEF Typed, TypeOK, Send, SendResults, ReqStates
  <1>4. TypeOK'
    BY <1>2, <1>3 DEF Typed, TypeOK, Send, PcStates
  <1>5. SessionHasClient'
    BY NamesAssumption DEF Typed, TypeOK, SessionHasClient, SessionPcs, Procs, Send
  <1> QED
    BY <1>4, <1>5 DEF Typed

\* AmRecv keeps the types.
LEMMA Typed_AmRecv ==
    ASSUME Typed, NEW p \in Procs, AmRecv(p)
    PROVE  Typed'
  <1>1. am_data_desc' \in [Procs -> AmDesc]
    BY DEF Typed, TypeOK, AmRecv, AmDesc, RecvBuf
  <1>2. TypeOK'
    BY <1>1 DEF Typed, TypeOK, AmRecv, PcStates
  <1>3. SessionHasClient'
    BY NamesAssumption DEF Typed, TypeOK, SessionHasClient, SessionPcs, Procs, AmRecv
  <1> QED
    BY <1>2, <1>3 DEF Typed

\* SendCb keeps the types.
LEMMA Typed_SendCb ==
    ASSUME Typed, NEW p \in Procs, SendCb(p)
    PROVE  Typed'
  <1>1. TypeOK'
    BY DEF Typed, TypeOK, SendCb, ReqStates
  <1>2. SessionHasClient'
    BY NamesAssumption DEF Typed, TypeOK, SessionHasClient, SessionPcs, Procs, SendCb
  <1> QED
    BY <1>1, <1>2 DEF Typed

\* FetchCb keeps the types.
LEMMA Typed_FetchCb ==
    ASSUME Typed, NEW p \in Procs, FetchCb(p)
    PROVE  Typed'
  <1>1. [req EXCEPT ![p] = "ok"] \in [Procs -> ReqStates]
    BY DEF Typed, TypeOK, ReqStates
  <1>2. req' \in [Procs -> ReqStates]
    BY <1>1, ConfirmType DEF FetchCb
  <1>3. TypeOK'
    BY <1>2 DEF Typed, TypeOK, FetchCb
  <1>4. SessionHasClient'
    BY NamesAssumption DEF Typed, TypeOK, SessionHasClient, SessionPcs, Procs, FetchCb
  <1> QED
    BY <1>3, <1>4 DEF Typed

\* Progress keeps the types.
LEMMA Typed_Progress ==
    ASSUME Typed, NEW p \in Procs, Progress(p)
    PROVE  Typed'
  <1>1. TypeOK'
    BY NamesAssumption DEF Typed, TypeOK, Progress, Procs
  <1>2. SessionHasClient'
    BY NamesAssumption DEF Typed, TypeOK, SessionHasClient, SessionPcs, Procs, Progress
  <1> QED
    BY <1>1, <1>2 DEF Typed

\* StartClient keeps the types.
LEMMA Typed_StartClient ==
    ASSUME Typed, NEW c \in Clients, StartClient(c)
    PROVE  Typed'
  <1>1. ep' \in [Procs -> [Procs -> EpStates]]
    BY DEF Typed, TypeOK, StartClient, EpStates
  <1>2. TypeOK'
    BY <1>1, NamesAssumption DEF Typed, TypeOK, StartClient, Procs, PcStates, AfterIter
  <1>3. SessionHasClient'
    BY NamesAssumption DEF Typed, TypeOK, SessionHasClient, SessionPcs, Procs,
       StartClient, AfterIter
  <1> QED
    BY <1>2, <1>3 DEF Typed

\* StartClientFails keeps the types.
LEMMA Typed_StartClientFails ==
    ASSUME Typed, NEW c \in Clients, StartClientFails(c)
    PROVE  Typed'
  <1>1. TypeOK'
    BY NamesAssumption DEF Typed, TypeOK, StartClientFails, Procs, PcStates
  <1>2. SessionHasClient'
    BY NamesAssumption DEF Typed, TypeOK, SessionHasClient, SessionPcs, Procs,
       StartClientFails
  <1> QED
    BY <1>1, <1>2 DEF Typed

\* RegisterFinHandler keeps the types.
LEMMA Typed_RegisterFinHandler ==
    ASSUME Typed, NEW c \in Clients, RegisterFinHandler(c)
    PROVE  Typed'
  <1>1. TypeOK'
    BY NamesAssumption DEF Typed, TypeOK, RegisterFinHandler, Procs, Registered, PcStates
  <1>2. SessionHasClient'
    BY NamesAssumption DEF Typed, TypeOK, SessionHasClient, SessionPcs, Procs,
       RegisterFinHandler
  <1> QED
    BY <1>1, <1>2 DEF Typed

\* CloseClient keeps the types.
LEMMA Typed_CloseClient ==
    ASSUME Typed, NEW c \in Clients, CloseClient(c)
    PROVE  Typed'
  <1>1. ep' \in [Procs -> [Procs -> EpStates]]
    BY DEF Typed, TypeOK, CloseClient, EpStates
  <1>2. net' \in [Procs -> [Procs -> Seq(Message)]]
    BY NetClearType DEF CloseClient
  <1>3. unexp' \in [Procs -> Seq(Message)]
    BY UnexpClearType DEF CloseClient
  <1>4. TypeOK'
    BY <1>1, <1>2, <1>3, NamesAssumption DEF Typed, TypeOK, CloseClient, Procs, PcStates
  <1>5. SessionHasClient'
    BY NamesAssumption DEF Typed, TypeOK, SessionHasClient, SessionPcs, Procs, CloseClient
  <1> QED
    BY <1>4, <1>5 DEF Typed

\* StartServer keeps the types.
LEMMA Typed_StartServer ==
    ASSUME Typed, StartServer
    PROVE  Typed'
  <1>1. TypeOK'
    BY NamesAssumption DEF Typed, TypeOK, StartServer, Procs, Registered, PcStates
  <1>2. SessionHasClient'
    BY NamesAssumption DEF Typed, TypeOK, SessionHasClient, SessionPcs, Procs, StartServer
  <1> QED
    BY <1>1, <1>2 DEF Typed

\* ServerSetupFails keeps the types.
LEMMA Typed_ServerSetupFails ==
    ASSUME Typed, ServerSetupFails
    PROVE  Typed'
  <1>1. TypeOK'
    BY NamesAssumption DEF Typed, TypeOK, ServerSetupFails, Procs, PcStates
  <1>2. SessionHasClient'
    BY NamesAssumption DEF Typed, TypeOK, SessionHasClient, SessionPcs, Procs,
       ServerSetupFails
  <1> QED
    BY <1>1, <1>2 DEF Typed

\* server_conn_handle_cb keeps the types.
LEMMA Typed_server_conn_handle_cb ==
    ASSUME Typed, NEW c \in Clients, server_conn_handle_cb(c)
    PROVE  Typed'
  <1>1. "rejected" \in EpStates
    BY DEF EpStates
  <1>2. [ep EXCEPT ![Server][c] = "rejected"] \in [Procs -> [Procs -> EpStates]]
    BY <1>1, EpSetType
  <1>3. ep' \in [Procs -> [Procs -> EpStates]]
    BY <1>2 DEF Typed, TypeOK, server_conn_handle_cb
  <1>4. TypeOK'
    BY <1>1, <1>2, <1>3, NamesAssumption DEF Typed, TypeOK, server_conn_handle_cb, Procs
  <1>5. SessionHasClient'
    BY NamesAssumption DEF Typed, TypeOK, SessionHasClient, SessionPcs, Procs,
       server_conn_handle_cb
  <1> QED
    BY <1>4, <1>5 DEF Typed

\* CreateEp keeps the types.
LEMMA Typed_CreateEp ==
    ASSUME Typed, CreateEp
    PROVE  Typed'
  <1>1. ep' \in [Procs -> [Procs -> EpStates]]
    BY DEF Typed, TypeOK, CreateEp, EpStates
  <1>2. TypeOK'
    BY <1>1, NamesAssumption DEF Typed, TypeOK, CreateEp, Procs, PcStates, AfterIter
  <1>3. SessionHasClient'
    BY NamesAssumption DEF Typed, TypeOK, SessionHasClient, SessionPcs, Procs,
       CreateEp, AfterIter, LoopDone
  <1> QED
    BY <1>2, <1>3 DEF Typed

\* Drained keeps the types.
LEMMA Typed_Drained ==
    ASSUME Typed, Drained
    PROVE  Typed'
  <1>1. TypeOK'
    BY NamesAssumption DEF Typed, TypeOK, Drained, Procs, PcStates
  <1>2. SessionHasClient'
    BY NamesAssumption DEF Typed, TypeOK, SessionHasClient, SessionPcs, Procs, Drained
  <1> QED
    BY <1>1, <1>2 DEF Typed

\* NextClient keeps the types.
LEMMA Typed_NextClient ==
    ASSUME Typed, NextClient
    PROVE  Typed'
  <1>1. ep' \in [Procs -> [Procs -> EpStates]]
    BY DEF Typed, TypeOK, NextClient, CloseServerEp, EpStates
  <1>2. net' \in [Procs -> [Procs -> Seq(Message)]]
    BY NetClearType DEF NextClient, CloseServerEp
  <1>3. unexp' \in [Procs -> Seq(Message)]
    BY UnexpClearType DEF Typed, TypeOK, NextClient, CloseServerEp
  <1>4. TypeOK'
    BY <1>1, <1>2, <1>3, NamesAssumption DEF Typed, TypeOK, NextClient, Procs, PcStates
  <1>5. SessionHasClient'
    BY NamesAssumption DEF Typed, TypeOK, SessionHasClient, SessionPcs, Procs, NextClient
  <1> QED
    BY <1>4, <1>5 DEF Typed

\* ServerExit keeps the types.
LEMMA Typed_ServerExit ==
    ASSUME Typed, ServerExit
    PROVE  Typed'
  <1>1. ep' \in [Procs -> [Procs -> EpStates]]
    BY DEF Typed, TypeOK, ServerExit, CloseServerEp, EpStates
  <1>2. net' \in [Procs -> [Procs -> Seq(Message)]]
    BY NetClearType DEF ServerExit, CloseServerEp
  <1>3. unexp' \in [Procs -> Seq(Message)]
    BY UnexpClearType DEF Typed, TypeOK, ServerExit, CloseServerEp
  <1>4. TypeOK'
    BY <1>1, <1>2, <1>3, NamesAssumption DEF Typed, TypeOK, ServerExit, Procs, PcStates
  <1>5. SessionHasClient'
    BY NamesAssumption DEF Typed, TypeOK, SessionHasClient, SessionPcs, Procs, ServerExit
  <1> QED
    BY <1>4, <1>5 DEF Typed

\* The death of a process keeps the types.
LEMMA Typed_Die ==
    ASSUME Typed, NEW p \in Procs, Die(p)
    PROVE  Typed'
  <1>1. ep' \in [Procs -> [Procs -> EpStates]]
    BY DEF Typed, TypeOK, Die, EpStates
  <1>2. TypeOK'
    BY <1>1, NamesAssumption DEF Typed, TypeOK, Die, Procs, PcStates
  <1>3. SessionHasClient'
    BY NamesAssumption DEF Typed, TypeOK, SessionHasClient, SessionPcs, Procs, Die
  <1> QED
    BY <1>2, <1>3 DEF Typed

--------------------------------------------------------------------------------
\* Every step keeps the types.
LEMMA TypedNext ==
    ASSUME Typed, [Next]_vars
    PROVE  Typed'
  <1>1. ASSUME NEW p \in Procs, Communicate(p)
        PROVE  Typed'
    BY <1>1, Typed_AllocFails, Typed_Send, Typed_Recv, Typed_AmRecv, Typed_AmArrived,
       Typed_FinalizeError, Typed_FinalizeData, Typed_FinalizeFin DEF Communicate
  <1>2. ASSUME NEW p \in Procs, Callback(p)
        PROVE  Typed'
    BY <1>2, Typed_SendCb, Typed_FetchCb, Typed_RecvCb, Typed_AmDropped,
       Typed_ucp_am_data_cb, Typed_err_cb, Typed_Die DEF Callback, AmCopyFaults
  <1>3. CASE ServerStep
    BY <1>1, <1>2, <1>3, Typed_StartServer, Typed_ServerSetupFails, Typed_CreateEp,
       Typed_Drained, Typed_NextClient, Typed_ServerExit, Typed_server_conn_handle_cb,
       Typed_Progress DEF ServerStep, Procs
  <1>4. ASSUME NEW c \in Clients, ClientStep(c)
        PROVE  Typed'
    BY <1>1, <1>2, <1>4, Typed_StartClient, Typed_StartClientFails,
       Typed_RegisterFinHandler, Typed_CloseClient, Typed_Progress DEF ClientStep, Procs
  <1>5. CASE UNCHANGED vars
    BY <1>5 DEF vars, Typed, TypeOK, SessionHasClient
  <1> QED
    BY <1>3, <1>4, <1>5, Typed_Die DEF Next, Idle, Crash

\* Type correctness: every variable of the two programs and of the library's
\* state between them keeps its type, and the server never acts in a session
\* without a connection request (context.conn_request is not NULL there).
THEOREM TypeCorrect == Spec => []TypeOK
  <1>1. Typed /\ [Next]_vars => Typed'
    BY TypedNext
  <1>2. Typed => TypeOK
    BY DEF Typed
  <1> QED
    BY TypedInit, <1>1, <1>2, PTL DEF Spec

--------------------------------------------------------------------------------
\* The part of IndInv about the count of receives.
CountInv == WaitingIsFresh /\ SessionCount /\ FinWaitReceives /\ FinMeansComplete

\* Confirm changes an outstanding send only.
LEMMA ConfirmEffect ==
    ASSUME NEW r \in [Procs -> ReqStates], NEW p, NEW m, NEW st, NEW q \in Procs
    PROVE  \/ Confirm(r, p, m, st)[q] = r[q]
           \/ r[q] = "send" /\ Confirm(r, p, m, st)[q] = st
  BY DEF Confirm

\* What the arrival of a message at p does to the requests.
ReqAfterArrival(p) ==
    \A q \in Procs : \/ req'[q] = req[q]
                     \/ req[q] = "send" /\ req'[q] \in {"sent", "nak"}
                     \/ q = p /\ req[q] = "recv" /\ req'[q] \in {"fetch", "ok"}

\* RecvCb is such an arrival.
LEMMA ReqAfter_RecvCb ==
    ASSUME Typed, NEW p \in Procs, RecvCb(p)
    PROVE  ReqAfterArrival(p)
  <1> SUFFICES ASSUME NEW q \in Procs
               PROVE  \/ req'[q] = req[q]
                      \/ req[q] = "send" /\ req'[q] \in {"sent", "nak"}
                      \/ q = p /\ req[q] = "recv" /\ req'[q] \in {"fetch", "ok"}
    BY DEF ReqAfterArrival
  <1> DEFINE ok == [req EXCEPT ![p] = "ok"]
  <1>1. req \in [Procs -> ReqStates] /\ ok \in [Procs -> ReqStates]
    BY DEF Typed, TypeOK, ReqStates
  <1>2. \/ Confirm(ok, p, Head(In(p)), "sent")[q] = ok[q]
        \/ ok[q] = "send" /\ Confirm(ok, p, Head(In(p)), "sent")[q] = "sent"
    BY <1>1, ConfirmEffect
  <1>3. \/ Confirm(req, p, Head(In(p)), "sent")[q] = req[q]
        \/ req[q] = "send" /\ Confirm(req, p, Head(In(p)), "sent")[q] = "sent"
    BY <1>1, ConfirmEffect
  <1>4. CASE req[p] = "recv"
    BY <1>1, <1>2, <1>4 DEF RecvCb
  <1>5. CASE req[p] # "recv"
    BY <1>1, <1>3, <1>5 DEF RecvCb
  <1> QED
    BY <1>4, <1>5

\* AmDropped is such an arrival.
LEMMA ReqAfter_AmDropped ==
    ASSUME Typed, NEW p \in Procs, AmDropped(p)
    PROVE  ReqAfterArrival(p)
  <1>1. req \in [Procs -> ReqStates]
    BY DEF Typed, TypeOK
  <1>2. PICK s \in {"sent", "nak"} : req' = Confirm(req, p, Head(In(p)), s)
    BY DEF AmDropped
  <1>3. ASSUME NEW q \in Procs
        PROVE  req'[q] = req[q] \/ (req[q] = "send" /\ req'[q] = s)
    BY <1>1, <1>2, ConfirmEffect
  <1> QED
    BY <1>3 DEF ReqAfterArrival

\* ucp_am_data_cb is such an arrival.
LEMMA ReqAfter_ucp_am_data_cb ==
    ASSUME Typed, NEW p \in Procs, ucp_am_data_cb(p)
    PROVE  ReqAfterArrival(p)
  <1>1. req \in [Procs -> ReqStates]
    BY DEF Typed, TypeOK
  <1>2. req' = req \/ req' = Confirm(req, p, Head(In(p)), "sent")
    BY DEF ucp_am_data_cb, AmDispatched
  <1>3. ASSUME NEW q \in Procs
        PROVE  req'[q] = req[q] \/ (req[q] = "send" /\ req'[q] = "sent")
    <2>1. CASE req' = req
      BY <2>1
    <2>2. CASE req' = Confirm(req, p, Head(In(p)), "sent")
      BY <1>1, <2>2, ConfirmEffect
    <2> QED
      BY <1>2, <2>1, <2>2
  <1> QED
    BY <1>3 DEF ReqAfterArrival

\* AllocFails keeps the count of receives and what the FIN means.
LEMMA Counts_AllocFails ==
    ASSUME Typed, Typed', CountInv, NEW p \in Procs, AllocFails(p)
    PROVE  CountInv'
  <1> USE NamesAssumption, OptFields DEF Typed, TypeOK, SessionHasClient, SessionPcs,
     CountInv, AllocFails, Peer, Procs
  <1>1. WaitingIsFresh'
    BY DEF WaitingIsFresh
  <1>2. SessionCount'
    BY DEF SessionCount, WaitingIsFresh
  <1>3. FinWaitReceives'
    BY DEF FinWaitReceives
  <1>4. FinMeansComplete'
    BY DEF FinMeansComplete, FinUnderWay, SessionCount, FinWaitReceives
  <1> QED
    BY <1>1, <1>2, <1>3, <1>4

\* Send keeps the count of receives and what the FIN means.
LEMMA Counts_Send ==
    ASSUME Typed, Typed', CountInv, NEW p \in Procs, Send(p)
    PROVE  CountInv'
  <1> USE NamesAssumption, OptFields DEF Typed, TypeOK, SessionHasClient, SessionPcs,
     CountInv, Send, Peer, Procs, SendResults, InFin, Receiver
  <1>1. WaitingIsFresh'
    BY DEF WaitingIsFresh
  <1>2. SessionCount'
    BY DEF SessionCount, WaitingIsFresh
  <1>3. FinWaitReceives'
    BY DEF FinWaitReceives
  <1>4. FinMeansComplete'
    <2> SUFFICES ASSUME NEW c \in Clients, FinUnderWay(c)'
                 PROVE  Len(rcvd[c]) = opt.n
      BY DEF FinMeansComplete
    <2>1. CASE p = Server
      <3>1. InFin(p) /\ Len(rcvd[conn_request]) = opt.n
        BY <2>1 DEF SessionCount
      <3>2. c # conn_request => FinUnderWay(c)
        BY <2>1 DEF FinUnderWay
      <3> QED
        BY <3>1, <3>2 DEF FinMeansComplete
    <2>2. CASE p \in Clients
      <3>1. ~InFin(p)
        BY <2>2
      <3>2. FinUnderWay(c)
        BY <2>2, <3>1 DEF FinUnderWay
      <3> QED
        BY <3>2 DEF FinMeansComplete
    <2> QED
      BY <2>1, <2>2
  <1> QED
    BY <1>1, <1>2, <1>3, <1>4

\* Recv keeps the count of receives and what the FIN means.
LEMMA Counts_Recv ==
    ASSUME Typed, Typed', CountInv, NEW p \in Procs, Recv(p)
    PROVE  CountInv'
  <1> USE NamesAssumption, OptFields DEF Typed, TypeOK, SessionHasClient, SessionPcs,
     CountInv, Recv, Peer, Procs, RecvResults, InFin, Receiver
  <1>1. WaitingIsFresh'
    BY DEF WaitingIsFresh
  <1>2. SessionCount'
    BY DEF SessionCount, WaitingIsFresh
  <1>3. FinWaitReceives'
    BY DEF FinWaitReceives
  <1>4. FinMeansComplete'
    <2> SUFFICES ASSUME NEW c \in Clients, FinUnderWay(c)'
                 PROVE  Len(rcvd[c]) = opt.n
      BY DEF FinMeansComplete
    <2>1. \A r \in RecvResults(p) : r \in {"fetch", "ok"} => unexp[p] # <<>>
      OBVIOUS
    <2>2. FinUnderWay(c)
      BY <2>1 DEF FinUnderWay
    <2> QED
      BY <2>2 DEF FinMeansComplete
  <1> QED
    BY <1>1, <1>2, <1>3, <1>4

\* AmRecv keeps the count of receives and what the FIN means.
LEMMA Counts_AmRecv ==
    ASSUME Typed, Typed', CountInv, NEW p \in Procs, AmRecv(p)
    PROVE  CountInv'
  <1> USE NamesAssumption, OptFields DEF Typed, TypeOK, SessionHasClient, SessionPcs,
     CountInv, AmRecv, Peer, Procs, InFin, Receiver
  <1>1. WaitingIsFresh'
    BY DEF WaitingIsFresh
  <1>2. SessionCount'
    BY DEF SessionCount, WaitingIsFresh
  <1>3. FinWaitReceives'
    BY DEF FinWaitReceives
  <1>4. FinMeansComplete'
    BY DEF FinMeansComplete, FinUnderWay, SessionCount, FinWaitReceives
  <1> QED
    BY <1>1, <1>2, <1>3, <1>4

\* AmArrived keeps the count of receives and what the FIN means.
LEMMA Counts_AmArrived ==
    ASSUME Typed, Typed', CountInv, NEW p \in Procs, AmArrived(p)
    PROVE  CountInv'
  <1> USE NamesAssumption, OptFields DEF Typed, TypeOK, SessionHasClient, SessionPcs,
     CountInv, AmArrived, Peer, Procs, Taken, LoopDone
  <1>1. WaitingIsFresh'
    BY DEF WaitingIsFresh
  <1>2. SessionCount'
    BY DEF SessionCount, WaitingIsFresh
  <1>3. FinWaitReceives'
    BY DEF FinWaitReceives
  <1>4. FinMeansComplete'
    BY DEF FinMeansComplete, FinUnderWay, SessionCount, FinWaitReceives
  <1> QED
    BY <1>1, <1>2, <1>3, <1>4

\* FinalizeError keeps the count of receives and what the FIN means.
LEMMA Counts_FinalizeError ==
    ASSUME Typed, Typed', CountInv, NEW p \in Procs, FinalizeError(p)
    PROVE  CountInv'
  <1> USE NamesAssumption, OptFields DEF Typed, TypeOK, SessionHasClient, SessionPcs,
     CountInv, FinalizeError, Peer, Procs, FreeIov
  <1>1. WaitingIsFresh'
    BY DEF WaitingIsFresh
  <1>2. SessionCount'
    BY DEF SessionCount, WaitingIsFresh
  <1>3. FinWaitReceives'
    BY DEF FinWaitReceives
  <1>4. FinMeansComplete'
    BY DEF FinMeansComplete, FinUnderWay, SessionCount, FinWaitReceives
  <1> QED
    BY <1>1, <1>2, <1>3, <1>4

\* FinalizeData keeps the count of receives and what the FIN means.
LEMMA Counts_FinalizeData ==
    ASSUME Typed, Typed', CountInv, NEW p \in Procs, FinalizeData(p)
    PROVE  CountInv'
  <1> USE NamesAssumption, OptFields DEF Typed, TypeOK, SessionHasClient, SessionPcs,
     CountInv, FinalizeData, Peer, Procs, FreeIov, AfterIter, InFin
  <1>1. WaitingIsFresh'
    BY DEF WaitingIsFresh
  <1>2. SessionCount'
    <2>1. CASE p = Server
      <3>1. /\ conn_request \in Clients
            /\ Len(rcvd[conn_request]) = iter[Server] /\ iter[Server] < opt.n
        BY <2>1 DEF SessionCount
      <3>2. Len(rcvd'[conn_request]) = iter[Server] + 1
        BY <2>1, <3>1
      <3> QED
        BY <2>1, <3>1, <3>2 DEF SessionCount
    <2>2. CASE p \in Clients
      BY <2>2 DEF SessionCount
    <2> QED
      BY <2>1, <2>2
  <1>3. FinWaitReceives'
    BY DEF FinWaitReceives
  <1>4. FinMeansComplete'
    <2> SUFFICES ASSUME NEW c \in Clients, FinUnderWay(c)'
                 PROVE  Len(rcvd'[c]) = opt.n
      BY DEF FinMeansComplete
    <2>1. FinUnderWay(c)
      BY DEF FinUnderWay
    <2>2. Len(rcvd[c]) = opt.n
      BY <2>1 DEF FinMeansComplete
    <2>3. ASSUME p = Server
          PROVE  c # conn_request
      BY <2>2, <2>3 DEF SessionCount
    <2> QED
      BY <2>2, <2>3
  <1> QED
    BY <1>1, <1>2, <1>3, <1>4

\* FinalizeFin keeps the count of receives and what the FIN means.
LEMMA Counts_FinalizeFin ==
    ASSUME Typed, Typed', CountInv, NEW p \in Procs, FinalizeFin(p)
    PROVE  CountInv'
  <1> USE NamesAssumption, OptFields DEF Typed, TypeOK, SessionHasClient, SessionPcs,
     CountInv, FinalizeFin, Peer, Procs, FreeIov, InFin
  <1>1. WaitingIsFresh'
    <2>1. rcvd' = rcvd /\ backlog' = backlog /\ conn_request' = conn_request
      OBVIOUS
    <2>2. pc'[Server] # "accept" \/ pc'[Server] = pc[Server]
      OBVIOUS
    <2>3. \A c \in Clients : pc'[c] # "start" \/ pc'[c] = pc[c]
      OBVIOUS
    <2> QED
      BY <2>1, <2>2, <2>3 DEF WaitingIsFresh
  <1>2. SessionCount'
    BY DEF SessionCount, WaitingIsFresh
  <1>3. FinWaitReceives'
    <2>1. CASE p = Server
      BY <2>1 DEF FinWaitReceives
    <2>2. CASE p \in Clients
      BY <2>2 DEF FinWaitReceives
    <2> QED
      BY <2>1, <2>2
  <1>4. FinMeansComplete'
    <2> SUFFICES ASSUME NEW c \in Clients, FinUnderWay(c)'
                 PROVE  Len(rcvd[c]) = opt.n
      BY DEF FinMeansComplete
    <2>1. FinUnderWay(c)
      <3>1. CASE p = Server
        BY <3>1 DEF FinUnderWay
      <3>2. CASE p \in Clients
        BY <3>2 DEF FinUnderWay
      <3> QED
        BY <3>1, <3>2
    <2> QED
      BY <2>1 DEF FinMeansComplete
  <1> QED
    BY <1>1, <1>2, <1>3, <1>4

\* SendCb keeps the count of receives and what the FIN means.
LEMMA Counts_SendCb ==
    ASSUME Typed, Typed', CountInv, NEW p \in Procs, SendCb(p)
    PROVE  CountInv'
  <1> USE NamesAssumption, OptFields DEF Typed, TypeOK, SessionHasClient, SessionPcs,
     CountInv, SendCb, Peer, Procs, InDataLoop, DataLoops
  <1>1. WaitingIsFresh'
    BY DEF WaitingIsFresh
  <1>2. SessionCount'
    BY DEF SessionCount, WaitingIsFresh
  <1>3. FinWaitReceives'
    BY DEF FinWaitReceives
  <1>4. FinMeansComplete'
    BY DEF FinMeansComplete, FinUnderWay, SessionCount, FinWaitReceives
  <1> QED
    BY <1>1, <1>2, <1>3, <1>4

\* FetchCb keeps the count of receives and what the FIN means.
LEMMA Counts_FetchCb ==
    ASSUME Typed, Typed', CountInv, NEW p \in Procs, FetchCb(p)
    PROVE  CountInv'
  <1> USE NamesAssumption, OptFields DEF Typed, TypeOK, SessionHasClient, SessionPcs,
     CountInv, FetchCb, Peer, Procs, InDataLoop, Confirm, DataLoops
  <1>1. WaitingIsFresh'
    BY DEF WaitingIsFresh
  <1>2. SessionCount'
    BY DEF SessionCount, WaitingIsFresh
  <1>3. FinWaitReceives'
    BY DEF FinWaitReceives
  <1>4. FinMeansComplete'
    BY DEF FinMeansComplete, FinUnderWay, SessionCount, FinWaitReceives
  <1> QED
    BY <1>1, <1>2, <1>3, <1>4

\* RecvCb keeps the count of receives and what the FIN means.
LEMMA Counts_RecvCb ==
    ASSUME Typed, Typed', CountInv, NEW p \in Procs, RecvCb(p)
    PROVE  CountInv'
  <1> USE NamesAssumption, OptFields DEF Typed, TypeOK, SessionHasClient, SessionPcs,
     CountInv, RecvCb, Peer, Procs, InDataLoop, In, DataLoops
  <1>0. ReqAfterArrival(p)
    BY ReqAfter_RecvCb
  <1>1. WaitingIsFresh'
    BY DEF WaitingIsFresh
  <1>2. SessionCount'
    BY DEF SessionCount, WaitingIsFresh
  <1>3. FinWaitReceives'
    BY <1>0 DEF FinWaitReceives, ReqAfterArrival
  <1>4. FinMeansComplete'
    <2> SUFFICES ASSUME NEW c \in Clients, FinUnderWay(c)'
                 PROVE  Len(rcvd[c]) = opt.n
      BY DEF FinMeansComplete
    <2>1. In(p) # <<>>
      OBVIOUS
    <2>2. p \in Clients => FinUnderWay(p)
      BY <2>1 DEF FinUnderWay
    <2>3. ASSUME c # p
          PROVE  FinUnderWay(c)
      <3>1. net'[Server][c] = net[Server][c]
        BY <2>3
      <3>2. am_data_desc'[c] = am_data_desc[c] /\ unexp'[c] = unexp[c]
        BY <2>3
      <3>3. pc'[c] = "wait" /\ iter'[c] = opt'.n /\ req'[c] \in {"fetch", "ok"}
            => pc[c] = "wait" /\ iter[c] = opt.n /\ req[c] \in {"fetch", "ok"}
        BY <1>0, <2>3 DEF FinWaitReceives, ReqAfterArrival
      <3> QED
        BY <3>1, <3>2, <3>3 DEF FinUnderWay
    <2>4. CASE c = p
      <3>1. Len(rcvd[p]) = opt.n
        BY <2>2, <2>4 DEF FinMeansComplete
      <3> QED
        BY <3>1, <2>4
    <2>5. CASE c # p
      <3>1. Len(rcvd[c]) = opt.n
        BY <2>3, <2>5 DEF FinMeansComplete
      <3> QED
        BY <3>1
    <2> QED
      BY <2>4, <2>5
  <1> QED
    BY <1>1, <1>2, <1>3, <1>4

\* AmDropped keeps the count of receives and what the FIN means.
LEMMA Counts_AmDropped ==
    ASSUME Typed, Typed', CountInv, NEW p \in Procs, AmDropped(p)
    PROVE  CountInv'
  <1> USE NamesAssumption, OptFields DEF Typed, TypeOK, SessionHasClient, SessionPcs,
     CountInv, AmDropped, Peer, Procs, InDataLoop, In, DataLoops
  <1>0. ReqAfterArrival(p)
    BY ReqAfter_AmDropped
  <1>1. WaitingIsFresh'
    BY DEF WaitingIsFresh
  <1>2. SessionCount'
    BY DEF SessionCount, WaitingIsFresh
  <1>3. FinWaitReceives'
    BY <1>0 DEF FinWaitReceives, ReqAfterArrival
  <1>4. FinMeansComplete'
    <2> SUFFICES ASSUME NEW c \in Clients, FinUnderWay(c)'
                 PROVE  Len(rcvd[c]) = opt.n
      BY DEF FinMeansComplete
    <2>1. In(p) # <<>>
      OBVIOUS
    <2>2. p \in Clients => FinUnderWay(p)
      BY <2>1 DEF FinUnderWay
    <2>3. ASSUME c # p
          PROVE  FinUnderWay(c)
      <3>1. net'[Server][c] = net[Server][c]
        BY <2>3
      <3>2. am_data_desc'[c] = am_data_desc[c] /\ unexp'[c] = unexp[c]
        BY <2>3
      <3>3. pc'[c] = "wait" /\ iter'[c] = opt'.n /\ req'[c] \in {"fetch", "ok"}
            => pc[c] = "wait" /\ iter[c] = opt.n /\ req[c] \in {"fetch", "ok"}
        BY <1>0, <2>3 DEF FinWaitReceives, ReqAfterArrival
      <3> QED
        BY <3>1, <3>2, <3>3 DEF FinUnderWay
    <2>4. CASE c = p
      <3>1. Len(rcvd[p]) = opt.n
        BY <2>2, <2>4 DEF FinMeansComplete
      <3> QED
        BY <3>1, <2>4
    <2>5. CASE c # p
      <3>1. Len(rcvd[c]) = opt.n
        BY <2>3, <2>5 DEF FinMeansComplete
      <3> QED
        BY <3>1
    <2> QED
      BY <2>4, <2>5
  <1> QED
    BY <1>1, <1>2, <1>3, <1>4

\* ucp_am_data_cb keeps the count of receives and what the FIN means.
LEMMA Counts_ucp_am_data_cb ==
    ASSUME Typed, Typed', CountInv, NEW p \in Procs, ucp_am_data_cb(p)
    PROVE  CountInv'
  <1> USE NamesAssumption, OptFields DEF Typed, TypeOK, SessionHasClient, SessionPcs,
     CountInv, ucp_am_data_cb, AmDispatched, Peer, Procs, InDataLoop, In, DataLoops
  <1>0. ReqAfterArrival(p)
    BY ReqAfter_ucp_am_data_cb
  <1>1. WaitingIsFresh'
    BY DEF WaitingIsFresh
  <1>2. SessionCount'
    BY DEF SessionCount, WaitingIsFresh
  <1>3. FinWaitReceives'
    BY <1>0 DEF FinWaitReceives, ReqAfterArrival
  <1>4. FinMeansComplete'
    <2> SUFFICES ASSUME NEW c \in Clients, FinUnderWay(c)'
                 PROVE  Len(rcvd[c]) = opt.n
      BY DEF FinMeansComplete
    <2>1. In(p) # <<>>
      OBVIOUS
    <2>2. p \in Clients => FinUnderWay(p)
      BY <2>1 DEF FinUnderWay
    <2>3. ASSUME c # p
          PROVE  FinUnderWay(c)
      <3>1. net'[Server][c] = net[Server][c]
        BY <2>3
      <3>2. am_data_desc'[c] = am_data_desc[c] /\ unexp'[c] = unexp[c]
        BY <2>3
      <3>3. pc'[c] = "wait" /\ iter'[c] = opt'.n /\ req'[c] \in {"fetch", "ok"}
            => pc[c] = "wait" /\ iter[c] = opt.n /\ req[c] \in {"fetch", "ok"}
        BY <1>0, <2>3 DEF FinWaitReceives, ReqAfterArrival
      <3> QED
        BY <3>1, <3>2, <3>3 DEF FinUnderWay
    <2>4. CASE c = p
      <3>1. Len(rcvd[p]) = opt.n
        BY <2>2, <2>4 DEF FinMeansComplete
      <3> QED
        BY <3>1, <2>4
    <2>5. CASE c # p
      <3>1. Len(rcvd[c]) = opt.n
        BY <2>3, <2>5 DEF FinMeansComplete
      <3> QED
        BY <3>1
    <2> QED
      BY <2>4, <2>5
  <1> QED
    BY <1>1, <1>2, <1>3, <1>4

\* err_cb keeps the count of receives and what the FIN means.
LEMMA Counts_err_cb ==
    ASSUME Typed, Typed', CountInv, NEW p \in Procs, err_cb(p)
    PROVE  CountInv'
  <1> USE NamesAssumption, OptFields DEF Typed, TypeOK, SessionHasClient, SessionPcs,
     CountInv, err_cb, Peer, Procs, InDataLoop, FailedReq, DataLoops
  <1>1. WaitingIsFresh'
    BY DEF WaitingIsFresh
  <1>2. SessionCount'
    BY DEF SessionCount, WaitingIsFresh
  <1>3. FinWaitReceives'
    BY DEF FinWaitReceives
  <1>4. FinMeansComplete'
    <2> SUFFICES ASSUME NEW c \in Clients, FinUnderWay(c)'
                 PROVE  Len(rcvd[c]) = opt.n
      BY DEF FinMeansComplete
    <2>1. FinUnderWay(c)
      <3>1. CASE p = Server
        BY <3>1 DEF FinUnderWay
      <3>2. CASE p \in Clients
        BY <3>2 DEF FinUnderWay, FinWaitReceives
      <3> QED
        BY <3>1, <3>2
    <2> QED
      BY <2>1 DEF FinMeansComplete
  <1> QED
    BY <1>1, <1>2, <1>3, <1>4

\* Progress keeps the count of receives and what the FIN means.
LEMMA Counts_Progress ==
    ASSUME Typed, Typed', CountInv, NEW p \in Procs, Progress(p)
    PROVE  CountInv'
  <1> USE NamesAssumption, OptFields DEF Typed, TypeOK, SessionHasClient, SessionPcs,
     CountInv, Progress, Peer, Procs, LoopDone
  <1>1. WaitingIsFresh'
    BY DEF WaitingIsFresh
  <1>2. SessionCount'
    BY DEF SessionCount, WaitingIsFresh
  <1>3. FinWaitReceives'
    BY DEF FinWaitReceives
  <1>4. FinMeansComplete'
    BY DEF FinMeansComplete, FinUnderWay, SessionCount, FinWaitReceives
  <1> QED
    BY <1>1, <1>2, <1>3, <1>4

\* The death of a process keeps the count of receives and what the FIN means.
LEMMA Counts_Die ==
    ASSUME Typed, Typed', CountInv, NEW p \in Procs, Die(p)
    PROVE  CountInv'
  <1> USE NamesAssumption, OptFields DEF Typed, TypeOK, SessionHasClient, SessionPcs,
     CountInv, Die, Peer, Procs
  <1>1. WaitingIsFresh'
    BY DEF WaitingIsFresh
  <1>2. SessionCount'
    BY DEF SessionCount, WaitingIsFresh
  <1>3. FinWaitReceives'
    BY DEF FinWaitReceives
  <1>4. FinMeansComplete'
    BY DEF FinMeansComplete, FinUnderWay, SessionCount, FinWaitReceives
  <1> QED
    BY <1>1, <1>2, <1>3, <1>4

\* StartClient keeps the count of receives and what the FIN means.
LEMMA Counts_StartClient ==
    ASSUME Typed, Typed', CountInv, NEW c0 \in Clients, StartClient(c0)
    PROVE  CountInv'
  <1> USE NamesAssumption, OptFields DEF Typed, TypeOK, SessionHasClient, SessionPcs,
     CountInv, StartClient, Peer, Procs, AfterIter
  <1>1. WaitingIsFresh'
    BY DEF WaitingIsFresh
  <1>2. SessionCount'
    BY DEF SessionCount, WaitingIsFresh
  <1>3. FinWaitReceives'
    BY DEF FinWaitReceives
  <1>4. FinMeansComplete'
    BY DEF FinMeansComplete, FinUnderWay, SessionCount, FinWaitReceives
  <1> QED
    BY <1>1, <1>2, <1>3, <1>4

\* StartClientFails keeps the count of receives and what the FIN means.
LEMMA Counts_StartClientFails ==
    ASSUME Typed, Typed', CountInv, NEW c0 \in Clients, StartClientFails(c0)
    PROVE  CountInv'
  <1> USE NamesAssumption, OptFields DEF Typed, TypeOK, SessionHasClient, SessionPcs,
     CountInv, StartClientFails, Peer, Procs
  <1>1. WaitingIsFresh'
    BY DEF WaitingIsFresh
  <1>2. SessionCount'
    BY DEF SessionCount, WaitingIsFresh
  <1>3. FinWaitReceives'
    BY DEF FinWaitReceives
  <1>4. FinMeansComplete'
    BY DEF FinMeansComplete, FinUnderWay, SessionCount, FinWaitReceives
  <1> QED
    BY <1>1, <1>2, <1>3, <1>4

\* RegisterFinHandler keeps the count of receives and what the FIN means.
LEMMA Counts_RegisterFinHandler ==
    ASSUME Typed, Typed', CountInv, NEW c0 \in Clients, RegisterFinHandler(c0)
    PROVE  CountInv'
  <1> USE NamesAssumption, OptFields DEF Typed, TypeOK, SessionHasClient, SessionPcs,
     CountInv, RegisterFinHandler, Peer, Procs
  <1>1. WaitingIsFresh'
    BY DEF WaitingIsFresh
  <1>2. SessionCount'
    BY DEF SessionCount, WaitingIsFresh
  <1>3. FinWaitReceives'
    BY DEF FinWaitReceives
  <1>4. FinMeansComplete'
    <2> SUFFICES ASSUME NEW c \in Clients, FinUnderWay(c)'
                 PROVE  Len(rcvd[c]) = opt.n
      BY DEF FinMeansComplete
    <2>1. FinUnderWay(c)
      BY DEF FinUnderWay
    <2> QED
      BY <2>1 DEF FinMeansComplete
  <1> QED
    BY <1>1, <1>2, <1>3, <1>4

\* CloseClient keeps the count of receives and what the FIN means.
LEMMA Counts_CloseClient ==
    ASSUME Typed, Typed', CountInv, NEW c0 \in Clients, CloseClient(c0)
    PROVE  CountInv'
  <1> USE NamesAssumption, OptFields DEF Typed, TypeOK, SessionHasClient, SessionPcs,
     CountInv, CloseClient, Peer, Procs
  <1>1. WaitingIsFresh'
    BY DEF WaitingIsFresh
  <1>2. SessionCount'
    BY DEF SessionCount, WaitingIsFresh
  <1>3. FinWaitReceives'
    BY DEF FinWaitReceives
  <1>4. FinMeansComplete'
    BY DEF FinMeansComplete, FinUnderWay, SessionCount, FinWaitReceives
  <1> QED
    BY <1>1, <1>2, <1>3, <1>4

\* server_conn_handle_cb keeps the count of receives and what the FIN means.
LEMMA Counts_server_conn_handle_cb ==
    ASSUME Typed, Typed', CountInv, NEW c0 \in Clients, server_conn_handle_cb(c0)
    PROVE  CountInv'
  <1> USE NamesAssumption, OptFields DEF Typed, TypeOK, SessionHasClient, SessionPcs,
     CountInv, server_conn_handle_cb, Peer, Procs
  <1>1. WaitingIsFresh'
    BY DEF WaitingIsFresh
  <1>2. SessionCount'
    BY DEF SessionCount, WaitingIsFresh
  <1>3. FinWaitReceives'
    BY DEF FinWaitReceives
  <1>4. FinMeansComplete'
    BY DEF FinMeansComplete, FinUnderWay, SessionCount, FinWaitReceives
  <1> QED
    BY <1>1, <1>2, <1>3, <1>4

\* StartServer keeps the count of receives and what the FIN means.
LEMMA Counts_StartServer ==
    ASSUME Typed, Typed', CountInv, StartServer
    PROVE  CountInv'
  <1> USE NamesAssumption, OptFields DEF Typed, TypeOK, SessionHasClient, SessionPcs,
     CountInv, StartServer, Peer, Procs
  <1>1. WaitingIsFresh'
    BY DEF WaitingIsFresh
  <1>2. SessionCount'
    BY DEF SessionCount, WaitingIsFresh
  <1>3. FinWaitReceives'
    BY DEF FinWaitReceives
  <1>4. FinMeansComplete'
    BY DEF FinMeansComplete, FinUnderWay, SessionCount, FinWaitReceives
  <1> QED
    BY <1>1, <1>2, <1>3, <1>4

\* ServerSetupFails keeps the count of receives and what the FIN means.
LEMMA Counts_ServerSetupFails ==
    ASSUME Typed, Typed', CountInv, ServerSetupFails
    PROVE  CountInv'
  <1> USE NamesAssumption, OptFields DEF Typed, TypeOK, SessionHasClient, SessionPcs,
     CountInv, ServerSetupFails, Peer, Procs, LoopDone
  <1>1. WaitingIsFresh'
    BY DEF WaitingIsFresh
  <1>2. SessionCount'
    BY DEF SessionCount, WaitingIsFresh
  <1>3. FinWaitReceives'
    BY DEF FinWaitReceives
  <1>4. FinMeansComplete'
    BY DEF FinMeansComplete, FinUnderWay, SessionCount, FinWaitReceives
  <1> QED
    BY <1>1, <1>2, <1>3, <1>4

\* CreateEp keeps the count of receives and what the FIN means.
LEMMA Counts_CreateEp ==
    ASSUME Typed, Typed', CountInv, CreateEp
    PROVE  CountInv'
  <1> USE NamesAssumption, OptFields DEF Typed, TypeOK, SessionHasClient, SessionPcs,
     CountInv, CreateEp, Peer, Procs, AfterIter, LoopDone
  <1>1. WaitingIsFresh'
    BY DEF WaitingIsFresh
  <1>2. SessionCount'
    BY DEF SessionCount, WaitingIsFresh
  <1>3. FinWaitReceives'
    BY DEF FinWaitReceives
  <1>4. FinMeansComplete'
    BY DEF FinMeansComplete, FinUnderWay, SessionCount, FinWaitReceives
  <1> QED
    BY <1>1, <1>2, <1>3, <1>4

\* Drained keeps the count of receives and what the FIN means.
LEMMA Counts_Drained ==
    ASSUME Typed, Typed', CountInv, Drained
    PROVE  CountInv'
  <1> USE NamesAssumption, OptFields DEF Typed, TypeOK, SessionHasClient, SessionPcs,
     CountInv, Drained, Peer, Procs, LoopDone
  <1>1. WaitingIsFresh'
    BY DEF WaitingIsFresh
  <1>2. SessionCount'
    BY DEF SessionCount, WaitingIsFresh
  <1>3. FinWaitReceives'
    BY DEF FinWaitReceives
  <1>4. FinMeansComplete'
    BY DEF FinMeansComplete, FinUnderWay, SessionCount, FinWaitReceives
  <1> QED
    BY <1>1, <1>2, <1>3, <1>4

\* NextClient keeps the count of receives and what the FIN means.
LEMMA Counts_NextClient ==
    ASSUME Typed, Typed', CountInv, NextClient
    PROVE  CountInv'
  <1> USE NamesAssumption, OptFields DEF Typed, TypeOK, SessionHasClient, SessionPcs,
     CountInv, NextClient, Peer, Procs, CloseServerEp
  <1>1. WaitingIsFresh'
    BY DEF WaitingIsFresh
  <1>2. SessionCount'
    BY DEF SessionCount, WaitingIsFresh
  <1>3. FinWaitReceives'
    BY DEF FinWaitReceives
  <1>4. FinMeansComplete'
    BY DEF FinMeansComplete, FinUnderWay, SessionCount, FinWaitReceives
  <1> QED
    BY <1>1, <1>2, <1>3, <1>4

\* ServerExit keeps the count of receives and what the FIN means.
LEMMA Counts_ServerExit ==
    ASSUME Typed, Typed', CountInv, ServerExit
    PROVE  CountInv'
  <1> USE NamesAssumption, OptFields DEF Typed, TypeOK, SessionHasClient, SessionPcs,
     CountInv, ServerExit, Peer, Procs, CloseServerEp
  <1>1. WaitingIsFresh'
    BY DEF WaitingIsFresh
  <1>2. SessionCount'
    BY DEF SessionCount, WaitingIsFresh
  <1>3. FinWaitReceives'
    BY DEF FinWaitReceives
  <1>4. FinMeansComplete'
    BY DEF FinMeansComplete, FinUnderWay, SessionCount, FinWaitReceives
  <1> QED
    BY <1>1, <1>2, <1>3, <1>4

\* Every step keeps them.
LEMMA CountsNext ==
    ASSUME Typed, Typed', CountInv, [Next]_vars
    PROVE  CountInv'
  <1>1. ASSUME NEW p \in Procs, Communicate(p)
        PROVE  CountInv'
    BY <1>1, Counts_AllocFails, Counts_Send, Counts_Recv, Counts_AmRecv,
       Counts_AmArrived, Counts_FinalizeError, Counts_FinalizeData, Counts_FinalizeFin
       DEF Communicate
  <1>2. ASSUME NEW p \in Procs, Callback(p)
        PROVE  CountInv'
    BY <1>2, Counts_SendCb, Counts_FetchCb, Counts_RecvCb, Counts_AmDropped,
       Counts_ucp_am_data_cb, Counts_err_cb, Counts_Die DEF Callback, AmCopyFaults
  <1>3. CASE ServerStep
    BY <1>1, <1>2, <1>3, Counts_StartServer, Counts_ServerSetupFails, Counts_CreateEp,
       Counts_Drained, Counts_NextClient, Counts_ServerExit,
       Counts_server_conn_handle_cb, Counts_Progress DEF ServerStep, Procs
  <1>4. ASSUME NEW c \in Clients, ClientStep(c)
        PROVE  CountInv'
    BY <1>1, <1>2, <1>4, Counts_StartClient, Counts_StartClientFails,
       Counts_RegisterFinHandler, Counts_CloseClient, Counts_Progress DEF ClientStep,
       Procs
  <1>5. CASE UNCHANGED vars
    BY <1>5 DEF vars, CountInv, WaitingIsFresh, SessionCount, FinWaitReceives,
       FinMeansComplete, FinUnderWay
  <1> QED
    BY <1>3, <1>4, <1>5, Counts_Die DEF Next, Idle, Crash

\* They hold initially.
LEMMA CountsInit == Init => CountInv
  <1> SUFFICES ASSUME Init PROVE CountInv
    OBVIOUS
  <1>1. WaitingIsFresh /\ SessionCount /\ FinWaitReceives
    BY NamesAssumption DEF Init, WaitingIsFresh, SessionCount, FinWaitReceives, Procs
  <1>2. FinMeansComplete
    BY NamesAssumption DEF Init, FinMeansComplete, FinUnderWay, Procs
  <1> QED
    BY <1>1, <1>2 DEF CountInv

\* IndInv is an inductive invariant of the two programs: the server's receives
\* are counted by its loop variable, and no trace of a FIN exists before the
\* last of them.
THEOREM Inductive == Spec => []IndInv
  <1>1. Init => Typed /\ CountInv
    BY TypedInit, CountsInit
  <1>2. (Typed /\ CountInv) /\ [Next]_vars => (Typed /\ CountInv)'
    BY TypedNext, CountsNext
  <1>3. Typed /\ CountInv => IndInv
    BY DEF Typed, CountInv, IndInv
  <1> QED
    BY <1>1, <1>2, <1>3, PTL DEF Spec

\* FIN acknowledges delivery (client_server_do_work): a client whose run_client
\* returns 0 was served for all num_iterations receives, for every number of
\* clients and iterations, with every API and whatever fails.
THEOREM FinAcks == Spec => []FinAcksDelivery
  <1>1. IndInv => FinAcksDelivery
    BY DEF IndInv, FinMeansComplete, FinUnderWay, FinAcksDelivery
  <1> QED
    BY Inductive, <1>1, PTL

================================================================================
