---------------------------- MODULE UcpClientServer ----------------------------
(***************************************************************************)
(* The UCP client/server demo                                              *)
(* (src/03_ucp_am_stream_tag_client_server/ucp_client_server.c).           *)
(*                                                                         *)
(* One server process and a set of client processes, each single-threaded. *)
(* A client connects, sends num_iterations messages with one of three APIs *)
(* (stream, tag matching, active messages) and waits for a FIN in the      *)
(* reverse direction; the server serves one client at a time.              *)
(*                                                                         *)
(* The UCX library runs callbacks only while a process is inside           *)
(* ucp_worker_progress().  prog[p] says that p is inside such a call; one  *)
(* call may run any number of callbacks, and a loop around it is left only *)
(* when the call has returned and the loop's condition is tested.  Inside  *)
(* ep_close the two need not be told apart.                                *)
(* The library itself is external: its part is modelled from the way the   *)
(* demo uses it.                                                           *)
(***************************************************************************)
EXTENDS Integers, Sequences, FiniteSets

CONSTANTS
    Clients,    \* the client processes
    Server,     \* the server process
    NoClient,   \* context.conn_request = NULL
    Apis,       \* values of -c that are explored
    Protocols,  \* protocols UCX may pick for the message size
    Iters,      \* values of -i that are explored
    OddSize,    \* clients that may be started with another -s than the server
    Faults      \* what may go wrong outside the demo

FaultKinds == {"alloc", "post", "setup", "link", "crash"}

ASSUME NamesAssumption == Server \notin Clients /\ NoClient \notin Clients \cup {Server}
ASSUME ApisAssumption == Apis \subseteq {"stream", "tag", "am"}
ASSUME ProtocolsAssumption == Protocols \subseteq {"eager", "rndv"}
ASSUME ItersAssumption == Iters \subseteq Nat
ASSUME OddSizeAssumption == OddSize \subseteq Clients
ASSUME FaultsAssumption == Faults \subseteq FaultKinds

VARIABLES
    opt,                \* the command lines: API, num_iterations, the clients
                        \* with another message size; UCX's protocol for it
    pc,                 \* where each process is
    iter,               \* the loop variable i of client_server_do_work
    prog,               \* inside ucp_worker_progress
    req,                \* the outstanding request (and its ctx.complete)
    buf,                \* the message in the buffer of the current receive
    am_data_desc,       \* the global AM descriptor of each process
    handler,            \* ucp_am_data_cb is registered
    connection_closed,  \* the global set by err_cb
    ret,                \* result of run_client / run_server
    ep,                 \* ep[p][q]: p's endpoint to q
    net,                \* net[p][q]: messages in flight from p to q, in order
    unexp,              \* messages that arrived before a receive was posted
    conn_request,       \* the server's context.conn_request
    backlog,            \* connection requests not yet given to the callback
    rcvd                \* history: what the server received in each session

vars == <<opt, pc, iter, prog, req, buf, am_data_desc, handler,
          connection_closed, ret, ep, net, unexp, conn_request, backlog, rcvd>>

Procs == Clients \cup {Server}

\* The command lines.  Clients with another -s than the server are explored with
\* the active messages only: no other receive looks at the length.
Options == {o \in [api : Apis, rndv : {pr = "rndv" : pr \in Protocols}, n : Iters,
                   odd : SUBSET OddSize] :
              (o.api = "stream" => ~o.rndv) /\ (o.api # "am" => o.odd = {})}

(***************************************************************************)
(* A message is identified by its sender and the current_iter argument of  *)
(* the send: the payload is the same test string every time.               *)
(***************************************************************************)
NoMsg == [from |-> NoClient, id |-> 0]
Message == [from : Procs \cup {NoClient}, id : Nat]

RecvBuf == {"null", "live", "freed"}
AmDesc == [complete : BOOLEAN, is_rndv : BOOLEAN, desc : Message, recv_buf : RecvBuf]
EpStates == {"none", "open", "failed", "closed", "rejected"}

\* "none" no request; "send" posted; "sent" and "nak" posted, and the peer has
\* taken or refused the message; "recv" waits for a message; "fetch" pulls
\* rendezvous data; "ok" and "err": ctx.complete is 1, or the posting call
\* returned at once.
ReqStates == {"none", "send", "sent", "nak", "recv", "fetch", "ok", "err"}
PcStates == {"init", "accept", "start", "comm", "wait", "amwait", "reg",
             "drain", "close", "done", "exit", "dead"}

TypeOK ==
    /\ opt \in Options
    /\ pc \in [Procs -> PcStates]
    /\ iter \in [Procs -> Nat]
    /\ prog \in [Procs -> BOOLEAN]
    /\ req \in [Procs -> ReqStates]
    /\ buf \in [Procs -> Message]
    /\ am_data_desc \in [Procs -> AmDesc]
    /\ handler \in [Procs -> BOOLEAN]
    /\ connection_closed \in [Procs -> BOOLEAN]
    /\ ret \in [Procs -> {"none", "ok", "err"}]
    /\ ep \in [Procs -> [Procs -> EpStates]]
    /\ net \in [Procs -> [Procs -> Seq(Message)]]
    /\ unexp \in [Procs -> Seq(Message)]
    /\ conn_request \in Clients \cup {NoClient}
    /\ backlog \in SUBSET Clients
    /\ rcvd \in [Clients -> Seq(Message)]

Init ==
    /\ opt \in Options
    /\ pc = [p \in Procs |-> IF p = Server THEN "init" ELSE "start"]
    /\ iter = [p \in Procs |-> 0]
    /\ prog = [p \in Procs |-> FALSE]
    /\ req = [p \in Procs |-> "none"]
    /\ buf = [p \in Procs |-> NoMsg]
    /\ am_data_desc = [p \in Procs |->
          [complete |-> FALSE, is_rndv |-> FALSE, desc |-> NoMsg, recv_buf |-> "null"]]
    /\ handler = [p \in Procs |-> FALSE]
    /\ connection_closed = [p \in Procs |-> TRUE]
    /\ ret = [p \in Procs |-> "none"]
    /\ ep = [p \in Procs |-> [q \in Procs |-> "none"]]
    /\ net = [p \in Procs |-> [q \in Procs |-> <<>>]]
    /\ unexp = [p \in Procs |-> <<>>]
    /\ conn_request = NoClient
    /\ backlog = {}
    /\ rcvd = [c \in Clients |-> <<>>]

--------------------------------------------------------------------------------
(***************************************************************************)
(* Roles.  The data phase runs client to server; the FIN swaps the roles   *)
(* (the call with !is_server and i + 1).                                   *)
(***************************************************************************)
Peer(p) == IF p = Server THEN conn_request ELSE Server

\* Mutant: the data loop ends one iteration early.
InFinEarly(p) == iter[p] + 1 >= opt.n
InFin(p) == iter[p] = opt.n
Receiver(p) == (p = Server) # InFin(p)

\* Mutant: the iterations of the data loop are counted from -1.
CurrentMsgShifted(p) == [from |-> p, id |-> iter[p] - 1]
CurrentMsg(p) == [from |-> p, id |-> IF InFin(p) THEN opt.n + 1 ELSE iter[p]]
In(p) == net[Peer(p)][p]

\* Where client_server_do_work goes with i = k: the next message, or the
\* client's handler registration on the way to the FIN.
AfterIter(p, k) ==
    IF k = opt.n /\ p # Server /\ opt.api = "am" THEN "reg" ELSE "comm"

\* register_am_recv_callback.
Registered(p) == [handler EXCEPT ![p] = TRUE]

\* The data worker is in ucp_worker_progress: in one of the demo's own loops, or
\* in ep_close's, which runs any number of calls until UCX has completed the
\* close request (its end is CloseClient, NextClient or ServerExit).
DataLoops == {"wait", "amwait", "drain"}
InDataLoop(p) == (prog[p] /\ pc[p] \in DataLoops) \/ pc[p] = "close"

\* The connection between p and its peer is established on both sides.
Connected(p) == ep[p][Peer(p)] = "open" /\ ep[Peer(p)][p] = "open"

\* The server no longer listens, or never did.
ServerGone == pc[Server] \in {"exit", "dead"}

\* The peer's endpoint is gone, or the connection request was refused.
PeerGone(p) ==
    \/ ep[Peer(p)][p] \in {"failed", "closed", "rejected"}
    \/ /\ p # Server
       /\ ep[Server][p] = "none"
       /\ ServerGone \/ (p \notin backlog /\ p # conn_request)

\* The condition each loop around ucp_worker_progress waits for.
LoopDone(p) ==
    \/ pc[p] = "wait" /\ req[p] \in {"ok", "err"}
    \/ pc[p] = "amwait" /\ am_data_desc[p].complete
    \/ pc[p] = "drain" /\ connection_closed[p]
    \/ pc[p] = "accept" /\ conn_request # NoClient

\* The process enters ucp_worker_progress from one of its loops.
Progress(p) ==
    /\ pc[p] \in DataLoops \cup {"accept"}
    /\ ~prog[p]
    /\ ~LoopDone(p)
    /\ prog' = [prog EXCEPT ![p] = TRUE]
    /\ UNCHANGED <<opt, pc, iter, req, buf, am_data_desc, handler,
                   connection_closed, ret, ep, net, unexp, conn_request, backlog, rcvd>>

--------------------------------------------------------------------------------
(***************************************************************************)
(* One client_server_communication call: post, wait, finalize.             *)
(***************************************************************************)

\* fill_request_param fails: no buffer, the call returns -1.
AllocFails(p) ==
    /\ "alloc" \in Faults
    /\ pc[p] = "comm"
    /\ ret' = [ret EXCEPT ![p] = "err"]
    /\ pc' = [pc EXCEPT ![p] = "close"]
    /\ UNCHANGED <<opt, iter, prog, req, buf, am_data_desc, handler,
                   connection_closed, ep, net, unexp, conn_request, backlog, rcvd>>

\* What a send may return at once: an error on a failed endpoint, completion
\* for an eager message on an established connection, else a request.
SendResults(p) ==
    IF ep[p][Peer(p)] # "open" THEN {"err"}
    ELSE {"send"} \cup (IF ~opt.rndv /\ Connected(p) THEN {"ok"} ELSE {})
                  \cup (IF "post" \in Faults THEN {"err"} ELSE {})

\* The sending branch of send_recv_stream, send_recv_tag and send_recv_am.
Send(p) ==
    /\ pc[p] = "comm"
    /\ ~Receiver(p)
    /\ \E r \in SendResults(p) :
         /\ req' = [req EXCEPT ![p] = r]
         /\ net' = IF r = "err" THEN net
                   ELSE [net EXCEPT ![p][Peer(p)] = Append(@, CurrentMsg(p))]
    /\ pc' = [pc EXCEPT ![p] = "wait"]
    /\ UNCHANGED <<opt, iter, prog, buf, am_data_desc, handler,
                   connection_closed, ret, ep, unexp, conn_request, backlog, rcvd>>

\* What a stream or tag receive may return at once.  A stream receive is
\* posted on the endpoint, a tag receive on the worker with mask 0: it takes
\* any message that arrived, whatever became of the endpoint, but rendezvous
\* data cannot be pulled over a failed one.
RecvResults(p) ==
    (IF "post" \in Faults THEN {"err"} ELSE {}) \cup
    (IF ep[p][Peer(p)] # "open" /\ (opt.api = "stream" \/ (opt.rndv /\ unexp[p] # <<>>))
       THEN {"err"}
     ELSE IF unexp[p] = <<>> THEN {"recv"}
     ELSE IF opt.rndv THEN {"fetch"} ELSE {"ok"})

\* The receiving branch of send_recv_stream and send_recv_tag.
Recv(p) ==
    /\ pc[p] = "comm"
    /\ Receiver(p)
    /\ opt.api # "am"
    /\ \E r \in RecvResults(p) :
         /\ req' = [req EXCEPT ![p] = r]
         /\ IF r \in {"fetch", "ok"}
              THEN /\ buf' = [buf EXCEPT ![p] = Head(unexp[p])]
                   /\ unexp' = [unexp EXCEPT ![p] = Tail(@)]
              ELSE UNCHANGED <<buf, unexp>>
    /\ pc' = [pc EXCEPT ![p] = "wait"]
    /\ UNCHANGED <<opt, iter, prog, am_data_desc, handler,
                   connection_closed, ret, ep, net, conn_request, backlog, rcvd>>

\* The receiving branch of send_recv_am, up to its loop.
AmRecv(p) ==
    /\ pc[p] = "comm"
    /\ Receiver(p)
    /\ opt.api = "am"
    /\ am_data_desc' = [am_data_desc EXCEPT ![p].recv_buf = "live"]
    /\ pc' = [pc EXCEPT ![p] = "amwait"]
    /\ UNCHANGED <<opt, iter, prog, req, buf, handler, connection_closed,
                   ret, ep, net, unexp, conn_request, backlog, rcvd>>

\* am_data_desc.complete = 0 after the loop.
Taken(d) == [d EXCEPT !.complete = FALSE]

\* The loop is left: rendezvous data is pulled with ucp_am_recv_data_nbx,
\* eager data is in place already (request = NULL).
AmArrived(p) ==
    /\ pc[p] = "amwait"
    /\ LoopDone(p)
    /\ am_data_desc' = [am_data_desc EXCEPT ![p] = Taken(@)]
    /\ IF am_data_desc[p].is_rndv
         THEN /\ buf' = [buf EXCEPT ![p] = am_data_desc[p].desc]
              /\ \/ /\ ep[p][Peer(p)] = "open"
                    /\ req' = [req EXCEPT ![p] = "fetch"]
                 \/ /\ ep[p][Peer(p)] # "open" \/ "post" \in Faults
                    /\ req' = [req EXCEPT ![p] = "err"]
         ELSE /\ req' = [req EXCEPT ![p] = "ok"]
              /\ UNCHANGED buf
    /\ pc' = [pc EXCEPT ![p] = "wait"]
    /\ prog' = [prog EXCEPT ![p] = FALSE]
    /\ UNCHANGED <<opt, iter, handler, connection_closed, ret, ep, net,
                   unexp, conn_request, backlog, rcvd>>

\* buffer_free at the end of request_finalize leaves recv_buf pointing to it.
FreeIov(p) ==
    [am_data_desc EXCEPT ![p].recv_buf = IF @ = "live" THEN "freed" ELSE @]

\* request_finalize after a failed request: do_work returns -1 and the
\* caller closes the endpoint.
FinalizeError(p) ==
    /\ pc[p] = "wait"
    /\ req[p] = "err"
    /\ req' = [req EXCEPT ![p] = "none"]
    /\ prog' = [prog EXCEPT ![p] = FALSE]
    /\ am_data_desc' = FreeIov(p)
    /\ buf' = [buf EXCEPT ![p] = NoMsg]
    /\ ret' = [ret EXCEPT ![p] = "err"]
    /\ pc' = [pc EXCEPT ![p] = "close"]
    /\ UNCHANGED <<opt, iter, handler, connection_closed, ep, net,
                   unexp, conn_request, backlog, rcvd>>

\* request_finalize after an iteration of the data loop.
FinalizeData(p) ==
    /\ pc[p] = "wait"
    /\ req[p] = "ok"
    /\ ~InFin(p)
    /\ req' = [req EXCEPT ![p] = "none"]
    /\ prog' = [prog EXCEPT ![p] = FALSE]
    /\ am_data_desc' = FreeIov(p)
    /\ buf' = [buf EXCEPT ![p] = NoMsg]
    /\ rcvd' = IF p = Server
                 THEN [rcvd EXCEPT ![conn_request] = Append(@, buf[p])] ELSE rcvd
    /\ iter' = [iter EXCEPT ![p] = @ + 1]
    /\ pc' = [pc EXCEPT ![p] = AfterIter(p, iter[p] + 1)]
    /\ UNCHANGED <<opt, handler, connection_closed, ret, ep, net,
                   unexp, conn_request, backlog>>

\* request_finalize after the FIN: the server goes on to wait for the client
\* to close, the client returns.
FinalizeFin(p) ==
    /\ pc[p] = "wait"
    /\ req[p] = "ok"
    /\ InFin(p)
    /\ req' = [req EXCEPT ![p] = "none"]
    /\ prog' = [prog EXCEPT ![p] = FALSE]
    /\ am_data_desc' = FreeIov(p)
    /\ buf' = [buf EXCEPT ![p] = NoMsg]
    /\ IF p = Server
         THEN /\ pc' = [pc EXCEPT ![p] = "drain"]
              /\ UNCHANGED ret
         ELSE /\ pc' = [pc EXCEPT ![p] = "close"]
              /\ ret' = [ret EXCEPT ![p] = "ok"]
    /\ UNCHANGED <<opt, iter, handler, connection_closed, ep, net,
                   unexp, conn_request, backlog, rcvd>>

--------------------------------------------------------------------------------
(***************************************************************************)
(* What UCX runs inside ucp_worker_progress on the data worker.            *)
(***************************************************************************)

\* send_cb: an eager message is out, or the peer has answered.
SendCb(p) ==
    /\ InDataLoop(p)
    /\ \/ /\ req[p] = "send"
          /\ ~opt.rndv
          /\ Connected(p)
          /\ req' = [req EXCEPT ![p] = "ok"]
       \/ /\ req[p] = "sent"
          /\ req' = [req EXCEPT ![p] = "ok"]
       \/ /\ req[p] = "nak"
          /\ req' = [req EXCEPT ![p] = "err"]
    /\ UNCHANGED <<opt, pc, iter, prog, buf, am_data_desc, handler,
                   connection_closed, ret, ep, net, unexp, conn_request, backlog, rcvd>>

\* p has taken message m: its sender's request, if it is still outstanding,
\* will complete with that status even if the connection breaks next.
Confirm(r, p, m, status) ==
    [r EXCEPT ![Peer(p)] = IF @ = "send" /\ m = CurrentMsg(Peer(p)) THEN status ELSE @]

\* tag_recv_cb / am_recv_cb: the rendezvous data has been pulled.
FetchCb(p) ==
    /\ InDataLoop(p)
    /\ req[p] = "fetch"
    /\ Connected(p)
    /\ req' = Confirm([req EXCEPT ![p] = "ok"], p, buf[p], "sent")
    /\ UNCHANGED <<opt, pc, iter, prog, buf, am_data_desc, handler,
                   connection_closed, ret, ep, net, unexp, conn_request, backlog, rcvd>>

\* A stream or tag message arrives: it matches the posted receive
\* (stream_recv_cb, tag_recv_cb) or is kept as unexpected.
RecvCb(p) ==
    /\ InDataLoop(p)
    /\ opt.api # "am"
    /\ ep[p][Peer(p)] = "open"
    /\ In(p) # <<>>
    /\ net' = [net EXCEPT ![Peer(p)][p] = Tail(@)]
    /\ IF req[p] = "recv"
         THEN /\ buf' = [buf EXCEPT ![p] = Head(In(p))]
              /\ req' = IF opt.rndv
                          THEN [req EXCEPT ![p] = "fetch"]
                          ELSE Confirm([req EXCEPT ![p] = "ok"], p, Head(In(p)), "sent")
              /\ UNCHANGED unexp
         ELSE /\ unexp' = [unexp EXCEPT ![p] = Append(@, Head(In(p)))]
              /\ req' = IF opt.rndv THEN req ELSE Confirm(req, p, Head(In(p)), "sent")
              /\ UNCHANGED buf
    /\ UNCHANGED <<opt, pc, iter, prog, am_data_desc, handler,
                   connection_closed, ret, ep, conn_request, backlog, rcvd>>

\* length != iov_cnt * test_string_length (mutant: the test is missing)
WrongLengthUnchecked(p) == FALSE
WrongLength(p) == (IF p = Server THEN conn_request ELSE p) \in opt.odd

\* An active message arrives at a process with no handler for TEST_AM_ID:
\* UCX drops it; how it answers a rendezvous is its own choice.
AmDropped(p) ==
    /\ InDataLoop(p)
    /\ opt.api = "am"
    /\ ~handler[p]
    /\ ep[p][Peer(p)] = "open"
    /\ In(p) # <<>>
    /\ net' = [net EXCEPT ![Peer(p)][p] = Tail(@)]
    /\ \E s \in {"sent"} \cup (IF opt.rndv THEN {"nak"} ELSE {}) :
         req' = Confirm(req, p, Head(In(p)), s)
    /\ UNCHANGED <<opt, pc, iter, prog, buf, am_data_desc, handler,
                   connection_closed, ret, ep, unexp, conn_request, backlog, rcvd>>

\* An active message is given to the registered handler.
AmDispatched(p) ==
    /\ InDataLoop(p)
    /\ opt.api = "am"
    /\ handler[p]
    /\ ep[p][Peer(p)] = "open"
    /\ In(p) # <<>>

\* It is an eager one that the handler copies to am_data_desc.recv_buf.
EagerCopy(p) == AmDispatched(p) /\ ~opt.rndv /\ ~WrongLength(p)

\* ucp_am_data_cb.  The copy does not return when recv_buf is NULL; to freed
\* memory it may.
ucp_am_data_cb(p) ==
    /\ AmDispatched(p)
    /\ EagerCopy(p) => am_data_desc[p].recv_buf # "null"
    /\ net' = [net EXCEPT ![Peer(p)][p] = Tail(@)]
    /\ IF WrongLength(p)
         THEN /\ req' = Confirm(req, p, Head(In(p)), "sent")
              /\ UNCHANGED <<am_data_desc, buf>>
         ELSE /\ am_data_desc' = [am_data_desc EXCEPT ![p] =
                    [complete |-> TRUE, is_rndv |-> opt.rndv, recv_buf |-> @.recv_buf,
                     desc |-> IF opt.rndv THEN Head(In(p)) ELSE @.desc]]
              /\ IF opt.rndv
                   THEN UNCHANGED <<buf, req>>
                   ELSE /\ buf' = [buf EXCEPT ![p] = Head(In(p))]
                        /\ req' = Confirm(req, p, Head(In(p)), "sent")
    /\ UNCHANGED <<opt, pc, iter, prog, handler, connection_closed, ret, ep,
                   unexp, conn_request, backlog, rcvd>>

\* The process dies: its endpoints are gone, and the listener with its requests.
Die(p) ==
    /\ pc' = [pc EXCEPT ![p] = "dead"]
    /\ prog' = [prog EXCEPT ![p] = FALSE]
    /\ ep' = [ep EXCEPT ![p] = [q \in Procs |-> IF @[q] = "open" THEN "closed" ELSE @[q]]]
    /\ backlog' = IF p = Server THEN {} ELSE backlog
    /\ UNCHANGED <<opt, iter, req, buf, am_data_desc, handler,
                   connection_closed, ret, net, unexp, conn_request, rcvd>>

\* The copy of ucp_am_data_cb through a recv_buf that is NULL or freed.
AmCopyFaults(p) ==
    /\ EagerCopy(p)
    /\ am_data_desc[p].recv_buf # "live"
    /\ Die(p)

\* Mutants: a failed request passes for a completed one; a stream receive is
\* left posted like a tag receive.
FailedReqIgnored(r) == IF r = "none" THEN r ELSE "ok"
FailedReqLeftPosted(r) ==
    IF r \in {"send", "nak", "fetch"} THEN "err" ELSE IF r = "sent" THEN "ok" ELSE r

\* What an endpoint failure does to the outstanding request: a tag receive
\* is not bound to the endpoint and stays posted.
FailedReq(r) ==
    IF r \in {"send", "nak", "fetch"} \/ (r = "recv" /\ opt.api = "stream") THEN "err"
    ELSE IF r = "sent" THEN "ok" ELSE r

\* err_cb, with what UCX does to a failed endpoint: whatever was in flight to
\* it is lost, its requests complete with an error.
err_cb(p) ==
    /\ InDataLoop(p)
    /\ ep[p][Peer(p)] = "open"
    /\ PeerGone(p) \/ "link" \in Faults
    /\ connection_closed' = [connection_closed EXCEPT ![p] = TRUE]
    /\ ep' = [ep EXCEPT ![p][Peer(p)] = "failed"]
    /\ net' = [net EXCEPT ![Peer(p)][p] = <<>>]
    /\ req' = [req EXCEPT ![p] = FailedReq(@)]
    /\ unexp' = IF opt.api = "stream" THEN [unexp EXCEPT ![p] = <<>>] ELSE unexp
    /\ UNCHANGED <<opt, pc, iter, prog, buf, am_data_desc, handler, ret,
                   conn_request, backlog, rcvd>>

--------------------------------------------------------------------------------
(***************************************************************************)
(* The client: run_client.                                                 *)
(***************************************************************************)

\* Mutant: the handler for the FIN is registered before the data loop.
StartClientRegisters(c) ==
    /\ pc[c] = "start"
    /\ ep' = [ep EXCEPT ![c][Server] = "open"]
    /\ backlog' = IF pc[Server] = "init" \/ ServerGone THEN backlog ELSE backlog \cup {c}
    /\ handler' = IF opt.api = "am" THEN Registered(c) ELSE handler
    /\ connection_closed' = [connection_closed EXCEPT ![c] = FALSE]
    /\ pc' = [pc EXCEPT ![c] = AfterIter(c, 0)]
    /\ UNCHANGED <<opt, iter, prog, req, buf, am_data_desc, ret,
                   net, unexp, conn_request, rcvd>>

\* init_context, start_client and the head of client_server_do_work.  The
\* connection request reaches the listener if there is one.
StartClient(c) ==
    /\ pc[c] = "start"
    /\ ep' = [ep EXCEPT ![c][Server] = "open"]
    /\ backlog' = IF pc[Server] = "init" \/ ServerGone THEN backlog ELSE backlog \cup {c}
    /\ connection_closed' = [connection_closed EXCEPT ![c] = FALSE]
    /\ pc' = [pc EXCEPT ![c] = AfterIter(c, 0)]
    /\ UNCHANGED <<opt, iter, prog, req, buf, am_data_desc, handler, ret,
                   net, unexp, conn_request, rcvd>>

StartClientFails(c) ==
    /\ "setup" \in Faults
    /\ pc[c] = "start"
    /\ ret' = [ret EXCEPT ![c] = "err"]
    /\ pc' = [pc EXCEPT ![c] = "done"]
    /\ UNCHANGED <<opt, iter, prog, req, buf, am_data_desc, handler,
                   connection_closed, ep, net, unexp, conn_request, backlog, rcvd>>

\* register_am_recv_callback before the FIN.
RegisterFinHandler(c) ==
    /\ pc[c] = "reg"
    /\ \/ /\ handler' = Registered(c)
          /\ pc' = [pc EXCEPT ![c] = "comm"]
          /\ UNCHANGED ret
       \/ /\ "setup" \in Faults
          /\ ret' = [ret EXCEPT ![c] = "err"]
          /\ pc' = [pc EXCEPT ![c] = "close"]
          /\ UNCHANGED handler
    /\ UNCHANGED <<opt, iter, prog, req, buf, am_data_desc,
                   connection_closed, ep, net, unexp, conn_request, backlog, rcvd>>

\* The end of ep_close(FORCE), in which callbacks may have run; then the worker
\* is destroyed and main returns.
CloseClient(c) ==
    /\ pc[c] = "close"
    /\ ep' = [ep EXCEPT ![c][Server] = "closed"]
    /\ net' = [net EXCEPT ![Server][c] = <<>>]
    /\ unexp' = [unexp EXCEPT ![c] = <<>>]
    /\ pc' = [pc EXCEPT ![c] = "done"]
    /\ UNCHANGED <<opt, iter, prog, req, buf, am_data_desc, handler,
                   connection_closed, ret, conn_request, backlog, rcvd>>

--------------------------------------------------------------------------------
(***************************************************************************)
(* The server: run_server.                                                 *)
(***************************************************************************)

\* Data worker, AM handler, conn_request = NULL and the listener.
StartServer ==
    /\ pc[Server] = "init"
    /\ handler' = IF opt.api = "am" THEN Registered(Server) ELSE handler
    /\ conn_request' = NoClient
    /\ pc' = [pc EXCEPT ![Server] = "accept"]
    /\ UNCHANGED <<opt, iter, prog, req, buf, am_data_desc, connection_closed,
                   ret, ep, net, unexp, backlog, rcvd>>

\* Any of those calls, or server_create_ep, fails: the listener is destroyed
\* with the requests it holds and run_server returns -1.
ServerSetupFails ==
    /\ "setup" \in Faults
    /\ \/ pc[Server] = "init"
       \/ pc[Server] = "accept" /\ LoopDone(Server)
    /\ ret' = [ret EXCEPT ![Server] = "err"]
    /\ pc' = [pc EXCEPT ![Server] = "exit"]
    /\ prog' = [prog EXCEPT ![Server] = FALSE]
    /\ backlog' = {}
    /\ UNCHANGED <<opt, iter, req, buf, am_data_desc, handler,
                   connection_closed, ep, net, unexp, conn_request, rcvd>>

\* server_conn_handle_cb, in ucp_worker_progress of the connection worker.
server_conn_handle_cb(c) ==
    /\ pc[Server] = "accept"
    /\ prog[Server]
    /\ c \in backlog
    /\ backlog' = backlog \ {c}
    /\ IF conn_request = NoClient
         THEN /\ conn_request' = c
              /\ UNCHANGED ep
         ELSE /\ ep' = [ep EXCEPT ![Server][c] = "rejected"]
              /\ UNCHANGED conn_request
    /\ UNCHANGED <<opt, pc, iter, prog, req, buf, am_data_desc, handler,
                   connection_closed, ret, net, unexp, rcvd>>

\* Mutant: connection_closed keeps its value from the last session.
CreateEpKeepsFlag ==
    /\ pc[Server] = "accept"
    /\ LoopDone(Server)
    /\ ep' = [ep EXCEPT ![Server][conn_request] = "open"]
    /\ iter' = [iter EXCEPT ![Server] = 0]
    /\ prog' = [prog EXCEPT ![Server] = FALSE]
    /\ pc' = [pc EXCEPT ![Server] = AfterIter(Server, 0)]
    /\ UNCHANGED <<opt, req, buf, am_data_desc, handler, connection_closed, ret, net, unexp,
                   conn_request, backlog, rcvd>>

\* The accept loop is left: server_create_ep, then do_work starts.
CreateEp ==
    /\ pc[Server] = "accept"
    /\ LoopDone(Server)
    /\ ep' = [ep EXCEPT ![Server][conn_request] = "open"]
    /\ connection_closed' = [connection_closed EXCEPT ![Server] = FALSE]
    /\ iter' = [iter EXCEPT ![Server] = 0]
    /\ prog' = [prog EXCEPT ![Server] = FALSE]
    /\ pc' = [pc EXCEPT ![Server] = AfterIter(Server, 0)]
    /\ UNCHANGED <<opt, req, buf, am_data_desc, handler, ret, net, unexp,
                   conn_request, backlog, rcvd>>

\* Mutant: the server does not wait for the client to close.
DrainedAtOnce ==
    /\ pc[Server] = "drain"
    /\ prog' = [prog EXCEPT ![Server] = FALSE]
    /\ pc' = [pc EXCEPT ![Server] = "close"]
    /\ UNCHANGED <<opt, iter, req, buf, am_data_desc, handler,
                   connection_closed, ret, ep, net, unexp, conn_request, backlog, rcvd>>

\* The client has closed the connection (or it broke): do_work returns 0.
Drained ==
    /\ pc[Server] = "drain"
    /\ LoopDone(Server)
    /\ prog' = [prog EXCEPT ![Server] = FALSE]
    /\ pc' = [pc EXCEPT ![Server] = "close"]
    /\ UNCHANGED <<opt, iter, req, buf, am_data_desc, handler,
                   connection_closed, ret, ep, net, unexp, conn_request, backlog, rcvd>>

\* The end of ep_close(FORCE), at once or after calls of ucp_worker_progress in
\* which callbacks ran: what the client still has in flight is discarded.
CloseServerEp ==
    /\ ep' = [ep EXCEPT ![Server][conn_request] = "closed"]
    /\ net' = [net EXCEPT ![conn_request][Server] = <<>>]
    /\ unexp' = IF opt.api = "stream" THEN [unexp EXCEPT ![Server] = <<>>] ELSE unexp

\* Mutant: the server goes on with the next client after a failed session.
NextClientAfterError ==
    /\ pc[Server] = "close"
    /\ ret[Server] \in {"none", "err"}
    /\ CloseServerEp
    /\ conn_request' = NoClient
    /\ pc' = [pc EXCEPT ![Server] = "accept"]
    /\ UNCHANGED <<opt, iter, prog, req, buf, am_data_desc, handler,
                   connection_closed, ret, backlog, rcvd>>

\* Mutant: context.conn_request is not reset.
NextClientKeepsRequest ==
    /\ pc[Server] = "close"
    /\ ret[Server] = "none"
    /\ CloseServerEp
    /\ pc' = [pc EXCEPT ![Server] = "accept"]
    /\ UNCHANGED <<opt, iter, prog, req, buf, am_data_desc, handler, conn_request,
                   connection_closed, ret, backlog, rcvd>>

\* After a session that succeeded the server waits for the next client.
NextClient ==
    /\ pc[Server] = "close"
    /\ ret[Server] = "none"
    /\ CloseServerEp
    /\ conn_request' = NoClient
    /\ pc' = [pc EXCEPT ![Server] = "accept"]
    /\ UNCHANGED <<opt, iter, prog, req, buf, am_data_desc, handler,
                   connection_closed, ret, backlog, rcvd>>

\* After a session that failed: goto err_ep, the server ends.
ServerExit ==
    /\ pc[Server] = "close"
    /\ ret[Server] = "err"
    /\ CloseServerEp
    /\ backlog' = {}
    /\ pc' = [pc EXCEPT ![Server] = "exit"]
    /\ UNCHANGED <<opt, iter, prog, req, buf, am_data_desc, handler,
                   connection_closed, ret, conn_request, rcvd>>

--------------------------------------------------------------------------------
\* A process is killed; its peers find the connection broken.
Crash(p) ==
    /\ "crash" \in Faults
    /\ pc[p] \notin {"done", "exit", "dead"}
    /\ Die(p)

Communicate(p) ==
    \/ AllocFails(p) \/ Send(p) \/ Recv(p) \/ AmRecv(p) \/ AmArrived(p)
    \/ FinalizeError(p) \/ FinalizeData(p) \/ FinalizeFin(p)

Callback(p) ==
    \/ SendCb(p) \/ FetchCb(p) \/ RecvCb(p) \/ AmDropped(p)
    \/ ucp_am_data_cb(p) \/ AmCopyFaults(p) \/ err_cb(p)

ClientStep(c) ==
    \/ StartClient(c) \/ StartClientFails(c) \/ RegisterFinHandler(c) \/ CloseClient(c)
    \/ Communicate(c) \/ Progress(c) \/ Callback(c)

ServerStep ==
    \/ StartServer \/ ServerSetupFails \/ CreateEp \/ Drained \/ NextClient \/ ServerExit
    \/ \E c \in Clients : server_conn_handle_cb(c)
    \/ Communicate(Server) \/ Progress(Server) \/ Callback(Server)

\* Every client has ended and the server has ended or waits in the accept
\* loop with nothing to accept: only new clients could make a step.
Quiescent ==
    /\ \A c \in Clients : pc[c] \in {"done", "dead"}
    /\ ServerGone \/ (pc[Server] = "accept" /\ prog[Server] /\ conn_request = NoClient /\ backlog = {})

Idle == Quiescent /\ UNCHANGED vars

Next ==
    \/ ServerStep
    \/ \E c \in Clients : ClientStep(c)
    \/ \E p \in Procs : Crash(p)
    \/ Idle

\* The connection breaks although both ends are there.
LinkBreaks(p) == err_cb(p) /\ ~PeerGone(p)

(***************************************************************************)
(* Every process runs: the scheduler runs it and ucp_worker_progress gives *)
(* it the events that have happened.  Nothing makes a link break.          *)
(***************************************************************************)
Fairness ==
    /\ WF_vars(ServerStep /\ ~LinkBreaks(Server))
    /\ \A c \in Clients : WF_vars(ClientStep(c) /\ ~LinkBreaks(c))

Spec == Init /\ [][Next]_vars
FairSpec == Spec /\ Fairness

--------------------------------------------------------------------------------
(***************************************************************************)
(* Properties.                                                             *)
(***************************************************************************)

\* FIN acknowledges delivery: when run_client returns 0, the server has
\* completed num_iterations receives in that client's session, whatever
\* faults, rejections and other sessions came before.
FinAcksDelivery ==
    \A c \in Clients : ret[c] = "ok" => Len(rcvd[c]) = opt.n

\* The server's k-th receive of a session yields the client's k-th message:
\* none is lost, overwritten, repeated or left over from an earlier session.
\* (With eager active messages this holds for one iteration only.)
ReceivesInOrder ==
    (opt.api # "am" \/ opt.rndv \/ opt.n <= 1) =>
      \A c \in Clients : \A k \in DOMAIN rcvd[c] : rcvd[c][k] = [from |-> c, id |-> k - 1]

\* When the server is back in the accept loop nothing of an earlier session is
\* left in what outlives the session: the worker's unexpected messages, the
\* global am_data_desc.complete, the requests, the connection to a past client.
NoLeftovers ==
    pc[Server] = "accept" =>
      /\ unexp[Server] = <<>>
      /\ ~am_data_desc[Server].complete
      /\ req[Server] = "none"
      /\ \A c \in Clients : ep[Server][c] = "closed" => net[c][Server] = <<>>

\* The server force-closes the endpoint of a session it counts as successful
\* only after that client ended, so the close cannot destroy a FIN in flight.
\* (A broken link looks the same to the server as a client's close.)
ForceCloseAfterClient ==
    "link" \notin Faults =>
      \A c \in Clients :
        ep[Server][c] = "closed" /\ pc[Server] = "accept" => pc[c] \in {"done", "dead"}

\* Whenever ucp_am_data_cb may run with eager data, am_data_desc.recv_buf
\* points to buffers that are allocated: it is set late and freed early, and
\* the handler stays registered in between and inside ep_close.  The one
\* exception is the ep_close after the allocation for that very receive failed:
\* the message it was for may still come in there.
EagerCopyTarget ==
    \A p \in Procs :
      AmDispatched(p) /\ ~opt.rndv =>
        \/ am_data_desc[p].recv_buf = "live"
        \/ pc[p] = "close" /\ ret[p] = "err" /\ Receiver(p) /\ "alloc" \in Faults

\* Without faults every client the server accepts gets its FIN, with the
\* stream and the tag API.
AcceptedIsAcked ==
    \A c \in Clients : conn_request = c ~> (opt.api = "am" \/ ret[c] = "ok")

\* Without faults the server always comes back to its accept loop, with the
\* stream and the tag API.
ServerComesBack == []<>(opt.api = "am" \/ pc[Server] = "accept")

\* With active messages, a client whose messages have another size than the
\* server expects is never told that they were delivered: ucp_am_data_cb ignores
\* every one of them.  (The tag and stream receives do not look at the length.)
WrongSizeNeverAcked ==
    opt.n > 0 => \A c \in opt.odd : ret[c] # "ok" /\ rcvd[c] = <<>>

\* With the stream API every client ends, whatever fails: each of its requests
\* is bound to the endpoint and err_cb's failure completes it.
StreamClientEnds ==
    \A c \in Clients : <>(opt.api # "stream" \/ pc[c] \in {"done", "dead"})

--------------------------------------------------------------------------------
(***************************************************************************)
(* The inductive invariant behind FinAcksDelivery.                         *)
(***************************************************************************)
SessionPcs == {"comm", "wait", "amwait", "drain", "close"}

\* In a session the server knows whom it serves.
SessionHasClient == pc[Server] \in SessionPcs => conn_request \in Clients

\* A client that has not been accepted yet has never been served.
WaitingIsFresh ==
    \A c \in Clients :
      /\ pc[c] = "start" => c \notin backlog
      /\ pc[c] = "start" \/ c \in backlog => c # conn_request /\ rcvd[c] = <<>>
      /\ pc[Server] = "accept" /\ c = conn_request => rcvd[c] = <<>>

\* In iteration i of a session the server has completed i receives.
SessionCount ==
    /\ pc[Server] \in {"comm", "wait", "amwait", "drain"} =>
         Len(rcvd[conn_request]) = iter[Server] /\ iter[Server] <= opt.n
    /\ pc[Server] = "drain" => iter[Server] = opt.n
    /\ pc[Server] = "close" /\ ret[Server] = "none" => Len(rcvd[conn_request]) = opt.n

\* A client that waits for the FIN has a receive outstanding, not a send.
FinWaitReceives ==
    \A c \in Clients : pc[c] = "wait" /\ iter[c] = opt.n =>
      req[c] \in {"recv", "fetch", "ok", "err"}

\* The FIN, or a trace of it, is somewhere on its way to client c's result.
FinUnderWay(c) ==
    \/ net[Server][c] # <<>>
    \/ unexp[c] # <<>>
    \/ am_data_desc[c].complete
    \/ pc[c] = "wait" /\ iter[c] = opt.n /\ req[c] \in {"fetch", "ok"}
    \/ ret[c] = "ok"

\* It never is before the server's last receive.
FinMeansComplete == \A c \in Clients : FinUnderWay(c) => Len(rcvd[c]) = opt.n

IndInv ==
    TypeOK /\ SessionHasClient /\ WaitingIsFresh /\ SessionCount /\ FinWaitReceives
           /\ FinMeansComplete

--------------------------------------------------------------------------------
(***************************************************************************)
(* Refinement of the abstract specification AckedTransfer.                 *)
(***************************************************************************)
Serving == IF pc[Server] \in SessionPcs THEN conn_request ELSE NoClient
Served == {c \in Clients : ep[Server][c] \in {"open", "failed", "closed"}}
Delivered == [c \in Clients |-> Len(rcvd[c])]
Verdict == [c \in Clients |-> ret[c]]

Abstract == INSTANCE AckedTransfer WITH
    Counts <- Iters, n <- opt.n, up <- ~ServerGone, serving <- Serving,
    served <- Served, delivered <- Delivered, verdict <- Verdict

\* Every behaviour of the two programs, faults included, is one that the
\* abstract transfer allows: one session at a time, a session is left only
\* after all its receives or with the end of the server, success is reported
\* only for a complete session.
ImplementsAckedTransfer == Abstract!ASpec

================================================================================
