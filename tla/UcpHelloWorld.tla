----------------------------- MODULE UcpHelloWorld -----------------------------
(***************************************************************************)
(* The UCP hello world on GPU memory                                       *)
(* (src/02_ucp_tag_GPUP2P_hello_world/ucp_hello_world.c and the socket     *)
(* helpers of its hello_world_util.h).                                     *)
(*                                                                         *)
(* The server sends its UCX address over a TCP socket; the client sends    *)
(* its own in a tagged UCX message; the server answers with the test       *)
(* string from CUDA memory; a barrier over the socket ends the run.  The   *)
(* socket stays open all the time and is also how one side notices that    *)
(* the other is gone; the UCX loops do not notice.                         *)
(***************************************************************************)
EXTENDS Integers, Sequences

CONSTANT Faults     \* what may go wrong outside the program

FaultKinds == {"setup", "alloc", "cuda", "post", "status", "crash"}

ASSUME FaultsAssumption == Faults \subseteq FaultKinds

VARIABLES
    rndv,     \* rndv[p]: UCX sends p's message by rendezvous
    pc,       \* where each process is
    ret,      \* ret of main: still unset, 0, or another value
    sock,     \* oob_sock
    oob,      \* oob[p]: what is on the socket towards p
    net,      \* net[p]: UCX messages under way to p
    arrived,  \* messages p's worker holds for a probe
    req,      \* the request a process waits for
    msg,      \* what the pointer msg points to
    text,     \* what the message p receives holds, as far as it is in memory
    ep,       \* server_ep, client_ep
    worker,   \* ucp_worker
    shown,    \* what the client has printed as the test string
    spoiled   \* what failed and was only printed (history)

vars == <<rndv, pc, ret, sock, oob, net, arrived, req, msg, text, ep, worker, shown,
          spoiled>>
ucx == <<rndv, net, arrived, req, msg, text, ep, worker, shown, spoiled>>

Procs == {"client", "server"}
Other(p) == IF p = "client" THEN "server" ELSE "client"

Pcs == {"init", "socket", "len", "addr", "send", "sendwait", "probe", "recvwait",
        "print", "flush", "barsend", "barrecv", "close", "end", "dead"}

\* What a message can hold; "junk" is anything else than what was meant.
Texts == {"address", "string", "junk"}

\* The failures that only print: a CUDA call, and the completion of a send or of
\* a receive with an error status.
Spoilers == {"cuda", "send", "recv"}

\* Every variable has its type.
HelloTypeOK ==
    /\ rndv \in [Procs -> BOOLEAN]
    /\ pc \in [Procs -> Pcs]
    /\ ret \in [Procs -> {"unset", "zero", "nonzero"}]
    /\ sock \in [Procs -> {"none", "open", "closed"}]
    /\ oob \in [Procs -> Seq({"len", "addr", "bar"})]
    /\ net \in [Procs -> Seq(Texts)]
    /\ arrived \in [Procs -> Seq(Texts)]
    /\ req \in [Procs -> {"none", "busy", "done"}]
    /\ msg \in [Procs -> {"null", "host", "cuda", "freed", "misfreed"}]
    /\ ep \in [Procs -> {"none", "open", "destroyed"}]
    /\ worker \in [Procs -> {"none", "up", "destroyed"}]
    /\ text \in [Procs -> Texts \cup {"none"}]
    /\ shown \in Texts \cup {"none"}
    /\ spoiled \subseteq Spoilers

Init ==
    /\ rndv \in [Procs -> BOOLEAN]
    /\ pc = [p \in Procs |-> "init"]
    /\ ret = [p \in Procs |-> "unset"]
    /\ sock = [p \in Procs |-> "none"]
    /\ oob = [p \in Procs |-> <<>>]
    /\ net = [p \in Procs |-> <<>>]
    /\ arrived = [p \in Procs |-> <<>>]
    /\ req = [p \in Procs |-> "none"]
    /\ msg = [p \in Procs |-> "null"]
    /\ ep = [p \in Procs |-> "none"]
    /\ worker = [p \in Procs |-> "none"]
    /\ text = [p \in Procs |-> "none"]
    /\ shown = "none"
    /\ spoiled = {}

Goto(p, label) == pc' = [pc EXCEPT ![p] = label]

\* Leave for the clean-up at the end of main with that return value.
Leave(p, value) ==
    /\ Goto(p, "close")
    /\ ret' = [ret EXCEPT ![p] = value]

\* ep after ucp_ep_destroy, if it was created.
DestroyEp(p) == [ep EXCEPT ![p] = IF @ = "none" THEN "none" ELSE "destroyed"]

\* The process ends: what its worker had not delivered is lost.
EndProcess(p, how) ==
    /\ Goto(p, how)
    /\ sock' = [sock EXCEPT ![p] = "closed"]
    /\ worker' = [worker EXCEPT ![p] = IF @ = "none" THEN "none" ELSE "destroyed"]
    /\ net' = [net EXCEPT ![Other(p)] = <<>>]
    /\ UNCHANGED <<rndv, ret, oob, arrived, req, msg, text, shown, spoiled>>

\* The other process has closed its end of the socket.
PeerClosed(p) == sock[Other(p)] = "closed"

--------------------------------------------------------------------------------
(***************************************************************************)
(* main: UCX initialisation and the exchange over the socket.              *)
(***************************************************************************)

\* ucp_init, ucp_worker_create, ucp_worker_get_address.
InitUcp(p) ==
    /\ pc[p] = "init"
    /\ \/ /\ worker' = [worker EXCEPT ![p] = "up"]
          /\ Goto(p, "socket")
          /\ UNCHANGED ret
       \/ /\ "setup" \in Faults
          /\ Leave(p, "nonzero")
          /\ UNCHANGED worker
    /\ UNCHANGED <<rndv, sock, oob, net, arrived, req, msg, text, ep, shown, spoiled>>

\* client_connect, and accept in server_connect: both return with a connection.
\* The server listens as soon as it is at "socket", and accepts one client.
Connect ==
    /\ pc["client"] = "socket"
    /\ pc["server"] = "socket"
    /\ sock' = [p \in Procs |-> "open"]
    /\ pc' = [p \in Procs |-> "len"]
    /\ UNCHANGED <<ret, oob, ucx>>

\* client_connect finds no listener, or a call of server_connect fails.
ConnectFails(p) ==
    /\ pc[p] = "socket"
    /\ "setup" \in Faults \/ (p = "client" /\ pc["server"] # "socket")
    /\ Leave(p, "nonzero")
    /\ UNCHANGED <<sock, oob, ucx>>

\* A send() on the socket.  When the peer has closed, it may still succeed, fail,
\* or end the process with SIGPIPE; failing is a nonzero ret for every caller.
SendOob(p, item, next) ==
    \/ /\ oob' = IF PeerClosed(p) THEN oob ELSE [oob EXCEPT ![Other(p)] = Append(@, item)]
       /\ Goto(p, next)
       /\ UNCHANGED <<ret, sock, ucx>>
    \/ /\ PeerClosed(p)
       /\ Leave(p, "nonzero")
       /\ UNCHANGED <<oob, sock, ucx>>
    \/ /\ PeerClosed(p)
       /\ EndProcess(p, "dead")
       /\ ep' = DestroyEp(p)

\* The server sends addr_len and its address.
SendLen == pc["server"] = "len" /\ SendOob("server", "len", "addr")
SendAddr == pc["server"] = "addr" /\ SendOob("server", "addr", "probe")

\* The client receives them; malloc of peer_addr follows the length.
RecvOob(next) ==
    /\ oob["client"] # <<>>
    /\ oob' = [oob EXCEPT !["client"] = Tail(@)]
    /\ Goto("client", next)
    /\ UNCHANGED <<ret, sock, ucx>>

RecvLen == pc["client"] = "len" /\ RecvOob("addr")
RecvAddr == pc["client"] = "addr" /\ RecvOob("send")

AllocPeerAddrFails ==
    /\ "alloc" \in Faults
    /\ pc["client"] = "addr"
    /\ Leave("client", "nonzero")
    /\ UNCHANGED <<sock, oob, ucx>>

\* recv() returns less than it should: ret is what recv() returned, 0 when the
\* peer has closed, and main returns it.
RecvOobFails ==
    /\ pc["client"] \in {"len", "addr"}
    /\ oob["client"] = <<>>
    /\ PeerClosed("client")
    /\ \E value \in {"zero", "nonzero"} : Leave("client", value)
    /\ UNCHANGED <<sock, oob, ucx>>

--------------------------------------------------------------------------------
(***************************************************************************)
(* run_ucx_client and run_ucx_server.  The client sends first ("send",     *)
(* "sendwait"), then receives ("probe", "recvwait"); the server the other  *)
(* way round.  Each uses host memory for the address and CUDA memory for   *)
(* the string, through the one pointer msg.                                *)
(***************************************************************************)
SendKind(p) == IF p = "client" THEN "host" ELSE "cuda"
RecvKind(p) == IF p = "client" THEN "cuda" ELSE "host"

\* Mutant: the pointer is left uninitialised when the allocation fails.
AllocUninit(p, kind) ==
    {kind} \cup (IF kind = "host" /\ "alloc" \in Faults THEN {"garbage"} ELSE {})

\* What msg points to after malloc, or after cudaMallocManaged: CUDA_FUNC only
\* prints an error, so that msg keeps its value.
Alloc(p, kind) ==
    {kind} \cup (IF kind = "host"
                   THEN IF "alloc" \in Faults THEN {"null"} ELSE {}
                   ELSE IF "cuda" \in Faults THEN {msg[p]} ELSE {})

\* msg after free() or cudaFree().  free() of what malloc has not given is
\* undefined; cudaFree() of it is an error that CUDA_FUNC prints.
Free(m, kind) == IF m = kind THEN "freed" ELSE IF kind = "host" THEN "misfreed" ELSE m

\* Undefined behaviour of p: UCX and the CUDA copies on memory that msg no longer
\* owns, a free() of it, and an address of the peer that is not one.
Undefined(p) ==
    \/ pc[p] \in {"sendwait", "recvwait", "print"} /\ msg[p] = "freed"
    \/ pc[p] = "close" /\ msg[p] = "misfreed"
    \/ p = "server" /\ pc[p] \in {"recvwait", "send"} /\ text[p] = "junk"

\* The process may die of it.
Dies(p) ==
    /\ Undefined(p)
    /\ EndProcess(p, "dead")
    /\ ep' = DestroyEp(p)

\* A CUDA call that fails goes into spoiled.
SpoilIf(bad) == spoiled' = IF bad THEN spoiled \cup {"cuda"} ELSE spoiled

\* ucp_ep_create fails.
CreateEpFails(p) ==
    /\ pc[p] = "send"
    /\ "setup" \in Faults \/ text[p] = "junk"
    /\ Leave(p, "nonzero")
    /\ UNCHANGED <<sock, oob, ucx>>

\* What p's message holds: the client's is filled with memcpy, the server's with
\* cudaMemset and cudaMemcpy.
Contents(p) ==
    IF p = "client" THEN {"address"}
                    ELSE {"string"} \cup (IF "cuda" \in Faults THEN {"junk"} ELSE {})

\* ucp_ep_create, the allocation of msg, its contents, ucp_tag_send_nbx.  A
\* failure, in the server also of generate_test_string, frees what there is.  With
\* a spoiled address the message need not get to the client.
SendMsg(p) ==
    /\ pc[p] = "send"
    /\ \E m \in Alloc(p, SendKind(p)) :
         \/ /\ m # "null"
            /\ msg' = [msg EXCEPT ![p] = m]
            /\ ep' = [ep EXCEPT ![p] = "open"]
            /\ \E t \in Contents(p) :
                 /\ \/ net' = [net EXCEPT ![Other(p)] = Append(@, t)]
                    \/ text[p] = "junk" /\ UNCHANGED net
                 /\ SpoilIf(t = "junk" \/ m # SendKind(p))
            /\ \E r \in {"busy"} \cup (IF rndv[p] THEN {} ELSE {"done"}) :
                 req' = [req EXCEPT ![p] = r]
            /\ Goto(p, "sendwait")
            /\ UNCHANGED ret
         \/ /\ m = "null" \/ "post" \in Faults \/ (p = "server" /\ "alloc" \in Faults)
            /\ msg' = [msg EXCEPT ![p] = IF m = "null" THEN m ELSE Free(m, SendKind(p))]
            /\ ep' = [ep EXCEPT ![p] = "destroyed"]
            /\ Leave(p, "nonzero")
            /\ UNCHANGED <<net, req, spoiled>>
    /\ UNCHANGED <<rndv, sock, oob, arrived, text, worker, shown>>

\* The loops that call ucp_worker_progress (mutant: the probe loops do not).
ProgressPcsNoProbe == {"sendwait", "recvwait", "flush"}
ProgressPcs == {"sendwait", "probe", "recvwait", "flush"}

\* A message arrives in a progress call.
Deliver(p) ==
    /\ pc[p] \in ProgressPcs
    /\ net[p] # <<>>
    /\ net' = [net EXCEPT ![p] = Tail(@)]
    /\ arrived' = [arrived EXCEPT ![p] = Append(@, Head(net[p]))]
    /\ UNCHANGED <<rndv, pc, ret, sock, oob, req, msg, text, ep, worker, shown, spoiled>>

\* send_handler for an eager message.
send_handler(p) ==
    /\ pc[p] = "sendwait"
    /\ req[p] = "busy"
    /\ ~rndv[p]
    /\ req' = [req EXCEPT ![p] = "done"]
    /\ UNCHANGED <<rndv, pc, ret, sock, oob, net, arrived, msg, text, ep, worker, shown,
                   spoiled>>

\* send_handler with an error: it only prints the status, and the wait is over as
\* after a success; the message may be lost.
SendError(p) ==
    /\ "status" \in Faults
    /\ pc[p] = "sendwait"
    /\ req[p] = "busy"
    /\ req' = [req EXCEPT ![p] = "done"]
    /\ \/ net' = [net EXCEPT ![Other(p)] = <<>>]
       \/ UNCHANGED net
    /\ spoiled' = spoiled \cup {"send"}
    /\ UNCHANGED <<rndv, pc, ret, sock, oob, arrived, msg, text, ep, worker, shown>>

\* ucx_wait is over: the client frees msg, the server goes on to flush.
Sent(p) ==
    /\ pc[p] = "sendwait"
    /\ req[p] = "done"
    /\ req' = [req EXCEPT ![p] = "none"]
    /\ IF p = "client"
         THEN /\ msg' = [msg EXCEPT ![p] = Free(@, "host")]
              /\ Goto(p, "probe")
         ELSE /\ Goto(p, "flush")
              /\ UNCHANGED msg
    /\ UNCHANGED <<rndv, ret, sock, oob, net, arrived, text, ep, worker, shown, spoiled>>

\* The probe finds the message; the allocation of msg, ucp_tag_msg_recv_nb.
\* When that fails both sides call free(msg).  What UCX writes to memory that is
\* not msg's need not stay there.
Probe(p) ==
    /\ pc[p] = "probe"
    /\ arrived[p] # <<>>
    /\ arrived' = [arrived EXCEPT ![p] = Tail(@)]
    /\ \E m \in Alloc(p, RecvKind(p)) :
         \/ /\ m # "null"
            /\ msg' = [msg EXCEPT ![p] = m]
            /\ \E t \in {Head(arrived[p])} \cup (IF m # RecvKind(p) THEN {"junk"} ELSE {}) :
                 text' = [text EXCEPT ![p] = t]
            /\ SpoilIf(m # RecvKind(p))
            /\ \E r \in {"busy"} \cup (IF rndv[Other(p)] THEN {} ELSE {"done"}) :
                 req' = [req EXCEPT ![p] = r]
            /\ Goto(p, "recvwait")
            /\ UNCHANGED <<ret, ep>>
         \/ /\ m = "null" \/ "post" \in Faults
            /\ msg' = [msg EXCEPT ![p] = IF m = "null" THEN m ELSE Free(m, "host")]
            /\ ep' = DestroyEp(p)
            /\ Leave(p, "nonzero")
            /\ UNCHANGED <<req, text, spoiled>>
    /\ UNCHANGED <<rndv, sock, oob, net, worker, shown>>

\* recv_handler: the data is in msg.  For a rendezvous it is pulled from the
\* sender, whose request completes with it.
recv_handler(p) ==
    /\ pc[p] = "recvwait"
    /\ req[p] = "busy"
    /\ IF rndv[Other(p)]
         THEN /\ worker[Other(p)] = "up" /\ req[Other(p)] = "busy"
              /\ req' = [q \in Procs |-> "done"]
         ELSE req' = [req EXCEPT ![p] = "done"]
    /\ UNCHANGED <<rndv, pc, ret, sock, oob, net, arrived, msg, text, ep, worker, shown,
                   spoiled>>

\* recv_handler with an error: it only prints the status; the data is not in msg.
\* The sender of a rendezvous is told.
RecvError(p) ==
    /\ "status" \in Faults
    /\ pc[p] = "recvwait"
    /\ req[p] = "busy"
    /\ req' = [q \in Procs |->
                 IF q = p \/ (rndv[q] /\ req[q] = "busy") THEN "done" ELSE req[q]]
    /\ text' = [text EXCEPT ![p] = "junk"]
    /\ spoiled' = spoiled \cup {"recv"}
    /\ UNCHANGED <<rndv, pc, ret, sock, oob, net, arrived, msg, ep, worker, shown>>

\* ucx_wait is over.  The server copies the address out of msg and frees it; a
\* failing malloc, also one of a length that was never received, ends it.
Received(p) ==
    /\ pc[p] = "recvwait"
    /\ req[p] = "done"
    /\ req' = [req EXCEPT ![p] = "none"]
    /\ \/ /\ Goto(p, IF p = "client" THEN "print" ELSE "send")
          /\ UNCHANGED ret
       \/ /\ p = "server" /\ ("alloc" \in Faults \/ text[p] = "junk")
          /\ Leave(p, "nonzero")
    /\ msg' = IF p = "server" THEN [msg EXCEPT ![p] = Free(@, "host")] ELSE msg
    /\ UNCHANGED <<rndv, sock, oob, net, arrived, text, ep, worker, shown, spoiled>>

\* Mutant: the barrier is entered whatever the test returned.
AfterTestAlways(p, value) == Goto(p, "barsend") /\ UNCHANGED ret

\* run_test has returned: only a success leads to the barrier.
AfterTest(p, value) ==
    IF value = "zero" THEN Goto(p, "barsend") /\ UNCHANGED ret ELSE Leave(p, value)

\* The client copies the string to host memory and prints what it then has there:
\* a cudaMemcpy that fails leaves the zeros of calloc.
PrintString ==
    /\ pc["client"] = "print"
    /\ ep' = DestroyEp("client")
    /\ \/ /\ \E t \in {text["client"]} \cup (IF "cuda" \in Faults THEN {"junk"} ELSE {}) :
               /\ shown' = t
               /\ SpoilIf(t # text["client"])
          /\ msg' = [msg EXCEPT !["client"] = Free(@, "cuda")]
          /\ AfterTest("client", "zero")
       \/ /\ "alloc" \in Faults
          /\ AfterTest("client", "nonzero")
          /\ UNCHANGED <<shown, msg, spoiled>>
    /\ UNCHANGED <<rndv, sock, oob, net, arrived, req, text, worker>>

\* flush_ep: the client's worker has the message, or the client is gone; its
\* status is printed and not used.
flush_ep ==
    /\ pc["server"] = "flush"
    /\ net["client"] = <<>> \/ worker["client"] = "destroyed"
    /\ msg' = [msg EXCEPT !["server"] = Free(@, "cuda")]
    /\ ep' = DestroyEp("server")
    /\ AfterTest("server", "zero")
    /\ UNCHANGED <<rndv, sock, oob, net, arrived, req, text, worker, shown, spoiled>>

--------------------------------------------------------------------------------
(***************************************************************************)
(* barrier and the end of main.                                            *)
(***************************************************************************)

\* Mutant: barrier receives before it sends.
BarrierSendSecond(p) ==
    /\ pc[p] = "barsend"
    /\ oob[p] # <<>> \/ PeerClosed(p)
    /\ SendOob(p, "bar", "barrecv")

BarrierSend(p) == pc[p] = "barsend" /\ SendOob(p, "bar", "barrecv")

\* Mutant: barrier does not wait for the other side.
BarrierRecvSkipped(p) ==
    /\ pc[p] = "barrecv"
    /\ Leave(p, "zero")
    /\ UNCHANGED <<sock, oob, ucx>>

\* barrier returns 0 when the other side's int has arrived, 1 when it cannot.
BarrierRecv(p) ==
    /\ pc[p] = "barrecv"
    /\ \/ /\ oob[p] # <<>>
          /\ oob' = [oob EXCEPT ![p] = Tail(@)]
          /\ Leave(p, "zero")
       \/ /\ oob[p] = <<>>
          /\ PeerClosed(p)
          /\ Leave(p, "nonzero")
          /\ UNCHANGED oob
    /\ UNCHANGED <<sock, ucx>>

\* close(oob_sock), the releases under the err labels, return ret.
CleanUp(p) ==
    /\ pc[p] = "close"
    /\ EndProcess(p, "end")
    /\ UNCHANGED ep

Crash(p) ==
    /\ "crash" \in Faults
    /\ pc[p] \notin {"end", "dead"}
    /\ EndProcess(p, "dead")
    /\ ep' = DestroyEp(p)

Step(p) ==
    \/ InitUcp(p) \/ ConnectFails(p) \/ CreateEpFails(p)
    \/ SendMsg(p) \/ send_handler(p) \/ SendError(p) \/ Sent(p)
    \/ Probe(p) \/ recv_handler(p) \/ RecvError(p) \/ Received(p) \/ Deliver(p)
    \/ BarrierSend(p) \/ BarrierRecv(p) \/ CleanUp(p)

ClientOnly == RecvLen \/ RecvAddr \/ AllocPeerAddrFails \/ RecvOobFails \/ PrintString
ServerOnly == SendLen \/ SendAddr \/ flush_ep

Next ==
    \/ Connect \/ ClientOnly \/ ServerOnly
    \/ \E p \in Procs : Step(p) \/ Dies(p) \/ Crash(p)

\* The scheduler runs both processes, and UCX and TCP deliver.
Fairness ==
    /\ WF_vars(Connect)
    /\ WF_vars(Step("client") \/ ClientOnly)
    /\ WF_vars(Step("server") \/ ServerOnly)

Spec == Init /\ [][Next]_vars
FairSpec == Spec /\ Fairness

--------------------------------------------------------------------------------
(***************************************************************************)
(* Properties.                                                             *)
(***************************************************************************)

\* "Make sure remote is disconnected before destroying local worker": a process
\* that ends with 0 has not destroyed its worker under an endpoint of the peer.
RemoteDisconnectedFirst ==
    \A p \in Procs :
      worker[p] = "destroyed" /\ ret[p] = "zero" => ep[Other(p)] # "open"

\* When the server ends with 0 the client has printed a message, although the
\* server's own send and flush only reach the client's worker; and what it printed
\* is the test string unless a CUDA call failed or a request completed with an
\* error, which both programs only print and go on from.
ServerSuccessMeansShown ==
    pc["server"] = "end" /\ ret["server"] = "zero" =>
      shown # "none" /\ (shown = "string" \/ spoiled # {})

\* A send or a receive completed with an error, and the program went on as after a
\* success: the peer may wait for what was lost for ever.
CompletionFailed == spoiled \cap {"send", "recv"} # {}

\* Whoever enters the barrier leaves it: both sides cannot wait for each other,
\* and a peer that fails or dies closes the socket.  Only a peer that waits for a
\* message whose completion failed keeps it there.
BarrierEnds ==
    \A p \in Procs :
      pc[p] = "barsend" ~> pc[p] \in {"end", "dead"} \/ CompletionFailed

\* If neither side fails or dies and no completion fails, both end with 0, and the
\* string is shown unless a CUDA call failed: no order of the socket exchange, the
\* two messages and the barrier blocks them.
HelloSucceeds ==
    <>(\/ /\ shown = "string" \/ "cuda" \in spoiled
          /\ \A p \in Procs : pc[p] = "end" /\ ret[p] = "zero"
       \/ \E p \in Procs : ret[p] = "nonzero" \/ pc[p] = "dead"
       \/ CompletionFailed)

================================================================================
