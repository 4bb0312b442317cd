----------------------------- MODULE UctHelloWorld -----------------------------
(***************************************************************************)
(* The UCT hello world (src/01_uct_am_hello_world/uct_hello_world.c and    *)
(* the socket helpers of its hello_world_util.h).                          *)
(*                                                                         *)
(* Two processes look for the interface they were told to use, exchange    *)
(* its addresses over a TCP socket, connect, and the client sends one      *)
(* active message (short, bcopy or zcopy); a barrier over the socket ends  *)
(* the run.  main() is a chain of acquisitions whose error exits jump into *)
(* a chain of labels: a label is a value of pc, and held[p] is the set of  *)
(* what p has acquired and not released.                                   *)
(***************************************************************************)
EXTENDS Integers, Sequences

CONSTANTS
    Transports,   \* what an interface may be like: [dev, iface, mode]
    NComponents,  \* number of UCT components
    MaxMds,       \* memory domains of a component
    SockBuf,      \* items the socket holds in each direction
    Faults        \* what may go wrong outside the program

FaultKinds == {"setup", "alloc", "cuda", "link", "post", "crash"}

\* device_addr_len > 0, iface_addr_len > 0, and how endpoints are connected:
\* UCT_IFACE_FLAG_CONNECT_TO_EP, UCT_IFACE_FLAG_CONNECT_TO_IFACE or neither.
IfaceAttr == [dev : BOOLEAN, iface : BOOLEAN, mode : {"ep", "iface", "none"}]
NoAttr == [dev |-> FALSE, iface |-> FALSE, mode |-> "none"]

ASSUME TransportsAssumption == Transports \subseteq IfaceAttr
ASSUME CountsAssumption == NComponents \in Nat /\ MaxMds \in Nat
ASSUME SockBufAssumption == SockBuf \in Nat \ {0, 1}
ASSUME FaultsAssumption == Faults \subseteq FaultKinds

VARIABLES
    am,      \* func_am_type of the client
    faults,  \* what may go wrong in this execution
    failed,  \* which of two failures main met (history)
    pc,      \* where each process is
    cmpt,    \* cmpt_index of dev_tl_lookup
    mds,     \* memory domains of the component not tried yet
    found,   \* tl_index < num_tl_resources
    attr,    \* iface_attr
    status,  \* status of main, and of dev_tl_lookup while it runs
    held,    \* what has been acquired and not released
    sock,    \* oob_sock
    oob,     \* oob[p]: what is on the socket towards p
    step,    \* the call of sendrecv a process is in: two sends, two receives
    peer,    \* what peer_dev, peer_iface and peer_ep hold
    conn,    \* the endpoint is connected
    net,     \* the active message is under way
    op,      \* the client's zcopy operation
    desc,    \* desc_holder
    shown    \* the server's main has printed the message

vars == <<am, faults, failed, pc, cmpt, mds, found, attr, status, held, sock, oob, step,
          peer, conn, net, op, desc, shown>>
env == <<am, faults, failed>>
lookup == <<cmpt, mds, found, attr>>
oobv == <<sock, oob, step, peer>>
uct == <<conn, net, op, desc, shown>>

Procs == {"client", "server"}
Other(p) == IF p = "client" THEN "server" ELSE "client"

(***************************************************************************)
(* The labels at the end of main, what each releases and which comes next; *)
(* out_close_md is the second call under out_destroy_iface.                *)
(***************************************************************************)
Frees ==
    [out_free_ep        |-> {"ep"},
     out_free_ep_addrs  |-> {"own_ep", "peer_ep"},
     out_close_oob_sock |-> {"sock"},
     out_free_if_addrs  |-> {"own_iface", "peer_iface"},
     out_free_dev_addrs |-> {"own_dev", "peer_dev"},
     out_destroy_iface  |-> {"iface"},
     out_close_md       |-> {"md"},
     out_destroy_worker |-> {"worker"},
     out_cleanup_async  |-> {"async"}]

NextLabel ==
    [out_free_ep        |-> "out_free_ep_addrs",
     out_free_ep_addrs  |-> "out_close_oob_sock",
     out_close_oob_sock |-> "out_free_if_addrs",
     out_free_if_addrs  |-> "out_free_dev_addrs",
     out_free_dev_addrs |-> "out_destroy_iface",
     out_destroy_iface  |-> "out_close_md",
     out_close_md       |-> "out_destroy_worker",
     out_destroy_worker |-> "out_cleanup_async",
     out_cleanup_async  |-> "out"]

Labels == DOMAIN Frees

\* What a label passes to a destroy function or to free() without a test and
\* without a value of its own before it is acquired; the others are pointers
\* initialised to NULL, and close(-1) does no harm.
Handles == {"ep", "iface", "md", "worker", "async", "own_dev", "own_iface"}

\* "tls" is the list tl_resources; "wild" stands for str as an uninitialised pointer.
Resources == Handles \cup {"components", "tls", "sock", "peer_dev", "peer_iface",
    "own_ep", "peer_ep", "str", "wild", "memh", "desc", "copy"}

Exchanges == {"dev", "iface", "ep"}
LookupPcs == {"query", "cmpt", "md", "tls", "open", "attrs", "error_iface", "release_tls",
              "close_md", "release_components"}
MainPcs == {"init", "handler", "connect", "reach", "mkep", "connep", "bar1s", "bar1r", "fit",
            "str", "reg", "send", "zwait", "amwait", "bar2s", "bar2r"}
Pcs == LookupPcs \cup MainPcs \cup Exchanges \cup Labels \cup {"out", "end", "dead"}
Items == Exchanges \cup {"len", "bar"}

\* Every variable has its type.
UctTypeOK ==
    /\ am \in {"short", "bcopy", "zcopy"}
    /\ faults \subseteq FaultKinds
    /\ failed \in [Procs -> {"none", "devaddr", "string"}]
    /\ pc \in [Procs -> Pcs]
    /\ cmpt \in [Procs -> 0 .. NComponents]
    /\ mds \in [Procs -> 0 .. MaxMds]
    /\ found \in [Procs -> BOOLEAN]
    /\ attr \in [Procs -> Transports \cup {NoAttr}]
    /\ status \in [Procs -> {"ok", "unsupported", "err"}]
    /\ held \in [Procs -> SUBSET Resources]
    /\ sock \in [Procs -> {"none", "open", "closed"}]
    /\ oob \in [Procs -> Seq(Items)]
    /\ step \in [Procs -> 1 .. 4]
    /\ peer \in [Procs -> [Exchanges -> Items \cup {"none"}]]
    /\ conn \in [Procs -> {"no", "yes", "failed"}]
    /\ net \in BOOLEAN
    /\ op \in {"none", "busy", "done"}
    /\ desc \in [Procs -> {"null", "uct", "copy", "beef"}]
    /\ shown \in BOOLEAN

Init ==
    /\ am \in {"short", "bcopy", "zcopy"}
    /\ faults \in {{}, Faults}
    /\ failed = [p \in Procs |-> "none"]
    /\ pc = [p \in Procs |-> "init"]
    /\ cmpt = [p \in Procs |-> 0]
    /\ mds = [p \in Procs |-> 0]
    /\ found = [p \in Procs |-> FALSE]
    /\ attr = [p \in Procs |-> NoAttr]
    /\ status = [p \in Procs |-> "ok"]
    /\ held = [p \in Procs |-> {}]
    /\ sock = [p \in Procs |-> "none"]
    /\ oob = [p \in Procs |-> <<>>]
    /\ step = [p \in Procs |-> 1]
    /\ peer = [p \in Procs |-> [k \in Exchanges |-> "none"]]
    /\ conn = [p \in Procs |-> "no"]
    /\ net = FALSE
    /\ op = "none"
    /\ desc = [p \in Procs |-> "null"]
    /\ shown = FALSE

Goto(p, label) == pc' = [pc EXCEPT ![p] = label]
Acquire(p, r) == held' = [held EXCEPT ![p] = @ \cup r]
Release(p, r) == held' = [held EXCEPT ![p] = @ \ r]

\* goto label with that status.
Leave(p, label, st) ==
    /\ Goto(p, label)
    /\ status' = [status EXCEPT ![p] = st]

PeerClosed(p) == sock[Other(p)] = "closed"

\* The process has neither ended nor closed its interface.
Listens(p) == "iface" \in held[p]

--------------------------------------------------------------------------------
(***************************************************************************)
(* dev_tl_lookup.                                                          *)
(***************************************************************************)

\* ucs_async_context_create, uct_worker_create.
CreateWorker(p) ==
    /\ pc[p] = "init"
    /\ \/ Acquire(p, {"async", "worker"}) /\ Goto(p, "query") /\ UNCHANGED status
       \/ "setup" \in faults /\ Leave(p, "out", "err") /\ UNCHANGED held
       \/ "setup" \in faults /\ Leave(p, "out_cleanup_async", "err") /\ Acquire(p, {"async"})
    /\ UNCHANGED <<env, lookup, oobv, uct>>

uct_query_components(p) ==
    /\ pc[p] = "query"
    /\ \/ Acquire(p, {"components"}) /\ Goto(p, "cmpt") /\ UNCHANGED status
       \/ "setup" \in faults /\ Leave(p, "out_destroy_worker", "err") /\ UNCHANGED held
    /\ UNCHANGED <<env, lookup, oobv, uct>>

\* The next component is asked for its memory domains; after the last one
\* nothing was found.
QueryComponent(p) ==
    /\ pc[p] = "cmpt"
    /\ IF cmpt[p] = NComponents
         THEN Leave(p, "release_components", "unsupported") /\ UNCHANGED <<cmpt, mds>>
         ELSE \/ \E n \in 0 .. MaxMds :
                   /\ mds' = [mds EXCEPT ![p] = n]
                   /\ cmpt' = [cmpt EXCEPT ![p] = @ + 1]
                   /\ Leave(p, "md", "ok")
              \/ /\ "setup" \in faults
                 /\ Leave(p, "release_components", "err")
                 /\ UNCHANGED <<cmpt, mds>>
    /\ UNCHANGED <<env, found, attr, held, oobv, uct>>

\* Mutant: md_index <= md_resource_count.
MoreMdsOffByOne(p) == mds[p] >= 0
MoreMds(p) == mds[p] > 0

\* Where the lookup goes when the open memory domain cannot be queried.
QueryMdExit == "close_md"

\* uct_md_config_read and uct_md_open, then uct_md_query and
\* uct_md_query_tl_resources, which fail with the memory domain open.
OpenMd(p) ==
    /\ pc[p] = "md"
    /\ IF ~MoreMds(p)
         THEN Goto(p, "cmpt") /\ UNCHANGED <<mds, held, status>>
         ELSE \/ /\ Acquire(p, {"md", "tls"})
                 /\ Leave(p, "tls", "ok")
                 /\ mds' = [mds EXCEPT ![p] = @ - 1]
              \/ /\ "setup" \in faults
                 /\ \/ Leave(p, "release_components", "err") /\ UNCHANGED held
                    \/ Leave(p, QueryMdExit, "err") /\ Acquire(p, {"md"})
                 /\ UNCHANGED mds
    /\ UNCHANGED <<env, cmpt, found, attr, oobv, uct>>

\* The loop over tl_resources: it comes to its end, or to a transport with the
\* names, with which zcopy may be unable to register the memory type.
ScanTls(p) ==
    /\ pc[p] = "tls"
    /\ \/ /\ found' = [found EXCEPT ![p] = FALSE]
          /\ Goto(p, "release_tls")
          /\ UNCHANGED status
       \/ /\ p = "client" => am = "zcopy"
          /\ found' = [found EXCEPT ![p] = TRUE]
          /\ Leave(p, "release_tls", "unsupported")
       \/ /\ found' = [found EXCEPT ![p] = TRUE]
          /\ Goto(p, "open")
          /\ UNCHANGED status
    /\ UNCHANGED <<env, cmpt, mds, attr, held, oobv, uct>>

\* init_iface: uct_md_iface_config_read, uct_iface_open.
OpenIface(p) ==
    /\ pc[p] = "open"
    /\ \/ Acquire(p, {"iface"}) /\ Goto(p, "attrs") /\ UNCHANGED status
       \/ "setup" \in faults /\ Leave(p, "release_tls", "unsupported") /\ UNCHANGED held
    /\ UNCHANGED <<env, lookup, oobv, uct>>

\* init_iface: uct_iface_query, and whether the interface has the kind of active
\* message that was asked for.
QueryIface(p) ==
    /\ pc[p] = "attrs"
    /\ \/ /\ \E a \in Transports : attr' = [attr EXCEPT ![p] = a]
          /\ Leave(p, "release_tls", "ok")
       \/ Goto(p, "error_iface") /\ UNCHANGED <<attr, status>>
    /\ UNCHANGED <<env, cmpt, mds, found, held, oobv, uct>>

\* Mutant: init_iface leaves the interface open.
ErrorIfaceForgets(p) ==
    /\ pc[p] = "error_iface"
    /\ Leave(p, "release_tls", "unsupported")
    /\ UNCHANGED <<env, lookup, held, oobv, uct>>

\* error_iface of init_iface.
ErrorIface(p) ==
    /\ pc[p] = "error_iface"
    /\ Release(p, {"iface"})
    /\ Leave(p, "release_tls", "unsupported")
    /\ UNCHANGED <<env, lookup, oobv, uct>>

\* The test after release_tl_resources: the loop was left with an open interface.
Chosen(p) == status[p] = "ok" /\ found[p]

\* release_tl_resources: the interface was found and the lookup ends, or the memory
\* domain is closed and the next one is tried.
ReleaseTls(p) ==
    /\ pc[p] = "release_tls"
    /\ IF Chosen(p)
         THEN Release(p, {"tls"}) /\ Goto(p, "release_components")
         ELSE Release(p, {"tls", "md"}) /\ Goto(p, "md")
    /\ UNCHANGED <<env, lookup, status, oobv, uct>>

\* close_md of dev_tl_lookup.
CloseMd(p) ==
    /\ pc[p] = "close_md"
    /\ Release(p, {"md"})
    /\ Goto(p, "release_components")
    /\ UNCHANGED <<env, lookup, status, oobv, uct>>

\* release_component_list, and main's test of what dev_tl_lookup returned.
ReleaseComponents(p) ==
    /\ pc[p] = "release_components"
    /\ Release(p, {"components"})
    /\ cmpt' = [cmpt EXCEPT ![p] = 0]
    /\ mds' = [mds EXCEPT ![p] = 0]
    /\ found' = [found EXCEPT ![p] = FALSE]
    /\ Goto(p, IF status[p] = "ok" THEN "handler" ELSE "out_destroy_worker")
    /\ UNCHANGED <<env, attr, status, oobv, uct>>

--------------------------------------------------------------------------------
(***************************************************************************)
(* main up to the connection.                                              *)
(***************************************************************************)

\* uct_iface_set_am_handler and the two callocs; these leave status as it is.
SetUp(p) ==
    /\ pc[p] = "handler"
    /\ \/ Acquire(p, {"own_dev", "own_iface"}) /\ Goto(p, "connect") /\ UNCHANGED status
       \/ "setup" \in faults /\ Leave(p, "out_destroy_iface", "err") /\ UNCHANGED held
       \/ "alloc" \in faults /\ Leave(p, "out_destroy_iface", "ok") /\ UNCHANGED held
       \/ "alloc" \in faults /\ Leave(p, "out_free_dev_addrs", "ok") /\ Acquire(p, {"own_dev"})
    /\ UNCHANGED <<env, lookup, oobv, uct>>

\* The first address the interface has, or the end of the exchange.
FirstExchange(p) ==
    IF attr[p].dev THEN "dev" ELSE IF attr[p].iface THEN "iface" ELSE "reach"

\* connect_common on both sides.
Connect ==
    /\ \A p \in Procs : pc[p] = "connect"
    /\ sock' = [p \in Procs |-> "open"]
    /\ held' = [p \in Procs |-> held[p] \cup {"sock"}]
    /\ pc' = [p \in Procs |-> FirstExchange(p)]
    /\ UNCHANGED <<env, lookup, status, oob, step, peer, uct>>

\* A socket call fails; the client's connect() also when nobody listens.
ConnectFails(p, why) ==
    /\ pc[p] = "connect"
    /\ CASE why = "refused" -> p = "client" /\ pc["server"] # "connect"
         [] why = "error" -> "setup" \in faults
    /\ Leave(p, "out_close_oob_sock", "err")
    /\ UNCHANGED <<env, lookup, held, oobv, uct>>

(***************************************************************************)
(* The socket.  A send blocks while the socket is full; after the peer has *)
(* closed it may succeed, fail, or end the process with SIGPIPE.           *)
(***************************************************************************)

\* A socket closed with unread data resets the connection: what the peer has
\* not read may be lost.
CloseSock(p) ==
    /\ sock' = [sock EXCEPT ![p] = IF "sock" \in held[p] THEN "closed" ELSE @]
    /\ \/ UNCHANGED oob
       \/ "sock" \in held[p] /\ oob[p] # <<>> /\ oob' = [oob EXCEPT ![Other(p)] = <<>>]

\* The process ends without the clean-up; what it sent may be lost with it.
Died(p) ==
    /\ Goto(p, "dead")
    /\ held' = [held EXCEPT ![p] = {}]
    /\ CloseSock(p)
    /\ net' \in {net /\ p = "client", FALSE}
    /\ UNCHANGED <<env, lookup, status, step, peer, conn, op, desc, shown>>

Sends(p, item) ==
    IF PeerClosed(p) THEN oob' = oob
    ELSE Len(oob[Other(p)]) < SockBuf /\ oob' = [oob EXCEPT ![Other(p)] = Append(@, item)]

\* recv() has nothing to return any more.
EndOfStream(p) == oob[p] = <<>> /\ PeerClosed(p)

\* Mutant: sendrecv receives before it sends.
SendStepsLast == {3, 4}
SendSteps == {1, 2}

\* What a step of sendrecv sends for exchange k: slen, then sbuf.
Item(k, s) == IF s \in {1, 3} THEN "len" ELSE k

\* The exchange that follows k.
AfterExchange(p, k) ==
    CASE k = "dev" /\ attr[p].iface -> "iface"
      [] k = "ep" -> "connep"
      [] OTHER -> "reach"

PeerAddr == [dev |-> "peer_dev", iface |-> "peer_iface", ep |-> "peer_ep"]

\* Where main goes when sendrecv has failed.
ExchangeExit(k) == IF k = "ep" THEN "out_free_ep" ELSE "out_close_oob_sock"

\* Mutant: a failed uct_iface_get_address leaves one label too low too.
IfaceAddrExitLow == "out_free_if_addrs"

\* Where main goes when uct_iface_get_address has failed.
IfaceAddrExit == "out_close_oob_sock"

\* uct_iface_get_device_address or uct_iface_get_address fails; the first one
\* jumps past the label that closes the socket.
GetAddressFails(p) ==
    /\ "setup" \in faults
    /\ pc[p] \in {"dev", "iface"}
    /\ step[p] = 1
    /\ IF pc[p] = "dev"
         THEN /\ Leave(p, "out_free_if_addrs", "err")
              /\ failed' = [failed EXCEPT ![p] = "devaddr"]
         ELSE /\ Leave(p, IfaceAddrExit, "err")
              /\ UNCHANGED failed
    /\ UNCHANGED <<am, faults, lookup, held, oobv, uct>>

\* Step s + 1 of sendrecv, or what follows it.
NextStep(p) ==
    IF step[p] = 4
      THEN step' = [step EXCEPT ![p] = 1] /\ Goto(p, AfterExchange(p, pc[p]))
      ELSE step' = [step EXCEPT ![p] = @ + 1] /\ UNCHANGED pc

\* send() to a peer that has closed the socket.
SendFails(p, exit) ==
    /\ PeerClosed(p)
    /\ \/ Leave(p, exit, "err") /\ UNCHANGED <<env, lookup, held, oobv, uct>>
       \/ Died(p)

\* send(): the length, then the address.
SendItem(p) ==
    /\ pc[p] \in Exchanges
    /\ step[p] \in SendSteps
    /\ \/ /\ Sends(p, Item(pc[p], step[p]))
          /\ NextStep(p)
          /\ UNCHANGED <<env, lookup, status, held, sock, peer, uct>>
       \/ SendFails(p, ExchangeExit(pc[p]))

\* recv(): the length, with the calloc of *rbuf, then the address.
RecvItem(p) ==
    /\ pc[p] \in Exchanges
    /\ step[p] \notin SendSteps
    /\ \/ /\ oob[p] # <<>>
          /\ oob' = [oob EXCEPT ![p] = Tail(@)]
          /\ IF Head(oob[p]) = "len"
               THEN Acquire(p, {PeerAddr[pc[p]]}) /\ UNCHANGED peer
               ELSE peer' = [peer EXCEPT ![p][pc[p]] = Head(oob[p])] /\ UNCHANGED held
          /\ NextStep(p)
          /\ UNCHANGED status
       \/ /\ \/ EndOfStream(p) /\ UNCHANGED oob
             \/ /\ "alloc" \in faults /\ oob[p] # <<>> /\ Head(oob[p]) = "len"
                /\ oob' = [oob EXCEPT ![p] = Tail(@)]
          /\ Leave(p, ExchangeExit(pc[p]), "err")
          /\ UNCHANGED <<peer, held, step>>
    /\ UNCHANGED <<env, lookup, sock, uct>>

--------------------------------------------------------------------------------
(***************************************************************************)
(* The endpoint.                                                           *)
(***************************************************************************)

\* Mutant: the interface is not asked.
ReachableUnasked(p) == {TRUE}

\* What uct_iface_is_reachable may answer: a peer of another transport is not
\* reachable, and one of the same transport may not be.
Reachable(p) ==
    {r \in BOOLEAN : IF r THEN attr[p] = attr[Other(p)]
                          ELSE attr[p] # attr[Other(p)] \/ "link" \in faults}

\* An unreachable peer leaves status 0, which is UCS_OK.
uct_iface_is_reachable(p) ==
    /\ pc[p] = "reach"
    /\ \E r \in Reachable(p) : Leave(p, IF r THEN "mkep" ELSE "out_close_oob_sock", "ok")
    /\ UNCHANGED <<env, lookup, held, oobv, uct>>

\* Mutant: an endpoint that could not be created is destroyed.
NoEpExitHigh == "out_free_ep"

\* Where main goes when uct_ep_create has failed.
NoEpExit == "out_free_ep_addrs"

\* calloc of own_ep, uct_ep_create and uct_ep_get_address of an interface with
\* CONNECT_TO_EP.
CreateEp(p) ==
    /\ pc[p] = "mkep"
    /\ attr[p].mode = "ep"
    /\ \/ Acquire(p, {"own_ep", "ep"}) /\ Goto(p, "ep") /\ UNCHANGED status
       \/ "alloc" \in faults /\ Leave(p, "out_close_oob_sock", "err") /\ UNCHANGED held
       \/ "setup" \in faults /\ Leave(p, NoEpExit, "err") /\ Acquire(p, {"own_ep"})
       \/ "setup" \in faults /\ Leave(p, "out_free_ep", "err") /\ Acquire(p, {"own_ep", "ep"})
    /\ UNCHANGED <<env, lookup, oobv, uct>>

\* uct_ep_create of an interface with CONNECT_TO_IFACE, or neither flag.
CreateConnectedEp(p) ==
    /\ pc[p] = "mkep"
    /\ \/ /\ attr[p].mode = "iface"
          /\ Acquire(p, {"ep"})
          /\ Goto(p, "fit")
          /\ conn' = [conn EXCEPT ![p] = "yes"]
          /\ UNCHANGED status
       \/ /\ attr[p].mode = "iface" /\ "setup" \in faults
          /\ Leave(p, NoEpExit, "err")
          /\ UNCHANGED <<held, conn>>
       \/ /\ attr[p].mode = "none"
          /\ Leave(p, "out_free_ep_addrs", "unsupported")
          /\ UNCHANGED <<held, conn>>
    /\ UNCHANGED <<env, lookup, oobv, net, op, desc, shown>>

\* Mutant: no barrier after uct_ep_connect_to_ep.
AfterConnectEarly == "fit"
AfterConnect == "bar1s"

\* uct_ep_connect_to_ep: its status is kept and not looked at.
ConnectToEp(p) ==
    /\ pc[p] = "connep"
    /\ \/ /\ Goto(p, AfterConnect)
          /\ conn' = [conn EXCEPT ![p] = "yes"]
          /\ UNCHANGED status
       \/ /\ "setup" \in faults
          /\ Leave(p, AfterConnect, "err")
          /\ conn' = [conn EXCEPT ![p] = "failed"]
    /\ UNCHANGED <<env, lookup, held, oobv, net, op, desc, shown>>

\* barrier: the int that is sent.
BarrierSend(p) ==
    /\ pc[p] \in {"bar1s", "bar2s"}
    /\ \/ /\ Sends(p, "bar")
          /\ Goto(p, IF pc[p] = "bar1s" THEN "bar1r" ELSE "bar2r")
          /\ UNCHANGED <<env, lookup, status, held, sock, step, peer, uct>>
       \/ SendFails(p, "out_free_ep")

\* barrier: poll() with progress until something can be read, and recv().
BarrierRecv(p) ==
    /\ pc[p] \in {"bar1r", "bar2r"}
    /\ \/ /\ oob[p] # <<>>
          /\ oob' = [oob EXCEPT ![p] = Tail(@)]
          /\ Goto(p, IF pc[p] = "bar1r" THEN "fit" ELSE "out_free_ep")
          /\ UNCHANGED status
       \/ EndOfStream(p) /\ Leave(p, "out_free_ep", "err") /\ UNCHANGED oob
    /\ UNCHANGED <<env, lookup, held, sock, step, peer, uct>>

--------------------------------------------------------------------------------
(***************************************************************************)
(* The active message.                                                     *)
(***************************************************************************)

\* test_strlen is compared with func_am_max_size, on each side with its own.
CheckLength(p) ==
    /\ pc[p] = "fit"
    /\ \/ Goto(p, IF p = "client" THEN "str" ELSE "amwait") /\ UNCHANGED status
       \/ Leave(p, "out_free_ep", "unsupported")
    /\ UNCHANGED <<env, lookup, held, oobv, uct>>

\* mem_type_malloc and generate_test_string.  cudaMalloc that fails only prints and
\* leaves ptr uninitialised, which the test for NULL need not notice, and so do the
\* copies to it; when generate_test_string fails the buffer is not freed.
MakeString ==
    /\ pc["client"] = "str"
    /\ \/ /\ \E r \in {"str"} \cup {x \in {"wild"} : "cuda" \in faults} :
               Acquire("client", {r})
          /\ Goto("client", IF am = "zcopy" THEN "reg" ELSE "send")
          /\ UNCHANGED <<failed, status>>
       \/ /\ {"alloc", "cuda"} \cap faults # {}
          /\ Leave("client", "out_free_ep", "err")
          /\ UNCHANGED <<failed, held>>
       \/ /\ "alloc" \in faults
          /\ Leave("client", "out_free_ep", "err")
          /\ Acquire("client", {"str"})
          /\ failed' = [failed EXCEPT !["client"] = "string"]
    /\ UNCHANGED <<am, faults, lookup, oobv, uct>>

\* mem_type_free(str); of a wild pointer it is an error of cudaFree that is printed.
FreeString == Release("client", {"str", "wild"})

\* UCT reads, registers or sends from a wild pointer, and the process may die of it.
WildPointer ==
    /\ pc["client"] \in {"reg", "send", "zwait"}
    /\ "wild" \in held["client"]
    /\ Died("client")

\* do_am_zcopy: uct_md_mem_reg, if the memory domain needs it.
Register ==
    /\ pc["client"] = "reg"
    /\ \/ /\ \E r \in SUBSET {"memh"} : Acquire("client", r)
          /\ Goto("client", "send")
          /\ UNCHANGED status
       \/ /\ "setup" \in faults \/ "wild" \in held["client"]
          /\ FreeString
          /\ Leave("client", "out_free_ep", "err")
    /\ UNCHANGED <<env, lookup, oobv, uct>>

\* The server's interface is open and, where endpoints are connected to
\* endpoints, both calls to do so have succeeded.
Deliverable == Listens("server") /\ \A p \in Procs : attr[p].mode = "ep" => conn[p] = "yes"

\* Mutant: UCS_INPROGRESS is taken for UCS_OK.
ReturnsEarly(r) == TRUE

\* do_am_zcopy returns without waiting.
Returns(r) == r # "inprogress"

\* The call of uct_ep_am_short, uct_ep_am_bcopy or uct_ep_am_zcopy that does
\* not return UCS_ERR_NO_RESOURCE, and the mem_type_free that follows.
SendAm ==
    /\ pc["client"] = "send"
    /\ \E r \in {"ok"} \cup {x \in {"inprogress"} : am = "zcopy"} :
         /\ net' = Deliverable
         /\ op' = IF r = "inprogress" THEN "busy" ELSE op
         /\ IF Returns(r)
              THEN FreeString /\ Leave("client", "bar2s", "ok")
              ELSE Goto("client", "zwait") /\ UNCHANGED <<held, status>>
    /\ UNCHANGED <<env, lookup, oobv, conn, desc, shown>>

\* The call fails.
SendAmFails ==
    /\ pc["client"] = "send"
    /\ "post" \in faults \/ "wild" \in held["client"] \/ ~Listens("server")
    /\ FreeString
    /\ Leave("client", "out_free_ep", "err")
    /\ UNCHANGED <<env, lookup, oobv, uct>>

\* Mutant: do_am_zcopy waits without progress.
ProgressPcsNotZwait == {"bar1r", "amwait", "bar2r"}

\* Where uct_worker_progress is called, besides the loop around the send.
ProgressPcs == {"bar1r", "zwait", "amwait", "bar2r"}

\* In uct_worker_progress: the operation has completed and its memory handle is
\* released, or it has failed and the assertion ends the process.
zcopy_completion_cb ==
    /\ op = "busy"
    /\ pc["client"] \in ProgressPcs
    /\ \/ /\ op' = "done"
          /\ desc' = [desc EXCEPT !["client"] = "beef"]
          /\ Release("client", {"memh"})
          /\ UNCHANGED <<env, pc, lookup, status, oobv, conn, net, shown>>
       \/ ~Listens("server") /\ Died("client")

\* do_am_zcopy returns; main frees the string.
ZcopyReturns ==
    /\ pc["client"] = "zwait"
    /\ desc["client"] # "null"
    /\ FreeString
    /\ Leave("client", "bar2s", "ok")
    /\ UNCHANGED <<env, lookup, oobv, uct>>

\* The receive callback keeps the descriptor or a copy of the data; without
\* memory for the copy the message is lost.
hello_world ==
    /\ net
    /\ pc["server"] \in ProgressPcs
    /\ net' = FALSE
    /\ \/ /\ desc' = [desc EXCEPT !["server"] = "uct"]
          /\ Acquire("server", {"desc"})
       \/ /\ desc' = [desc EXCEPT !["server"] = "copy"]
          /\ Acquire("server", {"copy"})
       \/ "alloc" \in faults /\ UNCHANGED <<desc, held>>
    /\ UNCHANGED <<env, pc, lookup, status, oobv, conn, op, shown>>

\* Mutant: the server shows whatever the holder has.
HasMessageAlways == TRUE

HasMessage == desc["server"] # "null"

\* main prints the message and releases the descriptor or frees the copy.
ShowMessage ==
    /\ pc["server"] = "amwait"
    /\ HasMessage
    /\ shown' = (desc["server"] # "null")
    /\ Release("server", {"desc", "copy"})
    /\ Goto("server", "bar2s")
    /\ UNCHANGED <<env, lookup, status, oobv, conn, net, op, desc>>

--------------------------------------------------------------------------------
(***************************************************************************)
(* The end of main.                                                        *)
(***************************************************************************)

\* One label of the chain.  The message under way may be lost with the client's
\* endpoint and is lost with the server's interface.
CleanUp(p) ==
    /\ pc[p] \in Labels
    /\ Release(p, Frees[pc[p]])
    /\ Goto(p, NextLabel[pc[p]])
    /\ IF pc[p] = "out_close_oob_sock" THEN CloseSock(p) ELSE UNCHANGED <<sock, oob>>
    /\ net' \in CASE p = "client" /\ pc[p] = "out_free_ep" -> {net, FALSE}
                  [] p = "server" /\ pc[p] = "out_destroy_iface" -> {FALSE}
                  [] OTHER -> {net}
    /\ UNCHANGED <<env, lookup, status, step, peer, conn, op, desc, shown>>

\* main returns; a socket that was not closed is closed with the process.
Return(p) ==
    /\ pc[p] = "out"
    /\ Goto(p, "end")
    /\ CloseSock(p)
    /\ UNCHANGED <<env, lookup, status, held, step, peer, uct>>

Crash(p) ==
    /\ "crash" \in faults
    /\ pc[p] \notin {"end", "dead"}
    /\ Died(p)

\* What a process does by itself.
Step(p) ==
    \/ CreateWorker(p) \/ uct_query_components(p) \/ QueryComponent(p) \/ OpenMd(p)
    \/ ScanTls(p) \/ OpenIface(p) \/ QueryIface(p) \/ ErrorIface(p) \/ ReleaseTls(p)
    \/ CloseMd(p) \/ ReleaseComponents(p) \/ SetUp(p) \/ ConnectFails(p, "refused")
    \/ SendItem(p) \/ RecvItem(p) \/ uct_iface_is_reachable(p) \/ CreateEp(p)
    \/ CreateConnectedEp(p) \/ ConnectToEp(p) \/ BarrierSend(p) \/ BarrierRecv(p)
    \/ CheckLength(p) \/ CleanUp(p) \/ Return(p)
    \/ p = "client" /\ (MakeString \/ Register \/ SendAm \/ SendAmFails \/ ZcopyReturns)
    \/ p = "server" /\ ShowMessage

Next ==
    \/ Connect
    \/ \E p \in Procs : Step(p) \/ ConnectFails(p, "error") \/ GetAddressFails(p) \/ Crash(p)
    \/ zcopy_completion_cb
    \/ hello_world
    \/ WildPointer

Spec == Init /\ [][Next]_vars

\* Each process is scheduled; UCT completes operations and delivers messages
\* to a process that makes progress.
Fairness ==
    /\ WF_vars(Connect)
    /\ \A p \in Procs : WF_vars(Step(p))
    /\ WF_vars(zcopy_completion_cb)
    /\ WF_vars(hello_world)

FairSpec == Spec /\ Fairness

--------------------------------------------------------------------------------
(***************************************************************************)
(* Properties.                                                             *)
(***************************************************************************)
Ended(p) == pc[p] \in {"end", "dead"}

\* Every jump into the chain of labels skips exactly what is not there: a label
\* that passes a handle to a destroy function (uct_ep_destroy, uct_iface_close,
\* uct_md_close, uct_worker_destroy, ucs_async_context_destroy), or one of the
\* pointers own_dev and own_iface, which have no initial value, to free(), is
\* reached only while that handle or buffer is held.
CleanUpOwned ==
    \A p \in Procs : pc[p] \in Labels => Frees[pc[p]] \cap Handles \subseteq held[p]

\* What main has not released when it returns, dev_tl_lookup and init_iface
\* included, is only: the socket when uct_iface_get_device_address failed; the
\* string when generate_test_string failed; the memory handle of an operation that
\* had no completion; a message that arrived before a failure of the server.
AllReleased ==
    \A p \in Procs : pc[p] = "end" =>
        /\ held[p] \subseteq {"sock", "str", "memh", "desc", "copy"}
        /\ "sock" \in held[p] => failed[p] = "devaddr"
        /\ "str" \in held[p] => failed[p] = "string"
        /\ held[p] \cap {"desc", "copy"} # {} => status[p] # "ok"
        /\ "memh" \in held[p] => op # "done"

\* An object is not destroyed before what was created from it, by the labels of
\* main and by the error exits of dev_tl_lookup and init_iface: endpoint, interface,
\* memory domain and worker, asynchronous context; and the descriptor of a message
\* is the interface's, whose close it does not outlive in a server that has not
\* failed.  (A memory handle is left out: do_am_zcopy forgets it when the send fails.)
DependencyOrder ==
    \A p \in Procs :
        /\ "ep" \in held[p] => "iface" \in held[p]
        /\ "iface" \in held[p] => {"md", "worker"} \subseteq held[p]
        /\ held[p] \cap {"md", "worker", "components"} # {} => "async" \in held[p]
        /\ "desc" \in held[p] /\ "iface" \notin held[p] => status[p] # "ok"

\* When an endpoint exists the peer's addresses are in the buffers they were
\* meant for, although each side decides by its own interface what to exchange.
PeerAddressesRight ==
    \A p \in Procs : "ep" \in held[p] =>
        /\ attr[p].dev => peer[p]["dev"] = "dev"
        /\ attr[p].iface => peer[p]["iface"] = "iface"
        /\ attr[p].mode = "ep" /\ conn[p] # "no" => peer[p]["ep"] = "ep"

\* Where endpoints are connected to endpoints the client sends only after the
\* server has called uct_ep_connect_to_ep too (the barrier before the send).
ConnectedBeforeSend ==
    attr["client"].mode = "ep" /\ pc["client"] \in {"fit", "str", "reg", "send", "zwait"}
        => conn["server"] # "no"

\* A client that comes to the end of main with status UCS_OK has had its message
\* printed by the server's main (the second barrier), unless it never had a connected
\* endpoint: a calloc that failed (lines 621, 625) and an unreachable peer (658) leave
\* UCS_OK and have sent nothing.
ClientSuccessMeansShown ==
    pc["client"] \in Labels \cup {"out", "end"} /\ status["client"] = "ok" =>
        shown \/ conn["client"] = "no"

\* str is not freed while a zero-copy operation reads it, nor is the endpoint it
\* was posted on or the memory domain it is registered with.
BufferHeldUntilSent ==
    op = "busy" /\ pc["client"] # "dead" =>
        /\ held["client"] \cap {"str", "wild"} # {}
        /\ {"ep", "iface", "md"} \subseteq held["client"]

\* Nobody waits on the socket for ever, unless the peer waits for an active
\* message that does not come: the two do not wait for each other.
SocketPcs == Exchanges \cup {"bar1s", "bar1r", "bar2s", "bar2r"}
SocketWaitEnds ==
    \A p \in Procs :
        <>[](pc[p] \in SocketPcs) => p = "client" /\ <>[](pc["server"] = "amwait")

\* If nothing goes wrong outside the programs both end, and the message is
\* printed unless one of them reported a failure or the transports differ; a
\* server is left waiting only for a client that gave up before it connected
\* (accept) or before it sent (the loop on desc_holder, which looks at nothing
\* else).
UctEnds ==
    faults = {} => <>[]
        \/ /\ \A p \in Procs : Ended(p)
           /\ \/ shown \/ attr["client"] # attr["server"]
              \/ \E p \in Procs : status[p] # "ok" \/ pc[p] = "dead"
        \/ /\ pc["server"] \in {"connect", "amwait"}
           /\ Ended("client") /\ status["client"] # "ok"
================================================================================
