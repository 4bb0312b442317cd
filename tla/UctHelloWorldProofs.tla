-------------------------- MODULE UctHelloWorldProofs --------------------------
(***************************************************************************)
(* Proofs about UctHelloWorld, for every set of transports, number of      *)
(* components and memory domains, size of the socket buffer and faults.    *)
(***************************************************************************)
EXTENDS UctHelloWorld, TLAPS

(***************************************************************************)
(* The inductive invariant: where main is determines what it holds.        *)
(***************************************************************************)
EpPcs == {"ep", "connep", "bar1s", "bar1r", "fit", "str", "reg", "send", "zwait",
          "amwait", "bar2s", "bar2r", "out_free_ep"}
EpAddrPcs == EpPcs \cup {"out_free_ep_addrs"}
SockHeldPcs == EpAddrPcs \cup {"dev", "iface", "reach", "mkep", "out_close_oob_sock"}
IfAddrPcs == SockHeldPcs \cup {"connect", "out_free_if_addrs"}
DevAddrPcs == IfAddrPcs \cup {"out_free_dev_addrs"}
IfacePcs == DevAddrPcs \cup {"handler", "out_destroy_iface"}
WorkerPcs == IfacePcs \cup LookupPcs \cup {"out_close_md", "out_destroy_worker"}
AsyncPcs == WorkerPcs \cup {"out_cleanup_async"}
ExitPcs == Labels \cup {"out", "end"}

\* Where an interface and a memory domain are open: inside the lookup it also depends
\* on what init_iface answered.
IfaceOpen(p) ==
    \/ pc[p] \in IfacePcs \cup {"attrs", "error_iface"}
    \/ pc[p] = "release_tls" /\ Chosen(p)
    \/ pc[p] = "release_components" /\ status[p] = "ok"
MdOpen(p) ==
    IfaceOpen(p) \/ pc[p] \in {"tls", "open", "release_tls", "close_md", "out_close_md"}

\* The handles, exactly.
HandlesAt(p) ==
    /\ "ep" \in held[p] <=> pc[p] \in EpPcs
    /\ "own_iface" \in held[p] <=> pc[p] \in IfAddrPcs
    /\ "own_dev" \in held[p] <=> pc[p] \in DevAddrPcs
    /\ "iface" \in held[p] <=> IfaceOpen(p)
    /\ "md" \in held[p] <=> MdOpen(p)
    /\ "worker" \in held[p] <=> pc[p] \in WorkerPcs
    /\ "async" \in held[p] <=> pc[p] \in AsyncPcs
    /\ pc[p] \in {"open", "attrs"} => found[p]
    /\ pc[p] = "close_md" => status[p] = "err"

\* The other resources of main, at most.
BuffersAt(p) ==
    /\ "components" \in held[p] => pc[p] \in LookupPcs \ {"query"}
    /\ "tls" \in held[p] => pc[p] \in {"tls", "open", "attrs", "error_iface", "release_tls"}
    /\ "own_ep" \in held[p] \/ "peer_ep" \in held[p] => pc[p] \in EpAddrPcs
    /\ "peer_iface" \in held[p] => pc[p] \in IfAddrPcs
    /\ "peer_dev" \in held[p] => pc[p] \in DevAddrPcs
    /\ "sock" \in held[p] => \/ pc[p] \in SockHeldPcs
                             \/ failed[p] = "devaddr" /\ pc[p] \in ExitPcs

\* Each side does its own part of the test.
RolesAt ==
    /\ pc["server"] \notin {"str", "reg", "send", "zwait"}
    /\ pc["client"] # "amwait"

AfterSend == {"zwait", "bar2s", "bar2r", "dead"} \cup ExitPcs

\* One message is sent, and desc_holder is set before the second barrier.
MessageAt ==
    /\ net => desc["server"] = "null"
    /\ net \/ desc["server"] # "null" \/ op # "none" => pc["client"] \in AfterSend
    /\ pc["server"] \in {"bar2s", "bar2r"} => desc["server"] # "null"
    /\ op = "busy" => pc["client"] \in {"zwait", "dead"}
    /\ desc["client"] # "null" => op = "done"

\* The client's string and registration.
StringAt ==
    /\ "str" \notin held["server"] /\ "wild" \notin held["server"]
    /\ "memh" \notin held["server"]
    /\ pc["client"] \in {"reg", "send", "zwait"} =>
         "str" \in held["client"] \/ "wild" \in held["client"]
    /\ "str" \in held["client"] => \/ pc["client"] \in {"reg", "send", "zwait"}
                                   \/ failed["client"] = "string" /\ pc["client"] \in ExitPcs
    /\ "wild" \in held["client"] => pc["client"] \in {"reg", "send", "zwait"}
    /\ "memh" \in held["client"] => op # "done"

\* What the receive callback has kept.
DescAt ==
    /\ "desc" \notin held["client"] /\ "copy" \notin held["client"]
    /\ "desc" \in held["server"] \/ "copy" \in held["server"] =>
         \/ pc["server"] \in {"bar1r", "fit", "amwait"}
         \/ status["server"] # "ok" /\ pc["server"] \in ExitPcs

UctInd ==
    /\ UctTypeOK
    /\ \A p \in Procs : HandlesAt(p) /\ BuffersAt(p)
    /\ RolesAt /\ MessageAt /\ StringAt /\ DescAt

--------------------------------------------------------------------------------
\* The chain of labels, written out.
LEMMA LabelFacts ==
    /\ Labels = {"out_free_ep", "out_free_ep_addrs", "out_close_oob_sock",
                 "out_free_if_addrs", "out_free_dev_addrs", "out_destroy_iface",
                 "out_close_md", "out_destroy_worker", "out_cleanup_async"}
    /\ Frees["out_free_ep"] = {"ep"}
    /\ Frees["out_free_ep_addrs"] = {"own_ep", "peer_ep"}
    /\ Frees["out_close_oob_sock"] = {"sock"}
    /\ Frees["out_free_if_addrs"] = {"own_iface", "peer_iface"}
    /\ Frees["out_free_dev_addrs"] = {"own_dev", "peer_dev"}
    /\ Frees["out_destroy_iface"] = {"iface"}
    /\ Frees["out_close_md"] = {"md"}
    /\ Frees["out_destroy_worker"] = {"worker"}
    /\ Frees["out_cleanup_async"] = {"async"}
    /\ NextLabel["out_free_ep"] = "out_free_ep_addrs"
    /\ NextLabel["out_free_ep_addrs"] = "out_close_oob_sock"
    /\ NextLabel["out_close_oob_sock"] = "out_free_if_addrs"
    /\ NextLabel["out_free_if_addrs"] = "out_free_dev_addrs"
    /\ NextLabel["out_free_dev_addrs"] = "out_destroy_iface"
    /\ NextLabel["out_destroy_iface"] = "out_close_md"
    /\ NextLabel["out_close_md"] = "out_destroy_worker"
    /\ NextLabel["out_destroy_worker"] = "out_cleanup_async"
    /\ NextLabel["out_cleanup_async"] = "out"
  BY DEF Labels, Frees, NextLabel

\* What is proved of every action.
UctRest ==
    /\ \A p \in Procs : HandlesAt(p) /\ BuffersAt(p)
    /\ RolesAt /\ MessageAt /\ StringAt /\ DescAt

\* Where a completed step of sendrecv leads.
LEMMA NextStepFacts ==
    ASSUME UctTypeOK, NEW p \in Procs, pc[p] \in Exchanges, NextStep(p)
    PROVE  \E k \in Pcs :
             /\ pc' = [pc EXCEPT ![p] = k]
             /\ pc[p] = "dev" => k \in {"dev", "iface", "reach"}
             /\ pc[p] = "iface" => k \in {"iface", "reach"}
             /\ pc[p] = "ep" => k \in {"ep", "connep"}
<1>1. CASE step[p] = 4
  <2>1. pc' = [pc EXCEPT ![p] = AfterExchange(p, pc[p])]
    BY <1>1 DEF NextStep, Goto
  <2>2. pc[p] = "dev" => AfterExchange(p, pc[p]) \in {"iface", "reach"}
    BY DEF AfterExchange
  <2>3. pc[p] = "iface" => AfterExchange(p, pc[p]) = "reach"
    BY DEF AfterExchange
  <2>4. pc[p] = "ep" => AfterExchange(p, pc[p]) = "connep"
    BY DEF AfterExchange
  <2>. QED
    BY <2>1, <2>2, <2>3, <2>4 DEF Exchanges, Pcs, LookupPcs, MainPcs
<1>2. CASE step[p] # 4
  <2>1. pc' = [pc EXCEPT ![p] = pc[p]]
    BY <1>2 DEF NextStep, UctTypeOK
  <2>. QED
    BY <2>1 DEF Exchanges, Pcs, LookupPcs, MainPcs
<1>. QED
  BY <1>1, <1>2

\* The end of a process without clean-up preserves the invariant.
LEMMA KeepsDied ==
    ASSUME UctInd, NEW p \in Procs, Died(p)
    PROVE  UctRest'
<1>. USE DEF UctInd, UctTypeOK, Procs, Died, CloseSock, Goto
<1>1. ASSUME NEW q \in Procs PROVE HandlesAt(q)'
  BY <1>1 DEF HandlesAt, IfaceOpen, MdOpen, Chosen, EpPcs, EpAddrPcs, SockHeldPcs,
     IfAddrPcs, DevAddrPcs, IfacePcs, LookupPcs, WorkerPcs, AsyncPcs, env, lookup
<1>2. ASSUME NEW q \in Procs PROVE BuffersAt(q)'
  BY <1>2 DEF BuffersAt, EpPcs, EpAddrPcs, SockHeldPcs, IfAddrPcs, DevAddrPcs, LookupPcs,
     ExitPcs, env
<1>3. RolesAt'
  BY DEF RolesAt
<1>4. MessageAt'
  BY DEF MessageAt, RolesAt, AfterSend, ExitPcs
<1>5. StringAt'
  BY DEF StringAt, RolesAt, MessageAt, AfterSend, ExitPcs, env
<1>6. DescAt'
  BY DEF DescAt, RolesAt, MessageAt, ExitPcs
<1>. QED
  BY <1>1, <1>2, <1>3, <1>4, <1>5, <1>6 DEF UctRest

\* A failing send preserves the invariant.
LEMMA KeepsSendFails ==
    ASSUME UctInd, NEW p \in Procs, NEW exit \in Labels, SendFails(p, exit),
           \/ pc[p] \in {"dev", "iface"} /\ exit = "out_close_oob_sock"
           \/ pc[p] \in {"ep", "bar1s", "bar2s"} /\ exit = "out_free_ep"
    PROVE  UctRest'
<1>1. CASE Died(p)
  BY <1>1, KeepsDied
<1>2. CASE ~Died(p)
  <2>. USE <1>2, LabelFacts DEF UctInd, UctTypeOK, Procs, SendFails, Leave, Goto
  <2>1. ASSUME NEW q \in Procs PROVE HandlesAt(q)'
    BY <2>1 DEF HandlesAt, IfaceOpen, MdOpen, Chosen, EpPcs, EpAddrPcs, SockHeldPcs,
       IfAddrPcs, DevAddrPcs, IfacePcs, LookupPcs, WorkerPcs, AsyncPcs, env, lookup, uct
  <2>2. ASSUME NEW q \in Procs PROVE BuffersAt(q)'
    BY <2>2 DEF BuffersAt, EpPcs, EpAddrPcs, SockHeldPcs, IfAddrPcs, DevAddrPcs, LookupPcs,
       ExitPcs, env, uct
  <2>3. RolesAt'
    BY DEF RolesAt, uct
  <2>4. MessageAt'
    BY DEF MessageAt, RolesAt, AfterSend, ExitPcs, uct
  <2>5. StringAt'
    BY DEF StringAt, RolesAt, MessageAt, AfterSend, ExitPcs, env, uct
  <2>6. DescAt'
    BY DEF DescAt, RolesAt, MessageAt, ExitPcs, uct
  <2>. QED
    BY <2>1, <2>2, <2>3, <2>4, <2>5, <2>6 DEF UctRest
<1>. QED
  BY <1>1, <1>2

\* CreateWorker preserves the invariant.
LEMMA KeepsCreateWorker ==
    ASSUME UctInd, NEW p \in Procs, CreateWorker(p)
    PROVE  UctRest'
<1>1. pc[p] = "init" /\ UNCHANGED <<env, lookup, uct>>
  BY DEF CreateWorker
<1>2. CASE Acquire(p, {"async", "worker"}) /\ Goto(p, "query") /\ UNCHANGED status
  <2>. USE <1>1, <1>2, LabelFacts DEF UctInd, UctTypeOK, Procs, Goto, Acquire, Release, Leave
  <2>1. ASSUME NEW q \in Procs PROVE HandlesAt(q)'
    BY <2>1 DEF HandlesAt, IfaceOpen, MdOpen, Chosen, EpPcs, EpAddrPcs, SockHeldPcs,
       IfAddrPcs, DevAddrPcs, IfacePcs, LookupPcs, WorkerPcs, AsyncPcs, env, lookup, uct
  <2>2. ASSUME NEW q \in Procs PROVE BuffersAt(q)'
    BY <2>2 DEF BuffersAt, EpPcs, EpAddrPcs, SockHeldPcs, IfAddrPcs, DevAddrPcs, LookupPcs,
       ExitPcs, env, uct
  <2>3. RolesAt'
    BY DEF RolesAt, uct
  <2>4. MessageAt'
    BY DEF MessageAt, RolesAt, AfterSend, ExitPcs, uct
  <2>5. StringAt'
    BY DEF StringAt, RolesAt, MessageAt, AfterSend, ExitPcs, env, uct
  <2>6. DescAt'
    BY DEF DescAt, RolesAt, MessageAt, ExitPcs, uct
  <2>. QED
    BY <2>1, <2>2, <2>3, <2>4, <2>5, <2>6 DEF UctRest
<1>3. CASE Leave(p, "out", "err") /\ UNCHANGED held
  <2>. USE <1>1, <1>3, LabelFacts DEF UctInd, UctTypeOK, Procs, Goto, Acquire, Release, Leave
  <2>1. ASSUME NEW q \in Procs PROVE HandlesAt(q)'
    BY <2>1 DEF HandlesAt, IfaceOpen, MdOpen, Chosen, EpPcs, EpAddrPcs, SockHeldPcs,
       IfAddrPcs, DevAddrPcs, IfacePcs, LookupPcs, WorkerPcs, AsyncPcs, env, lookup, uct
  <2>2. ASSUME NEW q \in Procs PROVE BuffersAt(q)'
    BY <2>2 DEF BuffersAt, EpPcs, EpAddrPcs, SockHeldPcs, IfAddrPcs, DevAddrPcs, LookupPcs,
       ExitPcs, env, uct
  <2>3. RolesAt'
    BY DEF RolesAt, uct
  <2>4. MessageAt'
    BY DEF MessageAt, RolesAt, AfterSend, ExitPcs, uct
  <2>5. StringAt'
    BY DEF StringAt, RolesAt, MessageAt, AfterSend, ExitPcs, env, uct
  <2>6. DescAt'
    BY DEF DescAt, RolesAt, MessageAt, ExitPcs, uct
  <2>. QED
    BY <2>1, <2>2, <2>3, <2>4, <2>5, <2>6 DEF UctRest
<1>4. CASE Leave(p, "out_cleanup_async", "err") /\ Acquire(p, {"async"})
  <2>. USE <1>1, <1>4, LabelFacts DEF UctInd, UctTypeOK, Procs, Goto, Acquire, Release, Leave
  <2>1. ASSUME NEW q \in Procs PROVE HandlesAt(q)'
    BY <2>1 DEF HandlesAt, IfaceOpen, MdOpen, Chosen, EpPcs, EpAddrPcs, SockHeldPcs,
       IfAddrPcs, DevAddrPcs, IfacePcs, LookupPcs, WorkerPcs, AsyncPcs, env, lookup, uct
  <2>2. ASSUME NEW q \in Procs PROVE BuffersAt(q)'
    BY <2>2 DEF BuffersAt, EpPcs, EpAddrPcs, SockHeldPcs, IfAddrPcs, DevAddrPcs, LookupPcs,
       ExitPcs, env, uct
  <2>3. RolesAt'
    BY DEF RolesAt, uct
  <2>4. MessageAt'
    BY DEF MessageAt, RolesAt, AfterSend, ExitPcs, uct
  <2>5. StringAt'
    BY DEF StringAt, RolesAt, MessageAt, AfterSend, ExitPcs, env, uct
  <2>6. DescAt'
    BY DEF DescAt, RolesAt, MessageAt, ExitPcs, uct
  <2>. QED
    BY <2>1, <2>2, <2>3, <2>4, <2>5, <2>6 DEF UctRest
<1>. QED
  BY <1>2, <1>3, <1>4 DEF CreateWorker

\* uct_query_components preserves the invariant.
LEMMA KeepsUct_query_components ==
    ASSUME UctInd, NEW p \in Procs, uct_query_components(p)
    PROVE  UctRest'
<1>1. pc[p] = "query" /\ UNCHANGED <<env, lookup, uct>>
  BY DEF uct_query_components
<1>2. CASE Acquire(p, {"components"}) /\ Goto(p, "cmpt") /\ UNCHANGED status
  <2>. USE <1>1, <1>2, LabelFacts DEF UctInd, UctTypeOK, Procs, Goto, Acquire, Release, Leave
  <2>1. ASSUME NEW q \in Procs PROVE HandlesAt(q)'
    BY <2>1 DEF HandlesAt, IfaceOpen, MdOpen, Chosen, EpPcs, EpAddrPcs, SockHeldPcs,
       IfAddrPcs, DevAddrPcs, IfacePcs, LookupPcs, WorkerPcs, AsyncPcs, env, lookup, uct
  <2>2. ASSUME NEW q \in Procs PROVE BuffersAt(q)'
    BY <2>2 DEF BuffersAt, EpPcs, EpAddrPcs, SockHeldPcs, IfAddrPcs, DevAddrPcs, LookupPcs,
       ExitPcs, env, uct
  <2>3. RolesAt'
    BY DEF RolesAt, uct
  <2>4. MessageAt'
    BY DEF MessageAt, RolesAt, AfterSend, ExitPcs, uct
  <2>5. StringAt'
    BY DEF StringAt, RolesAt, MessageAt, AfterSend, ExitPcs, env, uct
  <2>6. DescAt'
    BY DEF DescAt, RolesAt, MessageAt, ExitPcs, uct
  <2>. QED
    BY <2>1, <2>2, <2>3, <2>4, <2>5, <2>6 DEF UctRest
<1>3. CASE Leave(p, "out_destroy_worker", "err") /\ UNCHANGED held
  <2>. USE <1>1, <1>3, LabelFacts DEF UctInd, UctTypeOK, Procs, Goto, Acquire, Release, Leave
  <2>1. ASSUME NEW q \in Procs PROVE HandlesAt(q)'
    BY <2>1 DEF HandlesAt, IfaceOpen, MdOpen, Chosen, EpPcs, EpAddrPcs, SockHeldPcs,
       IfAddrPcs, DevAddrPcs, IfacePcs, LookupPcs, WorkerPcs, AsyncPcs, env, lookup, uct
  <2>2. ASSUME NEW q \in Procs PROVE BuffersAt(q)'
    BY <2>2 DEF BuffersAt, EpPcs, EpAddrPcs, SockHeldPcs, IfAddrPcs, DevAddrPcs, LookupPcs,
       ExitPcs, env, uct
  <2>3. RolesAt'
    BY DEF RolesAt, uct
  <2>4. MessageAt'
    BY DEF MessageAt, RolesAt, AfterSend, ExitPcs, uct
  <2>5. StringAt'
    BY DEF StringAt, RolesAt, MessageAt, AfterSend, ExitPcs, env, uct
  <2>6. DescAt'
    BY DEF DescAt, RolesAt, MessageAt, ExitPcs, uct
  <2>. QED
    BY <2>1, <2>2, <2>3, <2>4, <2>5, <2>6 DEF UctRest
<1>. QED
  BY <1>2, <1>3 DEF uct_query_components

\* QueryComponent preserves the invariant.
LEMMA KeepsQueryComponent ==
    ASSUME UctInd, NEW p \in Procs, QueryComponent(p)
    PROVE  UctRest'
<1>1. pc[p] = "cmpt" /\ UNCHANGED <<env, found, held, uct>>
  BY DEF QueryComponent
<1>2. CASE \E st \in {"unsupported", "err"} : Leave(p, "release_components", st)
  <2>. USE <1>1, <1>2, LabelFacts DEF UctInd, UctTypeOK, Procs, Goto, Acquire, Release, Leave
  <2>1. ASSUME NEW q \in Procs PROVE HandlesAt(q)'
    BY <2>1 DEF HandlesAt, IfaceOpen, MdOpen, Chosen, EpPcs, EpAddrPcs, SockHeldPcs,
       IfAddrPcs, DevAddrPcs, IfacePcs, LookupPcs, WorkerPcs, AsyncPcs, env, lookup, uct
  <2>2. ASSUME NEW q \in Procs PROVE BuffersAt(q)'
    BY <2>2 DEF BuffersAt, EpPcs, EpAddrPcs, SockHeldPcs, IfAddrPcs, DevAddrPcs, LookupPcs,
       ExitPcs, env, uct
  <2>3. RolesAt'
    BY DEF RolesAt, uct
  <2>4. MessageAt'
    BY DEF MessageAt, RolesAt, AfterSend, ExitPcs, uct
  <2>5. StringAt'
    BY DEF StringAt, RolesAt, MessageAt, AfterSend, ExitPcs, env, uct
  <2>6. DescAt'
    BY DEF DescAt, RolesAt, MessageAt, ExitPcs, uct
  <2>. QED
    BY <2>1, <2>2, <2>3, <2>4, <2>5, <2>6 DEF UctRest
<1>3. CASE Leave(p, "md", "ok")
  <2>. USE <1>1, <1>3, LabelFacts DEF UctInd, UctTypeOK, Procs, Goto, Acquire, Release, Leave
  <2>1. ASSUME NEW q \in Procs PROVE HandlesAt(q)'
    BY <2>1 DEF HandlesAt, IfaceOpen, MdOpen, Chosen, EpPcs, EpAddrPcs, SockHeldPcs,
       IfAddrPcs, DevAddrPcs, IfacePcs, LookupPcs, WorkerPcs, AsyncPcs, env, lookup, uct
  <2>2. ASSUME NEW q \in Procs PROVE BuffersAt(q)'
    BY <2>2 DEF BuffersAt, EpPcs, EpAddrPcs, SockHeldPcs, IfAddrPcs, DevAddrPcs, LookupPcs,
       ExitPcs, env, uct
  <2>3. RolesAt'
    BY DEF RolesAt, uct
  <2>4. MessageAt'
    BY DEF MessageAt, RolesAt, AfterSend, ExitPcs, uct
  <2>5. StringAt'
    BY DEF StringAt, RolesAt, MessageAt, AfterSend, ExitPcs, env, uct
  <2>6. DescAt'
    BY DEF DescAt, RolesAt, MessageAt, ExitPcs, uct
  <2>. QED
    BY <2>1, <2>2, <2>3, <2>4, <2>5, <2>6 DEF UctRest
<1>. QED
  BY <1>2, <1>3 DEF QueryComponent

\* OpenMd preserves the invariant.
LEMMA KeepsOpenMd ==
    ASSUME UctInd, NEW p \in Procs, OpenMd(p)
    PROVE  UctRest'
<1>1. pc[p] = "md" /\ UNCHANGED <<env, found, uct>>
  BY DEF OpenMd, QueryMdExit
<1>2. CASE Goto(p, "cmpt") /\ UNCHANGED <<held, status>>
  <2>. USE <1>1, <1>2, LabelFacts DEF UctInd, UctTypeOK, Procs, Goto, Acquire, Release, Leave
  <2>1. ASSUME NEW q \in Procs PROVE HandlesAt(q)'
    BY <2>1 DEF HandlesAt, IfaceOpen, MdOpen, Chosen, EpPcs, EpAddrPcs, SockHeldPcs,
       IfAddrPcs, DevAddrPcs, IfacePcs, LookupPcs, WorkerPcs, AsyncPcs, env, lookup, uct
  <2>2. ASSUME NEW q \in Procs PROVE BuffersAt(q)'
    BY <2>2 DEF BuffersAt, EpPcs, EpAddrPcs, SockHeldPcs, IfAddrPcs, DevAddrPcs, LookupPcs,
       ExitPcs, env, uct
  <2>3. RolesAt'
    BY DEF RolesAt, uct
  <2>4. MessageAt'
    BY DEF MessageAt, RolesAt, AfterSend, ExitPcs, uct
  <2>5. StringAt'
    BY DEF StringAt, RolesAt, MessageAt, AfterSend, ExitPcs, env, uct
  <2>6. DescAt'
    BY DEF DescAt, RolesAt, MessageAt, ExitPcs, uct
  <2>. QED
    BY <2>1, <2>2, <2>3, <2>4, <2>5, <2>6 DEF UctRest
<1>3. CASE Acquire(p, {"md", "tls"}) /\ Leave(p, "tls", "ok")
  <2>. USE <1>1, <1>3, LabelFacts DEF UctInd, UctTypeOK, Procs, Goto, Acquire, Release, Leave
  <2>1. ASSUME NEW q \in Procs PROVE HandlesAt(q)'
    BY <2>1 DEF HandlesAt, IfaceOpen, MdOpen, Chosen, EpPcs, EpAddrPcs, SockHeldPcs,
       IfAddrPcs, DevAddrPcs, IfacePcs, LookupPcs, WorkerPcs, AsyncPcs, env, lookup, uct
  <2>2. ASSUME NEW q \in Procs PROVE BuffersAt(q)'
    BY <2>2 DEF BuffersAt, EpPcs, EpAddrPcs, SockHeldPcs, IfAddrPcs, DevAddrPcs, LookupPcs,
       ExitPcs, env, uct
  <2>3. RolesAt'
    BY DEF RolesAt, uct
  <2>4. MessageAt'
    BY DEF MessageAt, RolesAt, AfterSend, ExitPcs, uct
  <2>5. StringAt'
    BY DEF StringAt, RolesAt, MessageAt, AfterSend, ExitPcs, env, uct
  <2>6. DescAt'
    BY DEF DescAt, RolesAt, MessageAt, ExitPcs, uct
  <2>. QED
    BY <2>1, <2>2, <2>3, <2>4, <2>5, <2>6 DEF UctRest
<1>4. CASE Leave(p, "release_components", "err") /\ UNCHANGED held
  <2>. USE <1>1, <1>4, LabelFacts DEF UctInd, UctTypeOK, Procs, Goto, Acquire, Release, Leave
  <2>1. ASSUME NEW q \in Procs PROVE HandlesAt(q)'
    BY <2>1 DEF HandlesAt, IfaceOpen, MdOpen, Chosen, EpPcs, EpAddrPcs, SockHeldPcs,
       IfAddrPcs, DevAddrPcs, IfacePcs, LookupPcs, WorkerPcs, AsyncPcs, env, lookup, uct
  <2>2. ASSUME NEW q \in Procs PROVE BuffersAt(q)'
    BY <2>2 DEF BuffersAt, EpPcs, EpAddrPcs, SockHeldPcs, IfAddrPcs, DevAddrPcs, LookupPcs,
       ExitPcs, env, uct
  <2>3. RolesAt'
    BY DEF RolesAt, uct
  <2>4. MessageAt'
    BY DEF MessageAt, RolesAt, AfterSend, ExitPcs, uct
  <2>5. StringAt'
    BY DEF StringAt, RolesAt, MessageAt, AfterSend, ExitPcs, env, uct
  <2>6. DescAt'
    BY DEF DescAt, RolesAt, MessageAt, ExitPcs, uct
  <2>. QED
    BY <2>1, <2>2, <2>3, <2>4, <2>5, <2>6 DEF UctRest
<1>5. CASE Leave(p, "close_md", "err") /\ Acquire(p, {"md"})
  <2>. USE <1>1, <1>5, LabelFacts DEF UctInd, UctTypeOK, Procs, Goto, Acquire, Release, Leave
  <2>1. ASSUME NEW q \in Procs PROVE HandlesAt(q)'
    BY <2>1 DEF HandlesAt, IfaceOpen, MdOpen, Chosen, EpPcs, EpAddrPcs, SockHeldPcs,
       IfAddrPcs, DevAddrPcs, IfacePcs, LookupPcs, WorkerPcs, AsyncPcs, env, lookup, uct
  <2>2. ASSUME NEW q \in Procs PROVE BuffersAt(q)'
    BY <2>2 DEF BuffersAt, EpPcs, EpAddrPcs, SockHeldPcs, IfAddrPcs, DevAddrPcs, LookupPcs,
       ExitPcs, env, uct
  <2>3. RolesAt'
    BY DEF RolesAt, uct
  <2>4. MessageAt'
    BY DEF MessageAt, RolesAt, AfterSend, ExitPcs, uct
  <2>5. StringAt'
    BY DEF StringAt, RolesAt, MessageAt, AfterSend, ExitPcs, env, uct
  <2>6. DescAt'
    BY DEF DescAt, RolesAt, MessageAt, ExitPcs, uct
  <2>. QED
    BY <2>1, <2>2, <2>3, <2>4, <2>5, <2>6 DEF UctRest
<1>. QED
  BY <1>2, <1>3, <1>4, <1>5 DEF OpenMd, QueryMdExit

\* ScanTls preserves the invariant.
LEMMA KeepsScanTls ==
    ASSUME UctInd, NEW p \in Procs, ScanTls(p)
    PROVE  UctRest'
<1>1. pc[p] = "tls" /\ UNCHANGED <<env, held, uct>>
  BY DEF ScanTls
<1>2. CASE found' = [found EXCEPT ![p] = FALSE] /\ Goto(p, "release_tls") /\ UNCHANGED status
  <2>. USE <1>1, <1>2, LabelFacts DEF UctInd, UctTypeOK, Procs, Goto, Acquire, Release, Leave
  <2>1. ASSUME NEW q \in Procs PROVE HandlesAt(q)'
    BY <2>1 DEF HandlesAt, IfaceOpen, MdOpen, Chosen, EpPcs, EpAddrPcs, SockHeldPcs,
       IfAddrPcs, DevAddrPcs, IfacePcs, LookupPcs, WorkerPcs, AsyncPcs, env, lookup, uct
  <2>2. ASSUME NEW q \in Procs PROVE BuffersAt(q)'
    BY <2>2 DEF BuffersAt, EpPcs, EpAddrPcs, SockHeldPcs, IfAddrPcs, DevAddrPcs, LookupPcs,
       ExitPcs, env, uct
  <2>3. RolesAt'
    BY DEF RolesAt, uct
  <2>4. MessageAt'
    BY DEF MessageAt, RolesAt, AfterSend, ExitPcs, uct
  <2>5. StringAt'
    BY DEF StringAt, RolesAt, MessageAt, AfterSend, ExitPcs, env, uct
  <2>6. DescAt'
    BY DEF DescAt, RolesAt, MessageAt, ExitPcs, uct
  <2>. QED
    BY <2>1, <2>2, <2>3, <2>4, <2>5, <2>6 DEF UctRest
<1>3. CASE found' = [found EXCEPT ![p] = TRUE] /\ Leave(p, "release_tls", "unsupported")
  <2>. USE <1>1, <1>3, LabelFacts DEF UctInd, UctTypeOK, Procs, Goto, Acquire, Release, Leave
  <2>1. ASSUME NEW q \in Procs PROVE HandlesAt(q)'
    BY <2>1 DEF HandlesAt, IfaceOpen, MdOpen, Chosen, EpPcs, EpAddrPcs, SockHeldPcs,
       IfAddrPcs, DevAddrPcs, IfacePcs, LookupPcs, WorkerPcs, AsyncPcs, env, lookup, uct
  <2>2. ASSUME NEW q \in Procs PROVE BuffersAt(q)'
    BY <2>2 DEF BuffersAt, EpPcs, EpAddrPcs, SockHeldPcs, IfAddrPcs, DevAddrPcs, LookupPcs,
       ExitPcs, env, uct
  <2>3. RolesAt'
    BY DEF RolesAt, uct
  <2>4. MessageAt'
    BY DEF MessageAt, RolesAt, AfterSend, ExitPcs, uct
  <2>5. StringAt'
    BY DEF StringAt, RolesAt, MessageAt, AfterSend, ExitPcs, env, uct
  <2>6. DescAt'
    BY DEF DescAt, RolesAt, MessageAt, ExitPcs, uct
  <2>. QED
    BY <2>1, <2>2, <2>3, <2>4, <2>5, <2>6 DEF UctRest
<1>4. CASE found' = [found EXCEPT ![p] = TRUE] /\ Goto(p, "open") /\ UNCHANGED status
  <2>. USE <1>1, <1>4, LabelFacts DEF UctInd, UctTypeOK, Procs, Goto, Acquire, Release, Leave
  <2>1. ASSUME NEW q \in Procs PROVE HandlesAt(q)'
    BY <2>1 DEF HandlesAt, IfaceOpen, MdOpen, Chosen, EpPcs, EpAddrPcs, SockHeldPcs,
       IfAddrPcs, DevAddrPcs, IfacePcs, LookupPcs, WorkerPcs, AsyncPcs, env, lookup, uct
  <2>2. ASSUME NEW q \in Procs PROVE BuffersAt(q)'
    BY <2>2 DEF BuffersAt, EpPcs, EpAddrPcs, SockHeldPcs, IfAddrPcs, DevAddrPcs, LookupPcs,
       ExitPcs, env, uct
  <2>3. RolesAt'
    BY DEF RolesAt, uct
  <2>4. MessageAt'
    BY DEF MessageAt, RolesAt, AfterSend, ExitPcs, uct
  <2>5. StringAt'
    BY DEF StringAt, RolesAt, MessageAt, AfterSend, ExitPcs, env, uct
  <2>6. DescAt'
    BY DEF DescAt, RolesAt, MessageAt, ExitPcs, uct
  <2>. QED
    BY <2>1, <2>2, <2>3, <2>4, <2>5, <2>6 DEF UctRest
<1>. QED
  BY <1>2, <1>3, <1>4 DEF ScanTls

\* OpenIface preserves the invariant.
LEMMA KeepsOpenIface ==
    ASSUME UctInd, NEW p \in Procs, OpenIface(p)
    PROVE  UctRest'
<1>1. pc[p] = "open" /\ UNCHANGED <<env, lookup, uct>>
  BY DEF OpenIface
<1>2. CASE Acquire(p, {"iface"}) /\ Goto(p, "attrs") /\ UNCHANGED status
  <2>. USE <1>1, <1>2, LabelFacts DEF UctInd, UctTypeOK, Procs, Goto, Acquire, Release, Leave
  <2>1. ASSUME NEW q \in Procs PROVE HandlesAt(q)'
    BY <2>1 DEF HandlesAt, IfaceOpen, MdOpen, Chosen, EpPcs, EpAddrPcs, SockHeldPcs,
       IfAddrPcs, DevAddrPcs, IfacePcs, LookupPcs, WorkerPcs, AsyncPcs, env, lookup, uct
  <2>2. ASSUME NEW q \in Procs PROVE BuffersAt(q)'
    BY <2>2 DEF BuffersAt, EpPcs, EpAddrPcs, SockHeldPcs, IfAddrPcs, DevAddrPcs, LookupPcs,
       ExitPcs, env, uct
  <2>3. RolesAt'
    BY DEF RolesAt, uct
  <2>4. MessageAt'
    BY DEF MessageAt, RolesAt, AfterSend, ExitPcs, uct
  <2>5. StringAt'
    BY DEF StringAt, RolesAt, MessageAt, AfterSend, ExitPcs, env, uct
  <2>6. DescAt'
    BY DEF DescAt, RolesAt, MessageAt, ExitPcs, uct
  <2>. QED
    BY <2>1, <2>2, <2>3, <2>4, <2>5, <2>6 DEF UctRest
<1>3. CASE Leave(p, "release_tls", "unsupported") /\ UNCHANGED held
  <2>. USE <1>1, <1>3, LabelFacts DEF UctInd, UctTypeOK, Procs, Goto, Acquire, Release, Leave
  <2>1. ASSUME NEW q \in Procs PROVE HandlesAt(q)'
    BY <2>1 DEF HandlesAt, IfaceOpen, MdOpen, Chosen, EpPcs, EpAddrPcs, SockHeldPcs,
       IfAddrPcs, DevAddrPcs, IfacePcs, LookupPcs, WorkerPcs, AsyncPcs, env, lookup, uct
  <2>2. ASSUME NEW q \in Procs PROVE BuffersAt(q)'
    BY <2>2 DEF BuffersAt, EpPcs, EpAddrPcs, SockHeldPcs, IfAddrPcs, DevAddrPcs, LookupPcs,
       ExitPcs, env, uct
  <2>3. RolesAt'
    BY DEF RolesAt, uct
  <2>4. MessageAt'
    BY DEF MessageAt, RolesAt, AfterSend, ExitPcs, uct
  <2>5. StringAt'
    BY DEF StringAt, RolesAt, MessageAt, AfterSend, ExitPcs, env, uct
  <2>6. DescAt'
    BY DEF DescAt, RolesAt, MessageAt, ExitPcs, uct
  <2>. QED
    BY <2>1, <2>2, <2>3, <2>4, <2>5, <2>6 DEF UctRest
<1>. QED
  BY <1>2, <1>3 DEF OpenIface

\* QueryIface preserves the invariant.
LEMMA KeepsQueryIface ==
    ASSUME UctInd, NEW p \in Procs, QueryIface(p)
    PROVE  UctRest'
<1>1. pc[p] = "attrs" /\ UNCHANGED <<env, found, held, uct>>
  BY DEF QueryIface
<1>2. CASE Leave(p, "release_tls", "ok")
  <2>. USE <1>1, <1>2, LabelFacts DEF UctInd, UctTypeOK, Procs, Goto, Acquire, Release, Leave
  <2>1. ASSUME NEW q \in Procs PROVE HandlesAt(q)'
    BY <2>1 DEF HandlesAt, IfaceOpen, MdOpen, Chosen, EpPcs, EpAddrPcs, SockHeldPcs,
       IfAddrPcs, DevAddrPcs, IfacePcs, LookupPcs, WorkerPcs, AsyncPcs, env, lookup, uct
  <2>2. ASSUME NEW q \in Procs PROVE BuffersAt(q)'
    BY <2>2 DEF BuffersAt, EpPcs, EpAddrPcs, SockHeldPcs, IfAddrPcs, DevAddrPcs, LookupPcs,
       ExitPcs, env, uct
  <2>3. RolesAt'
    BY DEF RolesAt, uct
  <2>4. MessageAt'
    BY DEF MessageAt, RolesAt, AfterSend, ExitPcs, uct
  <2>5. StringAt'
    BY DEF StringAt, RolesAt, MessageAt, AfterSend, ExitPcs, env, uct
  <2>6. DescAt'
    BY DEF DescAt, RolesAt, MessageAt, ExitPcs, uct
  <2>. QED
    BY <2>1, <2>2, <2>3, <2>4, <2>5, <2>6 DEF UctRest
<1>3. CASE Goto(p, "error_iface") /\ UNCHANGED status
  <2>. USE <1>1, <1>3, LabelFacts DEF UctInd, UctTypeOK, Procs, Goto, Acquire, Release, Leave
  <2>1. ASSUME NEW q \in Procs PROVE HandlesAt(q)'
    BY <2>1 DEF HandlesAt, IfaceOpen, MdOpen, Chosen, EpPcs, EpAddrPcs, SockHeldPcs,
       IfAddrPcs, DevAddrPcs, IfacePcs, LookupPcs, WorkerPcs, AsyncPcs, env, lookup, uct
  <2>2. ASSUME NEW q \in Procs PROVE BuffersAt(q)'
    BY <2>2 DEF BuffersAt, EpPcs, EpAddrPcs, SockHeldPcs, IfAddrPcs, DevAddrPcs, LookupPcs,
       ExitPcs, env, uct
  <2>3. RolesAt'
    BY DEF RolesAt, uct
  <2>4. MessageAt'
    BY DEF MessageAt, RolesAt, AfterSend, ExitPcs, uct
  <2>5. StringAt'
    BY DEF StringAt, RolesAt, MessageAt, AfterSend, ExitPcs, env, uct
  <2>6. DescAt'
    BY DEF DescAt, RolesAt, MessageAt, ExitPcs, uct
  <2>. QED
    BY <2>1, <2>2, <2>3, <2>4, <2>5, <2>6 DEF UctRest
<1>. QED
  BY <1>2, <1>3 DEF QueryIface

\* ErrorIface preserves the invariant.
LEMMA KeepsErrorIface ==
    ASSUME UctInd, NEW p \in Procs, ErrorIface(p)
    PROVE  UctRest'
<1>. USE LabelFacts DEF UctInd, UctTypeOK, Procs, ErrorIface, Goto, Acquire, Release, Leave
<1>1. ASSUME NEW q \in Procs PROVE HandlesAt(q)'
  BY <1>1 DEF HandlesAt, IfaceOpen, MdOpen, Chosen, EpPcs, EpAddrPcs, SockHeldPcs,
     IfAddrPcs, DevAddrPcs, IfacePcs, LookupPcs, WorkerPcs, AsyncPcs, env, lookup, uct
<1>2. ASSUME NEW q \in Procs PROVE BuffersAt(q)'
  BY <1>2 DEF BuffersAt, EpPcs, EpAddrPcs, SockHeldPcs, IfAddrPcs, DevAddrPcs, LookupPcs,
     ExitPcs, env, uct
<1>3. RolesAt'
  BY DEF RolesAt, uct
<1>4. MessageAt'
  BY DEF MessageAt, RolesAt, AfterSend, ExitPcs, uct
<1>5. StringAt'
  BY DEF StringAt, RolesAt, MessageAt, AfterSend, ExitPcs, env, uct
<1>6. DescAt'
  BY DEF DescAt, RolesAt, MessageAt, ExitPcs, uct
<1>. QED
  BY <1>1, <1>2, <1>3, <1>4, <1>5, <1>6 DEF UctRest

\* ReleaseTls preserves the invariant.
LEMMA KeepsReleaseTls ==
    ASSUME UctInd, NEW p \in Procs, ReleaseTls(p)
    PROVE  UctRest'
<1>1. pc[p] = "release_tls" /\ UNCHANGED <<env, lookup, status, uct>>
  BY DEF ReleaseTls
<1>2. CASE Chosen(p) /\ Release(p, {"tls"}) /\ Goto(p, "release_components")
  <2>. USE <1>1, <1>2, LabelFacts DEF UctInd, UctTypeOK, Procs, Goto, Acquire, Release, Leave
  <2>1. ASSUME NEW q \in Procs PROVE HandlesAt(q)'
    BY <2>1 DEF HandlesAt, IfaceOpen, MdOpen, Chosen, EpPcs, EpAddrPcs, SockHeldPcs,
       IfAddrPcs, DevAddrPcs, IfacePcs, LookupPcs, WorkerPcs, AsyncPcs, env, lookup, uct
  <2>2. ASSUME NEW q \in Procs PROVE BuffersAt(q)'
    BY <2>2 DEF BuffersAt, EpPcs, EpAddrPcs, SockHeldPcs, IfAddrPcs, DevAddrPcs, LookupPcs,
       ExitPcs, env, uct
  <2>3. RolesAt'
    BY DEF RolesAt, uct
  <2>4. MessageAt'
    BY DEF MessageAt, RolesAt, AfterSend, ExitPcs, uct
  <2>5. StringAt'
    BY DEF StringAt, RolesAt, MessageAt, AfterSend, ExitPcs, env, uct
  <2>6. DescAt'
    BY DEF DescAt, RolesAt, MessageAt, ExitPcs, uct
  <2>. QED
    BY <2>1, <2>2, <2>3, <2>4, <2>5, <2>6 DEF UctRest
<1>3. CASE ~Chosen(p) /\ Release(p, {"tls", "md"}) /\ Goto(p, "md")
  <2>. USE <1>1, <1>3, LabelFacts DEF UctInd, UctTypeOK, Procs, Goto, Acquire, Release, Leave
  <2>1. ASSUME NEW q \in Procs PROVE HandlesAt(q)'
    BY <2>1 DEF HandlesAt, IfaceOpen, MdOpen, Chosen, EpPcs, EpAddrPcs, SockHeldPcs,
       IfAddrPcs, DevAddrPcs, IfacePcs, LookupPcs, WorkerPcs, AsyncPcs, env, lookup, uct
  <2>2. ASSUME NEW q \in Procs PROVE BuffersAt(q)'
    BY <2>2 DEF BuffersAt, EpPcs, EpAddrPcs, SockHeldPcs, IfAddrPcs, DevAddrPcs, LookupPcs,
       ExitPcs, env, uct
  <2>3. RolesAt'
    BY DEF RolesAt, uct
  <2>4. MessageAt'
    BY DEF MessageAt, RolesAt, AfterSend, ExitPcs, uct
  <2>5. StringAt'
    BY DEF StringAt, RolesAt, MessageAt, AfterSend, ExitPcs, env, uct
  <2>6. DescAt'
    BY DEF DescAt, RolesAt, MessageAt, ExitPcs, uct
  <2>. QED
    BY <2>1, <2>2, <2>3, <2>4, <2>5, <2>6 DEF UctRest
<1>. QED
  BY <1>2, <1>3 DEF ReleaseTls

\* CloseMd preserves the invariant.
LEMMA KeepsCloseMd ==
    ASSUME UctInd, NEW p \in Procs, CloseMd(p)
    PROVE  UctRest'
<1>. USE LabelFacts DEF UctInd, UctTypeOK, Procs, CloseMd, Goto, Acquire, Release, Leave
<1>1. ASSUME NEW q \in Procs PROVE HandlesAt(q)'
  BY <1>1 DEF HandlesAt, IfaceOpen, MdOpen, Chosen, EpPcs, EpAddrPcs, SockHeldPcs,
     IfAddrPcs, DevAddrPcs, IfacePcs, LookupPcs, WorkerPcs, AsyncPcs, env, lookup, uct
<1>2. ASSUME NEW q \in Procs PROVE BuffersAt(q)'
  BY <1>2 DEF BuffersAt, EpPcs, EpAddrPcs, SockHeldPcs, IfAddrPcs, DevAddrPcs, LookupPcs,
     ExitPcs, env, uct
<1>3. RolesAt'
  BY DEF RolesAt, uct
<1>4. MessageAt'
  BY DEF MessageAt, RolesAt, AfterSend, ExitPcs, uct
<1>5. StringAt'
  BY DEF StringAt, RolesAt, MessageAt, AfterSend, ExitPcs, env, uct
<1>6. DescAt'
  BY DEF DescAt, RolesAt, MessageAt, ExitPcs, uct
<1>. QED
  BY <1>1, <1>2, <1>3, <1>4, <1>5, <1>6 DEF UctRest

\* ReleaseComponents preserves the invariant.
LEMMA KeepsReleaseComponents ==
    ASSUME UctInd, NEW p \in Procs, ReleaseComponents(p)
    PROVE  UctRest'
<1>1. pc[p] = "release_components" /\ UNCHANGED <<env, status, uct>>
  BY DEF ReleaseComponents
<1>2. CASE status[p] = "ok" /\ Release(p, {"components"}) /\ Goto(p, "handler") /\ found' = [found EXCEPT ![p] = FALSE]
  <2>. USE <1>1, <1>2, LabelFacts DEF UctInd, UctTypeOK, Procs, Goto, Acquire, Release, Leave
  <2>1. ASSUME NEW q \in Procs PROVE HandlesAt(q)'
    BY <2>1 DEF HandlesAt, IfaceOpen, MdOpen, Chosen, EpPcs, EpAddrPcs, SockHeldPcs,
       IfAddrPcs, DevAddrPcs, IfacePcs, LookupPcs, WorkerPcs, AsyncPcs, env, lookup, uct
  <2>2. ASSUME NEW q \in Procs PROVE BuffersAt(q)'
    BY <2>2 DEF BuffersAt, EpPcs, EpAddrPcs, SockHeldPcs, IfAddrPcs, DevAddrPcs, LookupPcs,
       ExitPcs, env, uct
  <2>3. RolesAt'
    BY DEF RolesAt, uct
  <2>4. MessageAt'
    BY DEF MessageAt, RolesAt, AfterSend, ExitPcs, uct
  <2>5. StringAt'
    BY DEF StringAt, RolesAt, MessageAt, AfterSend, ExitPcs, env, uct
  <2>6. DescAt'
    BY DEF DescAt, RolesAt, MessageAt, ExitPcs, uct
  <2>. QED
    BY <2>1, <2>2, <2>3, <2>4, <2>5, <2>6 DEF UctRest
<1>3. CASE status[p] # "ok" /\ Release(p, {"components"}) /\ Goto(p, "out_destroy_worker") /\ found' = [found EXCEPT ![p] = FALSE]
  <2>. USE <1>1, <1>3, LabelFacts DEF UctInd, UctTypeOK, Procs, Goto, Acquire, Release, Leave
  <2>1. ASSUME NEW q \in Procs PROVE HandlesAt(q)'
    BY <2>1 DEF HandlesAt, IfaceOpen, MdOpen, Chosen, EpPcs, EpAddrPcs, SockHeldPcs,
       IfAddrPcs, DevAddrPcs, IfacePcs, LookupPcs, WorkerPcs, AsyncPcs, env, lookup, uct
  <2>2. ASSUME NEW q \in Procs PROVE BuffersAt(q)'
    BY <2>2 DEF BuffersAt, EpPcs, EpAddrPcs, SockHeldPcs, IfAddrPcs, DevAddrPcs, LookupPcs,
       ExitPcs, env, uct
  <2>3. RolesAt'
    BY DEF RolesAt, uct
  <2>4. MessageAt'
    BY DEF MessageAt, RolesAt, AfterSend, ExitPcs, uct
  <2>5. StringAt'
    BY DEF StringAt, RolesAt, MessageAt, AfterSend, ExitPcs, env, uct
  <2>6. DescAt'
    BY DEF DescAt, RolesAt, MessageAt, ExitPcs, uct
  <2>. QED
    BY <2>1, <2>2, <2>3, <2>4, <2>5, <2>6 DEF UctRest
<1>. QED
  BY <1>2, <1>3 DEF ReleaseComponents

\* SetUp preserves the invariant.
LEMMA KeepsSetUp ==
    ASSUME UctInd, NEW p \in Procs, SetUp(p)
    PROVE  UctRest'
<1>1. pc[p] = "handler" /\ UNCHANGED <<env, lookup, uct>>
  BY DEF SetUp
<1>2. CASE Acquire(p, {"own_dev", "own_iface"}) /\ Goto(p, "connect") /\ UNCHANGED status
  <2>. USE <1>1, <1>2, LabelFacts DEF UctInd, UctTypeOK, Procs, Goto, Acquire, Release, Leave
  <2>1. ASSUME NEW q \in Procs PROVE HandlesAt(q)'
    BY <2>1 DEF HandlesAt, IfaceOpen, MdOpen, Chosen, EpPcs, EpAddrPcs, SockHeldPcs,
       IfAddrPcs, DevAddrPcs, IfacePcs, LookupPcs, WorkerPcs, AsyncPcs, env, lookup, uct
  <2>2. ASSUME NEW q \in Procs PROVE BuffersAt(q)'
    BY <2>2 DEF BuffersAt, EpPcs, EpAddrPcs, SockHeldPcs, IfAddrPcs, DevAddrPcs, LookupPcs,
       ExitPcs, env, uct
  <2>3. RolesAt'
    BY DEF RolesAt, uct
  <2>4. MessageAt'
    BY DEF MessageAt, RolesAt, AfterSend, ExitPcs, uct
  <2>5. StringAt'
    BY DEF StringAt, RolesAt, MessageAt, AfterSend, ExitPcs, env, uct
  <2>6. DescAt'
    BY DEF DescAt, RolesAt, MessageAt, ExitPcs, uct
  <2>. QED
    BY <2>1, <2>2, <2>3, <2>4, <2>5, <2>6 DEF UctRest
<1>3. CASE \E st \in {"ok", "err"} : Leave(p, "out_destroy_iface", st) /\ UNCHANGED held
  <2>. USE <1>1, <1>3, LabelFacts DEF UctInd, UctTypeOK, Procs, Goto, Acquire, Release, Leave
  <2>1. ASSUME NEW q \in Procs PROVE HandlesAt(q)'
    BY <2>1 DEF HandlesAt, IfaceOpen, MdOpen, Chosen, EpPcs, EpAddrPcs, SockHeldPcs,
       IfAddrPcs, DevAddrPcs, IfacePcs, LookupPcs, WorkerPcs, AsyncPcs, env, lookup, uct
  <2>2. ASSUME NEW q \in Procs PROVE BuffersAt(q)'
    BY <2>2 DEF BuffersAt, EpPcs, EpAddrPcs, SockHeldPcs, IfAddrPcs, DevAddrPcs, LookupPcs,
       ExitPcs, env, uct
  <2>3. RolesAt'
    BY DEF RolesAt, uct
  <2>4. MessageAt'
    BY DEF MessageAt, RolesAt, AfterSend, ExitPcs, uct
  <2>5. StringAt'
    BY DEF StringAt, RolesAt, MessageAt, AfterSend, ExitPcs, env, uct
  <2>6. DescAt'
    BY DEF DescAt, RolesAt, MessageAt, ExitPcs, uct
  <2>. QED
    BY <2>1, <2>2, <2>3, <2>4, <2>5, <2>6 DEF UctRest
<1>4. CASE Leave(p, "out_free_dev_addrs", "ok") /\ Acquire(p, {"own_dev"})
  <2>. USE <1>1, <1>4, LabelFacts DEF UctInd, UctTypeOK, Procs, Goto, Acquire, Release, Leave
  <2>1. ASSUME NEW q \in Procs PROVE HandlesAt(q)'
    BY <2>1 DEF HandlesAt, IfaceOpen, MdOpen, Chosen, EpPcs, EpAddrPcs, SockHeldPcs,
       IfAddrPcs, DevAddrPcs, IfacePcs, LookupPcs, WorkerPcs, AsyncPcs, env, lookup, uct
  <2>2. ASSUME NEW q \in Procs PROVE BuffersAt(q)'
    BY <2>2 DEF BuffersAt, EpPcs, EpAddrPcs, SockHeldPcs, IfAddrPcs, DevAddrPcs, LookupPcs,
       ExitPcs, env, uct
  <2>3. RolesAt'
    BY DEF RolesAt, uct
  <2>4. MessageAt'
    BY DEF MessageAt, RolesAt, AfterSend, ExitPcs, uct
  <2>5. StringAt'
    BY DEF StringAt, RolesAt, MessageAt, AfterSend, ExitPcs, env, uct
  <2>6. DescAt'
    BY DEF DescAt, RolesAt, MessageAt, ExitPcs, uct
  <2>. QED
    BY <2>1, <2>2, <2>3, <2>4, <2>5, <2>6 DEF UctRest
<1>. QED
  BY <1>2, <1>3, <1>4 DEF SetUp

\* ConnectFails preserves the invariant.
LEMMA KeepsConnectFails ==
    ASSUME UctInd, NEW p \in Procs, (\E why \in {"refused", "error"} : ConnectFails(p, why))
    PROVE  UctRest'
<1>. USE LabelFacts DEF UctInd, UctTypeOK, Procs, ConnectFails, Goto, Acquire, Release, Leave
<1>1. ASSUME NEW q \in Procs PROVE HandlesAt(q)'
  BY <1>1 DEF HandlesAt, IfaceOpen, MdOpen, Chosen, EpPcs, EpAddrPcs, SockHeldPcs,
     IfAddrPcs, DevAddrPcs, IfacePcs, LookupPcs, WorkerPcs, AsyncPcs, env, lookup, uct
<1>2. ASSUME NEW q \in Procs PROVE BuffersAt(q)'
  BY <1>2 DEF BuffersAt, EpPcs, EpAddrPcs, SockHeldPcs, IfAddrPcs, DevAddrPcs, LookupPcs,
     ExitPcs, env, uct
<1>3. RolesAt'
  BY DEF RolesAt, uct
<1>4. MessageAt'
  BY DEF MessageAt, RolesAt, AfterSend, ExitPcs, uct
<1>5. StringAt'
  BY DEF StringAt, RolesAt, MessageAt, AfterSend, ExitPcs, env, uct
<1>6. DescAt'
  BY DEF DescAt, RolesAt, MessageAt, ExitPcs, uct
<1>. QED
  BY <1>1, <1>2, <1>3, <1>4, <1>5, <1>6 DEF UctRest

\* GetAddressFails preserves the invariant.
LEMMA KeepsGetAddressFails ==
    ASSUME UctInd, NEW p \in Procs, GetAddressFails(p)
    PROVE  UctRest'
<1>. USE LabelFacts DEF UctInd, UctTypeOK, Procs, GetAddressFails, IfaceAddrExit, Goto,
   Acquire, Release, Leave
<1>1. ASSUME NEW q \in Procs PROVE HandlesAt(q)'
  BY <1>1 DEF HandlesAt, IfaceOpen, MdOpen, Chosen, EpPcs, EpAddrPcs, SockHeldPcs,
     IfAddrPcs, DevAddrPcs, IfacePcs, LookupPcs, WorkerPcs, AsyncPcs, env, lookup, uct
<1>2. ASSUME NEW q \in Procs PROVE BuffersAt(q)'
  BY <1>2 DEF BuffersAt, EpPcs, EpAddrPcs, SockHeldPcs, IfAddrPcs, DevAddrPcs, LookupPcs,
     ExitPcs, env, uct
<1>3. RolesAt'
  BY DEF RolesAt, uct
<1>4. MessageAt'
  BY DEF MessageAt, RolesAt, AfterSend, ExitPcs, uct
<1>5. StringAt'
  BY DEF StringAt, RolesAt, MessageAt, AfterSend, ExitPcs, env, uct
<1>6. DescAt'
  BY DEF DescAt, RolesAt, MessageAt, ExitPcs, uct
<1>. QED
  BY <1>1, <1>2, <1>3, <1>4, <1>5, <1>6 DEF UctRest

\* SendItem preserves the invariant.
LEMMA KeepsSendItem ==
    ASSUME UctInd, NEW p \in Procs, SendItem(p)
    PROVE  UctRest'
<1>1. CASE SendFails(p, ExchangeExit(pc[p]))
  <2>1. \/ pc[p] \in {"dev", "iface"} /\ ExchangeExit(pc[p]) = "out_close_oob_sock"
        \/ pc[p] \in {"ep", "bar1s", "bar2s"} /\ ExchangeExit(pc[p]) = "out_free_ep"
    BY DEF SendItem, Exchanges, ExchangeExit
  <2>2. ExchangeExit(pc[p]) \in Labels
    BY <2>1, LabelFacts
  <2>. QED
    BY <1>1, <2>1, <2>2, KeepsSendFails
<1>2. CASE ~SendFails(p, ExchangeExit(pc[p]))
  <2>1. PICK k \in Pcs : /\ pc' = [pc EXCEPT ![p] = k]
                         /\ pc[p] = "dev" => k \in {"dev", "iface", "reach"}
                         /\ pc[p] = "iface" => k \in {"iface", "reach"}
                         /\ pc[p] = "ep" => k \in {"ep", "connep"}
    BY <1>2, NextStepFacts DEF SendItem, UctInd
  <2>2. pc[p] \in {"dev", "iface", "ep"} /\ UNCHANGED <<env, lookup, held, status, uct>>
    BY <1>2 DEF SendItem, Exchanges
  <2>. USE <2>1, <2>2, LabelFacts DEF UctInd, UctTypeOK, Procs
  <2>3. ASSUME NEW q \in Procs PROVE HandlesAt(q)'
    BY <2>3 DEF HandlesAt, IfaceOpen, MdOpen, Chosen, EpPcs, EpAddrPcs, SockHeldPcs,
       IfAddrPcs, DevAddrPcs, IfacePcs, LookupPcs, WorkerPcs, AsyncPcs, env, lookup, uct
  <2>4. ASSUME NEW q \in Procs PROVE BuffersAt(q)'
    BY <2>4 DEF BuffersAt, EpPcs, EpAddrPcs, SockHeldPcs, IfAddrPcs, DevAddrPcs, LookupPcs,
       ExitPcs, env, uct
  <2>5. RolesAt'
    BY DEF RolesAt, uct
  <2>6. MessageAt'
    BY DEF MessageAt, RolesAt, AfterSend, ExitPcs, uct
  <2>7. StringAt'
    BY DEF StringAt, RolesAt, MessageAt, AfterSend, ExitPcs, env, uct
  <2>8. DescAt'
    BY DEF DescAt, RolesAt, MessageAt, ExitPcs, uct
  <2>. QED
    BY <2>3, <2>4, <2>5, <2>6, <2>7, <2>8 DEF UctRest
<1>. QED
  BY <1>1, <1>2

\* RecvItem preserves the invariant.
LEMMA KeepsRecvItem ==
    ASSUME UctInd, NEW p \in Procs, RecvItem(p)
    PROVE  UctRest'
<1>1. pc[p] \in {"dev", "iface", "ep"} /\ UNCHANGED <<env, lookup, uct>>
  BY DEF RecvItem, Exchanges
<1>2. CASE NextStep(p) /\ UNCHANGED status
  <2>1. PICK k \in Pcs : /\ pc' = [pc EXCEPT ![p] = k]
                         /\ pc[p] = "dev" => k \in {"dev", "iface", "reach"}
                         /\ pc[p] = "iface" => k \in {"iface", "reach"}
                         /\ pc[p] = "ep" => k \in {"ep", "connep"}
    BY <1>1, <1>2, NextStepFacts DEF UctInd, Exchanges
  <2>2. \/ held' = held
        \/ /\ held' = [held EXCEPT ![p] = @ \cup {PeerAddr[pc[p]]}]
           /\ pc[p] = "dev" => PeerAddr[pc[p]] = "peer_dev"
           /\ pc[p] = "iface" => PeerAddr[pc[p]] = "peer_iface"
           /\ pc[p] = "ep" => PeerAddr[pc[p]] = "peer_ep"
    <3>1. held' = held \/ held' = [held EXCEPT ![p] = @ \cup {PeerAddr[pc[p]]}]
      BY DEF RecvItem, Acquire
    <3>. QED
      BY <3>1 DEF PeerAddr
  <2>. USE <1>1, <1>2, <2>1, <2>2, LabelFacts DEF UctInd, UctTypeOK, Procs
  <2>3. ASSUME NEW q \in Procs PROVE HandlesAt(q)'
    BY <2>3 DEF HandlesAt, IfaceOpen, MdOpen, Chosen, EpPcs, EpAddrPcs, SockHeldPcs,
       IfAddrPcs, DevAddrPcs, IfacePcs, LookupPcs, WorkerPcs, AsyncPcs, env, lookup, uct
  <2>4. ASSUME NEW q \in Procs PROVE BuffersAt(q)'
    BY <2>4 DEF BuffersAt, EpPcs, EpAddrPcs, SockHeldPcs, IfAddrPcs, DevAddrPcs, LookupPcs,
       ExitPcs, env, uct
  <2>5. RolesAt'
    BY DEF RolesAt, uct
  <2>6. MessageAt'
    BY DEF MessageAt, RolesAt, AfterSend, ExitPcs, uct
  <2>7. StringAt'
    BY DEF StringAt, RolesAt, MessageAt, AfterSend, ExitPcs, env, uct
  <2>8. DescAt'
    BY DEF DescAt, RolesAt, MessageAt, ExitPcs, uct
  <2>. QED
    BY <2>3, <2>4, <2>5, <2>6, <2>7, <2>8 DEF UctRest
<1>3. CASE Leave(p, ExchangeExit(pc[p]), "err") /\ UNCHANGED held
  <2>1. pc[p] \in {"dev", "iface"} => ExchangeExit(pc[p]) = "out_close_oob_sock"
    BY DEF ExchangeExit
  <2>2. pc[p] = "ep" => ExchangeExit(pc[p]) = "out_free_ep"
    BY DEF ExchangeExit
  <2>. USE <1>1, <1>3, <2>1, <2>2, LabelFacts DEF UctInd, UctTypeOK, Procs, Leave, Goto
  <2>3. ASSUME NEW q \in Procs PROVE HandlesAt(q)'
    BY <2>3 DEF HandlesAt, IfaceOpen, MdOpen, Chosen, EpPcs, EpAddrPcs, SockHeldPcs,
       IfAddrPcs, DevAddrPcs, IfacePcs, LookupPcs, WorkerPcs, AsyncPcs, env, lookup, uct
  <2>4. ASSUME NEW q \in Procs PROVE BuffersAt(q)'
    BY <2>4 DEF BuffersAt, EpPcs, EpAddrPcs, SockHeldPcs, IfAddrPcs, DevAddrPcs, LookupPcs,
       ExitPcs, env, uct
  <2>5. RolesAt'
    BY DEF RolesAt, uct
  <2>6. MessageAt'
    BY DEF MessageAt, RolesAt, AfterSend, ExitPcs, uct
  <2>7. StringAt'
    BY DEF StringAt, RolesAt, MessageAt, AfterSend, ExitPcs, env, uct
  <2>8. DescAt'
    BY DEF DescAt, RolesAt, MessageAt, ExitPcs, uct
  <2>. QED
    BY <2>3, <2>4, <2>5, <2>6, <2>7, <2>8 DEF UctRest
<1>. QED
  BY <1>2, <1>3 DEF RecvItem

\* uct_iface_is_reachable preserves the invariant.
LEMMA KeepsUct_iface_is_reachable ==
    ASSUME UctInd, NEW p \in Procs, uct_iface_is_reachable(p)
    PROVE  UctRest'
<1>. USE LabelFacts DEF UctInd, UctTypeOK, Procs, uct_iface_is_reachable, Goto, Acquire,
   Release, Leave
<1>1. ASSUME NEW q \in Procs PROVE HandlesAt(q)'
  BY <1>1 DEF HandlesAt, IfaceOpen, MdOpen, Chosen, EpPcs, EpAddrPcs, SockHeldPcs,
     IfAddrPcs, DevAddrPcs, IfacePcs, LookupPcs, WorkerPcs, AsyncPcs, env, lookup, uct
<1>2. ASSUME NEW q \in Procs PROVE BuffersAt(q)'
  BY <1>2 DEF BuffersAt, EpPcs, EpAddrPcs, SockHeldPcs, IfAddrPcs, DevAddrPcs, LookupPcs,
     ExitPcs, env, uct
<1>3. RolesAt'
  BY DEF RolesAt, uct
<1>4. MessageAt'
  BY DEF MessageAt, RolesAt, AfterSend, ExitPcs, uct
<1>5. StringAt'
  BY DEF StringAt, RolesAt, MessageAt, AfterSend, ExitPcs, env, uct
<1>6. DescAt'
  BY DEF DescAt, RolesAt, MessageAt, ExitPcs, uct
<1>. QED
  BY <1>1, <1>2, <1>3, <1>4, <1>5, <1>6 DEF UctRest

\* CreateEp preserves the invariant.
LEMMA KeepsCreateEp ==
    ASSUME UctInd, NEW p \in Procs, CreateEp(p)
    PROVE  UctRest'
<1>1. pc[p] = "mkep" /\ UNCHANGED <<env, lookup, uct>>
  BY DEF CreateEp, NoEpExit
<1>2. CASE Acquire(p, {"own_ep", "ep"}) /\ Goto(p, "ep") /\ UNCHANGED status
  <2>. USE <1>1, <1>2, LabelFacts DEF UctInd, UctTypeOK, Procs, Goto, Acquire, Release, Leave
  <2>1. ASSUME NEW q \in Procs PROVE HandlesAt(q)'
    BY <2>1 DEF HandlesAt, IfaceOpen, MdOpen, Chosen, EpPcs, EpAddrPcs, SockHeldPcs,
       IfAddrPcs, DevAddrPcs, IfacePcs, LookupPcs, WorkerPcs, AsyncPcs, env, lookup, uct
  <2>2. ASSUME NEW q \in Procs PROVE BuffersAt(q)'
    BY <2>2 DEF BuffersAt, EpPcs, EpAddrPcs, SockHeldPcs, IfAddrPcs, DevAddrPcs, LookupPcs,
       ExitPcs, env, uct
  <2>3. RolesAt'
    BY DEF RolesAt, uct
  <2>4. MessageAt'
    BY DEF MessageAt, RolesAt, AfterSend, ExitPcs, uct
  <2>5. StringAt'
    BY DEF StringAt, RolesAt, MessageAt, AfterSend, ExitPcs, env, uct
  <2>6. DescAt'
    BY DEF DescAt, RolesAt, MessageAt, ExitPcs, uct
  <2>. QED
    BY <2>1, <2>2, <2>3, <2>4, <2>5, <2>6 DEF UctRest
<1>3. CASE Leave(p, "out_close_oob_sock", "err") /\ UNCHANGED held
  <2>. USE <1>1, <1>3, LabelFacts DEF UctInd, UctTypeOK, Procs, Goto, Acquire, Release, Leave
  <2>1. ASSUME NEW q \in Procs PROVE HandlesAt(q)'
    BY <2>1 DEF HandlesAt, IfaceOpen, MdOpen, Chosen, EpPcs, EpAddrPcs, SockHeldPcs,
       IfAddrPcs, DevAddrPcs, IfacePcs, LookupPcs, WorkerPcs, AsyncPcs, env, lookup, uct
  <2>2. ASSUME NEW q \in Procs PROVE BuffersAt(q)'
    BY <2>2 DEF BuffersAt, EpPcs, EpAddrPcs, SockHeldPcs, IfAddrPcs, DevAddrPcs, LookupPcs,
       ExitPcs, env, uct
  <2>3. RolesAt'
    BY DEF RolesAt, uct
  <2>4. MessageAt'
    BY DEF MessageAt, RolesAt, AfterSend, ExitPcs, uct
  <2>5. StringAt'
    BY DEF StringAt, RolesAt, MessageAt, AfterSend, ExitPcs, env, uct
  <2>6. DescAt'
    BY DEF DescAt, RolesAt, MessageAt, ExitPcs, uct
  <2>. QED
    BY <2>1, <2>2, <2>3, <2>4, <2>5, <2>6 DEF UctRest
<1>4. CASE Leave(p, "out_free_ep_addrs", "err") /\ Acquire(p, {"own_ep"})
  <2>. USE <1>1, <1>4, LabelFacts DEF UctInd, UctTypeOK, Procs, Goto, Acquire, Release, Leave
  <2>1. ASSUME NEW q \in Procs PROVE HandlesAt(q)'
    BY <2>1 DEF HandlesAt, IfaceOpen, MdOpen, Chosen, EpPcs, EpAddrPcs, SockHeldPcs,
       IfAddrPcs, DevAddrPcs, IfacePcs, LookupPcs, WorkerPcs, AsyncPcs, env, lookup, uct
  <2>2. ASSUME NEW q \in Procs PROVE BuffersAt(q)'
    BY <2>2 DEF BuffersAt, EpPcs, EpAddrPcs, SockHeldPcs, IfAddrPcs, DevAddrPcs, LookupPcs,
       ExitPcs, env, uct
  <2>3. RolesAt'
    BY DEF RolesAt, uct
  <2>4. MessageAt'
    BY DEF MessageAt, RolesAt, AfterSend, ExitPcs, uct
  <2>5. StringAt'
    BY DEF StringAt, RolesAt, MessageAt, AfterSend, ExitPcs, env, uct
  <2>6. DescAt'
    BY DEF DescAt, RolesAt, MessageAt, ExitPcs, uct
  <2>. QED
    BY <2>1, <2>2, <2>3, <2>4, <2>5, <2>6 DEF UctRest
<1>5. CASE Leave(p, "out_free_ep", "err") /\ Acquire(p, {"own_ep", "ep"})
  <2>. USE <1>1, <1>5, LabelFacts DEF UctInd, UctTypeOK, Procs, Goto, Acquire, Release, Leave
  <2>1. ASSUME NEW q \in Procs PROVE HandlesAt(q)'
    BY <2>1 DEF HandlesAt, IfaceOpen, MdOpen, Chosen, EpPcs, EpAddrPcs, SockHeldPcs,
       IfAddrPcs, DevAddrPcs, IfacePcs, LookupPcs, WorkerPcs, AsyncPcs, env, lookup, uct
  <2>2. ASSUME NEW q \in Procs PROVE BuffersAt(q)'
    BY <2>2 DEF BuffersAt, EpPcs, EpAddrPcs, SockHeldPcs, IfAddrPcs, DevAddrPcs, LookupPcs,
       ExitPcs, env, uct
  <2>3. RolesAt'
    BY DEF RolesAt, uct
  <2>4. MessageAt'
    BY DEF MessageAt, RolesAt, AfterSend, ExitPcs, uct
  <2>5. StringAt'
    BY DEF StringAt, RolesAt, MessageAt, AfterSend, ExitPcs, env, uct
  <2>6. DescAt'
    BY DEF DescAt, RolesAt, MessageAt, ExitPcs, uct
  <2>. QED
    BY <2>1, <2>2, <2>3, <2>4, <2>5, <2>6 DEF UctRest
<1>. QED
  BY <1>2, <1>3, <1>4, <1>5 DEF CreateEp, NoEpExit

\* CreateConnectedEp preserves the invariant.
LEMMA KeepsCreateConnectedEp ==
    ASSUME UctInd, NEW p \in Procs, CreateConnectedEp(p)
    PROVE  UctRest'
<1>. USE LabelFacts DEF UctInd, UctTypeOK, Procs, CreateConnectedEp, NoEpExit, Goto,
   Acquire, Release, Leave
<1>1. ASSUME NEW q \in Procs PROVE HandlesAt(q)'
  BY <1>1 DEF HandlesAt, IfaceOpen, MdOpen, Chosen, EpPcs, EpAddrPcs, SockHeldPcs,
     IfAddrPcs, DevAddrPcs, IfacePcs, LookupPcs, WorkerPcs, AsyncPcs, env, lookup, uct
<1>2. ASSUME NEW q \in Procs PROVE BuffersAt(q)'
  BY <1>2 DEF BuffersAt, EpPcs, EpAddrPcs, SockHeldPcs, IfAddrPcs, DevAddrPcs, LookupPcs,
     ExitPcs, env, uct
<1>3. RolesAt'
  BY DEF RolesAt, uct
<1>4. MessageAt'
  BY DEF MessageAt, RolesAt, AfterSend, ExitPcs, uct
<1>5. StringAt'
  BY DEF StringAt, RolesAt, MessageAt, AfterSend, ExitPcs, env, uct
<1>6. DescAt'
  BY DEF DescAt, RolesAt, MessageAt, ExitPcs, uct
<1>. QED
  BY <1>1, <1>2, <1>3, <1>4, <1>5, <1>6 DEF UctRest

\* ConnectToEp preserves the invariant.
LEMMA KeepsConnectToEp ==
    ASSUME UctInd, NEW p \in Procs, ConnectToEp(p)
    PROVE  UctRest'
<1>. USE LabelFacts DEF UctInd, UctTypeOK, Procs, ConnectToEp, AfterConnect, Goto, Acquire,
   Release, Leave
<1>1. ASSUME NEW q \in Procs PROVE HandlesAt(q)'
  BY <1>1 DEF HandlesAt, IfaceOpen, MdOpen, Chosen, EpPcs, EpAddrPcs, SockHeldPcs,
     IfAddrPcs, DevAddrPcs, IfacePcs, LookupPcs, WorkerPcs, AsyncPcs, env, lookup, uct
<1>2. ASSUME NEW q \in Procs PROVE BuffersAt(q)'
  BY <1>2 DEF BuffersAt, EpPcs, EpAddrPcs, SockHeldPcs, IfAddrPcs, DevAddrPcs, LookupPcs,
     ExitPcs, env, uct
<1>3. RolesAt'
  BY DEF RolesAt, uct
<1>4. MessageAt'
  BY DEF MessageAt, RolesAt, AfterSend, ExitPcs, uct
<1>5. StringAt'
  BY DEF StringAt, RolesAt, MessageAt, AfterSend, ExitPcs, env, uct
<1>6. DescAt'
  BY DEF DescAt, RolesAt, MessageAt, ExitPcs, uct
<1>. QED
  BY <1>1, <1>2, <1>3, <1>4, <1>5, <1>6 DEF UctRest

\* BarrierSend preserves the invariant.
LEMMA KeepsBarrierSend ==
    ASSUME UctInd, NEW p \in Procs, BarrierSend(p)
    PROVE  UctRest'
<1>1. CASE SendFails(p, "out_free_ep")
  BY <1>1, LabelFacts, KeepsSendFails DEF BarrierSend
<1>2. CASE ~SendFails(p, "out_free_ep")
  <2>. USE <1>2, LabelFacts DEF UctInd, UctTypeOK, Procs, BarrierSend, Goto
  <2>1. ASSUME NEW q \in Procs PROVE HandlesAt(q)'
    BY <2>1 DEF HandlesAt, IfaceOpen, MdOpen, Chosen, EpPcs, EpAddrPcs, SockHeldPcs,
       IfAddrPcs, DevAddrPcs, IfacePcs, LookupPcs, WorkerPcs, AsyncPcs, env, lookup, uct
  <2>2. ASSUME NEW q \in Procs PROVE BuffersAt(q)'
    BY <2>2 DEF BuffersAt, EpPcs, EpAddrPcs, SockHeldPcs, IfAddrPcs, DevAddrPcs, LookupPcs,
       ExitPcs, env, uct
  <2>3. RolesAt'
    BY DEF RolesAt, uct
  <2>4. MessageAt'
    BY DEF MessageAt, RolesAt, AfterSend, ExitPcs, uct
  <2>5. StringAt'
    BY DEF StringAt, RolesAt, MessageAt, AfterSend, ExitPcs, env, uct
  <2>6. DescAt'
    BY DEF DescAt, RolesAt, MessageAt, ExitPcs, uct
  <2>. QED
    BY <2>1, <2>2, <2>3, <2>4, <2>5, <2>6 DEF UctRest
<1>. QED
  BY <1>1, <1>2

\* BarrierRecv preserves the invariant.
LEMMA KeepsBarrierRecv ==
    ASSUME UctInd, NEW p \in Procs, BarrierRecv(p)
    PROVE  UctRest'
<1>. USE LabelFacts DEF UctInd, UctTypeOK, Procs, BarrierRecv, Goto, Acquire, Release, Leave
<1>1. ASSUME NEW q \in Procs PROVE HandlesAt(q)'
  BY <1>1 DEF HandlesAt, IfaceOpen, MdOpen, Chosen, EpPcs, EpAddrPcs, SockHeldPcs,
     IfAddrPcs, DevAddrPcs, IfacePcs, LookupPcs, WorkerPcs, AsyncPcs, env, lookup, uct
<1>2. ASSUME NEW q \in Procs PROVE BuffersAt(q)'
  BY <1>2 DEF BuffersAt, EpPcs, EpAddrPcs, SockHeldPcs, IfAddrPcs, DevAddrPcs, LookupPcs,
     ExitPcs, env, uct
<1>3. RolesAt'
  BY DEF RolesAt, uct
<1>4. MessageAt'
  BY DEF MessageAt, RolesAt, AfterSend, ExitPcs, uct
<1>5. StringAt'
  BY DEF StringAt, RolesAt, MessageAt, AfterSend, ExitPcs, env, uct
<1>6. DescAt'
  BY DEF DescAt, RolesAt, MessageAt, ExitPcs, uct
<1>. QED
  BY <1>1, <1>2, <1>3, <1>4, <1>5, <1>6 DEF UctRest

\* CheckLength preserves the invariant.
LEMMA KeepsCheckLength ==
    ASSUME UctInd, NEW p \in Procs, CheckLength(p)
    PROVE  UctRest'
<1>. USE LabelFacts DEF UctInd, UctTypeOK, Procs, CheckLength, Goto, Acquire, Release, Leave
<1>1. ASSUME NEW q \in Procs PROVE HandlesAt(q)'
  BY <1>1 DEF HandlesAt, IfaceOpen, MdOpen, Chosen, EpPcs, EpAddrPcs, SockHeldPcs,
     IfAddrPcs, DevAddrPcs, IfacePcs, LookupPcs, WorkerPcs, AsyncPcs, env, lookup, uct
<1>2. ASSUME NEW q \in Procs PROVE BuffersAt(q)'
  BY <1>2 DEF BuffersAt, EpPcs, EpAddrPcs, SockHeldPcs, IfAddrPcs, DevAddrPcs, LookupPcs,
     ExitPcs, env, uct
<1>3. RolesAt'
  BY DEF RolesAt, uct
<1>4. MessageAt'
  BY DEF MessageAt, RolesAt, AfterSend, ExitPcs, uct
<1>5. StringAt'
  BY DEF StringAt, RolesAt, MessageAt, AfterSend, ExitPcs, env, uct
<1>6. DescAt'
  BY DEF DescAt, RolesAt, MessageAt, ExitPcs, uct
<1>. QED
  BY <1>1, <1>2, <1>3, <1>4, <1>5, <1>6 DEF UctRest

\* CleanUp preserves the invariant.
LEMMA KeepsCleanUp ==
    ASSUME UctInd, NEW p \in Procs, CleanUp(p)
    PROVE  UctRest'
<1>1. /\ pc' = [pc EXCEPT ![p] = NextLabel[pc[p]]]
      /\ held' = [held EXCEPT ![p] = @ \ Frees[pc[p]]]
      /\ pc[p] \in Labels
      /\ UNCHANGED <<env, lookup, status, op, desc>>
  BY DEF CleanUp, Goto, Release
<1>2. net' => net
  BY DEF CleanUp
<1>3. ASSUME NEW q \in Procs, q # p
      PROVE  (HandlesAt(q) /\ BuffersAt(q))'
  <2>1. /\ pc'[q] = pc[q] /\ held'[q] = held[q] /\ status'[q] = status[q]
        /\ UNCHANGED <<failed, found>>
    BY <1>1, <1>3 DEF UctInd, UctTypeOK, env, lookup
  <2>. QED
    BY <1>3, <2>1 DEF UctInd, HandlesAt, IfaceOpen, MdOpen, Chosen, BuffersAt
<1>4. (HandlesAt(p) /\ BuffersAt(p))'
  <2>1. UNCHANGED <<env, lookup, status>> /\ HandlesAt(p) /\ BuffersAt(p) /\ held[p] \subseteq Resources
    BY <1>1 DEF UctInd, UctTypeOK
  <2>2. CASE pc[p] = "out_free_ep"
    <3>1. pc'[p] = "out_free_ep_addrs" /\ held'[p] = held[p] \ {"ep"}
      BY <1>1, <2>2, LabelFacts DEF UctInd, UctTypeOK
    <3>2. HandlesAt(p)'
      BY <2>1, <2>2, <3>1 DEF HandlesAt, IfaceOpen, MdOpen, Chosen, EpPcs, EpAddrPcs,
         SockHeldPcs, IfAddrPcs, DevAddrPcs, IfacePcs, LookupPcs, WorkerPcs, AsyncPcs, env,
         lookup
    <3>3. BuffersAt(p)'
      BY <2>1, <2>2, <3>1, LabelFacts DEF BuffersAt, EpPcs, EpAddrPcs, SockHeldPcs,
         IfAddrPcs, DevAddrPcs, LookupPcs, ExitPcs, env
    <3>. QED
      BY <3>2, <3>3
  <2>3. CASE pc[p] = "out_free_ep_addrs"
    <3>1. pc'[p] = "out_close_oob_sock" /\ held'[p] = held[p] \ {"own_ep", "peer_ep"}
      BY <1>1, <2>3, LabelFacts DEF UctInd, UctTypeOK
    <3>2. HandlesAt(p)'
      BY <2>1, <2>3, <3>1 DEF HandlesAt, IfaceOpen, MdOpen, Chosen, EpPcs, EpAddrPcs,
         SockHeldPcs, IfAddrPcs, DevAddrPcs, IfacePcs, LookupPcs, WorkerPcs, AsyncPcs, env,
         lookup
    <3>3. BuffersAt(p)'
      BY <2>1, <2>3, <3>1, LabelFacts DEF BuffersAt, EpPcs, EpAddrPcs, SockHeldPcs,
         IfAddrPcs, DevAddrPcs, LookupPcs, ExitPcs, env
    <3>. QED
      BY <3>2, <3>3
  <2>4. CASE pc[p] = "out_close_oob_sock"
    <3>1. pc'[p] = "out_free_if_addrs" /\ held'[p] = held[p] \ {"sock"}
      BY <1>1, <2>4, LabelFacts DEF UctInd, UctTypeOK
    <3>2. HandlesAt(p)'
      BY <2>1, <2>4, <3>1 DEF HandlesAt, IfaceOpen, MdOpen, Chosen, EpPcs, EpAddrPcs,
         SockHeldPcs, IfAddrPcs, DevAddrPcs, IfacePcs, LookupPcs, WorkerPcs, AsyncPcs, env,
         lookup
    <3>3. BuffersAt(p)'
      BY <2>1, <2>4, <3>1, LabelFacts DEF BuffersAt, EpPcs, EpAddrPcs, SockHeldPcs,
         IfAddrPcs, DevAddrPcs, LookupPcs, ExitPcs, env
    <3>. QED
      BY <3>2, <3>3
  <2>5. CASE pc[p] = "out_free_if_addrs"
    <3>1. pc'[p] = "out_free_dev_addrs" /\ held'[p] = held[p] \ {"own_iface", "peer_iface"}
      BY <1>1, <2>5, LabelFacts DEF UctInd, UctTypeOK
    <3>2. HandlesAt(p)'
      BY <2>1, <2>5, <3>1 DEF HandlesAt, IfaceOpen, MdOpen, Chosen, EpPcs, EpAddrPcs,
         SockHeldPcs, IfAddrPcs, DevAddrPcs, IfacePcs, LookupPcs, WorkerPcs, AsyncPcs, env,
         lookup
    <3>3. BuffersAt(p)'
      BY <2>1, <2>5, <3>1, LabelFacts DEF BuffersAt, EpPcs, EpAddrPcs, SockHeldPcs,
         IfAddrPcs, DevAddrPcs, LookupPcs, ExitPcs, env
    <3>. QED
      BY <3>2, <3>3
  <2>6. CASE pc[p] = "out_free_dev_addrs"
    <3>1. pc'[p] = "out_destroy_iface" /\ held'[p] = held[p] \ {"own_dev", "peer_dev"}
      BY <1>1, <2>6, LabelFacts DEF UctInd, UctTypeOK
    <3>2. HandlesAt(p)'
      BY <2>1, <2>6, <3>1 DEF HandlesAt, IfaceOpen, MdOpen, Chosen, EpPcs, EpAddrPcs,
         SockHeldPcs, IfAddrPcs, DevAddrPcs, IfacePcs, LookupPcs, WorkerPcs, AsyncPcs, env,
         lookup
    <3>3. BuffersAt(p)'
      BY <2>1, <2>6, <3>1, LabelFacts DEF BuffersAt, EpPcs, EpAddrPcs, SockHeldPcs,
         IfAddrPcs, DevAddrPcs, LookupPcs, ExitPcs, env
    <3>. QED
      BY <3>2, <3>3
  <2>7. CASE pc[p] = "out_destroy_iface"
    <3>1. pc'[p] = "out_close_md" /\ held'[p] = held[p] \ {"iface"}
      BY <1>1, <2>7, LabelFacts DEF UctInd, UctTypeOK
    <3>2. HandlesAt(p)'
      BY <2>1, <2>7, <3>1 DEF HandlesAt, IfaceOpen, MdOpen, Chosen, EpPcs, EpAddrPcs,
         SockHeldPcs, IfAddrPcs, DevAddrPcs, IfacePcs, LookupPcs, WorkerPcs, AsyncPcs, env,
         lookup
    <3>3. BuffersAt(p)'
      BY <2>1, <2>7, <3>1, LabelFacts DEF BuffersAt, EpPcs, EpAddrPcs, SockHeldPcs,
         IfAddrPcs, DevAddrPcs, LookupPcs, ExitPcs, env
    <3>. QED
      BY <3>2, <3>3
  <2>8. CASE pc[p] = "out_destroy_worker"
    <3>1. pc'[p] = "out_cleanup_async" /\ held'[p] = held[p] \ {"worker"}
      BY <1>1, <2>8, LabelFacts DEF UctInd, UctTypeOK
    <3>2. HandlesAt(p)'
      BY <2>1, <2>8, <3>1 DEF HandlesAt, IfaceOpen, MdOpen, Chosen, EpPcs, EpAddrPcs,
         SockHeldPcs, IfAddrPcs, DevAddrPcs, IfacePcs, LookupPcs, WorkerPcs, AsyncPcs, env,
         lookup
    <3>3. BuffersAt(p)'
      BY <2>1, <2>8, <3>1, LabelFacts DEF BuffersAt, EpPcs, EpAddrPcs, SockHeldPcs,
         IfAddrPcs, DevAddrPcs, LookupPcs, ExitPcs, env
    <3>. QED
      BY <3>2, <3>3
  <2>9. CASE pc[p] = "out_cleanup_async"
    <3>1. pc'[p] = "out" /\ held'[p] = held[p] \ {"async"}
      BY <1>1, <2>9, LabelFacts DEF UctInd, UctTypeOK
    <3>2. HandlesAt(p)'
      BY <2>1, <2>9, <3>1 DEF HandlesAt, IfaceOpen, MdOpen, Chosen, EpPcs, EpAddrPcs,
         SockHeldPcs, IfAddrPcs, DevAddrPcs, IfacePcs, LookupPcs, WorkerPcs, AsyncPcs, env,
         lookup
    <3>3. BuffersAt(p)'
      BY <2>1, <2>9, <3>1, LabelFacts DEF BuffersAt, EpPcs, EpAddrPcs, SockHeldPcs,
         IfAddrPcs, DevAddrPcs, LookupPcs, ExitPcs, env
    <3>. QED
      BY <3>2, <3>3
  <2>10. CASE pc[p] = "out_close_md"
    <3>1. pc'[p] = "out_destroy_worker" /\ held'[p] = held[p] \ {"md"}
      BY <1>1, <2>10, LabelFacts DEF UctInd, UctTypeOK
    <3>2. HandlesAt(p)'
      BY <2>1, <2>10, <3>1 DEF HandlesAt, IfaceOpen, MdOpen, Chosen, EpPcs, EpAddrPcs,
         SockHeldPcs, IfAddrPcs, DevAddrPcs, IfacePcs, LookupPcs, WorkerPcs, AsyncPcs, env,
         lookup
    <3>3. BuffersAt(p)'
      BY <2>1, <2>10, <3>1, LabelFacts DEF BuffersAt, EpPcs, EpAddrPcs, SockHeldPcs,
         IfAddrPcs, DevAddrPcs, LookupPcs, ExitPcs, env
    <3>. QED
      BY <3>2, <3>3
  <2>. QED
    BY <1>1, LabelFacts, <2>2, <2>3, <2>4, <2>5, <2>6, <2>7, <2>8, <2>9, <2>10
<1>. USE <1>1, <1>2, LabelFacts DEF UctInd, UctTypeOK, Procs
<1>5. RolesAt'
  BY DEF RolesAt
<1>6. MessageAt'
  BY DEF MessageAt, RolesAt, AfterSend, ExitPcs
<1>7. StringAt'
  BY DEF StringAt, RolesAt, MessageAt, AfterSend, ExitPcs, env
<1>8. DescAt'
  BY DEF DescAt, RolesAt, MessageAt, ExitPcs
<1>. QED
  BY <1>3, <1>4, <1>5, <1>6, <1>7, <1>8 DEF UctRest

\* Return preserves the invariant.
LEMMA KeepsReturn ==
    ASSUME UctInd, NEW p \in Procs, Return(p)
    PROVE  UctRest'
<1>. USE LabelFacts DEF UctInd, UctTypeOK, Procs, Return, CloseSock, Goto, Acquire,
   Release, Leave
<1>1. ASSUME NEW q \in Procs PROVE HandlesAt(q)'
  BY <1>1 DEF HandlesAt, IfaceOpen, MdOpen, Chosen, EpPcs, EpAddrPcs, SockHeldPcs,
     IfAddrPcs, DevAddrPcs, IfacePcs, LookupPcs, WorkerPcs, AsyncPcs, env, lookup, uct
<1>2. ASSUME NEW q \in Procs PROVE BuffersAt(q)'
  BY <1>2 DEF BuffersAt, EpPcs, EpAddrPcs, SockHeldPcs, IfAddrPcs, DevAddrPcs, LookupPcs,
     ExitPcs, env, uct
<1>3. RolesAt'
  BY DEF RolesAt, uct
<1>4. MessageAt'
  BY DEF MessageAt, RolesAt, AfterSend, ExitPcs, uct
<1>5. StringAt'
  BY DEF StringAt, RolesAt, MessageAt, AfterSend, ExitPcs, env, uct
<1>6. DescAt'
  BY DEF DescAt, RolesAt, MessageAt, ExitPcs, uct
<1>. QED
  BY <1>1, <1>2, <1>3, <1>4, <1>5, <1>6 DEF UctRest

\* Crash preserves the invariant.
LEMMA KeepsCrash ==
    ASSUME UctInd, NEW p \in Procs, Crash(p)
    PROVE  UctRest'
  BY KeepsDied DEF Crash

\* MakeString preserves the invariant.
LEMMA KeepsMakeString ==
    ASSUME UctInd, MakeString
    PROVE  UctRest'
<1>1. pc["client"] = "str" /\ UNCHANGED <<am, faults, lookup, uct>>
  BY DEF MakeString
<1>2. CASE (\E r \in {"str", "wild"} : Acquire("client", {r})) /\ (\E k \in {"reg", "send"} : Goto("client", k)) /\ UNCHANGED <<failed, status>>
  <2>. USE <1>1, <1>2, LabelFacts DEF UctInd, UctTypeOK, Procs, Goto, Acquire, Release, Leave
  <2>1. ASSUME NEW q \in Procs PROVE HandlesAt(q)'
    BY <2>1 DEF HandlesAt, IfaceOpen, MdOpen, Chosen, EpPcs, EpAddrPcs, SockHeldPcs,
       IfAddrPcs, DevAddrPcs, IfacePcs, LookupPcs, WorkerPcs, AsyncPcs, env, lookup, uct
  <2>2. ASSUME NEW q \in Procs PROVE BuffersAt(q)'
    BY <2>2 DEF BuffersAt, EpPcs, EpAddrPcs, SockHeldPcs, IfAddrPcs, DevAddrPcs, LookupPcs,
       ExitPcs, env, uct
  <2>3. RolesAt'
    BY DEF RolesAt, uct
  <2>4. MessageAt'
    BY DEF MessageAt, RolesAt, AfterSend, ExitPcs, uct
  <2>5. StringAt'
    BY DEF StringAt, RolesAt, MessageAt, AfterSend, ExitPcs, env, uct
  <2>6. DescAt'
    BY DEF DescAt, RolesAt, MessageAt, ExitPcs, uct
  <2>. QED
    BY <2>1, <2>2, <2>3, <2>4, <2>5, <2>6 DEF UctRest
<1>3. CASE Leave("client", "out_free_ep", "err") /\ UNCHANGED <<failed, held>>
  <2>. USE <1>1, <1>3, LabelFacts DEF UctInd, UctTypeOK, Procs, Goto, Acquire, Release, Leave
  <2>1. ASSUME NEW q \in Procs PROVE HandlesAt(q)'
    BY <2>1 DEF HandlesAt, IfaceOpen, MdOpen, Chosen, EpPcs, EpAddrPcs, SockHeldPcs,
       IfAddrPcs, DevAddrPcs, IfacePcs, LookupPcs, WorkerPcs, AsyncPcs, env, lookup, uct
  <2>2. ASSUME NEW q \in Procs PROVE BuffersAt(q)'
    BY <2>2 DEF BuffersAt, EpPcs, EpAddrPcs, SockHeldPcs, IfAddrPcs, DevAddrPcs, LookupPcs,
       ExitPcs, env, uct
  <2>3. RolesAt'
    BY DEF RolesAt, uct
  <2>4. MessageAt'
    BY DEF MessageAt, RolesAt, AfterSend, ExitPcs, uct
  <2>5. StringAt'
    BY DEF StringAt, RolesAt, MessageAt, AfterSend, ExitPcs, env, uct
  <2>6. DescAt'
    BY DEF DescAt, RolesAt, MessageAt, ExitPcs, uct
  <2>. QED
    BY <2>1, <2>2, <2>3, <2>4, <2>5, <2>6 DEF UctRest
<1>4. CASE Leave("client", "out_free_ep", "err") /\ Acquire("client", {"str"}) /\ failed' = [failed EXCEPT !["client"] = "string"]
  <2>. USE <1>1, <1>4, LabelFacts DEF UctInd, UctTypeOK, Procs, Goto, Acquire, Release, Leave
  <2>1. ASSUME NEW q \in Procs PROVE HandlesAt(q)'
    BY <2>1 DEF HandlesAt, IfaceOpen, MdOpen, Chosen, EpPcs, EpAddrPcs, SockHeldPcs,
       IfAddrPcs, DevAddrPcs, IfacePcs, LookupPcs, WorkerPcs, AsyncPcs, env, lookup, uct
  <2>2. ASSUME NEW q \in Procs PROVE BuffersAt(q)'
    BY <2>2 DEF BuffersAt, EpPcs, EpAddrPcs, SockHeldPcs, IfAddrPcs, DevAddrPcs, LookupPcs,
       ExitPcs, env, uct
  <2>3. RolesAt'
    BY DEF RolesAt, uct
  <2>4. MessageAt'
    BY DEF MessageAt, RolesAt, AfterSend, ExitPcs, uct
  <2>5. StringAt'
    BY DEF StringAt, RolesAt, MessageAt, AfterSend, ExitPcs, env, uct
  <2>6. DescAt'
    BY DEF DescAt, RolesAt, MessageAt, ExitPcs, uct
  <2>. QED
    BY <2>1, <2>2, <2>3, <2>4, <2>5, <2>6 DEF UctRest
<1>. QED
  BY <1>2, <1>3, <1>4 DEF MakeString

\* WildPointer preserves the invariant.
LEMMA KeepsWildPointer ==
    ASSUME UctInd, WildPointer
    PROVE  UctRest'
  BY KeepsDied DEF WildPointer, Procs

\* Register preserves the invariant.
LEMMA KeepsRegister ==
    ASSUME UctInd, Register
    PROVE  UctRest'
<1>1. pc["client"] = "reg" /\ UNCHANGED <<env, lookup, uct>>
  BY DEF Register
<1>2. CASE (\E r \in SUBSET {"memh"} : Acquire("client", r)) /\ Goto("client", "send") /\ UNCHANGED status
  <2>. USE <1>1, <1>2, LabelFacts DEF UctInd, UctTypeOK, Procs, Goto, Acquire, Release,
     Leave, FreeString
  <2>1. ASSUME NEW q \in Procs PROVE HandlesAt(q)'
    BY <2>1 DEF HandlesAt, IfaceOpen, MdOpen, Chosen, EpPcs, EpAddrPcs, SockHeldPcs,
       IfAddrPcs, DevAddrPcs, IfacePcs, LookupPcs, WorkerPcs, AsyncPcs, env, lookup, uct
  <2>2. ASSUME NEW q \in Procs PROVE BuffersAt(q)'
    BY <2>2 DEF BuffersAt, EpPcs, EpAddrPcs, SockHeldPcs, IfAddrPcs, DevAddrPcs, LookupPcs,
       ExitPcs, env, uct
  <2>3. RolesAt'
    BY DEF RolesAt, uct
  <2>4. MessageAt'
    BY DEF MessageAt, RolesAt, AfterSend, ExitPcs, uct
  <2>5. StringAt'
    BY DEF StringAt, RolesAt, MessageAt, AfterSend, ExitPcs, env, uct
  <2>6. DescAt'
    BY DEF DescAt, RolesAt, MessageAt, ExitPcs, uct
  <2>. QED
    BY <2>1, <2>2, <2>3, <2>4, <2>5, <2>6 DEF UctRest
<1>3. CASE FreeString /\ Leave("client", "out_free_ep", "err")
  <2>. USE <1>1, <1>3, LabelFacts DEF UctInd, UctTypeOK, Procs, Goto, Acquire, Release,
     Leave, FreeString
  <2>1. ASSUME NEW q \in Procs PROVE HandlesAt(q)'
    BY <2>1 DEF HandlesAt, IfaceOpen, MdOpen, Chosen, EpPcs, EpAddrPcs, SockHeldPcs,
       IfAddrPcs, DevAddrPcs, IfacePcs, LookupPcs, WorkerPcs, AsyncPcs, env, lookup, uct
  <2>2. ASSUME NEW q \in Procs PROVE BuffersAt(q)'
    BY <2>2 DEF BuffersAt, EpPcs, EpAddrPcs, SockHeldPcs, IfAddrPcs, DevAddrPcs, LookupPcs,
       ExitPcs, env, uct
  <2>3. RolesAt'
    BY DEF RolesAt, uct
  <2>4. MessageAt'
    BY DEF MessageAt, RolesAt, AfterSend, ExitPcs, uct
  <2>5. StringAt'
    BY DEF StringAt, RolesAt, MessageAt, AfterSend, ExitPcs, env, uct
  <2>6. DescAt'
    BY DEF DescAt, RolesAt, MessageAt, ExitPcs, uct
  <2>. QED
    BY <2>1, <2>2, <2>3, <2>4, <2>5, <2>6 DEF UctRest
<1>. QED
  BY <1>2, <1>3 DEF Register

\* SendAm preserves the invariant.
LEMMA KeepsSendAm ==
    ASSUME UctInd, SendAm
    PROVE  UctRest'
<1>1. pc["client"] = "send" /\ UNCHANGED <<env, lookup, conn, desc, shown>>
  BY DEF SendAm, Returns
<1>2. CASE FreeString /\ Leave("client", "bar2s", "ok") /\ op' = op
  <2>. USE <1>1, <1>2, LabelFacts DEF UctInd, UctTypeOK, Procs, Goto, Acquire, Release,
     Leave, FreeString
  <2>1. ASSUME NEW q \in Procs PROVE HandlesAt(q)'
    BY <2>1 DEF HandlesAt, IfaceOpen, MdOpen, Chosen, EpPcs, EpAddrPcs, SockHeldPcs,
       IfAddrPcs, DevAddrPcs, IfacePcs, LookupPcs, WorkerPcs, AsyncPcs, env, lookup, uct
  <2>2. ASSUME NEW q \in Procs PROVE BuffersAt(q)'
    BY <2>2 DEF BuffersAt, EpPcs, EpAddrPcs, SockHeldPcs, IfAddrPcs, DevAddrPcs, LookupPcs,
       ExitPcs, env, uct
  <2>3. RolesAt'
    BY DEF RolesAt, uct
  <2>4. MessageAt'
    BY DEF MessageAt, RolesAt, AfterSend, ExitPcs, uct
  <2>5. StringAt'
    BY DEF StringAt, RolesAt, MessageAt, AfterSend, ExitPcs, env, uct
  <2>6. DescAt'
    BY DEF DescAt, RolesAt, MessageAt, ExitPcs, uct
  <2>. QED
    BY <2>1, <2>2, <2>3, <2>4, <2>5, <2>6 DEF UctRest
<1>3. CASE Goto("client", "zwait") /\ UNCHANGED <<held, status>> /\ op' = "busy"
  <2>. USE <1>1, <1>3, LabelFacts DEF UctInd, UctTypeOK, Procs, Goto, Acquire, Release,
     Leave, FreeString
  <2>1. ASSUME NEW q \in Procs PROVE HandlesAt(q)'
    BY <2>1 DEF HandlesAt, IfaceOpen, MdOpen, Chosen, EpPcs, EpAddrPcs, SockHeldPcs,
       IfAddrPcs, DevAddrPcs, IfacePcs, LookupPcs, WorkerPcs, AsyncPcs, env, lookup, uct
  <2>2. ASSUME NEW q \in Procs PROVE BuffersAt(q)'
    BY <2>2 DEF BuffersAt, EpPcs, EpAddrPcs, SockHeldPcs, IfAddrPcs, DevAddrPcs, LookupPcs,
       ExitPcs, env, uct
  <2>3. RolesAt'
    BY DEF RolesAt, uct
  <2>4. MessageAt'
    BY DEF MessageAt, RolesAt, AfterSend, ExitPcs, uct
  <2>5. StringAt'
    BY DEF StringAt, RolesAt, MessageAt, AfterSend, ExitPcs, env, uct
  <2>6. DescAt'
    BY DEF DescAt, RolesAt, MessageAt, ExitPcs, uct
  <2>. QED
    BY <2>1, <2>2, <2>3, <2>4, <2>5, <2>6 DEF UctRest
<1>. QED
  BY <1>2, <1>3 DEF SendAm, Returns

\* SendAmFails preserves the invariant.
LEMMA KeepsSendAmFails ==
    ASSUME UctInd, SendAmFails
    PROVE  UctRest'
<1>. USE LabelFacts DEF UctInd, UctTypeOK, Procs, SendAmFails, FreeString, Goto, Acquire,
   Release, Leave
<1>1. ASSUME NEW q \in Procs PROVE HandlesAt(q)'
  BY <1>1 DEF HandlesAt, IfaceOpen, MdOpen, Chosen, EpPcs, EpAddrPcs, SockHeldPcs,
     IfAddrPcs, DevAddrPcs, IfacePcs, LookupPcs, WorkerPcs, AsyncPcs, env, lookup, uct
<1>2. ASSUME NEW q \in Procs PROVE BuffersAt(q)'
  BY <1>2 DEF BuffersAt, EpPcs, EpAddrPcs, SockHeldPcs, IfAddrPcs, DevAddrPcs, LookupPcs,
     ExitPcs, env, uct
<1>3. RolesAt'
  BY DEF RolesAt, uct
<1>4. MessageAt'
  BY DEF MessageAt, RolesAt, AfterSend, ExitPcs, uct
<1>5. StringAt'
  BY DEF StringAt, RolesAt, MessageAt, AfterSend, ExitPcs, env, uct
<1>6. DescAt'
  BY DEF DescAt, RolesAt, MessageAt, ExitPcs, uct
<1>. QED
  BY <1>1, <1>2, <1>3, <1>4, <1>5, <1>6 DEF UctRest

\* ZcopyReturns preserves the invariant.
LEMMA KeepsZcopyReturns ==
    ASSUME UctInd, ZcopyReturns
    PROVE  UctRest'
<1>. USE LabelFacts DEF UctInd, UctTypeOK, Procs, ZcopyReturns, FreeString, Goto, Acquire,
   Release, Leave
<1>1. ASSUME NEW q \in Procs PROVE HandlesAt(q)'
  BY <1>1 DEF HandlesAt, IfaceOpen, MdOpen, Chosen, EpPcs, EpAddrPcs, SockHeldPcs,
     IfAddrPcs, DevAddrPcs, IfacePcs, LookupPcs, WorkerPcs, AsyncPcs, env, lookup, uct
<1>2. ASSUME NEW q \in Procs PROVE BuffersAt(q)'
  BY <1>2 DEF BuffersAt, EpPcs, EpAddrPcs, SockHeldPcs, IfAddrPcs, DevAddrPcs, LookupPcs,
     ExitPcs, env, uct
<1>3. RolesAt'
  BY DEF RolesAt, uct
<1>4. MessageAt'
  BY DEF MessageAt, RolesAt, AfterSend, ExitPcs, uct
<1>5. StringAt'
  BY DEF StringAt, RolesAt, MessageAt, AfterSend, ExitPcs, env, uct
<1>6. DescAt'
  BY DEF DescAt, RolesAt, MessageAt, ExitPcs, uct
<1>. QED
  BY <1>1, <1>2, <1>3, <1>4, <1>5, <1>6 DEF UctRest

\* ShowMessage preserves the invariant.
LEMMA KeepsShowMessage ==
    ASSUME UctInd, ShowMessage
    PROVE  UctRest'
<1>. USE LabelFacts DEF UctInd, UctTypeOK, Procs, ShowMessage, HasMessage, Goto, Acquire,
   Release, Leave
<1>1. ASSUME NEW q \in Procs PROVE HandlesAt(q)'
  BY <1>1 DEF HandlesAt, IfaceOpen, MdOpen, Chosen, EpPcs, EpAddrPcs, SockHeldPcs,
     IfAddrPcs, DevAddrPcs, IfacePcs, LookupPcs, WorkerPcs, AsyncPcs, env, lookup, uct
<1>2. ASSUME NEW q \in Procs PROVE BuffersAt(q)'
  BY <1>2 DEF BuffersAt, EpPcs, EpAddrPcs, SockHeldPcs, IfAddrPcs, DevAddrPcs, LookupPcs,
     ExitPcs, env, uct
<1>3. RolesAt'
  BY DEF RolesAt, uct
<1>4. MessageAt'
  BY DEF MessageAt, RolesAt, AfterSend, ExitPcs, uct
<1>5. StringAt'
  BY DEF StringAt, RolesAt, MessageAt, AfterSend, ExitPcs, env, uct
<1>6. DescAt'
  BY DEF DescAt, RolesAt, MessageAt, ExitPcs, uct
<1>. QED
  BY <1>1, <1>2, <1>3, <1>4, <1>5, <1>6 DEF UctRest

\* Connect preserves the invariant.
LEMMA KeepsConnect ==
    ASSUME UctInd, Connect
    PROVE  UctRest'
<1>. USE LabelFacts DEF UctInd, UctTypeOK, Procs, Connect, FirstExchange
<1>1. ASSUME NEW q \in Procs PROVE HandlesAt(q)'
  BY <1>1 DEF HandlesAt, IfaceOpen, MdOpen, Chosen, EpPcs, EpAddrPcs, SockHeldPcs,
     IfAddrPcs, DevAddrPcs, IfacePcs, LookupPcs, WorkerPcs, AsyncPcs, env, lookup, uct
<1>2. ASSUME NEW q \in Procs PROVE BuffersAt(q)'
  BY <1>2 DEF BuffersAt, EpPcs, EpAddrPcs, SockHeldPcs, IfAddrPcs, DevAddrPcs, LookupPcs,
     ExitPcs, env, uct
<1>3. RolesAt'
  BY DEF RolesAt, uct
<1>4. MessageAt'
  BY DEF MessageAt, RolesAt, AfterSend, ExitPcs, uct
<1>5. StringAt'
  BY DEF StringAt, RolesAt, MessageAt, AfterSend, ExitPcs, env, uct
<1>6. DescAt'
  BY DEF DescAt, RolesAt, MessageAt, ExitPcs, uct
<1>. QED
  BY <1>1, <1>2, <1>3, <1>4, <1>5, <1>6 DEF UctRest

\* zcopy_completion_cb preserves the invariant.
LEMMA KeepsZcopy_completion_cb ==
    ASSUME UctInd, zcopy_completion_cb
    PROVE  UctRest'
<1>1. CASE Died("client")
  BY <1>1, KeepsDied DEF Procs
<1>2. CASE ~Died("client")
  <2>. USE <1>2, LabelFacts DEF UctInd, UctTypeOK, Procs, zcopy_completion_cb, Release
  <2>1. ASSUME NEW q \in Procs PROVE HandlesAt(q)'
    BY <2>1 DEF HandlesAt, IfaceOpen, MdOpen, Chosen, EpPcs, EpAddrPcs, SockHeldPcs,
       IfAddrPcs, DevAddrPcs, IfacePcs, LookupPcs, WorkerPcs, AsyncPcs, env, lookup
  <2>2. ASSUME NEW q \in Procs PROVE BuffersAt(q)'
    BY <2>2 DEF BuffersAt, EpPcs, EpAddrPcs, SockHeldPcs, IfAddrPcs, DevAddrPcs, LookupPcs,
       ExitPcs, env
  <2>3. RolesAt'
    BY DEF RolesAt
  <2>4. MessageAt'
    BY DEF MessageAt, RolesAt, AfterSend, ExitPcs
  <2>5. StringAt'
    BY DEF StringAt, RolesAt, MessageAt, AfterSend, ExitPcs, env
  <2>6. DescAt'
    <3>1. UNCHANGED <<pc, status>> /\ held'["server"] = held["server"]
      OBVIOUS
    <3>2. held'["client"] \subseteq held["client"]
      OBVIOUS
    <3>. QED
      BY <3>1, <3>2 DEF DescAt
  <2>. QED
    BY <2>1, <2>2, <2>3, <2>4, <2>5, <2>6 DEF UctRest
<1>. QED
  BY <1>1, <1>2

\* hello_world preserves the invariant.
LEMMA KeepsHello_world ==
    ASSUME UctInd, hello_world
    PROVE  UctRest'
<1>. USE LabelFacts DEF UctInd, UctTypeOK, Procs, hello_world, ProgressPcs, Goto, Acquire,
   Release, Leave
<1>1. ASSUME NEW q \in Procs PROVE HandlesAt(q)'
  BY <1>1 DEF HandlesAt, IfaceOpen, MdOpen, Chosen, EpPcs, EpAddrPcs, SockHeldPcs,
     IfAddrPcs, DevAddrPcs, IfacePcs, LookupPcs, WorkerPcs, AsyncPcs, env, lookup, uct
<1>2. ASSUME NEW q \in Procs PROVE BuffersAt(q)'
  BY <1>2 DEF BuffersAt, EpPcs, EpAddrPcs, SockHeldPcs, IfAddrPcs, DevAddrPcs, LookupPcs,
     ExitPcs, env, uct
<1>3. RolesAt'
  BY DEF RolesAt, uct
<1>4. MessageAt'
  BY DEF MessageAt, RolesAt, AfterSend, ExitPcs, uct
<1>5. StringAt'
  BY DEF StringAt, RolesAt, MessageAt, AfterSend, ExitPcs, env, uct
<1>6. DescAt'
  BY DEF DescAt, RolesAt, MessageAt, ExitPcs, uct
<1>. QED
  BY <1>1, <1>2, <1>3, <1>4, <1>5, <1>6 DEF UctRest

--------------------------------------------------------------------------------
(***************************************************************************)
(* Types.                                                                  *)
(***************************************************************************)

\* goto keeps the type of pc.
LEMMA TypedGoto ==
    ASSUME UctTypeOK, NEW p \in Procs, NEW k \in Pcs, Goto(p, k)
    PROVE  pc' \in [Procs -> Pcs]
  BY DEF UctTypeOK, Goto

\* So does a jump with a status, and the type of status.
LEMMA TypedLeave ==
    ASSUME UctTypeOK, NEW p \in Procs, NEW k \in Pcs,
           NEW st \in {"ok", "unsupported", "err"}, Leave(p, k, st)
    PROVE  pc' \in [Procs -> Pcs] /\ status' \in [Procs -> {"ok", "unsupported", "err"}]
  BY DEF UctTypeOK, Leave, Goto

\* What is acquired is a resource.
LEMMA TypedAcquire ==
    ASSUME UctTypeOK, NEW p \in Procs, NEW r \in SUBSET Resources, Acquire(p, r)
    PROVE  held' \in [Procs -> SUBSET Resources]
  BY DEF UctTypeOK, Acquire

\* What is left after a release is, too.
LEMMA TypedRelease ==
    ASSUME UctTypeOK, NEW p \in Procs, NEW r, Release(p, r)
    PROVE  held' \in [Procs -> SUBSET Resources]
  BY DEF UctTypeOK, Release

\* The socket's state and contents keep their types when it is closed.
LEMMA TypedCloseSock ==
    ASSUME UctTypeOK, NEW p \in Procs, CloseSock(p)
    PROVE  /\ sock' \in [Procs -> {"none", "open", "closed"}]
           /\ oob' \in [Procs -> Seq(Items)]
<1>1. sock' \in [Procs -> {"none", "open", "closed"}]
  BY DEF UctTypeOK, CloseSock
<1>2. <<>> \in Seq(Items)
  OBVIOUS
<1>3. oob' \in [Procs -> Seq(Items)]
  BY <1>2 DEF UctTypeOK, CloseSock
<1>. QED
  BY <1>1, <1>3

\* So do they when something is sent.
LEMMA TypedSends ==
    ASSUME UctTypeOK, NEW p \in Procs, NEW item \in Items, Sends(p, item)
    PROVE  oob' \in [Procs -> Seq(Items)]
<1>1. Other(p) \in Procs
  BY DEF Other, Procs
<1>2. Append(oob[Other(p)], item) \in Seq(Items)
  BY <1>1 DEF UctTypeOK
<1>. QED
  BY <1>1, <1>2 DEF UctTypeOK, Sends

\* And when something is received.
LEMMA TypedTail ==
    ASSUME UctTypeOK, NEW p \in Procs, oob[p] # <<>>
    PROVE  /\ [oob EXCEPT ![p] = Tail(@)] \in [Procs -> Seq(Items)]
           /\ Head(oob[p]) \in Items
<1>1. oob[p] \in Seq(Items)
  BY DEF UctTypeOK
<1>2. Tail(oob[p]) \in Seq(Items) /\ Head(oob[p]) \in Items
  BY <1>1
<1>. QED
  BY <1>2 DEF UctTypeOK

\* The end of a process keeps the types.
LEMMA TypedDied ==
    ASSUME UctTypeOK, NEW p \in Procs, Died(p)
    PROVE  UctTypeOK'
<1>1. sock' \in [Procs -> {"none", "open", "closed"}] /\ oob' \in [Procs -> Seq(Items)]
  BY TypedCloseSock DEF Died
<1>2. net' \in BOOLEAN
  BY Zenon DEF Died, UctTypeOK
<1>3. pc' \in [Procs -> Pcs]
  BY DEF Died, Goto, UctTypeOK, Pcs
<1>4. held' \in [Procs -> SUBSET Resources]
  BY DEF Died, UctTypeOK
<1>. QED
  BY <1>1, <1>2, <1>3, <1>4 DEF Died, UctTypeOK, env, lookup

\* A failing send keeps the types.
LEMMA TypedSendFails ==
    ASSUME UctTypeOK, NEW p \in Procs, NEW exit \in Labels, SendFails(p, exit)
    PROVE  UctTypeOK'
<1>1. CASE Died(p)
  BY <1>1, TypedDied
<1>2. CASE ~Died(p)
  <2>1. exit \in Pcs
    BY DEF Pcs
  <2>2. pc' \in [Procs -> Pcs] /\ status' \in [Procs -> {"ok", "unsupported", "err"}]
    BY <1>2, <2>1, TypedLeave DEF SendFails
  <2>. QED
    BY <1>2, <2>2 DEF SendFails, UctTypeOK, env, lookup, oobv, uct
<1>. QED
  BY <1>1, <1>2

\* The steps of sendrecv keep their types.
LEMMA TypedNextStep ==
    ASSUME UctTypeOK, NEW p \in Procs, pc[p] \in Exchanges, NextStep(p)
    PROVE  step' \in [Procs -> 1 .. 4] /\ pc' \in [Procs -> Pcs]
<1>1. step' \in [Procs -> 1 .. 4]
  <2>1. step[p] \in 1 .. 4
    BY DEF UctTypeOK
  <2>2. CASE step[p] = 4
    <3>1. step' = [step EXCEPT ![p] = 1] /\ 1 \in 1 .. 4
      BY <2>2 DEF NextStep
    <3>. QED
      BY <3>1 DEF UctTypeOK
  <2>3. CASE step[p] # 4
    <3>1. step' = [step EXCEPT ![p] = step[p] + 1] /\ step[p] + 1 \in 1 .. 4
      BY <2>1, <2>3 DEF NextStep
    <3>. QED
      BY <3>1 DEF UctTypeOK
  <2>. QED
    BY <2>2, <2>3
<1>2. pc' \in [Procs -> Pcs]
  BY NextStepFacts DEF UctTypeOK
<1>. QED
  BY <1>1, <1>2

\* CreateWorker keeps the types.
LEMMA TypedCreateWorker ==
    ASSUME UctTypeOK, NEW p \in Procs, CreateWorker(p)
    PROVE  UctTypeOK'
  BY LabelFacts, CountsAssumption, TransportsAssumption
  DEF UctTypeOK, Procs, Other, Pcs, LookupPcs, MainPcs, Exchanges, Items, Resources,
     Handles, env, lookup, oobv, uct, CreateWorker, Goto, Acquire, Release, Leave

\* uct_query_components keeps the types.
LEMMA TypedUct_query_components ==
    ASSUME UctTypeOK, NEW p \in Procs, uct_query_components(p)
    PROVE  UctTypeOK'
  BY LabelFacts, CountsAssumption, TransportsAssumption
  DEF UctTypeOK, Procs, Other, Pcs, LookupPcs, MainPcs, Exchanges, Items, Resources,
     Handles, env, lookup, oobv, uct, uct_query_components, Goto, Acquire, Release, Leave

\* QueryComponent keeps the types.
LEMMA TypedQueryComponent ==
    ASSUME UctTypeOK, NEW p \in Procs, QueryComponent(p)
    PROVE  UctTypeOK'
  BY LabelFacts, CountsAssumption, TransportsAssumption
  DEF UctTypeOK, Procs, Other, Pcs, LookupPcs, MainPcs, Exchanges, Items, Resources,
     Handles, env, lookup, oobv, uct, QueryComponent, Goto, Acquire, Release, Leave

\* OpenMd keeps the types.
LEMMA TypedOpenMd ==
    ASSUME UctTypeOK, NEW p \in Procs, OpenMd(p)
    PROVE  UctTypeOK'
<1>1. mds' \in [Procs -> 0 .. MaxMds]
  <2>1. mds[p] \in 0 .. MaxMds
    BY DEF UctTypeOK
  <2>2. CASE mds' = mds
    BY <2>2 DEF UctTypeOK
  <2>3. CASE mds' = [mds EXCEPT ![p] = @ - 1] /\ MoreMds(p)
    <3>1. mds[p] - 1 \in 0 .. MaxMds
      BY <2>1, <2>3, CountsAssumption DEF MoreMds
    <3>. QED
      BY <2>3, <3>1 DEF UctTypeOK
  <2>. QED
    BY <2>2, <2>3 DEF OpenMd
<1>2. /\ {"cmpt", "tls", "release_components", "close_md"} \subseteq Pcs
      /\ {"md", "tls"} \subseteq Resources /\ {"md"} \subseteq Resources
  BY DEF Pcs, LookupPcs, Resources, Handles
<1>3. pc' \in [Procs -> Pcs] /\ status' \in [Procs -> {"ok", "unsupported", "err"}]
  BY <1>2, TypedGoto, TypedLeave DEF OpenMd, QueryMdExit, UctTypeOK
<1>4. held' \in [Procs -> SUBSET Resources]
  BY <1>2, TypedAcquire DEF OpenMd, UctTypeOK
<1>. QED
  BY <1>1, <1>3, <1>4 DEF OpenMd, UctTypeOK, env, oobv, uct

\* ScanTls keeps the types.
LEMMA TypedScanTls ==
    ASSUME UctTypeOK, NEW p \in Procs, ScanTls(p)
    PROVE  UctTypeOK'
<1>1. {"release_tls", "open"} \subseteq Pcs
  BY DEF Pcs, LookupPcs
<1>2. pc' \in [Procs -> Pcs] /\ status' \in [Procs -> {"ok", "unsupported", "err"}]
  BY <1>1, TypedGoto, TypedLeave DEF ScanTls, UctTypeOK
<1>3. found' \in [Procs -> BOOLEAN]
  BY DEF ScanTls, UctTypeOK
<1>. QED
  BY <1>2, <1>3 DEF ScanTls, UctTypeOK, env, oobv, uct

\* OpenIface keeps the types.
LEMMA TypedOpenIface ==
    ASSUME UctTypeOK, NEW p \in Procs, OpenIface(p)
    PROVE  UctTypeOK'
  BY LabelFacts, CountsAssumption, TransportsAssumption
  DEF UctTypeOK, Procs, Other, Pcs, LookupPcs, MainPcs, Exchanges, Items, Resources,
     Handles, env, lookup, oobv, uct, OpenIface, Goto, Acquire, Release, Leave

\* QueryIface keeps the types.
LEMMA TypedQueryIface ==
    ASSUME UctTypeOK, NEW p \in Procs, QueryIface(p)
    PROVE  UctTypeOK'
  BY LabelFacts, CountsAssumption, TransportsAssumption
  DEF UctTypeOK, Procs, Other, Pcs, LookupPcs, MainPcs, Exchanges, Items, Resources,
     Handles, env, lookup, oobv, uct, QueryIface, Goto, Acquire, Release, Leave

\* ErrorIface keeps the types.
LEMMA TypedErrorIface ==
    ASSUME UctTypeOK, NEW p \in Procs, ErrorIface(p)
    PROVE  UctTypeOK'
  BY LabelFacts, CountsAssumption, TransportsAssumption
  DEF UctTypeOK, Procs, Other, Pcs, LookupPcs, MainPcs, Exchanges, Items, Resources,
     Handles, env, lookup, oobv, uct, ErrorIface, Goto, Acquire, Release, Leave

\* ReleaseTls keeps the types.
LEMMA TypedReleaseTls ==
    ASSUME UctTypeOK, NEW p \in Procs, ReleaseTls(p)
    PROVE  UctTypeOK'
  BY LabelFacts, CountsAssumption, TransportsAssumption
  DEF UctTypeOK, Procs, Other, Pcs, LookupPcs, MainPcs, Exchanges, Items, Resources,
     Handles, env, lookup, oobv, uct, ReleaseTls, Goto, Acquire, Release, Leave

\* CloseMd keeps the types.
LEMMA TypedCloseMd ==
    ASSUME UctTypeOK, NEW p \in Procs, CloseMd(p)
    PROVE  UctTypeOK'
  BY LabelFacts, CountsAssumption, TransportsAssumption
  DEF UctTypeOK, Procs, Other, Pcs, LookupPcs, MainPcs, Exchanges, Items, Resources,
     Handles, env, lookup, oobv, uct, CloseMd, Goto, Acquire, Release, Leave

\* ReleaseComponents keeps the types.
LEMMA TypedReleaseComponents ==
    ASSUME UctTypeOK, NEW p \in Procs, ReleaseComponents(p)
    PROVE  UctTypeOK'
  BY LabelFacts, CountsAssumption, TransportsAssumption
  DEF UctTypeOK, Procs, Other, Pcs, LookupPcs, MainPcs, Exchanges, Items, Resources,
     Handles, env, lookup, oobv, uct, ReleaseComponents, Goto, Acquire, Release, Leave

\* SetUp keeps the types.
LEMMA TypedSetUp ==
    ASSUME UctTypeOK, NEW p \in Procs, SetUp(p)
    PROVE  UctTypeOK'
  BY LabelFacts, CountsAssumption, TransportsAssumption
  DEF UctTypeOK, Procs, Other, Pcs, LookupPcs, MainPcs, Exchanges, Items, Resources,
     Handles, env, lookup, oobv, uct, SetUp, Goto, Acquire, Release, Leave

\* ConnectFails keeps the types.
LEMMA TypedConnectFails ==
    ASSUME UctTypeOK, NEW p \in Procs, (\E why \in {"refused", "error"} : ConnectFails(p, why))
    PROVE  UctTypeOK'
  BY LabelFacts, CountsAssumption, TransportsAssumption
  DEF UctTypeOK, Procs, Other, Pcs, LookupPcs, MainPcs, Exchanges, Items, Resources,
     Handles, env, lookup, oobv, uct, ConnectFails, Goto, Acquire, Release, Leave

\* GetAddressFails keeps the types.
LEMMA TypedGetAddressFails ==
    ASSUME UctTypeOK, NEW p \in Procs, GetAddressFails(p)
    PROVE  UctTypeOK'
  BY LabelFacts, CountsAssumption, TransportsAssumption
  DEF UctTypeOK, Procs, Other, Pcs, LookupPcs, MainPcs, Exchanges, Items, Resources,
     Handles, env, lookup, oobv, uct, GetAddressFails, IfaceAddrExit, Goto, Acquire,
     Release, Leave

\* SendItem keeps the types.
LEMMA TypedSendItem ==
    ASSUME UctTypeOK, NEW p \in Procs, SendItem(p)
    PROVE  UctTypeOK'
<1>1. CASE SendFails(p, ExchangeExit(pc[p]))
  <2>1. ExchangeExit(pc[p]) \in Labels
    BY LabelFacts DEF ExchangeExit
  <2>. QED
    BY <1>1, <2>1, TypedSendFails
<1>2. CASE ~SendFails(p, ExchangeExit(pc[p]))
  <2>1. Item(pc[p], step[p]) \in Items
    BY DEF SendItem, Item, Items
  <2>2. oob' \in [Procs -> Seq(Items)]
    BY <1>2, <2>1, TypedSends DEF SendItem
  <2>3. step' \in [Procs -> 1 .. 4] /\ pc' \in [Procs -> Pcs]
    BY <1>2, TypedNextStep DEF SendItem
  <2>. QED
    BY <1>2, <2>2, <2>3 DEF SendItem, UctTypeOK, env, lookup, uct
<1>. QED
  BY <1>1, <1>2

\* RecvItem keeps the types.
LEMMA TypedRecvItem ==
    ASSUME UctTypeOK, NEW p \in Procs, RecvItem(p)
    PROVE  UctTypeOK'
<1>1. oob' \in [Procs -> Seq(Items)]
  BY TypedTail DEF RecvItem, UctTypeOK
<1>2. PeerAddr[pc[p]] \in Resources
  BY DEF RecvItem, Exchanges, PeerAddr, Resources
<1>3. held' \in [Procs -> SUBSET Resources]
  BY <1>2, TypedAcquire DEF RecvItem, UctTypeOK
<1>4. peer' \in [Procs -> [Exchanges -> Items \cup {"none"}]]
  <2>1. CASE peer' = peer
    BY <2>1 DEF UctTypeOK
  <2>2. CASE peer' # peer
    <3>1. oob[p] # <<>> /\ peer' = [peer EXCEPT ![p][pc[p]] = Head(oob[p])]
      BY <2>2 DEF RecvItem
    <3>2. Head(oob[p]) \in Items
      BY <3>1, TypedTail
    <3>. QED
      BY <3>1, <3>2 DEF UctTypeOK
  <2>. QED
    BY <2>1, <2>2
<1>5. step' \in [Procs -> 1 .. 4] /\ pc' \in [Procs -> Pcs] /\ status' \in [Procs -> {"ok", "unsupported", "err"}]
  <2>1. CASE NextStep(p) /\ UNCHANGED status
    BY <2>1, TypedNextStep DEF RecvItem, UctTypeOK
  <2>2. CASE Leave(p, ExchangeExit(pc[p]), "err") /\ UNCHANGED step
    <3>1. ExchangeExit(pc[p]) \in Pcs
      BY LabelFacts DEF ExchangeExit, Pcs
    <3>. QED
      BY <2>2, <3>1 DEF Leave, Goto, UctTypeOK
  <2>. QED
    BY <2>1, <2>2 DEF RecvItem
<1>. QED
  BY <1>1, <1>3, <1>4, <1>5 DEF RecvItem, UctTypeOK, env, lookup, uct

\* uct_iface_is_reachable keeps the types.
LEMMA TypedUct_iface_is_reachable ==
    ASSUME UctTypeOK, NEW p \in Procs, uct_iface_is_reachable(p)
    PROVE  UctTypeOK'
  BY LabelFacts, CountsAssumption, TransportsAssumption
  DEF UctTypeOK, Procs, Other, Pcs, LookupPcs, MainPcs, Exchanges, Items, Resources,
     Handles, env, lookup, oobv, uct, uct_iface_is_reachable, Goto, Acquire, Release, Leave

\* CreateEp keeps the types.
LEMMA TypedCreateEp ==
    ASSUME UctTypeOK, NEW p \in Procs, CreateEp(p)
    PROVE  UctTypeOK'
  BY LabelFacts, CountsAssumption, TransportsAssumption
  DEF UctTypeOK, Procs, Other, Pcs, LookupPcs, MainPcs, Exchanges, Items, Resources,
     Handles, env, lookup, oobv, uct, CreateEp, NoEpExit, Goto, Acquire, Release, Leave

\* CreateConnectedEp keeps the types.
LEMMA TypedCreateConnectedEp ==
    ASSUME UctTypeOK, NEW p \in Procs, CreateConnectedEp(p)
    PROVE  UctTypeOK'
  BY LabelFacts, CountsAssumption, TransportsAssumption
  DEF UctTypeOK, Procs, Other, Pcs, LookupPcs, MainPcs, Exchanges, Items, Resources,
     Handles, env, lookup, oobv, uct, CreateConnectedEp, NoEpExit, Goto, Acquire, Release,
     Leave

\* ConnectToEp keeps the types.
LEMMA TypedConnectToEp ==
    ASSUME UctTypeOK, NEW p \in Procs, ConnectToEp(p)
    PROVE  UctTypeOK'
  BY LabelFacts, CountsAssumption, TransportsAssumption
  DEF UctTypeOK, Procs, Other, Pcs, LookupPcs, MainPcs, Exchanges, Items, Resources,
     Handles, env, lookup, oobv, uct, ConnectToEp, AfterConnect, Goto, Acquire, Release, Leave

\* BarrierSend keeps the types.
LEMMA TypedBarrierSend ==
    ASSUME UctTypeOK, NEW p \in Procs, BarrierSend(p)
    PROVE  UctTypeOK'
<1>1. CASE SendFails(p, "out_free_ep")
  BY <1>1, LabelFacts, TypedSendFails
<1>2. CASE ~SendFails(p, "out_free_ep")
  <2>1. "bar" \in Items
    BY DEF Items
  <2>2. oob' \in [Procs -> Seq(Items)]
    BY <1>2, <2>1, TypedSends DEF BarrierSend
  <2>3. pc' \in [Procs -> Pcs]
    <3>1. {"bar1r", "bar2r"} \subseteq Pcs
      BY DEF Pcs, LookupPcs, MainPcs
    <3>. QED
      BY <1>2, <3>1, TypedGoto DEF BarrierSend
  <2>. QED
    BY <1>2, <2>2, <2>3 DEF BarrierSend, UctTypeOK, env, lookup, uct
<1>. QED
  BY <1>1, <1>2

\* BarrierRecv keeps the types.
LEMMA TypedBarrierRecv ==
    ASSUME UctTypeOK, NEW p \in Procs, BarrierRecv(p)
    PROVE  UctTypeOK'
<1>1. oob' \in [Procs -> Seq(Items)]
  BY TypedTail DEF BarrierRecv, UctTypeOK
<1>2. pc' \in [Procs -> Pcs] /\ status' \in [Procs -> {"ok", "unsupported", "err"}]
  <2>1. {"fit", "out_free_ep"} \subseteq Pcs
    BY LabelFacts DEF Pcs, LookupPcs, MainPcs
  <2>. QED
    BY <2>1, TypedGoto, TypedLeave DEF BarrierRecv, UctTypeOK
<1>. QED
  BY <1>1, <1>2 DEF BarrierRecv, UctTypeOK, env, lookup, uct

\* CheckLength keeps the types.
LEMMA TypedCheckLength ==
    ASSUME UctTypeOK, NEW p \in Procs, CheckLength(p)
    PROVE  UctTypeOK'
  BY LabelFacts, CountsAssumption, TransportsAssumption
  DEF UctTypeOK, Procs, Other, Pcs, LookupPcs, MainPcs, Exchanges, Items, Resources,
     Handles, env, lookup, oobv, uct, CheckLength, Goto, Acquire, Release, Leave

\* CleanUp keeps the types.
LEMMA TypedCleanUp ==
    ASSUME UctTypeOK, NEW p \in Procs, CleanUp(p)
    PROVE  UctTypeOK'
<1>1. NextLabel[pc[p]] \in Pcs
  BY LabelFacts DEF CleanUp, Pcs
<1>2. pc' \in [Procs -> Pcs] /\ held' \in [Procs -> SUBSET Resources]
  BY <1>1 DEF CleanUp, Goto, Release, UctTypeOK
<1>3. sock' \in [Procs -> {"none", "open", "closed"}] /\ oob' \in [Procs -> Seq(Items)]
  BY TypedCloseSock DEF CleanUp, UctTypeOK
<1>4. net' \in {net, FALSE}
  BY DEF CleanUp
<1>5. net' \in BOOLEAN
  BY <1>4, Zenon DEF UctTypeOK
<1>. QED
  BY <1>2, <1>3, <1>5 DEF CleanUp, UctTypeOK, env, lookup

\* Return keeps the types.
LEMMA TypedReturn ==
    ASSUME UctTypeOK, NEW p \in Procs, Return(p)
    PROVE  UctTypeOK'
<1>1. sock' \in [Procs -> {"none", "open", "closed"}] /\ oob' \in [Procs -> Seq(Items)]
  BY TypedCloseSock DEF Return
<1>. QED
  BY <1>1 DEF Return, Goto, UctTypeOK, Pcs, env, lookup, uct

\* Crash keeps the types.
LEMMA TypedCrash ==
    ASSUME UctTypeOK, NEW p \in Procs, Crash(p)
    PROVE  UctTypeOK'
  BY TypedDied DEF Crash

\* MakeString keeps the types.
LEMMA TypedMakeString ==
    ASSUME UctTypeOK, MakeString
    PROVE  UctTypeOK'
<1>1. "client" \in Procs /\ \A r \in {"str", "wild"} : {r} \in SUBSET Resources
  BY DEF Procs, Resources
<1>2. {"reg", "send", "out_free_ep"} \subseteq Pcs
  BY LabelFacts DEF Pcs, MainPcs
<1>3. held' \in [Procs -> SUBSET Resources]
  <2>1. CASE \E r \in {"str", "wild"} : Acquire("client", {r})
    BY <1>1, <2>1, TypedAcquire
  <2>2. CASE held' = held
    BY <2>2 DEF UctTypeOK
  <2>. QED
    BY <2>1, <2>2 DEF MakeString
<1>4. pc' \in [Procs -> Pcs] /\ status' \in [Procs -> {"ok", "unsupported", "err"}]
  BY <1>1, <1>2, TypedGoto, TypedLeave DEF MakeString, UctTypeOK
<1>5. failed' \in [Procs -> {"none", "devaddr", "string"}]
  BY DEF MakeString, UctTypeOK
<1>. QED
  BY <1>3, <1>4, <1>5 DEF MakeString, UctTypeOK, lookup, oobv, uct

\* WildPointer keeps the types.
LEMMA TypedWildPointer ==
    ASSUME UctTypeOK, WildPointer
    PROVE  UctTypeOK'
  BY TypedDied DEF WildPointer, Procs

\* Register keeps the types.
LEMMA TypedRegister ==
    ASSUME UctTypeOK, Register
    PROVE  UctTypeOK'
<1>1. "client" \in Procs /\ \A r \in SUBSET {"memh"} : r \in SUBSET Resources
  BY DEF Procs, Resources
<1>2. {"send", "out_free_ep"} \subseteq Pcs
  BY LabelFacts DEF Pcs, LookupPcs, MainPcs
<1>3. held' \in [Procs -> SUBSET Resources]
  <2>1. CASE \E r \in SUBSET {"memh"} : Acquire("client", r)
    BY <1>1, <2>1, TypedAcquire
  <2>2. CASE FreeString
    BY <1>1, <2>2, TypedRelease DEF FreeString
  <2>. QED
    BY <2>1, <2>2 DEF Register
<1>4. pc' \in [Procs -> Pcs] /\ status' \in [Procs -> {"ok", "unsupported", "err"}]
  BY <1>1, <1>2, TypedGoto, TypedLeave DEF Register, UctTypeOK
<1>. QED
  BY <1>3, <1>4 DEF Register, UctTypeOK, env, lookup, oobv, uct

\* SendAm keeps the types.
LEMMA TypedSendAm ==
    ASSUME UctTypeOK, SendAm
    PROVE  UctTypeOK'
<1>1. Deliverable \in BOOLEAN
  BY Zenon DEF Deliverable, Listens
<1>2. net' \in BOOLEAN
  BY <1>1, Zenon DEF SendAm
<1>3. held' \in [Procs -> SUBSET Resources]
  BY TypedRelease DEF SendAm, FreeString, UctTypeOK, Procs
<1>4. pc' \in [Procs -> Pcs] /\ status' \in [Procs -> {"ok", "unsupported", "err"}]
  <2>1. {"bar2s", "zwait"} \subseteq Pcs /\ "client" \in Procs
    BY DEF Pcs, LookupPcs, MainPcs, Procs
  <2>. QED
    BY <2>1, TypedGoto, TypedLeave DEF SendAm, UctTypeOK
<1>5. op' \in {"none", "busy", "done"}
  BY DEF SendAm, UctTypeOK
<1>. QED
  BY <1>2, <1>3, <1>4, <1>5 DEF SendAm, UctTypeOK, env, lookup, oobv

\* SendAmFails keeps the types.
LEMMA TypedSendAmFails ==
    ASSUME UctTypeOK, SendAmFails
    PROVE  UctTypeOK'
  BY LabelFacts, CountsAssumption, TransportsAssumption
  DEF UctTypeOK, Procs, Other, Pcs, LookupPcs, MainPcs, Exchanges, Items, Resources,
     Handles, env, lookup, oobv, uct, SendAmFails, FreeString, Goto, Acquire, Release, Leave

\* ZcopyReturns keeps the types.
LEMMA TypedZcopyReturns ==
    ASSUME UctTypeOK, ZcopyReturns
    PROVE  UctTypeOK'
  BY LabelFacts, CountsAssumption, TransportsAssumption
  DEF UctTypeOK, Procs, Other, Pcs, LookupPcs, MainPcs, Exchanges, Items, Resources,
     Handles, env, lookup, oobv, uct, ZcopyReturns, FreeString, Goto, Acquire, Release, Leave

\* ShowMessage keeps the types.
LEMMA TypedShowMessage ==
    ASSUME UctTypeOK, ShowMessage
    PROVE  UctTypeOK'
  BY LabelFacts, CountsAssumption, TransportsAssumption
  DEF UctTypeOK, Procs, Other, Pcs, LookupPcs, MainPcs, Exchanges, Items, Resources,
     Handles, env, lookup, oobv, uct, ShowMessage, HasMessage, Goto, Acquire, Release, Leave

\* Connect keeps the types.
LEMMA TypedConnect ==
    ASSUME UctTypeOK, Connect
    PROVE  UctTypeOK'
  BY LabelFacts, CountsAssumption, TransportsAssumption
  DEF UctTypeOK, Procs, Other, Pcs, LookupPcs, MainPcs, Exchanges, Items, Resources,
     Handles, env, lookup, oobv, uct, Connect, FirstExchange

\* zcopy_completion_cb keeps the types.
LEMMA TypedZcopy_completion_cb ==
    ASSUME UctTypeOK, zcopy_completion_cb
    PROVE  UctTypeOK'
<1>1. CASE Died("client")
  BY <1>1, TypedDied DEF Procs
<1>2. CASE ~Died("client")
  <2>1. held' \in [Procs -> SUBSET Resources]
    BY <1>2, TypedRelease DEF zcopy_completion_cb, Procs
  <2>2. desc' \in [Procs -> {"null", "uct", "copy", "beef"}]
    BY <1>2 DEF zcopy_completion_cb, UctTypeOK
  <2>. QED
    BY <1>2, <2>1, <2>2 DEF zcopy_completion_cb, UctTypeOK, env, lookup, oobv
<1>. QED
  BY <1>1, <1>2

\* hello_world keeps the types.
LEMMA TypedHello_world ==
    ASSUME UctTypeOK, hello_world
    PROVE  UctTypeOK'
<1>1. held' \in [Procs -> SUBSET Resources]
  BY DEF hello_world, Acquire, UctTypeOK, Resources
<1>2. desc' \in [Procs -> {"null", "uct", "copy", "beef"}]
  BY DEF hello_world, UctTypeOK
<1>3. net' \in BOOLEAN
  BY DEF hello_world
<1>. QED
  BY <1>1, <1>2, <1>3 DEF hello_world, UctTypeOK, env, lookup, oobv

--------------------------------------------------------------------------------
(***************************************************************************)
(* The theorems.                                                           *)
(***************************************************************************)

\* The initial states satisfy the invariant.
LEMMA UctInitInd == Init => UctInd
<1>. SUFFICES ASSUME Init PROVE UctInd
  OBVIOUS
<1>1. UctTypeOK
  <2>1. <<>> \in Seq(Items) /\ 1 \in 1 .. 4
    OBVIOUS
  <2>2. faults \subseteq FaultKinds
    BY FaultsAssumption DEF Init
  <2>3. cmpt \in [Procs -> 0 .. NComponents] /\ mds \in [Procs -> 0 .. MaxMds]
    BY CountsAssumption DEF Init
  <2>4. pc \in [Procs -> Pcs]
    BY DEF Init, Pcs, LookupPcs, MainPcs
  <2>5. held \in [Procs -> SUBSET Resources]
    BY DEF Init
  <2>6. peer \in [Procs -> [Exchanges -> Items \cup {"none"}]]
    BY DEF Init
  <2>. QED
    BY <2>1, <2>2, <2>3, <2>4, <2>5, <2>6 DEF Init, UctTypeOK
<1>2. ASSUME NEW p \in Procs PROVE HandlesAt(p) /\ BuffersAt(p)
  <2>1. pc[p] = "init" /\ held[p] = {}
    BY <1>2 DEF Init
  <2>. QED
    BY <2>1 DEF HandlesAt, IfaceOpen, MdOpen, BuffersAt, EpPcs, EpAddrPcs, SockHeldPcs,
                IfAddrPcs, DevAddrPcs, IfacePcs, LookupPcs, WorkerPcs, AsyncPcs
<1>3. RolesAt /\ MessageAt /\ StringAt /\ DescAt
  BY DEF Init, Procs, RolesAt, MessageAt, StringAt, DescAt
<1>. QED
  BY <1>1, <1>2, <1>3 DEF UctInd

\* Every step preserves it.
LEMMA UctNextInd == UctInd /\ [Next]_vars => UctInd'
<1>. SUFFICES ASSUME UctInd, [Next]_vars PROVE UctInd'
  OBVIOUS
<1>1. UctTypeOK
  BY DEF UctInd
<1>2. CASE UNCHANGED vars
  BY <1>2 DEF vars, UctInd, UctTypeOK, HandlesAt, IfaceOpen, MdOpen, Chosen, BuffersAt,
     RolesAt, MessageAt, StringAt, DescAt
<1>3. CASE Connect
  BY <1>1, <1>3, TypedConnect, KeepsConnect DEF UctInd, UctRest
<1>4. CASE zcopy_completion_cb
  BY <1>1, <1>4, TypedZcopy_completion_cb, KeepsZcopy_completion_cb DEF UctInd, UctRest
<1>5. CASE hello_world
  BY <1>1, <1>5, TypedHello_world, KeepsHello_world DEF UctInd, UctRest
<1>6. ASSUME NEW p \in Procs, Step(p) \/ ConnectFails(p, "error") \/ GetAddressFails(p) \/ Crash(p)
      PROVE  UctInd'
  <2>1. CASE CreateWorker(p)
    BY <1>1, <1>6, <2>1, TypedCreateWorker, KeepsCreateWorker DEF UctInd, UctRest
  <2>2. CASE uct_query_components(p)
    BY <1>1, <1>6, <2>2, TypedUct_query_components, KeepsUct_query_components DEF UctInd,
       UctRest
  <2>3. CASE QueryComponent(p)
    BY <1>1, <1>6, <2>3, TypedQueryComponent, KeepsQueryComponent DEF UctInd, UctRest
  <2>4. CASE OpenMd(p)
    BY <1>1, <1>6, <2>4, TypedOpenMd, KeepsOpenMd DEF UctInd, UctRest
  <2>5. CASE ScanTls(p)
    BY <1>1, <1>6, <2>5, TypedScanTls, KeepsScanTls DEF UctInd, UctRest
  <2>6. CASE SetUp(p)
    BY <1>1, <1>6, <2>6, TypedSetUp, KeepsSetUp DEF UctInd, UctRest
  <2>7. CASE ConnectFails(p, "refused") \/ ConnectFails(p, "error")
    BY <1>1, <1>6, <2>7, TypedConnectFails, KeepsConnectFails DEF UctInd, UctRest
  <2>8. CASE GetAddressFails(p)
    BY <1>1, <1>6, <2>8, TypedGetAddressFails, KeepsGetAddressFails DEF UctInd, UctRest
  <2>9. CASE SendItem(p)
    BY <1>1, <1>6, <2>9, TypedSendItem, KeepsSendItem DEF UctInd, UctRest
  <2>10. CASE RecvItem(p)
    BY <1>1, <1>6, <2>10, TypedRecvItem, KeepsRecvItem DEF UctInd, UctRest
  <2>11. CASE uct_iface_is_reachable(p)
    BY <1>1, <1>6, <2>11, TypedUct_iface_is_reachable,
       KeepsUct_iface_is_reachable DEF UctInd, UctRest
  <2>12. CASE CreateEp(p)
    BY <1>1, <1>6, <2>12, TypedCreateEp, KeepsCreateEp DEF UctInd, UctRest
  <2>13. CASE CreateConnectedEp(p)
    BY <1>1, <1>6, <2>13, TypedCreateConnectedEp, KeepsCreateConnectedEp DEF UctInd, UctRest
  <2>14. CASE ConnectToEp(p)
    BY <1>1, <1>6, <2>14, TypedConnectToEp, KeepsConnectToEp DEF UctInd, UctRest
  <2>15. CASE BarrierSend(p)
    BY <1>1, <1>6, <2>15, TypedBarrierSend, KeepsBarrierSend DEF UctInd, UctRest
  <2>16. CASE BarrierRecv(p)
    BY <1>1, <1>6, <2>16, TypedBarrierRecv, KeepsBarrierRecv DEF UctInd, UctRest
  <2>17. CASE CheckLength(p)
    BY <1>1, <1>6, <2>17, TypedCheckLength, KeepsCheckLength DEF UctInd, UctRest
  <2>18. CASE CleanUp(p)
    BY <1>1, <1>6, <2>18, TypedCleanUp, KeepsCleanUp DEF UctInd, UctRest
  <2>19. CASE Return(p)
    BY <1>1, <1>6, <2>19, TypedReturn, KeepsReturn DEF UctInd, UctRest
  <2>20. CASE Crash(p)
    BY <1>1, <1>6, <2>20, TypedCrash, KeepsCrash DEF UctInd, UctRest
  <2>21. CASE MakeString
    BY <1>1, <1>6, <2>21, TypedMakeString, KeepsMakeString DEF UctInd, UctRest
  <2>22. CASE Register
    BY <1>1, <1>6, <2>22, TypedRegister, KeepsRegister DEF UctInd, UctRest
  <2>23. CASE SendAm
    BY <1>1, <1>6, <2>23, TypedSendAm, KeepsSendAm DEF UctInd, UctRest
  <2>24. CASE SendAmFails
    BY <1>1, <1>6, <2>24, TypedSendAmFails, KeepsSendAmFails DEF UctInd, UctRest
  <2>25. CASE ZcopyReturns
    BY <1>1, <1>6, <2>25, TypedZcopyReturns, KeepsZcopyReturns DEF UctInd, UctRest
  <2>26. CASE ShowMessage
    BY <1>1, <1>6, <2>26, TypedShowMessage, KeepsShowMessage DEF UctInd, UctRest
  <2>27. CASE OpenIface(p)
    BY <1>1, <1>6, <2>27, TypedOpenIface, KeepsOpenIface DEF UctInd, UctRest
  <2>28. CASE QueryIface(p)
    BY <1>1, <1>6, <2>28, TypedQueryIface, KeepsQueryIface DEF UctInd, UctRest
  <2>29. CASE ErrorIface(p)
    BY <1>1, <1>6, <2>29, TypedErrorIface, KeepsErrorIface DEF UctInd, UctRest
  <2>30. CASE ReleaseTls(p)
    BY <1>1, <1>6, <2>30, TypedReleaseTls, KeepsReleaseTls DEF UctInd, UctRest
  <2>31. CASE CloseMd(p)
    BY <1>1, <1>6, <2>31, TypedCloseMd, KeepsCloseMd DEF UctInd, UctRest
  <2>32. CASE ReleaseComponents(p)
    BY <1>1, <1>6, <2>32, TypedReleaseComponents, KeepsReleaseComponents DEF UctInd, UctRest
  <2>. QED
    BY <1>6, <2>1, <2>2, <2>3, <2>4, <2>5, <2>6, <2>7, <2>8, <2>9, <2>10, <2>11, <2>12,
       <2>13, <2>14, <2>15, <2>16, <2>17, <2>18, <2>19, <2>20, <2>21, <2>22, <2>23, <2>24, <2>25, <2>26, <2>27, <2>28, <2>29, <2>30, <2>31, <2>32
    DEF Step
<1>7. CASE WildPointer
  BY <1>1, <1>7, TypedWildPointer, KeepsWildPointer DEF UctInd, UctRest
<1>. QED
  BY <1>2, <1>3, <1>4, <1>5, <1>6, <1>7 DEF Next

\* The invariant holds in every reachable state.
THEOREM UctInductive == Spec => []UctInd
<1>. QED
  BY UctInitInd, UctNextInd, PTL DEF Spec

\* Every variable keeps its type.
THEOREM UctTypeCorrect == Spec => []UctTypeOK
<1>1. UctInd => UctTypeOK
  BY DEF UctInd
<1>. QED
  BY <1>1, UctInductive, PTL

\* However main is left, each label of its clean-up destroys only handles that
\* main holds there, and frees only buffers it has allocated there.
THEOREM UctCleanUp == Spec => []CleanUpOwned
<1>1. UctInd => CleanUpOwned
  <2>. SUFFICES ASSUME UctInd, NEW p \in Procs, pc[p] \in Labels
                PROVE  Frees[pc[p]] \cap Handles \subseteq held[p]
    BY DEF CleanUpOwned
  <2>1. HandlesAt(p)
    BY DEF UctInd
  <2>2. CASE pc[p] = "out_free_ep"
    BY <2>1, <2>2, LabelFacts DEF Handles, HandlesAt, IfaceOpen, MdOpen, Chosen, EpPcs,
       EpAddrPcs, SockHeldPcs, IfAddrPcs, DevAddrPcs, IfacePcs, LookupPcs, WorkerPcs, AsyncPcs
  <2>3. CASE pc[p] = "out_free_ep_addrs"
    BY <2>1, <2>3, LabelFacts DEF Handles, HandlesAt, IfaceOpen, MdOpen, Chosen, EpPcs,
       EpAddrPcs, SockHeldPcs, IfAddrPcs, DevAddrPcs, IfacePcs, LookupPcs, WorkerPcs, AsyncPcs
  <2>4. CASE pc[p] = "out_close_oob_sock"
    BY <2>1, <2>4, LabelFacts DEF Handles, HandlesAt, IfaceOpen, MdOpen, Chosen, EpPcs,
       EpAddrPcs, SockHeldPcs, IfAddrPcs, DevAddrPcs, IfacePcs, LookupPcs, WorkerPcs, AsyncPcs
  <2>5. CASE pc[p] = "out_free_if_addrs"
    BY <2>1, <2>5, LabelFacts DEF Handles, HandlesAt, IfaceOpen, MdOpen, Chosen, EpPcs,
       EpAddrPcs, SockHeldPcs, IfAddrPcs, DevAddrPcs, IfacePcs, LookupPcs, WorkerPcs, AsyncPcs
  <2>6. CASE pc[p] = "out_free_dev_addrs"
    BY <2>1, <2>6, LabelFacts DEF Handles, HandlesAt, IfaceOpen, MdOpen, Chosen, EpPcs,
       EpAddrPcs, SockHeldPcs, IfAddrPcs, DevAddrPcs, IfacePcs, LookupPcs, WorkerPcs, AsyncPcs
  <2>7. CASE pc[p] = "out_destroy_iface"
    BY <2>1, <2>7, LabelFacts DEF Handles, HandlesAt, IfaceOpen, MdOpen, Chosen, EpPcs,
       EpAddrPcs, SockHeldPcs, IfAddrPcs, DevAddrPcs, IfacePcs, LookupPcs, WorkerPcs, AsyncPcs
  <2>8. CASE pc[p] = "out_destroy_worker"
    BY <2>1, <2>8, LabelFacts DEF Handles, HandlesAt, IfaceOpen, MdOpen, Chosen, EpPcs,
       EpAddrPcs, SockHeldPcs, IfAddrPcs, DevAddrPcs, IfacePcs, LookupPcs, WorkerPcs, AsyncPcs
  <2>9. CASE pc[p] = "out_cleanup_async"
    BY <2>1, <2>9, LabelFacts DEF Handles, HandlesAt, IfaceOpen, MdOpen, Chosen, EpPcs,
       EpAddrPcs, SockHeldPcs, IfAddrPcs, DevAddrPcs, IfacePcs, LookupPcs, WorkerPcs, AsyncPcs
  <2>10. CASE pc[p] = "out_close_md"
    BY <2>1, <2>10, LabelFacts DEF Handles, HandlesAt, IfaceOpen, MdOpen, Chosen, EpPcs,
       EpAddrPcs, SockHeldPcs, IfAddrPcs, DevAddrPcs, IfacePcs, LookupPcs, WorkerPcs, AsyncPcs
  <2>. QED
    BY LabelFacts, <2>2, <2>3, <2>4, <2>5, <2>6, <2>7, <2>8, <2>9, <2>10
<1>. QED
  BY <1>1, UctInductive, PTL

\* Nothing is destroyed before what was created from it.
THEOREM UctOrder == Spec => []DependencyOrder
<1>1. UctInd => DependencyOrder
  <2>. SUFFICES ASSUME UctInd, NEW p \in Procs
                PROVE  /\ "ep" \in held[p] => "iface" \in held[p]
                       /\ "iface" \in held[p] => "md" \in held[p] /\ "worker" \in held[p]
                       /\ "md" \in held[p] => "async" \in held[p]
                       /\ "worker" \in held[p] => "async" \in held[p]
                       /\ "components" \in held[p] => "async" \in held[p]
                       /\ "desc" \in held[p] /\ "iface" \notin held[p] => status[p] # "ok"
    BY DEF DependencyOrder
  <2>1. HandlesAt(p) /\ BuffersAt(p) /\ DescAt
    BY DEF UctInd
  <2>2. "desc" \in held[p] => p = "server"
    BY <2>1 DEF DescAt, Procs
  <2>. QED
    BY <2>1, <2>2 DEF HandlesAt, IfaceOpen, MdOpen, BuffersAt, DescAt, EpPcs, EpAddrPcs,
                      SockHeldPcs, IfAddrPcs, DevAddrPcs, IfacePcs, LookupPcs, WorkerPcs,
                      AsyncPcs
<1>. QED
  BY <1>1, UctInductive, PTL

\* When main returns it has released everything but what AllReleased names.
THEOREM UctReleased == Spec => []AllReleased
<1>1. UctInd => AllReleased
  <2>. SUFFICES ASSUME UctInd, NEW p \in Procs, pc[p] = "end"
                PROVE  /\ held[p] \subseteq {"sock", "str", "memh", "desc", "copy"}
                       /\ "sock" \in held[p] => failed[p] = "devaddr"
                       /\ "str" \in held[p] => failed[p] = "string"
                       /\ held[p] \cap {"desc", "copy"} # {} => status[p] # "ok"
                       /\ "memh" \in held[p] => op # "done"
    BY DEF AllReleased
  <2>1. HandlesAt(p) /\ BuffersAt(p) /\ StringAt /\ DescAt /\ held[p] \subseteq Resources
    BY DEF UctInd, UctTypeOK
  <2>2. held[p] \subseteq {"sock", "str", "memh", "desc", "copy"}
    <3>1. held[p] \cap Handles = {}
      BY <2>1 DEF HandlesAt, IfaceOpen, MdOpen, Handles, EpPcs, EpAddrPcs, SockHeldPcs,
                  IfAddrPcs, DevAddrPcs, IfacePcs, LookupPcs, WorkerPcs, AsyncPcs
    <3>2. held[p] \cap {"components", "tls", "peer_dev", "peer_iface", "own_ep", "peer_ep"} = {}
      BY <2>1 DEF BuffersAt, EpPcs, EpAddrPcs, SockHeldPcs, IfAddrPcs, DevAddrPcs, LookupPcs
    <3>3. "wild" \notin held[p]
      BY <2>1 DEF StringAt, Procs
    <3>. QED
      BY <2>1, <3>1, <3>2, <3>3 DEF Resources
  <2>3. "sock" \in held[p] => failed[p] = "devaddr"
    BY <2>1 DEF BuffersAt, EpPcs, EpAddrPcs, SockHeldPcs
  <2>4. "str" \in held[p] => failed[p] = "string"
    BY <2>1 DEF StringAt, Procs
  <2>5. "desc" \in held[p] \/ "copy" \in held[p] => status[p] # "ok"
    BY <2>1 DEF DescAt, Procs
  <2>6. "memh" \in held[p] => op # "done"
    BY <2>1 DEF StringAt, Procs
  <2>. QED
    BY <2>2, <2>3, <2>4, <2>5, <2>6
<1>. QED
  BY <1>1, UctInductive, PTL

\* The string, the endpoint, the interface and the memory domain outlive the
\* zero-copy operation that uses them.
THEOREM UctBufferHeld == Spec => []BufferHeldUntilSent
<1>1. UctInd => BufferHeldUntilSent
  <2>. SUFFICES ASSUME UctInd, op = "busy", pc["client"] # "dead"
                PROVE  /\ held["client"] \cap {"str", "wild"} # {}
                       /\ {"ep", "iface", "md"} \subseteq held["client"]
    BY DEF BufferHeldUntilSent
  <2>1. pc["client"] = "zwait" /\ StringAt /\ HandlesAt("client")
    BY DEF UctInd, MessageAt, Procs
  <2>. QED
    BY <2>1 DEF StringAt, HandlesAt, IfaceOpen, MdOpen, EpPcs, EpAddrPcs, SockHeldPcs,
       IfAddrPcs, DevAddrPcs, IfacePcs
<1>. QED
  BY <1>1, UctInductive, PTL

--------------------------------------------------------------------------------
(***************************************************************************)
(* The socket.  Each side sends and expects what its own interface asks    *)
(* for; Script(p, i) is the i-th item p sends.  While both talk, what p    *)
(* has read and what is on the socket towards p are what the other side    *)
(* has sent; p learns from an item where the other side was when it sent   *)
(* it.                                                                     *)
(***************************************************************************)
PreConnPcs == LookupPcs \cup {"init", "handler", "connect"}
FinalPcs == {"fit", "str", "reg", "send", "zwait", "amwait", "bar2s", "bar2r"}
PastEpPcs == {"bar1s", "bar1r"} \cup FinalPcs
TalkPcs == Exchanges \cup {"reach", "mkep", "connep"} \cup PastEpPcs
SilentPcs == Labels \cup {"out", "end", "dead"}

\* Items the exchanges of device, interface and endpoint addresses take, the
\* last one with the barrier that follows it.
DevItems(p) == IF attr[p].dev THEN 2 ELSE 0
IfaceItems(p) == IF attr[p].iface THEN 2 ELSE 0
EpItems(p) == IF attr[p].mode = "ep" THEN 3 ELSE 0
AddrItems(p) == DevItems(p) + IfaceItems(p)

Script(p, i) ==
    IF attr[p].dev /\ i = DevItems(p) THEN "dev"
    ELSE IF attr[p].iface /\ i = AddrItems(p) THEN "iface"
    ELSE IF attr[p].mode = "ep" /\ i = AddrItems(p) + 2 THEN "ep"
    ELSE IF i = AddrItems(p) + EpItems(p) + 1 \/ (attr[p].mode = "ep" /\ i = AddrItems(p) + 3)
      THEN "bar" ELSE "len"

\* Items behind p when it came to where it is.
Behind(p) ==
    CASE pc[p] = "dev" -> 0
      [] pc[p] = "iface" -> DevItems(p)
      [] pc[p] \in {"reach", "mkep", "ep"} -> AddrItems(p)
      [] pc[p] \in {"connep", "bar1s", "bar1r"} -> AddrItems(p) + 2
      [] OTHER -> AddrItems(p) + EpItems(p)

\* Items p has sent and read.
SentBy(p) ==
    Behind(p) + (IF pc[p] \in Exchanges THEN IF step[p] < 3 THEN step[p] - 1 ELSE 2
                 ELSE IF pc[p] \in {"bar1r", "bar2r"} THEN 1 ELSE 0)
ReadBy(p) == Behind(p) + (IF pc[p] \in Exchanges /\ step[p] = 4 THEN 1 ELSE 0)

\* An exchange happens where p's interface has the address; the endpoint address
\* and the first barrier, where it connects endpoints.
OwnScript(p) ==
    /\ pc[p] = "dev" => attr[p].dev
    /\ pc[p] = "iface" => attr[p].iface
    /\ pc[p] \in {"ep", "connep", "bar1s", "bar1r"} => attr[p].mode = "ep"
    /\ pc[p] \in PreConnPcs \cup TalkPcs /\ pc[p] \notin Exchanges => step[p] = 1
    /\ pc[p] \in PreConnPcs \cup TalkPcs => sock[p] # "closed"
    /\ pc[p] \in PastEpPcs /\ attr[p].mode = "ep" => conn[p] # "no"

\* What p has been told so far.
Counted(p) ==
    /\ pc[p] \in TalkPcs => pc[Other(p)] \notin PreConnPcs
    /\ pc[p] \in PreConnPcs /\ pc[Other(p)] \in PreConnPcs => oob[p] = <<>>
    /\ pc[p] \in TalkPcs /\ pc[Other(p)] \in TalkPcs =>
         ReadBy(p) + Len(oob[p]) = SentBy(Other(p))

\* The items towards p are the other side's next ones.
Scripted(p) ==
    pc[p] \in TalkPcs =>
      \A k \in 1 .. Len(oob[p]) : oob[p][k] = Script(Other(p), ReadBy(p) + k)

\* The first barrier comes after uct_ep_connect_to_ep, the second one, on the
\* server, after the message was printed.
Barriers(p) ==
    /\ pc[p] \in TalkPcs /\ attr[Other(p)].mode = "ep" /\
       ReadBy(p) + Len(oob[p]) > AddrItems(Other(p)) + 2 => conn[Other(p)] # "no"
    /\ p = "client" /\ pc[p] \in TalkPcs /\
       ReadBy(p) + Len(oob[p]) > AddrItems(Other(p)) + EpItems(Other(p)) => shown
    /\ pc[p] \in FinalPcs /\ attr[p].mode = "ep" => conn[Other(p)] # "no"

\* The two interfaces are alike once one side has found the other reachable, and
\* the buffers of the addresses hold what they are meant for.
Addresses(p) ==
    /\ pc[p] \in {"mkep", "connep", "ep", "out_free_ep"} \cup PastEpPcs =>
         attr[p] = attr[Other(p)] /\ pc[Other(p)] \notin PreConnPcs
    /\ attr[p] = attr[Other(p)] /\ (pc[p] \in TalkPcs \/ pc[p] = "out_free_ep") =>
         /\ attr[p].dev /\ pc[p] # "dev" => peer[p]["dev"] = "dev"
         /\ attr[p].iface /\ pc[p] \notin {"dev", "iface"} => peer[p]["iface"] = "iface"
    /\ pc[p] = "connep" => peer[p]["ep"] = "ep"
    /\ conn[p] # "no" =>
         /\ pc[p] \in PastEpPcs \cup SilentPcs
         /\ attr[p].mode = "ep" => peer[p]["ep"] = "ep"

\* The end of the second barrier.
Ends ==
    /\ pc["server"] \in {"bar2s", "bar2r"} => shown
    /\ pc["client"] = "out_free_ep" /\ status["client"] = "ok" => shown

\* A client on its way out of main with UCS_OK.
Finished ==
    pc["client"] \in ExitPcs /\ status["client"] = "ok" => shown \/ conn["client"] = "no"

StreamInv ==
    /\ \A p \in Procs : OwnScript(p) /\ Counted(p) /\ Scripted(p) /\ Barriers(p) /\ Addresses(p)
    /\ Ends /\ Finished

--------------------------------------------------------------------------------
\* The two processes.
LEMMA TwoSides ==
    ASSUME NEW p \in Procs
    PROVE  /\ Other(p) \in Procs /\ Other(p) # p /\ Other(Other(p)) = p
           /\ Procs = {p, Other(p)}
  BY DEF Procs, Other

\* The counts are numbers.
LEMMA StreamNats ==
    ASSUME UctTypeOK, NEW p \in Procs
    PROVE  /\ DevItems(p) \in {0, 2} /\ IfaceItems(p) \in {0, 2} /\ EpItems(p) \in {0, 3}
           /\ AddrItems(p) \in Nat /\ Behind(p) \in Nat /\ SentBy(p) \in Nat
           /\ ReadBy(p) \in Nat /\ Len(oob[p]) \in Nat /\ oob[p] \in Seq(Items)
  <1>1. DevItems(p) \in {0, 2} /\ IfaceItems(p) \in {0, 2} /\ EpItems(p) \in {0, 3}
    BY DEF DevItems, IfaceItems, EpItems
  <1>2. AddrItems(p) \in Nat
    BY <1>1 DEF AddrItems
  <1>3. Behind(p) \in Nat
    BY <1>1, <1>2 DEF Behind
  <1>4. step[p] \in 1 .. 4
    BY DEF UctTypeOK
  <1>5. SentBy(p) \in Nat /\ ReadBy(p) \in Nat
    BY <1>3, <1>4 DEF SentBy, ReadBy
  <1>6. oob[p] \in Seq(Items)
    BY DEF UctTypeOK
  <1> QED
    BY <1>1, <1>2, <1>3, <1>5, <1>6

\* What the counts depend on.
LEMMA SameScript ==
    ASSUME NEW q \in Procs, attr'[q] = attr[q]
    PROVE  /\ DevItems(q)' = DevItems(q) /\ AddrItems(q)' = AddrItems(q)
           /\ EpItems(q)' = EpItems(q) /\ \A i : Script(q, i)' = Script(q, i)
  BY DEF DevItems, IfaceItems, EpItems, AddrItems, Script

\* The counts of a side that does not move stay.
LEMMA SameCounts ==
    ASSUME NEW q \in Procs, attr'[q] = attr[q], pc'[q] = pc[q], step'[q] = step[q]
    PROVE  SentBy(q)' = SentBy(q) /\ ReadBy(q)' = ReadBy(q)
  <1>1. Behind(q)' = Behind(q)
    BY SameScript DEF Behind
  <1> QED
    BY <1>1 DEF SentBy, ReadBy

\* What is left of the invariant when only p moves.
LEMMA StreamParts ==
    ASSUME NEW p \in Procs, NEW q \in Procs, q = Other(p),
           OwnScript(p)', OwnScript(q)', Counted(p)', Counted(q)', Scripted(p)', Scripted(q)',
           Barriers(p)', Barriers(q)', Addresses(p)', Addresses(q)', Ends', Finished'
    PROVE  StreamInv'
  <1>1. \A r \in Procs : r = p \/ r = q
    BY TwoSides
  <1> QED
    BY <1>1 DEF StreamInv

\* p stops talking: it is on its way out of main, or dead.  What it has sent and the
\* other side has not read may be lost.
LEMMA StreamDrop ==
    ASSUME UctTypeOK, UctTypeOK', StreamInv, NEW p \in Procs, NEW q \in Procs, q = Other(p),
           pc'[p] \in SilentPcs, pc'[q] = pc[q],
           attr' = attr, conn' = conn, peer' = peer, shown' = shown, step' = step,
           sock'[q] = sock[q], status'[q] = status[q], oob'[q] \in {oob[q], <<>>},
           pc'[p] = "out_free_ep" =>
             /\ pc[p] \in {"mkep", "connep", "ep"} \cup PastEpPcs
             /\ p = "client" /\ status'[p] = "ok" => shown,
           \/ pc[p] \in PreConnPcs \cup {"dev", "iface", "reach", "mkep"}
           \/ pc'[p] \in {"out_free_ep", "dead"}
           \/ pc[p] \in ExitPcs /\ status'[p] = status[p]
    PROVE  StreamInv'
  <1>1. Other(q) = p /\ q # p
    BY TwoSides
  <1>2. /\ OwnScript(p) /\ OwnScript(q) /\ Counted(p) /\ Counted(q) /\ Scripted(q)
        /\ Barriers(q) /\ Addresses(p) /\ Addresses(q) /\ Ends /\ Finished
    BY DEF StreamInv
  <1>3. pc'[p] \notin TalkPcs \cup PreConnPcs \cup {"mkep", "connep", "ep"} \cup PastEpPcs
    BY LabelFacts DEF SilentPcs, TalkPcs, PreConnPcs, LookupPcs, Exchanges, PastEpPcs, FinalPcs
  <1>4. /\ SentBy(q)' = SentBy(q) /\ ReadBy(q)' = ReadBy(q) /\ ReadBy(q) \in Nat
        /\ Len(oob[q]) \in Nat /\ Len(oob'[q]) <= Len(oob[q]) /\ Len(oob'[q]) \in Nat
        /\ AddrItems(p)' = AddrItems(p) /\ EpItems(p)' = EpItems(p)
        /\ AddrItems(p) \in Nat /\ EpItems(p) \in Nat
    BY SameCounts, SameScript, StreamNats
  <1>5. \A i : Script(p, i)' = Script(p, i)
    BY SameScript
  <1>6. OwnScript(p)' /\ OwnScript(q)'
    BY <1>2, <1>3, LabelFacts DEF OwnScript, SilentPcs, Exchanges, TalkPcs, PastEpPcs,
       FinalPcs, PreConnPcs, LookupPcs
  <1>7. Counted(p)' /\ Counted(q)'
    BY <1>1, <1>2, <1>3 DEF Counted
  <1>8. Scripted(p)'
    BY <1>3 DEF Scripted
  <1>9. Scripted(q)'
    BY <1>1, <1>2, <1>4, <1>5 DEF Scripted
  <1>10. Barriers(p)'
    BY <1>3 DEF Barriers, PastEpPcs
  <1>11. Barriers(q)'
    BY <1>1, <1>2, <1>4 DEF Barriers
  <1>12. Addresses(p)'
    BY <1>1, <1>2, <1>3 DEF Addresses, Counted, TalkPcs, PastEpPcs, FinalPcs, Exchanges
  <1>13. Addresses(q)'
    BY <1>1, <1>2, <1>3 DEF Addresses
  <1>14. Ends'
    <2>1. pc'[p] \notin {"bar2s", "bar2r"}
      BY <1>3 DEF PastEpPcs, FinalPcs
    <2> QED
      BY <1>1, <1>2, <2>1 DEF Ends, Procs, Other
  <1>15. Finished'
    <2>1. CASE q = "client"
      BY <1>1, <1>2, <2>1 DEF Finished
    <2>2. CASE p = "client" /\ pc[p] \in PreConnPcs \cup {"dev", "iface", "reach", "mkep"}
      <3>1. pc[p] \notin PastEpPcs \cup SilentPcs
        BY <2>2, LabelFacts DEF PreConnPcs, LookupPcs, PastEpPcs, FinalPcs, SilentPcs
      <3> QED
        BY <1>2, <2>2, <3>1 DEF Addresses, Finished
    <2>3. CASE p = "client" /\ pc'[p] \in {"out_free_ep", "dead"}
      BY <2>3, LabelFacts DEF Finished, ExitPcs
    <2>4. CASE p = "client" /\ pc[p] \in ExitPcs /\ status'[p] = status[p]
      BY <1>2, <2>4 DEF Finished
    <2> QED
      BY <2>1, <2>2, <2>3, <2>4 DEF Procs, Other
  <1> QED
    BY <1>6, <1>7, <1>8, <1>9, <1>10, <1>11, <1>12, <1>13, <1>14, <1>15, StreamParts

\* p goes on without using the socket.
LEMMA StreamMove ==
    ASSUME UctTypeOK, UctTypeOK', StreamInv, NEW p \in Procs, NEW q \in Procs, q = Other(p),
           pc[p] \in TalkPcs, pc'[p] \in TalkPcs, pc'[q] = pc[q], status'[q] = status[q],
           attr' = attr, peer' = peer, step' = step, sock' = sock, oob' = oob,
           conn'[q] = conn[q], conn[p] # "no" => conn'[p] # "no", shown => shown',
           SentBy(p)' = SentBy(p), ReadBy(p)' = ReadBy(p),
           pc'[p] \in FinalPcs /\ attr[p].mode = "ep" => conn[q] # "no",
           OwnScript(p)', Addresses(p)', Ends'
    PROVE  StreamInv'
  <1>1. Other(q) = p /\ q # p
    BY TwoSides
  <1>2. /\ OwnScript(q) /\ Counted(p) /\ Counted(q) /\ Scripted(p) /\ Scripted(q)
        /\ Barriers(p) /\ Barriers(q) /\ Addresses(q) /\ Finished
    BY DEF StreamInv
  <1>3. pc'[p] \notin PreConnPcs /\ pc[p] \notin PreConnPcs
    BY DEF TalkPcs, PreConnPcs, LookupPcs, Exchanges, PastEpPcs, FinalPcs
  <1>4. SentBy(q)' = SentBy(q) /\ ReadBy(q)' = ReadBy(q)
    BY SameCounts
  <1>5. \A r \in {p, q} : /\ AddrItems(r)' = AddrItems(r) /\ EpItems(r)' = EpItems(r)
                          /\ \A i : Script(r, i)' = Script(r, i)
    BY SameScript
  <1>6. OwnScript(q)'
    BY <1>2 DEF OwnScript
  <1>7. Counted(p)' /\ Counted(q)'
    BY <1>1, <1>2, <1>3, <1>4 DEF Counted
  <1>8. Scripted(p)' /\ Scripted(q)'
    BY <1>1, <1>2, <1>4, <1>5 DEF Scripted
  <1>9. Barriers(p)' /\ Barriers(q)'
    BY <1>1, <1>2, <1>4, <1>5 DEF Barriers
  <1>10. Addresses(q)'
    BY <1>1, <1>2, <1>3 DEF Addresses
  <1>11. Finished'
    <2>1. pc'[p] \notin ExitPcs
      BY LabelFacts DEF TalkPcs, Exchanges, PastEpPcs, FinalPcs, ExitPcs
    <2> QED
      BY <1>1, <1>2, <2>1 DEF Finished, Procs, Other
  <1> QED
    BY <1>6, <1>7, <1>8, <1>9, <1>10, <1>11, StreamParts

\* p sends the next item of its script; a peer that has closed does not get it.
LEMMA StreamSend ==
    ASSUME UctTypeOK, UctTypeOK', StreamInv, NEW p \in Procs, NEW q \in Procs, q = Other(p),
           pc[p] \in TalkPcs, pc'[p] \in TalkPcs, pc'[q] = pc[q], status'[q] = status[q],
           attr' = attr, peer' = peer, sock' = sock, conn' = conn, shown' = shown,
           step'[q] = step[q], oob'[p] = oob[p],
           \/ PeerClosed(p) /\ oob'[q] = oob[q]
           \/ oob'[q] = Append(oob[q], Script(p, SentBy(p) + 1)),
           SentBy(p)' = SentBy(p) + 1, ReadBy(p)' = ReadBy(p),
           attr[p].mode = "ep" /\ SentBy(p) + 1 > AddrItems(p) + 2 => conn[p] # "no",
           p = "server" /\ SentBy(p) + 1 > AddrItems(p) + EpItems(p) => shown,
           pc'[p] \in FinalPcs /\ attr[p].mode = "ep" => conn[q] # "no",
           OwnScript(p)', Addresses(p)', Ends'
    PROVE  StreamInv'
  <1>1. Other(q) = p /\ q # p
    BY TwoSides
  <1>2. /\ OwnScript(q) /\ Counted(p) /\ Counted(q) /\ Scripted(p) /\ Scripted(q)
        /\ Barriers(p) /\ Barriers(q) /\ Addresses(q) /\ Finished
    BY DEF StreamInv
  <1>3. pc'[p] \notin PreConnPcs /\ pc[p] \notin PreConnPcs
    BY DEF TalkPcs, PreConnPcs, LookupPcs, Exchanges, PastEpPcs, FinalPcs
  <1>4. SentBy(q)' = SentBy(q) /\ ReadBy(q)' = ReadBy(q)
    BY SameCounts
  <1>5. \A r \in {p, q} : /\ AddrItems(r)' = AddrItems(r) /\ EpItems(r)' = EpItems(r)
                          /\ \A i : Script(r, i)' = Script(r, i)
    BY SameScript
  <1>6. OwnScript(q)'
    BY <1>2 DEF OwnScript
  <1>7. /\ SentBy(p) \in Nat /\ ReadBy(q) \in Nat /\ oob[q] \in Seq(Items)
        /\ Len(oob[q]) \in Nat
    BY StreamNats
  <1>8. pc[q] \in TalkPcs =>
          /\ oob'[q] = Append(oob[q], Script(p, SentBy(p) + 1))
          /\ ReadBy(q) + Len(oob[q]) = SentBy(p)
    BY <1>1, <1>2 DEF OwnScript, Counted, PeerClosed
  <1>9. pc[q] \in TalkPcs =>
          /\ Len(oob'[q]) = Len(oob[q]) + 1
          /\ \A k \in 1 .. Len(oob[q]) : oob'[q][k] = oob[q][k]
          /\ oob'[q][Len(oob[q]) + 1] = Script(p, SentBy(p) + 1)
    BY <1>7, <1>8
  <1>10. Counted(p)' /\ Counted(q)'
    <2>1. pc[q] \in TalkPcs => ReadBy(q)' + Len(oob'[q]) = SentBy(p) + 1
      <3> SUFFICES ASSUME pc[q] \in TalkPcs PROVE ReadBy(q)' + Len(oob'[q]) = SentBy(p) + 1
        OBVIOUS
      <3>1. ReadBy(q)' = ReadBy(q) /\ Len(oob'[q]) = Len(oob[q]) + 1
        BY <1>4, <1>9
      <3>2. ReadBy(q) + (Len(oob[q]) + 1) = SentBy(p) + 1
        BY <1>7, <1>8
      <3> QED
        BY <3>1, <3>2
    <2>2. Counted(p)'
      BY <1>1, <1>2, <1>3, <1>4 DEF Counted
    <2>3. Counted(q)'
      BY <1>1, <1>2, <1>3, <2>1 DEF Counted
    <2> QED
      BY <2>2, <2>3
  <1>11. Scripted(p)'
    BY <1>1, <1>2, <1>5 DEF Scripted
  <1>12. Scripted(q)'
    <2> SUFFICES ASSUME pc[q] \in TalkPcs, NEW k \in 1 .. Len(oob[q]) + 1
                 PROVE  oob'[q][k] = Script(p, ReadBy(q) + k)
      BY <1>1, <1>4, <1>5, <1>9 DEF Scripted
    <2>1. CASE k = Len(oob[q]) + 1
      <3>1. ReadBy(q) + k = SentBy(p) + 1
        BY <1>7, <1>8, <2>1
      <3> QED
        BY <1>9, <2>1, <3>1
    <2>2. CASE k # Len(oob[q]) + 1
      <3>1. k \in 1 .. Len(oob[q])
        BY <1>7, <2>2
      <3> QED
        BY <1>1, <1>2, <1>9, <3>1 DEF Scripted
    <2> QED
      BY <2>1, <2>2
  <1>13. Barriers(p)'
    BY <1>1, <1>2, <1>4, <1>5 DEF Barriers
  <1>14. Barriers(q)'
    <2>1. pc[q] \in TalkPcs => ReadBy(q)' + Len(oob'[q]) = SentBy(p) + 1
      <3> SUFFICES ASSUME pc[q] \in TalkPcs PROVE ReadBy(q)' + Len(oob'[q]) = SentBy(p) + 1
        OBVIOUS
      <3>1. ReadBy(q)' = ReadBy(q) /\ Len(oob'[q]) = Len(oob[q]) + 1
        BY <1>4, <1>9
      <3>2. ReadBy(q) + (Len(oob[q]) + 1) = SentBy(p) + 1
        BY <1>7, <1>8
      <3> QED
        BY <3>1, <3>2
    <2>2. q = "client" => p = "server"
      BY DEF Procs, Other
    <2> QED
      BY <1>1, <1>2, <1>5, <2>1, <2>2 DEF Barriers
  <1>15. Addresses(q)'
    BY <1>1, <1>2, <1>3 DEF Addresses
  <1>16. Finished'
    <2>1. pc'[p] \notin ExitPcs
      BY LabelFacts DEF TalkPcs, Exchanges, PastEpPcs, FinalPcs, ExitPcs
    <2> QED
      BY <1>1, <1>2, <2>1 DEF Finished, Procs, Other
  <1> QED
    BY <1>6, <1>10, <1>11, <1>12, <1>13, <1>14, <1>15, <1>16, StreamParts

\* p reads an item.
LEMMA StreamRecv ==
    ASSUME UctTypeOK, UctTypeOK', StreamInv, NEW p \in Procs, NEW q \in Procs, q = Other(p),
           pc[p] \in TalkPcs, pc'[p] \in TalkPcs, pc'[q] = pc[q], status'[q] = status[q],
           attr' = attr, sock' = sock, conn' = conn, shown' = shown, peer'[q] = peer[q],
           step'[q] = step[q], oob[p] # <<>>, oob'[p] = Tail(oob[p]), oob'[q] = oob[q],
           ReadBy(p)' = ReadBy(p) + 1, SentBy(p)' = SentBy(p),
           pc'[p] \in FinalPcs /\ attr[p].mode = "ep" => conn[q] # "no",
           OwnScript(p)', Addresses(p)', Ends'
    PROVE  StreamInv'
  <1>1. Other(q) = p /\ q # p
    BY TwoSides
  <1>2. /\ OwnScript(q) /\ Counted(p) /\ Counted(q) /\ Scripted(p) /\ Scripted(q)
        /\ Barriers(p) /\ Barriers(q) /\ Addresses(q) /\ Finished
    BY DEF StreamInv
  <1>3. pc'[p] \notin PreConnPcs /\ pc[p] \notin PreConnPcs
    BY DEF TalkPcs, PreConnPcs, LookupPcs, Exchanges, PastEpPcs, FinalPcs
  <1>4. SentBy(q)' = SentBy(q) /\ ReadBy(q)' = ReadBy(q)
    BY SameCounts
  <1>5. \A r \in {p, q} : /\ AddrItems(r)' = AddrItems(r) /\ EpItems(r)' = EpItems(r)
                          /\ \A i : Script(r, i)' = Script(r, i)
    BY SameScript
  <1>6. OwnScript(q)'
    BY <1>2 DEF OwnScript
  <1>7. /\ ReadBy(p) \in Nat /\ oob[p] \in Seq(Items) /\ Len(oob[p]) \in Nat
    BY StreamNats
  <1>8. /\ Len(oob'[p]) = Len(oob[p]) - 1 /\ Len(oob'[p]) \in Nat
        /\ \A k \in 1 .. Len(oob'[p]) : oob'[p][k] = oob[p][k + 1]
    BY <1>7
  <1>9. ReadBy(p)' + Len(oob'[p]) = ReadBy(p) + Len(oob[p])
    BY <1>7, <1>8
  <1>10. Counted(p)' /\ Counted(q)'
    BY <1>1, <1>2, <1>3, <1>4, <1>9 DEF Counted
  <1>11. Scripted(p)'
    <2> SUFFICES ASSUME NEW k \in 1 .. Len(oob'[p])
                 PROVE  oob'[p][k] = Script(q, ReadBy(p) + 1 + k)
      BY <1>1, <1>5 DEF Scripted
    <2>1. k \in Nat /\ k >= 1 /\ k <= Len(oob[p]) - 1
      BY <1>8
    <2>2. k + 1 \in 1 .. Len(oob[p]) /\ ReadBy(p) + 1 + k = ReadBy(p) + (k + 1)
      BY <1>7, <2>1
    <2> QED
      BY <1>2, <1>8, <2>2 DEF Scripted
  <1>12. Scripted(q)'
    BY <1>1, <1>2, <1>4, <1>5 DEF Scripted
  <1>13. Barriers(p)' /\ Barriers(q)'
    BY <1>1, <1>2, <1>4, <1>5, <1>9 DEF Barriers
  <1>14. Addresses(q)'
    BY <1>1, <1>2, <1>3 DEF Addresses
  <1>15. Finished'
    <2>1. pc'[p] \notin ExitPcs
      BY LabelFacts DEF TalkPcs, Exchanges, PastEpPcs, FinalPcs, ExitPcs
    <2> QED
      BY <1>1, <1>2, <2>1 DEF Finished, Procs, Other
  <1> QED
    BY <1>6, <1>10, <1>11, <1>12, <1>13, <1>14, <1>15, StreamParts

\* p is not yet connected and stays so.
LEMMA StreamBefore ==
    ASSUME UctTypeOK, UctTypeOK', StreamInv, NEW p \in Procs, NEW q \in Procs, q = Other(p),
           pc[p] \in PreConnPcs, pc'[p] \in PreConnPcs, pc'[q] = pc[q], attr'[q] = attr[q],
           peer' = peer, step' = step, sock' = sock, oob' = oob, conn' = conn,
           shown' = shown, status'[q] = status[q]
    PROVE  StreamInv'
  <1>1. Other(q) = p /\ q # p
    BY TwoSides
  <1>2. /\ OwnScript(p) /\ OwnScript(q) /\ Counted(p) /\ Counted(q)
        /\ Barriers(q) /\ Addresses(p) /\ Addresses(q) /\ Ends /\ Finished
    BY DEF StreamInv
  <1>3. \A l \in PreConnPcs : l \notin TalkPcs \cup Exchanges \cup PastEpPcs \cup FinalPcs
                                         \cup SilentPcs \cup {"mkep", "connep", "ep", "out_free_ep"}
    BY LabelFacts DEF TalkPcs, PreConnPcs, LookupPcs, Exchanges, PastEpPcs, FinalPcs, SilentPcs
  <1>4. pc[q] \notin TalkPcs
    BY <1>1, <1>2 DEF Counted
  <1>5. pc[q] \notin FinalPcs
    BY <1>4 DEF TalkPcs, PastEpPcs
  <1>6. OwnScript(q)'
    BY <1>2 DEF OwnScript
  <1>7. OwnScript(p)'
    <2>1. pc'[p] \notin {"dev", "iface", "ep", "connep", "bar1s", "bar1r"} \cup PastEpPcs
      BY <1>3 DEF Exchanges, PastEpPcs
    <2>2. step[p] = 1 /\ sock[p] # "closed"
      BY <1>2, <1>3 DEF OwnScript
    <2> QED
      BY <2>1, <2>2 DEF OwnScript
  <1>8. Counted(p)' /\ Counted(q)'
    BY <1>1, <1>2, <1>3, <1>4 DEF Counted
  <1>9. Scripted(p)' /\ Scripted(q)'
    BY <1>3, <1>4 DEF Scripted
  <1>10. Barriers(p)' /\ Barriers(q)'
    BY <1>3, <1>4, <1>5 DEF Barriers
  <1>11. Addresses(p)'
    BY <1>2, <1>3 DEF Addresses
  <1>12. Addresses(q)'
    <2>1. pc[q] \notin {"mkep", "connep", "ep", "out_free_ep"} \cup PastEpPcs
      BY <1>1, <1>2 DEF Addresses
    <2> QED
      BY <1>1, <1>2, <1>4, <2>1 DEF Addresses
  <1>13. Ends'
    <2>1. pc'[p] \notin {"bar2s", "bar2r", "out_free_ep"}
      BY <1>3 DEF FinalPcs
    <2> QED
      BY <1>1, <1>2, <2>1 DEF Ends, Procs, Other
  <1>14. Finished'
    <2>1. pc'[p] \notin ExitPcs
      BY <1>3 DEF SilentPcs, ExitPcs
    <2> QED
      BY <1>1, <1>2, <2>1 DEF Finished, Procs, Other
  <1> QED
    BY <1>6, <1>7, <1>8, <1>9, <1>10, <1>11, <1>12, <1>13, <1>14, StreamParts

\* Nothing the invariant speaks of changes.
LEMMA StreamSame ==
    ASSUME StreamInv, pc' = pc, attr' = attr, peer' = peer, step' = step, sock' = sock,
           oob' = oob, conn' = conn, shown' = shown, status' = status
    PROVE  StreamInv'
  <1> SUFFICES ASSUME NEW p \in Procs
               PROVE  /\ OwnScript(p)' /\ Counted(p)' /\ Scripted(p)' /\ Barriers(p)'
                      /\ Addresses(p)' /\ Ends' /\ Finished'
    <2>1. "client" \in Procs
      BY DEF Procs
    <2> QED
      BY <2>1 DEF StreamInv
  <1>1. /\ OwnScript(p) /\ Counted(p) /\ Scripted(p) /\ Barriers(p) /\ Addresses(p) /\ Ends
        /\ Finished
    BY DEF StreamInv
  <1>2. Other(p) \in Procs
    BY TwoSides
  <1>3. \A r \in Procs : SentBy(r)' = SentBy(r) /\ ReadBy(r)' = ReadBy(r)
    BY SameCounts
  <1>4. \A r \in Procs : /\ AddrItems(r)' = AddrItems(r) /\ EpItems(r)' = EpItems(r)
                         /\ \A i : Script(r, i)' = Script(r, i)
    BY SameScript
  <1>5. OwnScript(p)' /\ Addresses(p)' /\ Ends' /\ Finished'
    BY <1>1 DEF OwnScript, Addresses, Ends, Finished
  <1>6. Counted(p)' /\ Scripted(p)' /\ Barriers(p)'
    BY <1>1, <1>2, <1>3, <1>4 DEF Counted, Scripted, Barriers
  <1> QED
    BY <1>5, <1>6

\* CreateWorker keeps it.
LEMMA Stream_CreateWorker ==
    ASSUME UctTypeOK, UctTypeOK', StreamInv, NEW p \in Procs, CreateWorker(p)
    PROVE  StreamInv'
  <1>1. Other(p) \in Procs /\ Other(p) # p
    BY TwoSides
  <1>2. /\ peer' = peer /\ step' = step /\ sock' = sock /\ oob' = oob /\ conn' = conn
        /\ shown' = shown /\ pc'[Other(p)] = pc[Other(p)]
        /\ status'[Other(p)] = status[Other(p)]
    BY <1>1 DEF UctTypeOK, CreateWorker, Goto, Leave, Acquire, Release, env, lookup,
       oobv, uct
  <1>3. pc[p] \in PreConnPcs /\ attr'[Other(p)] = attr[Other(p)]
    BY <1>1 DEF UctTypeOK, PreConnPcs, LookupPcs, CreateWorker, env, lookup, oobv, uct
  <1>4. \/ pc'[p] \in PreConnPcs
        \/ attr' = attr /\ pc'[p] \in SilentPcs \ {"out_free_ep"}
    BY LabelFacts DEF UctTypeOK, PreConnPcs, LookupPcs, SilentPcs, CreateWorker, Goto,
       Leave, env,
       lookup, oobv, uct
  <1> QED
    BY <1>1, <1>2, <1>3, <1>4, StreamBefore, StreamDrop

\* uct_query_components keeps it.
LEMMA Stream_uct_query_components ==
    ASSUME UctTypeOK, UctTypeOK', StreamInv, NEW p \in Procs, uct_query_components(p)
    PROVE  StreamInv'
  <1>1. Other(p) \in Procs /\ Other(p) # p
    BY TwoSides
  <1>2. /\ peer' = peer /\ step' = step /\ sock' = sock /\ oob' = oob /\ conn' = conn
        /\ shown' = shown /\ pc'[Other(p)] = pc[Other(p)]
        /\ status'[Other(p)] = status[Other(p)]
    BY <1>1 DEF UctTypeOK, uct_query_components, Goto, Leave, Acquire, Release, env,
       lookup, oobv, uct
  <1>3. pc[p] \in PreConnPcs /\ attr'[Other(p)] = attr[Other(p)]
    BY <1>1 DEF UctTypeOK, PreConnPcs, LookupPcs, uct_query_components, env, lookup, oobv, uct
  <1>4. \/ pc'[p] \in PreConnPcs
        \/ attr' = attr /\ pc'[p] \in SilentPcs \ {"out_free_ep"}
    BY LabelFacts DEF UctTypeOK, PreConnPcs, LookupPcs, SilentPcs, uct_query_components, Goto,
       Leave, env, lookup, oobv, uct
  <1> QED
    BY <1>1, <1>2, <1>3, <1>4, StreamBefore, StreamDrop

\* QueryComponent keeps it.
LEMMA Stream_QueryComponent ==
    ASSUME UctTypeOK, UctTypeOK', StreamInv, NEW p \in Procs, QueryComponent(p)
    PROVE  StreamInv'
  <1>1. Other(p) \in Procs /\ Other(p) # p
    BY TwoSides
  <1>2. /\ peer' = peer /\ step' = step /\ sock' = sock /\ oob' = oob /\ conn' = conn
        /\ shown' = shown
    BY DEF QueryComponent, oobv, uct
  <1>3. pc'[Other(p)] = pc[Other(p)] /\ status'[Other(p)] = status[Other(p)]
    BY <1>1 DEF UctTypeOK, QueryComponent, Goto, Leave
  <1>4. pc[p] \in PreConnPcs /\ attr'[Other(p)] = attr[Other(p)]
    BY <1>1 DEF UctTypeOK, PreConnPcs, LookupPcs, QueryComponent, lookup
  <1>5. \/ pc'[p] \in PreConnPcs
        \/ attr' = attr /\ pc'[p] \in SilentPcs \ {"out_free_ep"}
    BY LabelFacts DEF UctTypeOK, PreConnPcs, LookupPcs, SilentPcs, QueryComponent, Goto,
       Leave, lookup
  <1> QED
    BY <1>1, <1>2, <1>3, <1>4, <1>5, StreamBefore, StreamDrop

\* OpenMd keeps it.
LEMMA Stream_OpenMd ==
    ASSUME UctTypeOK, UctTypeOK', StreamInv, NEW p \in Procs, OpenMd(p)
    PROVE  StreamInv'
  <1>1. Other(p) \in Procs /\ Other(p) # p
    BY TwoSides
  <1>2. /\ peer' = peer /\ step' = step /\ sock' = sock /\ oob' = oob /\ conn' = conn
        /\ shown' = shown
    BY DEF OpenMd, QueryMdExit, oobv, uct
  <1>3. pc'[Other(p)] = pc[Other(p)] /\ status'[Other(p)] = status[Other(p)]
    BY <1>1 DEF UctTypeOK, OpenMd, QueryMdExit, Goto, Leave
  <1>4. pc[p] \in PreConnPcs /\ attr'[Other(p)] = attr[Other(p)]
    BY <1>1 DEF UctTypeOK, PreConnPcs, LookupPcs, OpenMd, QueryMdExit, lookup
  <1>5. \/ pc'[p] \in PreConnPcs
        \/ attr' = attr /\ pc'[p] \in SilentPcs \ {"out_free_ep"}
    BY LabelFacts DEF UctTypeOK, PreConnPcs, LookupPcs, SilentPcs, OpenMd, QueryMdExit,
       Goto, Leave, lookup
  <1> QED
    BY <1>1, <1>2, <1>3, <1>4, <1>5, StreamBefore, StreamDrop

\* ScanTls keeps it.
LEMMA Stream_ScanTls ==
    ASSUME UctTypeOK, UctTypeOK', StreamInv, NEW p \in Procs, ScanTls(p)
    PROVE  StreamInv'
  <1>1. Other(p) \in Procs /\ Other(p) # p
    BY TwoSides
  <1>2. /\ peer' = peer /\ step' = step /\ sock' = sock /\ oob' = oob /\ conn' = conn
        /\ shown' = shown
    BY DEF ScanTls, oobv, uct
  <1>3. pc'[Other(p)] = pc[Other(p)] /\ status'[Other(p)] = status[Other(p)]
    BY <1>1 DEF UctTypeOK, ScanTls, Goto, Leave
  <1>4. pc[p] \in PreConnPcs /\ attr'[Other(p)] = attr[Other(p)]
    BY <1>1 DEF UctTypeOK, PreConnPcs, LookupPcs, ScanTls, lookup
  <1>5. \/ pc'[p] \in PreConnPcs
        \/ attr' = attr /\ pc'[p] \in SilentPcs \ {"out_free_ep"}
    BY LabelFacts DEF UctTypeOK, PreConnPcs, LookupPcs, SilentPcs, ScanTls, Goto, Leave, lookup
  <1> QED
    BY <1>1, <1>2, <1>3, <1>4, <1>5, StreamBefore, StreamDrop

\* OpenIface keeps it.
LEMMA Stream_OpenIface ==
    ASSUME UctTypeOK, UctTypeOK', StreamInv, NEW p \in Procs, OpenIface(p)
    PROVE  StreamInv'
  <1>1. Other(p) \in Procs /\ Other(p) # p
    BY TwoSides
  <1>2. /\ peer' = peer /\ step' = step /\ sock' = sock /\ oob' = oob /\ conn' = conn
        /\ shown' = shown
    BY DEF OpenIface, oobv, uct
  <1>3. pc'[Other(p)] = pc[Other(p)] /\ status'[Other(p)] = status[Other(p)]
    BY <1>1 DEF UctTypeOK, OpenIface, Goto, Leave
  <1>4. pc[p] \in PreConnPcs /\ attr'[Other(p)] = attr[Other(p)]
    BY <1>1 DEF UctTypeOK, PreConnPcs, LookupPcs, OpenIface, lookup
  <1>5. \/ pc'[p] \in PreConnPcs
        \/ attr' = attr /\ pc'[p] \in SilentPcs \ {"out_free_ep"}
    BY LabelFacts DEF UctTypeOK, PreConnPcs, LookupPcs, SilentPcs, OpenIface, Goto, Leave,
       lookup
  <1> QED
    BY <1>1, <1>2, <1>3, <1>4, <1>5, StreamBefore, StreamDrop

\* QueryIface keeps it.
LEMMA Stream_QueryIface ==
    ASSUME UctTypeOK, UctTypeOK', StreamInv, NEW p \in Procs, QueryIface(p)
    PROVE  StreamInv'
  <1>1. Other(p) \in Procs /\ Other(p) # p
    BY TwoSides
  <1>2. /\ peer' = peer /\ step' = step /\ sock' = sock /\ oob' = oob /\ conn' = conn
        /\ shown' = shown
    BY DEF QueryIface, oobv, uct
  <1>3. pc'[Other(p)] = pc[Other(p)] /\ status'[Other(p)] = status[Other(p)]
    BY <1>1 DEF UctTypeOK, QueryIface, Goto, Leave
  <1>4. pc[p] \in PreConnPcs /\ attr'[Other(p)] = attr[Other(p)]
    BY <1>1 DEF UctTypeOK, PreConnPcs, LookupPcs, QueryIface, lookup
  <1>5. \/ pc'[p] \in PreConnPcs
        \/ attr' = attr /\ pc'[p] \in SilentPcs \ {"out_free_ep"}
    BY LabelFacts DEF UctTypeOK, PreConnPcs, LookupPcs, SilentPcs, QueryIface, Goto, Leave,
       lookup
  <1> QED
    BY <1>1, <1>2, <1>3, <1>4, <1>5, StreamBefore, StreamDrop

\* ErrorIface keeps it.
LEMMA Stream_ErrorIface ==
    ASSUME UctTypeOK, UctTypeOK', StreamInv, NEW p \in Procs, ErrorIface(p)
    PROVE  StreamInv'
  <1>1. Other(p) \in Procs /\ Other(p) # p
    BY TwoSides
  <1>2. /\ peer' = peer /\ step' = step /\ sock' = sock /\ oob' = oob /\ conn' = conn
        /\ shown' = shown
    BY DEF ErrorIface, oobv, uct
  <1>3. pc'[Other(p)] = pc[Other(p)] /\ status'[Other(p)] = status[Other(p)]
    BY <1>1 DEF UctTypeOK, ErrorIface, Goto, Leave
  <1>4. pc[p] \in PreConnPcs /\ attr'[Other(p)] = attr[Other(p)]
    BY <1>1 DEF UctTypeOK, PreConnPcs, LookupPcs, ErrorIface, lookup
  <1>5. \/ pc'[p] \in PreConnPcs
        \/ attr' = attr /\ pc'[p] \in SilentPcs \ {"out_free_ep"}
    BY LabelFacts DEF UctTypeOK, PreConnPcs, LookupPcs, SilentPcs, ErrorIface, Goto, Leave,
       lookup
  <1> QED
    BY <1>1, <1>2, <1>3, <1>4, <1>5, StreamBefore, StreamDrop

\* ReleaseTls keeps it.
LEMMA Stream_ReleaseTls ==
    ASSUME UctTypeOK, UctTypeOK', StreamInv, NEW p \in Procs, ReleaseTls(p)
    PROVE  StreamInv'
  <1>1. Other(p) \in Procs /\ Other(p) # p
    BY TwoSides
  <1>2. /\ peer' = peer /\ step' = step /\ sock' = sock /\ oob' = oob /\ conn' = conn
        /\ shown' = shown
    BY DEF ReleaseTls, oobv, uct
  <1>3. pc'[Other(p)] = pc[Other(p)] /\ status'[Other(p)] = status[Other(p)]
    BY <1>1 DEF UctTypeOK, ReleaseTls, Goto, Leave
  <1>4. pc[p] \in PreConnPcs /\ attr'[Other(p)] = attr[Other(p)]
    BY <1>1 DEF UctTypeOK, PreConnPcs, LookupPcs, ReleaseTls, lookup
  <1>5. \/ pc'[p] \in PreConnPcs
        \/ attr' = attr /\ pc'[p] \in SilentPcs \ {"out_free_ep"}
    BY LabelFacts DEF UctTypeOK, PreConnPcs, LookupPcs, SilentPcs, ReleaseTls, Goto, Leave,
       lookup
  <1> QED
    BY <1>1, <1>2, <1>3, <1>4, <1>5, StreamBefore, StreamDrop

\* CloseMd keeps it.
LEMMA Stream_CloseMd ==
    ASSUME UctTypeOK, UctTypeOK', StreamInv, NEW p \in Procs, CloseMd(p)
    PROVE  StreamInv'
  <1>1. Other(p) \in Procs /\ Other(p) # p
    BY TwoSides
  <1>2. /\ peer' = peer /\ step' = step /\ sock' = sock /\ oob' = oob /\ conn' = conn
        /\ shown' = shown
    BY DEF CloseMd, oobv, uct
  <1>3. pc'[Other(p)] = pc[Other(p)] /\ status'[Other(p)] = status[Other(p)]
    BY <1>1 DEF UctTypeOK, CloseMd, Goto, Leave
  <1>4. pc[p] \in PreConnPcs /\ attr'[Other(p)] = attr[Other(p)]
    BY <1>1 DEF UctTypeOK, PreConnPcs, LookupPcs, CloseMd, lookup
  <1>5. \/ pc'[p] \in PreConnPcs
        \/ attr' = attr /\ pc'[p] \in SilentPcs \ {"out_free_ep"}
    BY LabelFacts DEF UctTypeOK, PreConnPcs, LookupPcs, SilentPcs, CloseMd, Goto, Leave, lookup
  <1> QED
    BY <1>1, <1>2, <1>3, <1>4, <1>5, StreamBefore, StreamDrop

\* ReleaseComponents keeps it.
LEMMA Stream_ReleaseComponents ==
    ASSUME UctTypeOK, UctTypeOK', StreamInv, NEW p \in Procs, ReleaseComponents(p)
    PROVE  StreamInv'
  <1>1. Other(p) \in Procs /\ Other(p) # p
    BY TwoSides
  <1>2. /\ peer' = peer /\ step' = step /\ sock' = sock /\ oob' = oob /\ conn' = conn
        /\ shown' = shown
    BY DEF ReleaseComponents, oobv, uct
  <1>3. pc'[Other(p)] = pc[Other(p)] /\ status'[Other(p)] = status[Other(p)]
    BY <1>1 DEF UctTypeOK, ReleaseComponents, Goto, Leave
  <1>4. pc[p] \in PreConnPcs /\ attr'[Other(p)] = attr[Other(p)]
    BY <1>1 DEF UctTypeOK, PreConnPcs, LookupPcs, ReleaseComponents, lookup
  <1>5. \/ pc'[p] \in PreConnPcs
        \/ attr' = attr /\ pc'[p] \in SilentPcs \ {"out_free_ep"}
    BY LabelFacts DEF UctTypeOK, PreConnPcs, LookupPcs, SilentPcs, ReleaseComponents, Goto,
       Leave, lookup
  <1> QED
    BY <1>1, <1>2, <1>3, <1>4, <1>5, StreamBefore, StreamDrop

\* SetUp keeps it.
LEMMA Stream_SetUp ==
    ASSUME UctTypeOK, UctTypeOK', StreamInv, NEW p \in Procs, SetUp(p)
    PROVE  StreamInv'
  <1>1. Other(p) \in Procs /\ Other(p) # p
    BY TwoSides
  <1>2. /\ peer' = peer /\ step' = step /\ sock' = sock /\ oob' = oob /\ conn' = conn
        /\ shown' = shown /\ pc'[Other(p)] = pc[Other(p)]
        /\ status'[Other(p)] = status[Other(p)]
    BY <1>1 DEF UctTypeOK, SetUp, Goto, Leave, Acquire, Release, env, lookup, oobv, uct
  <1>3. pc[p] \in PreConnPcs /\ attr'[Other(p)] = attr[Other(p)]
    BY <1>1 DEF UctTypeOK, PreConnPcs, LookupPcs, SetUp, env, lookup, oobv, uct
  <1>4. \/ pc'[p] \in PreConnPcs
        \/ attr' = attr /\ pc'[p] \in SilentPcs \ {"out_free_ep"}
    BY LabelFacts DEF UctTypeOK, PreConnPcs, LookupPcs, SilentPcs, SetUp, Goto, Leave, env,
       lookup, oobv, uct
  <1> QED
    BY <1>1, <1>2, <1>3, <1>4, StreamBefore, StreamDrop

\* ConnectFails keeps it.
LEMMA Stream_ConnectFails ==
    ASSUME UctTypeOK, UctTypeOK', StreamInv, NEW p \in Procs, NEW why, ConnectFails(p, why)
    PROVE  StreamInv'
  <1>1. Other(p) \in Procs /\ Other(p) # p
    BY TwoSides
  <1>2. /\ peer' = peer /\ step' = step /\ sock' = sock /\ oob' = oob /\ conn' = conn
        /\ shown' = shown /\ pc'[Other(p)] = pc[Other(p)]
        /\ status'[Other(p)] = status[Other(p)]
    BY <1>1 DEF UctTypeOK, ConnectFails, Goto, Leave, Acquire, Release, env, lookup,
       oobv, uct
  <1>3. pc[p] \in PreConnPcs /\ attr'[Other(p)] = attr[Other(p)]
    BY <1>1 DEF UctTypeOK, PreConnPcs, LookupPcs, ConnectFails, env, lookup, oobv, uct
  <1>4. \/ pc'[p] \in PreConnPcs
        \/ attr' = attr /\ pc'[p] \in SilentPcs \ {"out_free_ep"}
    BY LabelFacts DEF UctTypeOK, PreConnPcs, LookupPcs, SilentPcs, ConnectFails, Goto,
       Leave, env,
       lookup, oobv, uct
  <1> QED
    BY <1>1, <1>2, <1>3, <1>4, StreamBefore, StreamDrop

\* What closing the socket does.
LEMMA CloseSockFacts ==
    ASSUME UctTypeOK, NEW p \in Procs, CloseSock(p)
    PROVE  sock'[Other(p)] = sock[Other(p)] /\ oob'[Other(p)] \in {oob[Other(p)], <<>>}
  BY TwoSides DEF UctTypeOK, CloseSock

\* The end of a process without clean-up keeps it.
LEMMA Stream_Died ==
    ASSUME UctTypeOK, UctTypeOK', StreamInv, NEW p \in Procs, Died(p)
    PROVE  StreamInv'
  <1>1. Other(p) \in Procs /\ Other(p) # p
    BY TwoSides
  <1>2. /\ attr' = attr /\ conn' = conn /\ peer' = peer /\ shown' = shown /\ step' = step
        /\ status' = status /\ CloseSock(p)
    BY DEF Died, lookup
  <1>3. pc'[p] = "dead" /\ pc'[Other(p)] = pc[Other(p)]
    BY <1>1 DEF UctTypeOK, Died, Goto
  <1> QED
    BY <1>1, <1>2, <1>3, CloseSockFacts, StreamDrop DEF SilentPcs

\* Crash keeps it.
LEMMA Stream_Crash ==
    ASSUME UctTypeOK, UctTypeOK', StreamInv, NEW p \in Procs, Crash(p)
    PROVE  StreamInv'
  BY Stream_Died DEF Crash

\* CleanUp keeps it.
LEMMA Stream_CleanUp ==
    ASSUME UctTypeOK, UctTypeOK', StreamInv, NEW p \in Procs, CleanUp(p)
    PROVE  StreamInv'
  <1>1. Other(p) \in Procs /\ Other(p) # p
    BY TwoSides
  <1>2. /\ attr' = attr /\ conn' = conn /\ peer' = peer /\ shown' = shown /\ step' = step
        /\ status' = status
    BY DEF CleanUp, lookup
  <1>3. sock'[Other(p)] = sock[Other(p)] /\ oob'[Other(p)] \in {oob[Other(p)], <<>>}
    BY CloseSockFacts DEF CleanUp
  <1>4. pc'[p] = NextLabel[pc[p]] /\ pc'[Other(p)] = pc[Other(p)] /\ pc[p] \in Labels
    BY <1>1 DEF UctTypeOK, CleanUp, Goto
  <1>5. pc'[p] \in SilentPcs \ {"out_free_ep"} /\ pc[p] \in ExitPcs
    BY <1>4, LabelFacts DEF SilentPcs, ExitPcs
  <1> QED
    BY <1>1, <1>2, <1>3, <1>4, <1>5, StreamDrop

\* Return keeps it.
LEMMA Stream_Return ==
    ASSUME UctTypeOK, UctTypeOK', StreamInv, NEW p \in Procs, Return(p)
    PROVE  StreamInv'
  <1>1. Other(p) \in Procs /\ Other(p) # p
    BY TwoSides
  <1>2. /\ attr' = attr /\ conn' = conn /\ peer' = peer /\ shown' = shown /\ step' = step
        /\ status' = status /\ CloseSock(p)
    BY DEF Return, lookup, uct
  <1>3. pc'[p] = "end" /\ pc'[Other(p)] = pc[Other(p)] /\ pc[p] \in ExitPcs
    BY <1>1 DEF UctTypeOK, Return, Goto, ExitPcs
  <1> QED
    BY <1>1, <1>2, <1>3, CloseSockFacts, StreamDrop DEF SilentPcs

\* A send() that fails keeps it.
LEMMA Stream_SendFails ==
    ASSUME UctTypeOK, UctTypeOK', StreamInv, NEW p \in Procs, NEW exit \in SilentPcs,
           SendFails(p, exit),
           exit = "out_free_ep" => pc[p] \in {"mkep", "connep", "ep"} \cup PastEpPcs,
           exit # "out_free_ep" => pc[p] \in {"dev", "iface"}
    PROVE  StreamInv'
  <1>1. CASE Died(p)
    BY <1>1, Stream_Died
  <1>2. CASE Leave(p, exit, "err") /\ UNCHANGED <<env, lookup, held, oobv, uct>>
    <2>1. Other(p) \in Procs /\ Other(p) # p
      BY TwoSides
    <2>2. /\ attr' = attr /\ conn' = conn /\ peer' = peer /\ shown' = shown /\ step' = step
          /\ sock' = sock /\ oob' = oob
      BY <1>2 DEF lookup, oobv, uct
    <2>3. /\ pc'[p] = exit /\ pc'[Other(p)] = pc[Other(p)] /\ status'[p] = "err"
          /\ status'[Other(p)] = status[Other(p)]
      BY <1>2, <2>1 DEF UctTypeOK, Leave, Goto
    <2> QED
      BY <2>1, <2>2, <2>3, StreamDrop
  <1> QED
    BY <1>1, <1>2 DEF SendFails

\* GetAddressFails keeps it.
LEMMA Stream_GetAddressFails ==
    ASSUME UctInd, UctTypeOK', StreamInv, NEW p \in Procs, GetAddressFails(p)
    PROVE  StreamInv'
  <1>1. Other(p) \in Procs /\ Other(p) # p /\ p \in Procs /\ UctTypeOK
    BY TwoSides DEF UctInd, Procs
  <1>2. /\ attr' = attr /\ peer' = peer /\ step' = step /\ sock' = sock /\ oob' = oob
        /\ pc'[Other(p)] = pc[Other(p)] /\ status'[Other(p)] = status[Other(p)]
        /\ conn' = conn /\ shown' = shown
    BY <1>1 DEF UctTypeOK, GetAddressFails, IfaceAddrExit, Goto, Leave, Acquire, Release,
       env, lookup,
       oobv, uct
  <1>3. pc[p] \in {"dev", "iface"} /\ OwnScript(p) /\ Counted(p) /\ Barriers(p) /\ Addresses(p) /\ Ends
    BY <1>1 DEF GetAddressFails, StreamInv
  <1>4. CASE pc'[p] \in {"out_free_if_addrs", "out_close_oob_sock"}
    <2>1. pc'[p] \in SilentPcs
      BY <1>4, LabelFacts DEF SilentPcs
    <2> QED
      BY <1>1, <1>2, <1>3, <1>4, <2>1, StreamDrop
  <1>5. pc'[p] \in {"out_free_if_addrs", "out_close_oob_sock"}
    BY <1>1, <1>3 DEF UctTypeOK, GetAddressFails, IfaceAddrExit, Goto, Leave, Acquire, Release
  <1> QED
    BY <1>4, <1>5

\* uct_iface_is_reachable keeps it.
LEMMA Stream_uct_iface_is_reachable ==
    ASSUME UctInd, UctTypeOK', StreamInv, NEW p \in Procs, uct_iface_is_reachable(p)
    PROVE  StreamInv'
  <1>1. Other(p) \in Procs /\ Other(p) # p /\ p \in Procs /\ UctTypeOK
    BY TwoSides DEF UctInd, Procs
  <1>2. /\ attr' = attr /\ peer' = peer /\ step' = step /\ sock' = sock /\ oob' = oob
        /\ pc'[Other(p)] = pc[Other(p)] /\ status'[Other(p)] = status[Other(p)]
        /\ conn' = conn /\ shown' = shown
    BY <1>1 DEF UctTypeOK, uct_iface_is_reachable, Reachable, Goto, Leave, Acquire,
       Release, env, lookup, oobv, uct
  <1>3. pc[p] = "reach" /\ OwnScript(p) /\ Counted(p) /\ Barriers(p) /\ Addresses(p) /\ Ends
    BY <1>1 DEF uct_iface_is_reachable, StreamInv
  <1>4. CASE pc'[p] \in {"mkep"} /\ attr[p] = attr[Other(p)]
    <2>1. pc[p] \in TalkPcs /\ pc'[p] \in TalkPcs
      BY <1>3, <1>4 DEF TalkPcs, Exchanges, PastEpPcs, FinalPcs
    <2>2. Behind(p)' = Behind(p)
      BY <1>1, <1>2, <1>3, <1>4, SameScript, StreamNats DEF Behind, EpItems, OwnScript
    <2>3. SentBy(p)' = SentBy(p) /\ ReadBy(p)' = ReadBy(p)
      BY <1>1, <1>2, <1>3, <1>4, <2>2, StreamNats DEF SentBy, ReadBy, Exchanges,
         OwnScript, PreConnPcs, LookupPcs, TalkPcs, PastEpPcs, FinalPcs
    <2>4. conn[p] = "no"
      BY <1>3, LabelFacts DEF Addresses, SilentPcs, PastEpPcs, FinalPcs
    <2>5. OwnScript(p)'
      BY <1>1, <1>2, <1>3, <1>4, <2>4 DEF OwnScript, Exchanges, TalkPcs, PastEpPcs,
         FinalPcs, PreConnPcs, LookupPcs
    <2>6. Addresses(p)'
      BY <1>1, <1>2, <1>3, <1>4, <2>4 DEF Addresses, Counted, Exchanges, TalkPcs,
         PastEpPcs, FinalPcs, PreConnPcs, LookupPcs, OwnScript
    <2>7. Ends'
      BY <1>1, <1>2, <1>3, <1>4, <2>4 DEF Ends, Procs, Other
    <2>8. pc'[p] \in FinalPcs /\ attr[p].mode = "ep" => conn[Other(p)] # "no"
      BY <1>1, <1>2, <1>3, <1>4, <2>4 DEF FinalPcs, Barriers
    <2> QED
      BY <1>1, <1>2, <1>3, <1>4, <2>4, <2>1, <2>3, <2>5, <2>6, <2>7, <2>8, StreamMove
  <1>5. CASE pc'[p] \in {"out_close_oob_sock"}
    <2>1. pc'[p] \in SilentPcs
      BY <1>5, LabelFacts DEF SilentPcs
    <2> QED
      BY <1>1, <1>2, <1>3, <1>5, <2>1, StreamDrop
  <1>6. \/ pc'[p] \in {"mkep"} /\ attr[p] = attr[Other(p)]
        \/ pc'[p] \in {"out_close_oob_sock"}
    BY <1>1, <1>3 DEF UctTypeOK, uct_iface_is_reachable, Reachable, Goto, Leave,
       Acquire, Release
  <1> QED
    BY <1>4, <1>5, <1>6

\* CreateEp keeps it.
LEMMA Stream_CreateEp ==
    ASSUME UctInd, UctTypeOK', StreamInv, NEW p \in Procs, CreateEp(p)
    PROVE  StreamInv'
  <1>1. Other(p) \in Procs /\ Other(p) # p /\ p \in Procs /\ UctTypeOK
    BY TwoSides DEF UctInd, Procs
  <1>2. /\ attr' = attr /\ peer' = peer /\ step' = step /\ sock' = sock /\ oob' = oob
        /\ pc'[Other(p)] = pc[Other(p)] /\ status'[Other(p)] = status[Other(p)]
        /\ conn' = conn /\ shown' = shown
    BY <1>1 DEF UctTypeOK, CreateEp, NoEpExit, Goto, Leave, Acquire, Release, env,
       lookup, oobv, uct
  <1>3. pc[p] = "mkep" /\ OwnScript(p) /\ Counted(p) /\ Barriers(p) /\ Addresses(p) /\ Ends
    BY <1>1 DEF CreateEp, StreamInv
  <1>4. CASE pc'[p] \in {"ep"} /\ attr[p].mode = "ep"
    <2>1. pc[p] \in TalkPcs /\ pc'[p] \in TalkPcs
      BY <1>3, <1>4 DEF TalkPcs, Exchanges, PastEpPcs, FinalPcs
    <2>2. Behind(p)' = Behind(p)
      BY <1>1, <1>2, <1>3, <1>4, SameScript, StreamNats DEF Behind, EpItems, OwnScript
    <2>3. SentBy(p)' = SentBy(p) /\ ReadBy(p)' = ReadBy(p)
      BY <1>1, <1>2, <1>3, <1>4, <2>2, StreamNats DEF SentBy, ReadBy, Exchanges,
         OwnScript, PreConnPcs, LookupPcs, TalkPcs, PastEpPcs, FinalPcs
    <2>4. conn[p] = "no"
      BY <1>3, LabelFacts DEF Addresses, SilentPcs, PastEpPcs, FinalPcs
    <2>5. OwnScript(p)'
      BY <1>1, <1>2, <1>3, <1>4, <2>4 DEF OwnScript, Exchanges, TalkPcs, PastEpPcs,
         FinalPcs, PreConnPcs, LookupPcs
    <2>6. Addresses(p)'
      BY <1>1, <1>2, <1>3, <1>4, <2>4 DEF Addresses, Counted, Exchanges, TalkPcs,
         PastEpPcs, FinalPcs, PreConnPcs, LookupPcs, OwnScript
    <2>7. Ends'
      BY <1>1, <1>2, <1>3, <1>4, <2>4 DEF Ends, Procs, Other
    <2>8. pc'[p] \in FinalPcs /\ attr[p].mode = "ep" => conn[Other(p)] # "no"
      BY <1>1, <1>2, <1>3, <1>4, <2>4 DEF FinalPcs, Barriers
    <2> QED
      BY <1>1, <1>2, <1>3, <1>4, <2>4, <2>1, <2>3, <2>5, <2>6, <2>7, <2>8, StreamMove
  <1>5. CASE pc'[p] \in {"out_close_oob_sock", "out_free_ep_addrs", "out_free_ep"}
    <2>1. pc'[p] \in SilentPcs
      BY <1>5, LabelFacts DEF SilentPcs
    <2>2. pc'[p] = "out_free_ep" => /\ pc[p] \in {"mkep", "connep", "ep"} \cup PastEpPcs
                                      /\ status'[p] # "ok"
      BY <1>1, <1>2, <1>3, <1>5 DEF UctTypeOK, CreateEp, NoEpExit, Goto, Leave, Acquire,
         Release, PastEpPcs, FinalPcs
    <2> QED
      BY <1>1, <1>2, <1>3, <1>5, <2>1, <2>2, StreamDrop
  <1>6. \/ pc'[p] \in {"ep"} /\ attr[p].mode = "ep"
        \/ pc'[p] \in {"out_close_oob_sock", "out_free_ep_addrs", "out_free_ep"}
    BY <1>1, <1>3 DEF UctTypeOK, CreateEp, NoEpExit, Goto, Leave, Acquire, Release
  <1> QED
    BY <1>4, <1>5, <1>6

\* CreateConnectedEp keeps it.
LEMMA Stream_CreateConnectedEp ==
    ASSUME UctInd, UctTypeOK', StreamInv, NEW p \in Procs, CreateConnectedEp(p)
    PROVE  StreamInv'
  <1>1. Other(p) \in Procs /\ Other(p) # p /\ p \in Procs /\ UctTypeOK
    BY TwoSides DEF UctInd, Procs
  <1>2. /\ attr' = attr /\ peer' = peer /\ step' = step /\ sock' = sock /\ oob' = oob
        /\ pc'[Other(p)] = pc[Other(p)] /\ status'[Other(p)] = status[Other(p)]
        /\ conn'[Other(p)] = conn[Other(p)] /\ shown' = shown
    BY <1>1 DEF UctTypeOK, CreateConnectedEp, NoEpExit, Goto, Leave, Acquire, Release,
       env, lookup, oobv, uct
  <1>3. pc[p] = "mkep" /\ OwnScript(p) /\ Counted(p) /\ Barriers(p) /\ Addresses(p) /\ Ends
    BY <1>1 DEF CreateConnectedEp, StreamInv
  <1>4. CASE pc'[p] \in {"fit"} /\ attr[p].mode = "iface"
    <2>1. pc[p] \in TalkPcs /\ pc'[p] \in TalkPcs
      BY <1>3, <1>4 DEF TalkPcs, Exchanges, PastEpPcs, FinalPcs
    <2>2. Behind(p)' = Behind(p)
      BY <1>1, <1>2, <1>3, <1>4, SameScript, StreamNats DEF Behind, EpItems, OwnScript
    <2>3. SentBy(p)' = SentBy(p) /\ ReadBy(p)' = ReadBy(p)
      BY <1>1, <1>2, <1>3, <1>4, <2>2, StreamNats DEF SentBy, ReadBy, Exchanges,
         OwnScript, PreConnPcs, LookupPcs, TalkPcs, PastEpPcs, FinalPcs
    <2>4. conn'[p] # "no"
      BY <1>1, <1>2, <1>3, <1>4 DEF UctTypeOK, CreateConnectedEp, NoEpExit, Goto, Leave,
         Acquire, Release, env, lookup, oobv, uct
    <2>5. OwnScript(p)'
      BY <1>1, <1>2, <1>3, <1>4, <2>4 DEF OwnScript, Exchanges, TalkPcs, PastEpPcs,
         FinalPcs, PreConnPcs, LookupPcs
    <2>6. Addresses(p)'
      BY <1>1, <1>2, <1>3, <1>4, <2>4 DEF Addresses, Counted, Exchanges, TalkPcs,
         PastEpPcs, FinalPcs, PreConnPcs, LookupPcs, OwnScript
    <2>7. Ends'
      BY <1>1, <1>2, <1>3, <1>4, <2>4 DEF Ends, Procs, Other
    <2>8. pc'[p] \in FinalPcs /\ attr[p].mode = "ep" => conn[Other(p)] # "no"
      BY <1>1, <1>2, <1>3, <1>4, <2>4 DEF FinalPcs, Barriers
    <2> QED
      BY <1>1, <1>2, <1>3, <1>4, <2>4, <2>1, <2>3, <2>5, <2>6, <2>7, <2>8, StreamMove
  <1>5. CASE pc'[p] \in {"out_free_ep_addrs"} /\ conn' = conn
    <2>1. pc'[p] \in SilentPcs
      BY <1>5, LabelFacts DEF SilentPcs
    <2> QED
      BY <1>1, <1>2, <1>3, <1>5, <2>1, StreamDrop
  <1>6. \/ pc'[p] \in {"fit"} /\ attr[p].mode = "iface"
        \/ pc'[p] \in {"out_free_ep_addrs"} /\ conn' = conn
    BY <1>1, <1>3 DEF UctTypeOK, CreateConnectedEp, NoEpExit, Goto, Leave, Acquire,
       Release
  <1> QED
    BY <1>4, <1>5, <1>6

\* ConnectToEp keeps it.
LEMMA Stream_ConnectToEp ==
    ASSUME UctInd, UctTypeOK', StreamInv, NEW p \in Procs, ConnectToEp(p)
    PROVE  StreamInv'
  <1>1. Other(p) \in Procs /\ Other(p) # p /\ p \in Procs /\ UctTypeOK
    BY TwoSides DEF UctInd, Procs
  <1>2. /\ attr' = attr /\ peer' = peer /\ step' = step /\ sock' = sock /\ oob' = oob
        /\ pc'[Other(p)] = pc[Other(p)] /\ status'[Other(p)] = status[Other(p)]
        /\ conn'[Other(p)] = conn[Other(p)] /\ shown' = shown
    BY <1>1 DEF UctTypeOK, ConnectToEp, AfterConnect, Goto, Leave, Acquire, Release,
       env, lookup, oobv, uct
  <1>3. pc[p] = "connep" /\ OwnScript(p) /\ Counted(p) /\ Barriers(p) /\ Addresses(p) /\ Ends
    BY <1>1 DEF ConnectToEp, StreamInv
  <1>4. CASE pc'[p] \in {"bar1s"}
    <2>1. pc[p] \in TalkPcs /\ pc'[p] \in TalkPcs
      BY <1>3, <1>4 DEF TalkPcs, Exchanges, PastEpPcs, FinalPcs
    <2>2. Behind(p)' = Behind(p)
      BY <1>1, <1>2, <1>3, <1>4, SameScript, StreamNats DEF Behind, EpItems, OwnScript
    <2>3. SentBy(p)' = SentBy(p) /\ ReadBy(p)' = ReadBy(p)
      BY <1>1, <1>2, <1>3, <1>4, <2>2, StreamNats DEF SentBy, ReadBy, Exchanges,
         OwnScript, PreConnPcs, LookupPcs, TalkPcs, PastEpPcs, FinalPcs
    <2>4. conn'[p] # "no"
      BY <1>1, <1>2, <1>3, <1>4 DEF UctTypeOK, ConnectToEp, AfterConnect, Goto, Leave,
         Acquire, Release, env, lookup, oobv, uct
    <2>5. OwnScript(p)'
      BY <1>1, <1>2, <1>3, <1>4, <2>4 DEF OwnScript, Exchanges, TalkPcs, PastEpPcs,
         FinalPcs, PreConnPcs, LookupPcs
    <2>6. Addresses(p)'
      BY <1>1, <1>2, <1>3, <1>4, <2>4 DEF Addresses, Counted, Exchanges, TalkPcs,
         PastEpPcs, FinalPcs, PreConnPcs, LookupPcs, OwnScript
    <2>7. Ends'
      BY <1>1, <1>2, <1>3, <1>4, <2>4 DEF Ends, Procs, Other
    <2>8. pc'[p] \in FinalPcs /\ attr[p].mode = "ep" => conn[Other(p)] # "no"
      BY <1>1, <1>2, <1>3, <1>4, <2>4 DEF FinalPcs, Barriers
    <2> QED
      BY <1>1, <1>2, <1>3, <1>4, <2>4, <2>1, <2>3, <2>5, <2>6, <2>7, <2>8, StreamMove
  <1>5. \/ pc'[p] \in {"bar1s"}
    BY <1>1, <1>3 DEF UctTypeOK, ConnectToEp, AfterConnect, Goto, Leave, Acquire,
       Release
  <1> QED
    BY <1>4, <1>5

\* CheckLength keeps it.
LEMMA Stream_CheckLength ==
    ASSUME UctInd, UctTypeOK', StreamInv, NEW p \in Procs, CheckLength(p)
    PROVE  StreamInv'
  <1>1. Other(p) \in Procs /\ Other(p) # p /\ p \in Procs /\ UctTypeOK
    BY TwoSides DEF UctInd, Procs
  <1>2. /\ attr' = attr /\ peer' = peer /\ step' = step /\ sock' = sock /\ oob' = oob
        /\ pc'[Other(p)] = pc[Other(p)] /\ status'[Other(p)] = status[Other(p)]
        /\ conn' = conn /\ shown' = shown
    BY <1>1 DEF UctTypeOK, CheckLength, Goto, Leave, Acquire, Release, env, lookup,
       oobv, uct
  <1>3. pc[p] = "fit" /\ OwnScript(p) /\ Counted(p) /\ Barriers(p) /\ Addresses(p) /\ Ends
    BY <1>1 DEF CheckLength, StreamInv
  <1>4. CASE pc'[p] \in {"str", "amwait"}
    <2>1. pc[p] \in TalkPcs /\ pc'[p] \in TalkPcs
      BY <1>3, <1>4 DEF TalkPcs, Exchanges, PastEpPcs, FinalPcs
    <2>2. Behind(p)' = Behind(p)
      BY <1>1, <1>2, <1>3, <1>4, SameScript, StreamNats DEF Behind, EpItems, OwnScript
    <2>3. SentBy(p)' = SentBy(p) /\ ReadBy(p)' = ReadBy(p)
      BY <1>1, <1>2, <1>3, <1>4, <2>2, StreamNats DEF SentBy, ReadBy, Exchanges,
         OwnScript, PreConnPcs, LookupPcs, TalkPcs, PastEpPcs, FinalPcs
    <2>5. OwnScript(p)'
      BY <1>1, <1>2, <1>3, <1>4 DEF OwnScript, Exchanges, TalkPcs, PastEpPcs, FinalPcs,
         PreConnPcs, LookupPcs
    <2>6. Addresses(p)'
      BY <1>1, <1>2, <1>3, <1>4 DEF Addresses, Counted, Exchanges, TalkPcs, PastEpPcs,
         FinalPcs, PreConnPcs, LookupPcs, OwnScript
    <2>7. Ends'
      BY <1>1, <1>2, <1>3, <1>4 DEF Ends, Procs, Other
    <2>8. pc'[p] \in FinalPcs /\ attr[p].mode = "ep" => conn[Other(p)] # "no"
      BY <1>1, <1>2, <1>3, <1>4 DEF FinalPcs, Barriers
    <2> QED
      BY <1>1, <1>2, <1>3, <1>4, <2>1, <2>3, <2>5, <2>6, <2>7, <2>8, StreamMove
  <1>5. CASE pc'[p] \in {"out_free_ep"}
    <2>1. pc'[p] \in SilentPcs
      BY <1>5, LabelFacts DEF SilentPcs
    <2>2. pc'[p] = "out_free_ep" => /\ pc[p] \in {"mkep", "connep", "ep"} \cup PastEpPcs
                                      /\ status'[p] # "ok"
      BY <1>1, <1>2, <1>3, <1>5 DEF UctTypeOK, CheckLength, Goto, Leave, Acquire,
         Release, PastEpPcs, FinalPcs
    <2> QED
      BY <1>1, <1>2, <1>3, <1>5, <2>1, <2>2, StreamDrop
  <1>6. pc'[p] \in {"str", "amwait"} \/ pc'[p] \in {"out_free_ep"}
    BY <1>1, <1>3 DEF UctTypeOK, CheckLength, Goto, Leave, Acquire, Release
  <1> QED
    BY <1>4, <1>5, <1>6

\* MakeString keeps it.
LEMMA Stream_MakeString ==
    ASSUME UctInd, UctTypeOK', StreamInv, MakeString
    PROVE  StreamInv'
  <1>1. Other("client") \in Procs /\ Other("client") # "client" /\ "client" \in Procs /\ UctTypeOK
    BY TwoSides DEF UctInd, Procs
  <1>2. /\ attr' = attr /\ peer' = peer /\ step' = step /\ sock' = sock /\ oob' = oob
        /\ pc'[Other("client")] = pc[Other("client")] /\ status'[Other("client")] = status[Other("client")]
        /\ conn' = conn /\ shown' = shown
    BY <1>1 DEF UctTypeOK, MakeString, Goto, Leave, Acquire, Release, env, lookup,
       oobv, uct
  <1>3. pc["client"] = "str" /\ OwnScript("client") /\ Counted("client") /\ Barriers("client") /\ Addresses("client") /\ Ends
    BY <1>1 DEF MakeString, StreamInv
  <1>4. CASE pc'["client"] \in {"reg", "send"}
    <2>1. pc["client"] \in TalkPcs /\ pc'["client"] \in TalkPcs
      BY <1>3, <1>4 DEF TalkPcs, Exchanges, PastEpPcs, FinalPcs
    <2>2. Behind("client")' = Behind("client")
      BY <1>1, <1>2, <1>3, <1>4, SameScript, StreamNats DEF Behind, EpItems, OwnScript
    <2>3. SentBy("client")' = SentBy("client") /\ ReadBy("client")' = ReadBy("client")
      BY <1>1, <1>2, <1>3, <1>4, <2>2, StreamNats DEF SentBy, ReadBy, Exchanges,
         OwnScript, PreConnPcs, LookupPcs, TalkPcs, PastEpPcs, FinalPcs
    <2>5. OwnScript("client")'
      BY <1>1, <1>2, <1>3, <1>4 DEF OwnScript, Exchanges, TalkPcs, PastEpPcs, FinalPcs,
         PreConnPcs, LookupPcs
    <2>6. Addresses("client")'
      BY <1>1, <1>2, <1>3, <1>4 DEF Addresses, Counted, Exchanges, TalkPcs, PastEpPcs,
         FinalPcs, PreConnPcs, LookupPcs, OwnScript
    <2>7. Ends'
      BY <1>1, <1>2, <1>3, <1>4 DEF Ends, Procs, Other
    <2>8. pc'["client"] \in FinalPcs /\ attr["client"].mode = "ep" => conn[Other("client")] # "no"
      BY <1>1, <1>2, <1>3, <1>4 DEF FinalPcs, Barriers
    <2> QED
      BY <1>1, <1>2, <1>3, <1>4, <2>1, <2>3, <2>5, <2>6, <2>7, <2>8, StreamMove
  <1>5. CASE pc'["client"] \in {"out_free_ep"}
    <2>1. pc'["client"] \in SilentPcs
      BY <1>5, LabelFacts DEF SilentPcs
    <2>2. pc'["client"] = "out_free_ep" => /\ pc["client"] \in {"mkep", "connep", "ep"} \cup PastEpPcs
                                      /\ status'["client"] # "ok"
      BY <1>1, <1>2, <1>3, <1>5 DEF UctTypeOK, MakeString, Goto, Leave, Acquire,
         Release, PastEpPcs, FinalPcs
    <2> QED
      BY <1>1, <1>2, <1>3, <1>5, <2>1, <2>2, StreamDrop
  <1>6. pc'["client"] \in {"reg", "send"} \/ pc'["client"] \in {"out_free_ep"}
    BY <1>1, <1>3 DEF UctTypeOK, MakeString, Goto, Leave, Acquire, Release
  <1> QED
    BY <1>4, <1>5, <1>6

\* Register keeps it.
LEMMA Stream_Register ==
    ASSUME UctInd, UctTypeOK', StreamInv, Register
    PROVE  StreamInv'
  <1>1. Other("client") \in Procs /\ Other("client") # "client" /\ "client" \in Procs /\ UctTypeOK
    BY TwoSides DEF UctInd, Procs
  <1>2. /\ attr' = attr /\ peer' = peer /\ step' = step /\ sock' = sock /\ oob' = oob
        /\ pc'[Other("client")] = pc[Other("client")] /\ status'[Other("client")] = status[Other("client")]
        /\ conn' = conn /\ shown' = shown
    BY <1>1 DEF UctTypeOK, Register, FreeString, Goto, Leave, Acquire, Release, env,
       lookup, oobv,
       uct
  <1>3. pc["client"] = "reg" /\ OwnScript("client") /\ Counted("client") /\ Barriers("client") /\ Addresses("client") /\ Ends
    BY <1>1 DEF Register, StreamInv
  <1>4. CASE pc'["client"] \in {"send"}
    <2>1. pc["client"] \in TalkPcs /\ pc'["client"] \in TalkPcs
      BY <1>3, <1>4 DEF TalkPcs, Exchanges, PastEpPcs, FinalPcs
    <2>2. Behind("client")' = Behind("client")
      BY <1>1, <1>2, <1>3, <1>4, SameScript, StreamNats DEF Behind, EpItems, OwnScript
    <2>3. SentBy("client")' = SentBy("client") /\ ReadBy("client")' = ReadBy("client")
      BY <1>1, <1>2, <1>3, <1>4, <2>2, StreamNats DEF SentBy, ReadBy, Exchanges,
         OwnScript, PreConnPcs, LookupPcs, TalkPcs, PastEpPcs, FinalPcs
    <2>5. OwnScript("client")'
      BY <1>1, <1>2, <1>3, <1>4 DEF OwnScript, Exchanges, TalkPcs, PastEpPcs, FinalPcs,
         PreConnPcs, LookupPcs
    <2>6. Addresses("client")'
      BY <1>1, <1>2, <1>3, <1>4 DEF Addresses, Counted, Exchanges, TalkPcs, PastEpPcs,
         FinalPcs, PreConnPcs, LookupPcs, OwnScript
    <2>7. Ends'
      BY <1>1, <1>2, <1>3, <1>4 DEF Ends, Procs, Other
    <2>8. pc'["client"] \in FinalPcs /\ attr["client"].mode = "ep" => conn[Other("client")] # "no"
      BY <1>1, <1>2, <1>3, <1>4 DEF FinalPcs, Barriers
    <2> QED
      BY <1>1, <1>2, <1>3, <1>4, <2>1, <2>3, <2>5, <2>6, <2>7, <2>8, StreamMove
  <1>5. CASE pc'["client"] \in {"out_free_ep"}
    <2>1. pc'["client"] \in SilentPcs
      BY <1>5, LabelFacts DEF SilentPcs
    <2>2. pc'["client"] = "out_free_ep" => /\ pc["client"] \in {"mkep", "connep", "ep"} \cup PastEpPcs
                                      /\ status'["client"] # "ok"
      BY <1>1, <1>2, <1>3, <1>5 DEF UctTypeOK, Register, FreeString, Goto, Leave, Acquire,
         Release,
         PastEpPcs, FinalPcs
    <2> QED
      BY <1>1, <1>2, <1>3, <1>5, <2>1, <2>2, StreamDrop
  <1>6. pc'["client"] \in {"send"} \/ pc'["client"] \in {"out_free_ep"}
    BY <1>1, <1>3 DEF UctTypeOK, Register, FreeString, Goto, Leave, Acquire, Release
  <1> QED
    BY <1>4, <1>5, <1>6

\* SendAm keeps it.
LEMMA Stream_SendAm ==
    ASSUME UctInd, UctTypeOK', StreamInv, SendAm
    PROVE  StreamInv'
  <1>1. Other("client") \in Procs /\ Other("client") # "client" /\ "client" \in Procs /\ UctTypeOK
    BY TwoSides DEF UctInd, Procs
  <1>2. /\ attr' = attr /\ peer' = peer /\ step' = step /\ sock' = sock /\ oob' = oob
        /\ pc'[Other("client")] = pc[Other("client")] /\ status'[Other("client")] = status[Other("client")]
        /\ conn' = conn /\ shown' = shown
    BY <1>1 DEF UctTypeOK, SendAm, Returns, FreeString, Goto, Leave, Acquire, Release, env,
       lookup,
       oobv, uct
  <1>3. pc["client"] = "send" /\ OwnScript("client") /\ Counted("client") /\ Barriers("client") /\ Addresses("client") /\ Ends
    BY <1>1 DEF SendAm, StreamInv
  <1>4. CASE pc'["client"] \in {"zwait", "bar2s"}
    <2>1. pc["client"] \in TalkPcs /\ pc'["client"] \in TalkPcs
      BY <1>3, <1>4 DEF TalkPcs, Exchanges, PastEpPcs, FinalPcs
    <2>2. Behind("client")' = Behind("client")
      BY <1>1, <1>2, <1>3, <1>4, SameScript, StreamNats DEF Behind, EpItems, OwnScript
    <2>3. SentBy("client")' = SentBy("client") /\ ReadBy("client")' = ReadBy("client")
      BY <1>1, <1>2, <1>3, <1>4, <2>2, StreamNats DEF SentBy, ReadBy, Exchanges,
         OwnScript, PreConnPcs, LookupPcs, TalkPcs, PastEpPcs, FinalPcs
    <2>5. OwnScript("client")'
      BY <1>1, <1>2, <1>3, <1>4 DEF OwnScript, Exchanges, TalkPcs, PastEpPcs, FinalPcs,
         PreConnPcs, LookupPcs
    <2>6. Addresses("client")'
      BY <1>1, <1>2, <1>3, <1>4 DEF Addresses, Counted, Exchanges, TalkPcs, PastEpPcs,
         FinalPcs, PreConnPcs, LookupPcs, OwnScript
    <2>7. Ends'
      BY <1>1, <1>2, <1>3, <1>4 DEF Ends, Procs, Other
    <2>8. pc'["client"] \in FinalPcs /\ attr["client"].mode = "ep" => conn[Other("client")] # "no"
      BY <1>1, <1>2, <1>3, <1>4 DEF FinalPcs, Barriers
    <2> QED
      BY <1>1, <1>2, <1>3, <1>4, <2>1, <2>3, <2>5, <2>6, <2>7, <2>8, StreamMove
  <1>5. pc'["client"] \in {"zwait", "bar2s"}
    BY <1>1, <1>3 DEF UctTypeOK, SendAm, Returns, FreeString, Goto, Leave, Acquire, Release
  <1> QED
    BY <1>4, <1>5

\* SendAmFails keeps it.
LEMMA Stream_SendAmFails ==
    ASSUME UctInd, UctTypeOK', StreamInv, SendAmFails
    PROVE  StreamInv'
  <1>1. Other("client") \in Procs /\ Other("client") # "client" /\ "client" \in Procs /\ UctTypeOK
    BY TwoSides DEF UctInd, Procs
  <1>2. /\ attr' = attr /\ peer' = peer /\ step' = step /\ sock' = sock /\ oob' = oob
        /\ pc'[Other("client")] = pc[Other("client")] /\ status'[Other("client")] = status[Other("client")]
        /\ conn' = conn /\ shown' = shown
    BY <1>1 DEF UctTypeOK, SendAmFails, FreeString, Goto, Leave, Acquire, Release, env, lookup,
       oobv, uct
  <1>3. pc["client"] = "send" /\ OwnScript("client") /\ Counted("client") /\ Barriers("client") /\ Addresses("client") /\ Ends
    BY <1>1 DEF SendAmFails, StreamInv
  <1>4. CASE pc'["client"] \in {"out_free_ep"}
    <2>1. pc'["client"] \in SilentPcs
      BY <1>4, LabelFacts DEF SilentPcs
    <2>2. pc'["client"] = "out_free_ep" => /\ pc["client"] \in {"mkep", "connep", "ep"} \cup PastEpPcs
                                      /\ status'["client"] # "ok"
      BY <1>1, <1>2, <1>3, <1>4 DEF UctTypeOK, SendAmFails, FreeString, Goto, Leave, Acquire,
         Release, PastEpPcs, FinalPcs
    <2> QED
      BY <1>1, <1>2, <1>3, <1>4, <2>1, <2>2, StreamDrop
  <1>5. pc'["client"] \in {"out_free_ep"}
    BY <1>1, <1>3 DEF UctTypeOK, SendAmFails, FreeString, Goto, Leave, Acquire, Release
  <1> QED
    BY <1>4, <1>5

\* ZcopyReturns keeps it.
LEMMA Stream_ZcopyReturns ==
    ASSUME UctInd, UctTypeOK', StreamInv, ZcopyReturns
    PROVE  StreamInv'
  <1>1. Other("client") \in Procs /\ Other("client") # "client" /\ "client" \in Procs /\ UctTypeOK
    BY TwoSides DEF UctInd, Procs
  <1>2. /\ attr' = attr /\ peer' = peer /\ step' = step /\ sock' = sock /\ oob' = oob
        /\ pc'[Other("client")] = pc[Other("client")] /\ status'[Other("client")] = status[Other("client")]
        /\ conn' = conn /\ shown' = shown
    BY <1>1 DEF UctTypeOK, ZcopyReturns, FreeString, Goto, Leave, Acquire, Release, env,
       lookup,
       oobv, uct
  <1>3. pc["client"] = "zwait" /\ OwnScript("client") /\ Counted("client") /\ Barriers("client") /\ Addresses("client") /\ Ends
    BY <1>1 DEF ZcopyReturns, StreamInv
  <1>4. CASE pc'["client"] \in {"bar2s"}
    <2>1. pc["client"] \in TalkPcs /\ pc'["client"] \in TalkPcs
      BY <1>3, <1>4 DEF TalkPcs, Exchanges, PastEpPcs, FinalPcs
    <2>2. Behind("client")' = Behind("client")
      BY <1>1, <1>2, <1>3, <1>4, SameScript, StreamNats DEF Behind, EpItems, OwnScript
    <2>3. SentBy("client")' = SentBy("client") /\ ReadBy("client")' = ReadBy("client")
      BY <1>1, <1>2, <1>3, <1>4, <2>2, StreamNats DEF SentBy, ReadBy, Exchanges,
         OwnScript, PreConnPcs, LookupPcs, TalkPcs, PastEpPcs, FinalPcs
    <2>5. OwnScript("client")'
      BY <1>1, <1>2, <1>3, <1>4 DEF OwnScript, Exchanges, TalkPcs, PastEpPcs, FinalPcs,
         PreConnPcs, LookupPcs
    <2>6. Addresses("client")'
      BY <1>1, <1>2, <1>3, <1>4 DEF Addresses, Counted, Exchanges, TalkPcs, PastEpPcs,
         FinalPcs, PreConnPcs, LookupPcs, OwnScript
    <2>7. Ends'
      BY <1>1, <1>2, <1>3, <1>4 DEF Ends, Procs, Other
    <2>8. pc'["client"] \in FinalPcs /\ attr["client"].mode = "ep" => conn[Other("client")] # "no"
      BY <1>1, <1>2, <1>3, <1>4 DEF FinalPcs, Barriers
    <2> QED
      BY <1>1, <1>2, <1>3, <1>4, <2>1, <2>3, <2>5, <2>6, <2>7, <2>8, StreamMove
  <1>5. pc'["client"] \in {"bar2s"}
    BY <1>1, <1>3 DEF UctTypeOK, ZcopyReturns, FreeString, Goto, Leave, Acquire, Release
  <1> QED
    BY <1>4, <1>5

\* ShowMessage keeps it.
LEMMA Stream_ShowMessage ==
    ASSUME UctInd, UctTypeOK', StreamInv, ShowMessage
    PROVE  StreamInv'
  <1>1. Other("server") \in Procs /\ Other("server") # "server" /\ "server" \in Procs /\ UctTypeOK
    BY TwoSides DEF UctInd, Procs
  <1>2. /\ attr' = attr /\ peer' = peer /\ step' = step /\ sock' = sock /\ oob' = oob
        /\ pc'[Other("server")] = pc[Other("server")] /\ status'[Other("server")] = status[Other("server")]
        /\ conn' = conn
    BY <1>1 DEF UctTypeOK, ShowMessage, Goto, Leave, Acquire, Release, env, lookup,
       oobv, uct
  <1>3. pc["server"] = "amwait" /\ OwnScript("server") /\ Counted("server") /\ Barriers("server") /\ Addresses("server") /\ Ends
    BY <1>1 DEF ShowMessage, StreamInv
  <1>4. CASE pc'["server"] \in {"bar2s"}
    <2>1. pc["server"] \in TalkPcs /\ pc'["server"] \in TalkPcs
      BY <1>3, <1>4 DEF TalkPcs, Exchanges, PastEpPcs, FinalPcs
    <2>2. Behind("server")' = Behind("server")
      BY <1>1, <1>2, <1>3, <1>4, SameScript, StreamNats DEF Behind, EpItems, OwnScript
    <2>3. SentBy("server")' = SentBy("server") /\ ReadBy("server")' = ReadBy("server")
      BY <1>1, <1>2, <1>3, <1>4, <2>2, StreamNats DEF SentBy, ReadBy, Exchanges,
         OwnScript, PreConnPcs, LookupPcs, TalkPcs, PastEpPcs, FinalPcs
    <2>5. OwnScript("server")'
      BY <1>1, <1>2, <1>3, <1>4 DEF OwnScript, Exchanges, TalkPcs, PastEpPcs, FinalPcs,
         PreConnPcs, LookupPcs
    <2>6. Addresses("server")'
      BY <1>1, <1>2, <1>3, <1>4 DEF Addresses, Counted, Exchanges, TalkPcs, PastEpPcs,
         FinalPcs, PreConnPcs, LookupPcs, OwnScript
    <2>7. Ends'
      BY <1>1, <1>2, <1>3, <1>4 DEF Ends, Other, ShowMessage, HasMessage
    <2>8. pc'["server"] \in FinalPcs /\ attr["server"].mode = "ep" => conn[Other("server")] # "no"
      BY <1>1, <1>2, <1>3, <1>4 DEF FinalPcs, Barriers
    <2>9. shown => shown'
      BY DEF ShowMessage, HasMessage
    <2> QED
      BY <1>1, <1>2, <1>3, <1>4, <2>1, <2>3, <2>5, <2>6, <2>7, <2>8, <2>9, StreamMove
  <1>5. pc'["server"] \in {"bar2s"}
    BY <1>1, <1>3 DEF UctTypeOK, ShowMessage, Goto, Leave, Acquire, Release
  <1> QED
    BY <1>4, <1>5

\* The script of an interface: an exchange is a length and an address.
LEMMA ScriptAt ==
    ASSUME UctTypeOK, NEW p \in Procs, pc[p] \in Exchanges, OwnScript(p)
    PROVE  /\ Script(p, Behind(p) + 1) = "len" /\ Script(p, Behind(p) + 2) = pc[p]
           /\ Behind(p) + 2 <= AddrItems(p) \/ (pc[p] = "ep" /\ Behind(p) = AddrItems(p))
  <1>1. DevItems(p) \in {0, 2} /\ IfaceItems(p) \in {0, 2} /\ EpItems(p) \in {0, 3}
    BY StreamNats
  <1>2. (attr[p].dev => DevItems(p) = 2) /\ (attr[p].iface => IfaceItems(p) = 2)
    BY DEF DevItems, IfaceItems
  <1>3. CASE pc[p] = "dev"
    <2>1. Behind(p) = 0 /\ attr[p].dev
      BY <1>3 DEF Behind, OwnScript
    <2> QED
      BY <1>1, <1>2, <1>3, <2>1 DEF Script, AddrItems
  <1>4. CASE pc[p] = "iface"
    <2>1. Behind(p) = DevItems(p) /\ attr[p].iface
      BY <1>4 DEF Behind, OwnScript
    <2> QED
      BY <1>1, <1>2, <1>4, <2>1 DEF Script, AddrItems
  <1>5. CASE pc[p] = "ep"
    <2>1. Behind(p) = AddrItems(p) /\ attr[p].mode = "ep" /\ EpItems(p) = 3
      BY <1>5 DEF Behind, OwnScript, EpItems
    <2> QED
      BY <1>1, <1>2, <1>5, <2>1 DEF Script, AddrItems
  <1> QED
    BY <1>3, <1>4, <1>5 DEF Exchanges

\* The items of the two barriers.
LEMMA ScriptBar ==
    ASSUME UctTypeOK, NEW p \in Procs
    PROVE  /\ attr[p].mode = "ep" => Script(p, AddrItems(p) + 3) = "bar"
           /\ Script(p, AddrItems(p) + EpItems(p) + 1) = "bar"
  <1>1. DevItems(p) \in {0, 2} /\ IfaceItems(p) \in {0, 2} /\ EpItems(p) \in {0, 3}
    BY StreamNats
  <1>2. attr[p].mode = "ep" => EpItems(p) = 3
    BY DEF EpItems
  <1>3. ~attr[p].iface => IfaceItems(p) = 0
    BY DEF IfaceItems
  <1> QED
    BY <1>1, <1>2, <1>3 DEF Script, AddrItems

\* Interfaces that are alike have the same script.
LEMMA SameInterface ==
    ASSUME NEW p \in Procs, NEW q \in Procs, attr[p] = attr[q]
    PROVE  /\ AddrItems(p) = AddrItems(q) /\ EpItems(p) = EpItems(q)
           /\ \A i : Script(p, i) = Script(q, i)
  BY DEF DevItems, IfaceItems, EpItems, AddrItems, Script

\* What a send() to a peer that takes it does.
LEMMA SendsFacts ==
    ASSUME UctTypeOK, NEW p \in Procs, NEW item, Sends(p, item)
    PROVE  /\ oob'[p] = oob[p]
           /\ \/ PeerClosed(p) /\ oob'[Other(p)] = oob[Other(p)]
              \/ oob'[Other(p)] = Append(oob[Other(p)], item)
  <1>1. Other(p) \in Procs /\ Other(p) # p /\ DOMAIN oob = Procs
    BY TwoSides DEF UctTypeOK
  <1> QED
    BY <1>1 DEF Sends

\* SendItem keeps it.
LEMMA Stream_SendItem ==
    ASSUME UctTypeOK, UctTypeOK', StreamInv, NEW p \in Procs, SendItem(p)
    PROVE  StreamInv'
  <1>1. Other(p) \in Procs /\ Other(p) # p
    BY TwoSides
  <1>2. /\ pc[p] \in Exchanges /\ step[p] \in {1, 2} /\ pc[p] \in TalkPcs
        /\ OwnScript(p) /\ Addresses(p) /\ Barriers(p) /\ Ends
    BY DEF SendItem, SendSteps, StreamInv, TalkPcs
  <1>3. CASE SendFails(p, ExchangeExit(pc[p]))
    <2>1. /\ ExchangeExit(pc[p]) \in SilentPcs
          /\ ExchangeExit(pc[p]) = "out_free_ep" => pc[p] = "ep"
          /\ ExchangeExit(pc[p]) # "out_free_ep" => pc[p] \in {"dev", "iface"}
      BY <1>2, LabelFacts DEF ExchangeExit, SilentPcs, Exchanges
    <2> QED
      BY <1>3, <2>1, Stream_SendFails
  <1>4. CASE /\ Sends(p, Item(pc[p], step[p])) /\ NextStep(p)
             /\ UNCHANGED <<env, lookup, status, held, sock, peer, uct>>
    <2>1. /\ attr' = attr /\ peer' = peer /\ sock' = sock /\ conn' = conn /\ shown' = shown
          /\ status' = status
      BY <1>4 DEF lookup, uct
    <2>2. /\ pc' = pc /\ step' = [step EXCEPT ![p] = step[p] + 1]
      BY <1>2, <1>4 DEF NextStep
    <2>3. step'[p] = step[p] + 1 /\ step'[Other(p)] = step[Other(p)]
      BY <1>1, <2>2 DEF UctTypeOK
    <2>4. Behind(p)' = Behind(p) /\ Behind(p) \in Nat /\ AddrItems(p) \in Nat
      BY <2>1, <2>2, SameScript, StreamNats DEF Behind
    <2>5. SentBy(p) = Behind(p) + step[p] - 1 /\ SentBy(p)' = SentBy(p) + 1
      BY <1>2, <2>2, <2>3, <2>4 DEF SentBy
    <2>6. ReadBy(p)' = ReadBy(p)
      BY <1>2, <2>2, <2>3, <2>4 DEF ReadBy
    <2>7. Item(pc[p], step[p]) = Script(p, SentBy(p) + 1)
      <3>1. CASE step[p] = 1
        <4>1. SentBy(p) + 1 = Behind(p) + 1
          BY <2>4, <2>5, <3>1
        <4> QED
          BY <1>2, <3>1, <4>1, ScriptAt DEF Item
      <3>2. CASE step[p] = 2
        <4>1. SentBy(p) + 1 = Behind(p) + 2
          BY <2>4, <2>5, <3>2
        <4> QED
          BY <1>2, <3>2, <4>1, ScriptAt DEF Item
      <3> QED
        BY <1>2, <3>1, <3>2
    <2>8. /\ SentBy(p) + 1 <= AddrItems(p) + 2
          /\ SentBy(p) + 1 <= AddrItems(p) + EpItems(p)
      <3>1. SentBy(p) + 1 <= Behind(p) + 2
        BY <1>2, <2>4, <2>5
      <3>2. \/ Behind(p) + 2 <= AddrItems(p)
            \/ pc[p] = "ep" /\ Behind(p) = AddrItems(p)
        BY <1>2, ScriptAt
      <3>3. pc[p] = "ep" => EpItems(p) = 3
        BY <1>2 DEF OwnScript, EpItems
      <3> QED
        BY <2>4, <2>5, <3>1, <3>2, <3>3, StreamNats
    <2>9. SentBy(p) \in Nat /\ AddrItems(p) \in Nat /\ EpItems(p) \in Nat
      BY StreamNats
    <2>10. OwnScript(p)' /\ Addresses(p)' /\ Ends'
      BY <1>2, <2>1, <2>2 DEF OwnScript, Addresses, Ends
    <2>11. pc[p] \notin FinalPcs
      BY <1>2 DEF Exchanges, FinalPcs
    <2>12. /\ oob'[p] = oob[p]
           /\ \/ PeerClosed(p) /\ oob'[Other(p)] = oob[Other(p)]
              \/ oob'[Other(p)] = Append(oob[Other(p)], Script(p, SentBy(p) + 1))
      BY <1>4, <2>7, SendsFacts
    <2>13. /\ ~(SentBy(p) + 1 > AddrItems(p) + 2)
           /\ ~(SentBy(p) + 1 > AddrItems(p) + EpItems(p))
      BY <2>8, <2>9
    <2> QED
      BY <1>1, <1>2, <2>1, <2>2, <2>3, <2>5, <2>6, <2>10, <2>11, <2>12, <2>13, StreamSend
  <1> QED
    BY <1>3, <1>4 DEF SendItem

\* RecvItem keeps it: the address is the one that was meant when the interfaces are
\* alike.
LEMMA Stream_RecvItem ==
    ASSUME UctTypeOK, UctTypeOK', StreamInv, NEW p \in Procs, RecvItem(p)
    PROVE  StreamInv'
  <1>1. Other(p) \in Procs /\ Other(p) # p
    BY TwoSides
  <1>2. /\ pc[p] \in Exchanges /\ step[p] \in {3, 4} /\ pc[p] \in TalkPcs
        /\ OwnScript(p) /\ Addresses(p) /\ Barriers(p) /\ Scripted(p) /\ Counted(p) /\ Ends
    BY DEF RecvItem, SendSteps, StreamInv, TalkPcs, UctTypeOK
  <1>3. /\ attr' = attr /\ sock' = sock /\ conn' = conn /\ shown' = shown
    BY DEF RecvItem, lookup, uct
  <1>4. CASE /\ oob'[Other(p)] = oob[Other(p)]
             /\ Leave(p, ExchangeExit(pc[p]), "err")
             /\ UNCHANGED <<peer, held, step>>
    <2>1. /\ ExchangeExit(pc[p]) \in SilentPcs
          /\ ExchangeExit(pc[p]) = "out_free_ep" => pc[p] = "ep"
          /\ ExchangeExit(pc[p]) # "out_free_ep" => pc[p] \in {"dev", "iface"}
      BY <1>2, LabelFacts DEF ExchangeExit, SilentPcs, Exchanges
    <2>2. /\ pc'[p] = ExchangeExit(pc[p]) /\ pc'[Other(p)] = pc[Other(p)]
          /\ status'[p] = "err" /\ status'[Other(p)] = status[Other(p)]
      BY <1>1, <1>4 DEF UctTypeOK, Leave, Goto
    <2> QED
      BY <1>1, <1>3, <1>4, <2>1, <2>2, StreamDrop
  <1>5. CASE /\ oob[p] # <<>> /\ oob' = [oob EXCEPT ![p] = Tail(oob[p])]
             /\ IF Head(oob[p]) = "len" THEN peer' = peer
                ELSE peer' = [peer EXCEPT ![p][pc[p]] = Head(oob[p])]
             /\ NextStep(p)
             /\ status' = status
    <2>1. oob'[p] = Tail(oob[p]) /\ oob'[Other(p)] = oob[Other(p)]
      BY <1>1, <1>5 DEF UctTypeOK
    <2>2. /\ peer'[Other(p)] = peer[Other(p)]
          /\ \A k \in Exchanges \ {pc[p]} : peer'[p][k] = peer[p][k]
          /\ Head(oob[p]) # "len" => peer'[p][pc[p]] = Head(oob[p])
      BY <1>1, <1>2, <1>5 DEF UctTypeOK
    <2>3. /\ Behind(p) \in Nat /\ DevItems(p) \in {0, 2} /\ IfaceItems(p) \in {0, 2}
          /\ EpItems(p) \in {0, 3} /\ oob[p] \in Seq(Items) /\ ReadBy(p) \in Nat
          /\ AddrItems(p) \in Nat
      BY StreamNats
    <2>4. DevItems(p)' = DevItems(p) /\ AddrItems(p)' = AddrItems(p) /\ EpItems(p)' = EpItems(p)
      BY <1>3, SameScript
    <2>5. conn[p] = "no"
      BY <1>2, LabelFacts DEF Addresses, SilentPcs, PastEpPcs, FinalPcs, Exchanges
    <2>6. CASE step[p] = 3
      <3>1. pc' = pc /\ step' = [step EXCEPT ![p] = 4]
        BY <1>5, <2>6 DEF NextStep
      <3>2. step'[p] = 4 /\ step'[Other(p)] = step[Other(p)]
        BY <1>1, <3>1 DEF UctTypeOK
      <3>3. Behind(p)' = Behind(p)
        BY <2>4, <3>1 DEF Behind
      <3>4. ReadBy(p)' = ReadBy(p) + 1 /\ SentBy(p)' = SentBy(p)
        BY <1>2, <2>3, <2>6, <3>1, <3>2, <3>3 DEF ReadBy, SentBy
      <3>5. OwnScript(p)' /\ Ends'
        BY <1>2, <1>3, <1>5, <3>1 DEF OwnScript, Ends
      <3>6. Addresses(p)'
        BY <1>1, <1>2, <1>3, <2>2, <2>5, <3>1 DEF Addresses, Exchanges, TalkPcs
      <3>7. pc[p] \notin FinalPcs
        BY <1>2 DEF Exchanges, FinalPcs
      <3> QED
        BY <1>1, <1>2, <1>3, <1>5, <2>1, <2>2, <3>1, <3>2, <3>4, <3>5, <3>6, <3>7, StreamRecv
    <2>7. CASE step[p] = 4
      <3>1. /\ pc' = [pc EXCEPT ![p] = AfterExchange(p, pc[p])]
            /\ step' = [step EXCEPT ![p] = 1]
        BY <1>5, <2>7 DEF NextStep, Goto
      <3>2. /\ step'[p] = 1 /\ step'[Other(p)] = step[Other(p)]
            /\ pc'[p] = AfterExchange(p, pc[p]) /\ pc'[Other(p)] = pc[Other(p)]
        BY <1>1, <3>1 DEF UctTypeOK
      <3>3. /\ pc[p] = "dev" => /\ attr[p].dev /\ pc'[p] \in {"iface", "reach"}
                                /\ pc'[p] = "iface" <=> attr[p].iface
            /\ pc[p] = "iface" => attr[p].iface /\ pc'[p] = "reach"
            /\ pc[p] = "ep" => attr[p].mode = "ep" /\ pc'[p] = "connep"
        BY <1>2, <3>2 DEF AfterExchange, OwnScript
      <3>4. Behind(p)' = Behind(p) + 2
        <4>1. /\ attr[p].dev => DevItems(p) = 2
              /\ IfaceItems(p) = IF attr[p].iface THEN 2 ELSE 0
          BY DEF DevItems, IfaceItems
        <4>2. CASE pc[p] = "dev"
          BY <2>3, <2>4, <3>3, <4>1, <4>2 DEF Behind, AddrItems
        <4>3. CASE pc[p] = "iface"
          BY <2>3, <2>4, <3>3, <4>1, <4>3 DEF Behind, AddrItems
        <4>4. CASE pc[p] = "ep"
          BY <2>3, <2>4, <3>3, <4>4 DEF Behind
        <4> QED
          BY <1>2, <4>2, <4>3, <4>4 DEF Exchanges
      <3>5. ReadBy(p) = Behind(p) + 1 /\ ReadBy(p)' = ReadBy(p) + 1 /\ SentBy(p)' = SentBy(p)
        <4>1. pc'[p] \notin {"bar1r", "bar2r"}
          BY <1>2, <3>3 DEF Exchanges
        <4> QED
          BY <1>2, <2>3, <2>7, <3>2, <3>4, <4>1 DEF ReadBy, SentBy
      <3>6. Head(oob[p]) = Script(Other(p), Behind(p) + 2)
        <4>1. 1 \in 1 .. Len(oob[p]) /\ Head(oob[p]) = oob[p][1]
          BY <1>5, <2>3
        <4>2. oob[p][1] = Script(Other(p), ReadBy(p) + 1)
          BY <1>2, <4>1 DEF Scripted
        <4>3. ReadBy(p) + 1 = Behind(p) + 2
          BY <2>3, <3>5
        <4> QED
          BY <4>1, <4>2, <4>3
      <3>7. attr[p] = attr[Other(p)] => peer'[p][pc[p]] = pc[p]
        <4> SUFFICES ASSUME attr[p] = attr[Other(p)]
                     PROVE  peer'[p][pc[p]] = pc[p]
          OBVIOUS
        <4>1. Script(Other(p), Behind(p) + 2) = Script(p, Behind(p) + 2)
          BY <1>1, SameInterface
        <4>2. Script(p, Behind(p) + 2) = pc[p]
          BY <1>2, ScriptAt
        <4>3. pc[p] # "len"
          BY <1>2 DEF Exchanges
        <4> QED
          BY <2>2, <3>6, <4>1, <4>2, <4>3
      <3>8. pc'[p] \in TalkPcs /\ pc'[p] \notin FinalPcs
        BY <1>2, <3>3 DEF TalkPcs, Exchanges, FinalPcs
      <3>9. OwnScript(p)'
        BY <1>2, <1>3, <3>2, <3>3 DEF OwnScript, Exchanges, PastEpPcs, FinalPcs, TalkPcs
      <3>10. Addresses(p)'
        <4>1. CASE pc[p] = "dev"
          BY <1>1, <1>2, <1>3, <2>2, <2>5, <3>2, <3>3, <3>7, <4>1 DEF Addresses, Exchanges,
             PastEpPcs, FinalPcs
        <4>2. CASE pc[p] = "iface"
          BY <1>1, <1>2, <1>3, <2>2, <2>5, <3>2, <3>3, <3>7, <4>2 DEF Addresses, Exchanges,
             PastEpPcs, FinalPcs
        <4>3. CASE pc[p] = "ep"
          BY <1>1, <1>2, <1>3, <2>2, <2>5, <3>2, <3>3, <3>7, <4>3 DEF Addresses, Exchanges
        <4> QED
          BY <1>2, <4>1, <4>2, <4>3 DEF Exchanges
      <3>11. Ends'
        <4>1. pc'[p] \notin {"bar2s", "bar2r", "out_free_ep"}
          BY <1>2, <3>3 DEF Exchanges
        <4> QED
          BY <1>1, <1>2, <1>3, <1>5, <3>2, <4>1 DEF Ends, Procs, Other
      <3> QED
        BY <1>1, <1>2, <1>3, <1>5, <2>1, <2>2, <3>2, <3>5, <3>8, <3>9, <3>10, <3>11, StreamRecv
    <2> QED
      BY <1>2, <2>6, <2>7
  <1>6. oob' = oob \/ oob' = [oob EXCEPT ![p] = Tail(oob[p])] => oob'[Other(p)] = oob[Other(p)]
    BY <1>1 DEF UctTypeOK
  <1> QED
    BY <1>4, <1>5, <1>6 DEF RecvItem

\* The sends of a barrier keep it.
LEMMA Stream_BarrierSend ==
    ASSUME UctTypeOK, UctTypeOK', StreamInv, NEW p \in Procs, BarrierSend(p)
    PROVE  StreamInv'
  <1>1. Other(p) \in Procs /\ Other(p) # p
    BY TwoSides
  <1>2. /\ pc[p] \in {"bar1s", "bar2s"} /\ pc[p] \in TalkPcs /\ pc[p] \in PastEpPcs
        /\ OwnScript(p) /\ Addresses(p) /\ Barriers(p) /\ Ends
    BY DEF BarrierSend, StreamInv, TalkPcs, PastEpPcs, FinalPcs
  <1>3. CASE SendFails(p, "out_free_ep")
    <2>1. "out_free_ep" \in SilentPcs
      BY LabelFacts DEF SilentPcs
    <2> QED
      BY <1>2, <1>3, <2>1, Stream_SendFails
  <1>4. CASE /\ Sends(p, "bar") /\ Goto(p, IF pc[p] = "bar1s" THEN "bar1r" ELSE "bar2r")
             /\ UNCHANGED <<env, lookup, status, held, sock, step, peer, uct>>
    <2>1. /\ attr' = attr /\ peer' = peer /\ sock' = sock /\ conn' = conn /\ shown' = shown
          /\ status' = status /\ step' = step
      BY <1>4 DEF lookup, uct
    <2>2. /\ pc'[p] = IF pc[p] = "bar1s" THEN "bar1r" ELSE "bar2r"
          /\ pc'[Other(p)] = pc[Other(p)]
      BY <1>1, <1>4 DEF UctTypeOK, Goto
    <2>3. pc'[p] \in TalkPcs /\ pc'[p] \in PastEpPcs /\ pc'[p] \notin Exchanges
      BY <2>2 DEF TalkPcs, PastEpPcs, FinalPcs, Exchanges
    <2>4. /\ Behind(p)' = Behind(p) /\ Behind(p) \in Nat /\ AddrItems(p) \in Nat
          /\ EpItems(p) \in {0, 3}
      BY <1>2, <2>1, <2>2, SameScript, StreamNats DEF Behind
    <2>5. SentBy(p) = Behind(p) /\ SentBy(p)' = SentBy(p) + 1 /\ ReadBy(p)' = ReadBy(p)
      BY <1>2, <2>2, <2>3, <2>4 DEF SentBy, ReadBy, Exchanges
    <2>6. /\ attr[p].mode = "ep" => conn[p] # "no" /\ EpItems(p) = 3
          /\ pc[p] = "bar1s" => attr[p].mode = "ep" /\ Behind(p) = AddrItems(p) + 2
          /\ pc[p] = "bar2s" => Behind(p) = AddrItems(p) + EpItems(p)
      BY <1>2 DEF OwnScript, Behind, EpItems
    <2>7. Script(p, SentBy(p) + 1) = "bar"
      <3>1. CASE pc[p] = "bar1s"
        <4>1. SentBy(p) + 1 = AddrItems(p) + 3 /\ attr[p].mode = "ep"
          BY <2>4, <2>5, <2>6, <3>1
        <4> QED
          BY <4>1, ScriptBar
      <3>2. CASE pc[p] = "bar2s"
        <4>1. SentBy(p) + 1 = AddrItems(p) + EpItems(p) + 1
          BY <2>5, <2>6, <3>2
        <4> QED
          BY <4>1, ScriptBar
      <3> QED
        BY <1>2, <3>1, <3>2
    <2>8. p = "server" /\ SentBy(p) + 1 > AddrItems(p) + EpItems(p) => shown
      <3>1. CASE pc[p] = "bar1s"
        BY <2>4, <2>5, <2>6, <3>1
      <3>2. CASE pc[p] = "bar2s"
        BY <1>2, <3>2 DEF Ends
      <3> QED
        BY <1>2, <3>1, <3>2
    <2>9. pc'[p] \in FinalPcs /\ attr[p].mode = "ep" => conn[Other(p)] # "no"
      <3>1. pc'[p] \in FinalPcs => pc[p] \in FinalPcs
        BY <1>2, <2>2 DEF FinalPcs
      <3> QED
        BY <1>2, <3>1 DEF Barriers
    <2>10. OwnScript(p)'
      <3>1. pc[p] \notin Exchanges /\ pc'[p] \notin {"dev", "iface", "ep"}
        BY <1>2, <2>3 DEF Exchanges
      <3> QED
        BY <1>2, <2>1, <2>2, <2>3, <3>1 DEF OwnScript
    <2>11. Addresses(p)'
      <3>1. pc'[p] \notin {"dev", "iface", "connep"} /\ pc[p] \notin {"dev", "iface"}
        BY <1>2, <2>2
      <3>2. Addresses(p) /\ pc[p] \in TalkPcs /\ pc[p] \in PastEpPcs
        BY <1>2
      <3> QED
        BY <1>1, <2>1, <2>2, <2>3, <3>1, <3>2 DEF Addresses
    <2>12. Ends'
      <3>1. /\ pc'[p] # "out_free_ep" /\ (pc'[p] \in {"bar2s", "bar2r"} => pc[p] = "bar2s")
            /\ Procs = {p, Other(p)} /\ {"client", "server"} = {p, Other(p)}
        BY <1>2, <2>2, TwoSides DEF Procs
      <3> QED
        BY <1>2, <2>1, <2>2, <3>1 DEF Ends
    <2>13. /\ oob'[p] = oob[p]
           /\ \/ PeerClosed(p) /\ oob'[Other(p)] = oob[Other(p)]
              \/ oob'[Other(p)] = Append(oob[Other(p)], Script(p, SentBy(p) + 1))
      BY <1>4, <2>7, SendsFacts
    <2> QED
      BY <1>1, <1>2, <2>1, <2>2, <2>3, <2>5, <2>6, <2>8, <2>9, <2>10, <2>11, <2>12, <2>13,
         StreamSend
  <1> QED
    BY <1>3, <1>4 DEF BarrierSend

\* The receives of a barrier keep it: what is read was sent after the other side had
\* connected its endpoint, or had printed the message.
LEMMA Stream_BarrierRecv ==
    ASSUME UctTypeOK, UctTypeOK', StreamInv, NEW p \in Procs, BarrierRecv(p)
    PROVE  StreamInv'
  <1>1. Other(p) \in Procs /\ Other(p) # p
    BY TwoSides
  <1>2. /\ pc[p] \in {"bar1r", "bar2r"} /\ pc[p] \in TalkPcs /\ pc[p] \in PastEpPcs
        /\ OwnScript(p) /\ Addresses(p) /\ Barriers(p) /\ Ends
    BY DEF BarrierRecv, StreamInv, TalkPcs, PastEpPcs, FinalPcs
  <1>3. /\ attr' = attr /\ peer' = peer /\ sock' = sock /\ conn' = conn /\ shown' = shown
        /\ step' = step
    BY DEF BarrierRecv, lookup, uct
  <1>4. /\ Behind(p) \in Nat /\ AddrItems(p) \in Nat /\ EpItems(p) \in {0, 3}
        /\ ReadBy(p) = Behind(p) /\ SentBy(p) = Behind(p) + 1 /\ oob[p] \in Seq(Items)
    BY <1>2, StreamNats DEF ReadBy, SentBy, Exchanges
  <1>5. "out_free_ep" \in SilentPcs
    BY LabelFacts DEF SilentPcs
  <1>6. CASE EndOfStream(p) /\ Leave(p, "out_free_ep", "err") /\ UNCHANGED oob
    <2>1. /\ pc'[p] = "out_free_ep" /\ pc'[Other(p)] = pc[Other(p)] /\ status'[p] = "err"
          /\ status'[Other(p)] = status[Other(p)]
      BY <1>1, <1>6 DEF UctTypeOK, Leave, Goto
    <2> QED
      BY <1>1, <1>2, <1>3, <1>5, <1>6, <2>1, StreamDrop
  <1>7. CASE /\ oob[p] # <<>> /\ oob' = [oob EXCEPT ![p] = Tail(oob[p])]
             /\ Goto(p, IF pc[p] = "bar1r" THEN "fit" ELSE "out_free_ep")
             /\ status' = status
    <2>1. /\ oob'[p] = Tail(oob[p]) /\ oob'[Other(p)] = oob[Other(p)]
          /\ pc'[p] = IF pc[p] = "bar1r" THEN "fit" ELSE "out_free_ep"
          /\ pc'[Other(p)] = pc[Other(p)]
      BY <1>1, <1>7 DEF UctTypeOK, Goto
    <2>2. Len(oob[p]) \in Nat /\ Len(oob[p]) > 0
      BY <1>4, <1>7
    <2>3. attr[p] = attr[Other(p)]
      BY <1>2 DEF Addresses
    <2>4. AddrItems(p) = AddrItems(Other(p)) /\ EpItems(p) = EpItems(Other(p))
      BY <1>1, <2>3, SameInterface
    <2>5. CASE pc[p] = "bar2r"
      <3>1. Behind(p) = AddrItems(p) + EpItems(p)
        BY <2>5 DEF Behind
      <3>2. ReadBy(p) + Len(oob[p]) > AddrItems(Other(p)) + EpItems(Other(p))
        BY <1>4, <2>2, <2>4, <3>1
      <3>3. p = "client" => shown
        BY <1>2, <3>2 DEF Barriers
      <3> QED
        BY <1>1, <1>2, <1>3, <1>5, <1>7, <2>1, <2>5, <3>3, StreamDrop
    <2>6. CASE pc[p] = "bar1r"
      <3>1. Behind(p) = AddrItems(p) + 2 /\ attr[p].mode = "ep" /\ EpItems(p) = 3
        BY <1>2, <2>6 DEF Behind, OwnScript, EpItems
      <3>2. ReadBy(p) + Len(oob[p]) > AddrItems(Other(p)) + 2
        BY <1>4, <2>2, <2>4, <3>1
      <3>3. conn[Other(p)] # "no"
        BY <1>2, <2>3, <3>1, <3>2 DEF Barriers
      <3>4. /\ pc'[p] = "fit" /\ pc'[p] \in TalkPcs /\ pc'[p] \in PastEpPcs
            /\ pc'[p] \notin Exchanges
        BY <2>1, <2>6 DEF TalkPcs, PastEpPcs, FinalPcs, Exchanges
      <3>5. Behind(p)' = AddrItems(p) + EpItems(p)
        BY <1>3, <3>4, SameScript DEF Behind
      <3>6. ReadBy(p)' = ReadBy(p) + 1 /\ SentBy(p)' = SentBy(p)
        BY <1>4, <3>1, <3>4, <3>5 DEF ReadBy, SentBy, Exchanges
      <3>7. OwnScript(p)'
        BY <1>2, <1>3, <2>6, <3>4 DEF OwnScript, Exchanges
      <3>8. Addresses(p)'
        BY <1>1, <1>2, <1>3, <2>1, <2>6, <3>4 DEF Addresses
      <3>9. Ends'
        <4>1. pc'[p] \notin {"bar2s", "bar2r", "out_free_ep"}
              /\ {"client", "server"} = {p, Other(p)}
          BY <3>4, TwoSides DEF Procs
        <4> QED
          BY <1>2, <1>3, <1>7, <2>1, <4>1 DEF Ends
      <3> QED
        BY <1>1, <1>2, <1>3, <1>7, <2>1, <3>3, <3>4, <3>6, <3>7, <3>8, <3>9, StreamRecv
    <2> QED
      BY <1>2, <2>5, <2>6
  <1> QED
    BY <1>6, <1>7 DEF BarrierRecv

\* Connect keeps it: nothing was sent before.
LEMMA Stream_Connect ==
    ASSUME UctTypeOK, UctTypeOK', StreamInv, Connect
    PROVE  StreamInv'
  <1>1. /\ attr' = attr /\ peer' = peer /\ conn' = conn /\ shown' = shown /\ step' = step
        /\ status' = status /\ oob' = oob
    BY DEF Connect, lookup, uct
  <1>2. ASSUME NEW p \in Procs
        PROVE  /\ pc[p] = "connect" /\ pc'[p] = FirstExchange(p) /\ sock'[p] = "open"
               /\ oob[p] = <<>> /\ conn[p] = "no" /\ step[p] = 1
    <2>1. pc[p] = "connect" /\ pc[Other(p)] = "connect" /\ Other(p) \in Procs
      BY TwoSides DEF Connect
    <2>2. OwnScript(p) /\ Counted(p) /\ Addresses(p)
      BY DEF StreamInv
    <2>3. oob[p] = <<>>
      BY <2>1, <2>2 DEF Counted, PreConnPcs, LookupPcs
    <2>4. step[p] = 1
      BY <2>1, <2>2 DEF OwnScript, PreConnPcs, LookupPcs, Exchanges
    <2>5. conn[p] = "no"
      BY <2>1, <2>2, LabelFacts DEF Addresses, PastEpPcs, FinalPcs, SilentPcs
    <2> QED
      BY <2>1, <2>3, <2>4, <2>5 DEF Connect
  <1>3. ASSUME NEW p \in Procs
        PROVE  /\ pc'[p] \in {"dev", "iface", "reach"} /\ pc'[p] \in TalkPcs
               /\ (pc'[p] = "dev" <=> attr[p].dev) /\ (pc'[p] = "iface" => attr[p].iface)
               /\ (pc'[p] = "reach" => ~attr[p].dev /\ ~attr[p].iface)
               /\ (pc'[p] = "iface" => ~attr[p].dev)
               /\ pc'[p] \notin PreConnPcs /\ pc'[p] \notin PastEpPcs
    <2>1. pc'[p] = FirstExchange(p)
      BY <1>2
    <2> QED
      BY <2>1 DEF FirstExchange, TalkPcs, Exchanges, PreConnPcs, LookupPcs, PastEpPcs, FinalPcs
  <1>4. ASSUME NEW p \in Procs
        PROVE  SentBy(p)' = 0 /\ ReadBy(p)' = 0
    <2>1. Behind(p)' = 0
      <3>1. DevItems(p)' = DevItems(p) /\ AddrItems(p)' = AddrItems(p)
        BY <1>1, SameScript
      <3>2. CASE pc'[p] = "dev"
        BY <3>2 DEF Behind
      <3>3. CASE pc'[p] = "iface"
        BY <1>3, <3>1, <3>3 DEF Behind, DevItems
      <3>4. CASE pc'[p] = "reach"
        BY <1>3, <3>1, <3>4 DEF Behind, AddrItems, DevItems, IfaceItems
      <3> QED
        BY <1>3, <3>2, <3>3, <3>4
    <2>2. step'[p] = 1 /\ pc'[p] \notin {"bar1r", "bar2r"}
      BY <1>1, <1>2, <1>3
    <2> QED
      BY <2>1, <2>2 DEF SentBy, ReadBy
  <1>5. ASSUME NEW p \in Procs
        PROVE  OwnScript(p)' /\ Counted(p)' /\ Scripted(p)' /\ Barriers(p)' /\ Addresses(p)'
    <2>1. Other(p) \in Procs /\ Other(p) # p
      BY TwoSides
    <2>2. oob'[p] = <<>> /\ Len(oob'[p]) = 0 /\ step'[p] = 1 /\ conn'[p] = "no"
      BY <1>1, <1>2
    <2>3. OwnScript(p)'
      BY <1>1, <1>2, <1>3, <2>2 DEF OwnScript
    <2>4. Counted(p)'
      BY <1>3, <1>4, <2>1, <2>2 DEF Counted
    <2>5. Scripted(p)'
      BY <2>2 DEF Scripted
    <2>6. Barriers(p)'
      <3>1. AddrItems(Other(p))' \in Nat /\ EpItems(Other(p))' \in Nat
        BY <1>1, <2>1, SameScript, StreamNats
      <3>2. /\ ~(ReadBy(p)' + Len(oob'[p]) > AddrItems(Other(p))' + 2)
            /\ ~(ReadBy(p)' + Len(oob'[p]) > AddrItems(Other(p))' + EpItems(Other(p))')
        BY <1>4, <2>2, <3>1
      <3>3. pc'[p] \notin FinalPcs
        BY <1>3 DEF PastEpPcs
      <3> QED
        BY <3>2, <3>3 DEF Barriers
    <2>7. Addresses(p)'
      BY <1>1, <1>3, <2>2 DEF Addresses
    <2> QED
      BY <2>3, <2>4, <2>5, <2>6, <2>7
  <1>6. Ends' /\ Finished'
    BY <1>3, LabelFacts DEF Ends, Finished, ExitPcs, Procs
  <1> QED
    BY <1>5, <1>6 DEF StreamInv

\* zcopy_completion_cb keeps it.
LEMMA Stream_zcopy_completion_cb ==
    ASSUME UctTypeOK, UctTypeOK', StreamInv, zcopy_completion_cb
    PROVE  StreamInv'
  <1>1. CASE Died("client")
    BY <1>1, Stream_Died DEF Procs
  <1>2. CASE UNCHANGED <<env, pc, lookup, status, oobv, conn, net, shown>>
    BY <1>2, StreamSame DEF lookup, oobv
  <1> QED
    BY <1>1, <1>2 DEF zcopy_completion_cb

\* WildPointer keeps it.
LEMMA Stream_WildPointer ==
    ASSUME UctTypeOK, UctTypeOK', StreamInv, WildPointer
    PROVE  StreamInv'
  BY Stream_Died DEF WildPointer, Procs

\* hello_world keeps it.
LEMMA Stream_hello_world ==
    ASSUME StreamInv, hello_world
    PROVE  StreamInv'
  BY StreamSame DEF hello_world, lookup, oobv

\* Every step preserves it.
LEMMA StreamNext ==
    UctInd /\ UctInd' /\ StreamInv /\ [Next]_vars => StreamInv'
  <1> SUFFICES ASSUME UctInd, UctInd', StreamInv, [Next]_vars PROVE StreamInv'
    OBVIOUS
  <1>1. UctTypeOK /\ UctTypeOK'
    BY DEF UctInd
  <1>2. CASE UNCHANGED vars
    BY <1>2, StreamSame DEF vars
  <1>3. CASE Connect
    BY <1>1, <1>3, Stream_Connect
  <1>4. CASE zcopy_completion_cb
    BY <1>1, <1>4, Stream_zcopy_completion_cb
  <1>5. CASE hello_world
    BY <1>5, Stream_hello_world
  <1>6. ASSUME NEW p \in Procs,
               Step(p) \/ ConnectFails(p, "error") \/ GetAddressFails(p) \/ Crash(p)
        PROVE  StreamInv'
    <2>1. CASE CreateWorker(p)
      BY <1>1, <2>1, Stream_CreateWorker
    <2>2. CASE uct_query_components(p)
      BY <1>1, <2>2, Stream_uct_query_components
    <2>3. CASE QueryComponent(p)
      BY <1>1, <2>3, Stream_QueryComponent
    <2>4. CASE OpenMd(p)
      BY <1>1, <2>4, Stream_OpenMd
    <2>5. CASE ScanTls(p)
      BY <1>1, <2>5, Stream_ScanTls
    <2>6. CASE SetUp(p)
      BY <1>1, <2>6, Stream_SetUp
    <2>7. CASE GetAddressFails(p)
      BY <1>1, <2>7, Stream_GetAddressFails
    <2>8. CASE SendItem(p)
      BY <1>1, <2>8, Stream_SendItem
    <2>9. CASE RecvItem(p)
      BY <1>1, <2>9, Stream_RecvItem
    <2>10. CASE uct_iface_is_reachable(p)
      BY <1>1, <2>10, Stream_uct_iface_is_reachable
    <2>11. CASE CreateEp(p)
      BY <1>1, <2>11, Stream_CreateEp
    <2>12. CASE CreateConnectedEp(p)
      BY <1>1, <2>12, Stream_CreateConnectedEp
    <2>13. CASE ConnectToEp(p)
      BY <1>1, <2>13, Stream_ConnectToEp
    <2>14. CASE BarrierSend(p)
      BY <1>1, <2>14, Stream_BarrierSend
    <2>15. CASE BarrierRecv(p)
      BY <1>1, <2>15, Stream_BarrierRecv
    <2>16. CASE CheckLength(p)
      BY <1>1, <2>16, Stream_CheckLength
    <2>17. CASE CleanUp(p)
      BY <1>1, <2>17, Stream_CleanUp
    <2>18. CASE Return(p)
      BY <1>1, <2>18, Stream_Return
    <2>19. CASE Crash(p)
      BY <1>1, <2>19, Stream_Crash
    <2>20. CASE ConnectFails(p, "refused") \/ ConnectFails(p, "error")
      BY <1>1, <2>20, Stream_ConnectFails
    <2>21. CASE MakeString
      BY <1>1, <2>21, Stream_MakeString
    <2>22. CASE Register
      BY <1>1, <2>22, Stream_Register
    <2>23. CASE SendAm
      BY <1>1, <2>23, Stream_SendAm
    <2>24. CASE SendAmFails
      BY <1>1, <2>24, Stream_SendAmFails
    <2>25. CASE ZcopyReturns
      BY <1>1, <2>25, Stream_ZcopyReturns
    <2>26. CASE ShowMessage
      BY <1>1, <2>26, Stream_ShowMessage
    <2>27. CASE OpenIface(p)
      BY <1>1, <2>27, Stream_OpenIface
    <2>28. CASE QueryIface(p)
      BY <1>1, <2>28, Stream_QueryIface
    <2>29. CASE ErrorIface(p)
      BY <1>1, <2>29, Stream_ErrorIface
    <2>30. CASE ReleaseTls(p)
      BY <1>1, <2>30, Stream_ReleaseTls
    <2>31. CASE CloseMd(p)
      BY <1>1, <2>31, Stream_CloseMd
    <2>32. CASE ReleaseComponents(p)
      BY <1>1, <2>32, Stream_ReleaseComponents
    <2> QED
      BY <1>6, <2>1, <2>2, <2>3, <2>4, <2>5, <2>6, <2>7, <2>8, <2>9, <2>10, <2>11,
         <2>12, <2>13, <2>14, <2>15, <2>16, <2>17, <2>18, <2>19, <2>20, <2>21, <2>22,
         <2>23, <2>24, <2>25, <2>26, <2>27, <2>28, <2>29, <2>30, <2>31, <2>32 DEF Step
  <1>7. CASE WildPointer
    BY <1>1, <1>7, Stream_WildPointer
  <1> QED
    BY <1>2, <1>3, <1>4, <1>5, <1>6, <1>7 DEF Next

\* It holds at the start.
LEMMA StreamInit == Init => StreamInv
  <1> SUFFICES ASSUME Init, NEW p \in Procs
               PROVE  /\ OwnScript(p) /\ Counted(p) /\ Scripted(p) /\ Barriers(p)
                      /\ Addresses(p) /\ Ends /\ Finished
    BY DEF StreamInv, Procs
  <1>1. /\ \A q \in Procs : pc[q] = "init" /\ step[q] = 1 /\ sock[q] = "none"
        /\ oob[p] = <<>> /\ conn[p] = "no" /\ Other(p) \in Procs
    BY TwoSides DEF Init
  <1>2. "init" \notin TalkPcs /\ "init" \in PreConnPcs /\ "init" \notin PastEpPcs
    BY DEF TalkPcs, PreConnPcs, LookupPcs, PastEpPcs, FinalPcs, Exchanges
  <1>3. "init" \notin FinalPcs
    BY DEF FinalPcs
  <1>4. OwnScript(p)
    BY <1>1, <1>2 DEF OwnScript
  <1>5. Counted(p) /\ Scripted(p)
    BY <1>1, <1>2 DEF Counted, Scripted
  <1>6. Barriers(p)
    BY <1>1, <1>2, <1>3 DEF Barriers
  <1>7. Addresses(p)
    BY <1>1, <1>2 DEF Addresses
  <1>8. Ends /\ Finished
    BY <1>1, LabelFacts DEF Ends, Finished, ExitPcs, Procs
  <1> QED
    BY <1>4, <1>5, <1>6, <1>7, <1>8

\* In every reachable state what is on the socket towards each side is what the other
\* side's interface sends next, as far as both are still talking.
THEOREM UctStream == Spec => []StreamInv
  <1>1. Init => UctInd /\ StreamInv
    BY UctInitInd, StreamInit
  <1>2. (UctInd /\ StreamInv) /\ [Next]_vars => (UctInd /\ StreamInv)'
    BY UctNextInd, StreamNext
  <1> QED
    BY <1>1, <1>2, PTL DEF Spec

\* An endpoint is made from the addresses it was meant for, although each side decides
\* by its own interface what to exchange: two that differ are not reachable.
THEOREM UctPeerAddresses == Spec => []PeerAddressesRight
  <1>1. UctInd /\ StreamInv => PeerAddressesRight
    <2> SUFFICES ASSUME UctInd, StreamInv, NEW p \in Procs, "ep" \in held[p]
                 PROVE  /\ attr[p].dev => peer[p]["dev"] = "dev"
                        /\ attr[p].iface => peer[p]["iface"] = "iface"
                        /\ attr[p].mode = "ep" /\ conn[p] # "no" => peer[p]["ep"] = "ep"
      BY DEF PeerAddressesRight
    <2>1. HandlesAt(p) /\ Addresses(p)
      BY DEF UctInd, StreamInv
    <2>2. pc[p] \in EpPcs
      BY <2>1 DEF HandlesAt
    <2>3. /\ pc[p] \in {"mkep", "connep", "ep", "out_free_ep"} \cup PastEpPcs
          /\ pc[p] \in TalkPcs \/ pc[p] = "out_free_ep"
          /\ pc[p] \notin {"dev", "iface"}
      BY <2>2 DEF EpPcs, PastEpPcs, FinalPcs, TalkPcs, Exchanges
    <2> QED
      BY <2>1, <2>3 DEF Addresses
  <1> QED
    BY <1>1, UctInductive, UctStream, PTL

\* The first barrier: the client sends only after uct_ep_connect_to_ep on both sides.
THEOREM UctConnectedFirst == Spec => []ConnectedBeforeSend
  <1>1. StreamInv => ConnectedBeforeSend
    <2> SUFFICES ASSUME StreamInv PROVE ConnectedBeforeSend
      OBVIOUS
    <2>1. Barriers("client") /\ Other("client") = "server"
      BY DEF StreamInv, Procs, Other
    <2> QED
      BY <2>1 DEF Barriers, FinalPcs, ConnectedBeforeSend
  <1> QED
    BY <1>1, UctStream, PTL

\* The second barrier: a client that comes to the end of main with UCS_OK has had its
\* message printed, unless it never had a connected endpoint.
THEOREM UctSuccess == Spec => []ClientSuccessMeansShown
  <1>1. StreamInv => ClientSuccessMeansShown
    BY DEF StreamInv, Finished, ClientSuccessMeansShown, ExitPcs
  <1> QED
    BY <1>1, UctStream, PTL
================================================================================
