--------------------------- MODULE UcpDeliveryProofs ---------------------------
(***************************************************************************)
(* Theorems about what the server of UcpClientServer receives: that no     *)
(* message outlives its session, that the receives come in order, that a   *)
(* callback never copies into a freed buffer.                              *)
(***************************************************************************)
EXTENDS UcpSessionProofs

(***************************************************************************)
(* Counting: what was received in c's session, what has arrived and is     *)
(* held for the next receives, what is in flight and what c may still post *)
(* are never more than the num_iterations messages of a client.            *)
(***************************************************************************)
One(b) == IF b THEN 1 ELSE 0

\* The current receive of the data loop has its message.
HasMsg == pc[Server] = "wait" /\ iter[Server] # opt.n /\ req[Server] \in {"fetch", "ok"}

\* Messages that have arrived and are not yet received.
Holds == One(HasMsg) + One(am_data_desc[Server].complete) + Len(unexp[Server])

\* They are of the session's client.
Held(c) == IF c = Serving THEN Holds ELSE 0

Arrived(c) == Len(rcvd[c]) + Held(c)

\* Messages client c may still post.
Future(c) ==
    IF pc[c] \in {"start", "comm"} THEN opt.n - iter[c]
    ELSE IF pc[c] = "wait" /\ iter[c] # opt.n THEN opt.n - iter[c] - 1 ELSE 0

Credit(c) == Arrived(c) + Len(net[c][Server]) + Future(c) <= opt.n

\* Outside of a session the server holds nothing; a receive waits only when
\* nothing is held for it; active messages never wait for a receive.
CleanStart ==
    /\ pc[Server] \in {"init", "accept"} =>
         unexp[Server] = <<>> /\ ~am_data_desc[Server].complete
    /\ req[Server] = "recv" => unexp[Server] = <<>>
    /\ opt.api = "am" => unexp[Server] = <<>>

CreditInv == CleanStart /\ \A c \in Clients : Credit(c)

\* The terms of the count are natural numbers.
LEMMA CountTypes ==
    ASSUME Typed, PhaseInv, NEW c \in Clients
    PROVE  /\ Arrived(c) \in Nat /\ Future(c) \in Nat /\ Len(net[c][Server]) \in Nat
           /\ Holds \in Nat /\ Len(rcvd[c]) \in Nat /\ opt.n \in Nat
  <1>1. Len(rcvd[c]) \in Nat /\ Len(net[c][Server]) \in Nat /\ Len(unexp[Server]) \in Nat
    BY DEF Typed, TypeOK, Procs
  <1>2. Holds \in Nat
    <2>1. One(HasMsg) \in Nat /\ One(am_data_desc[Server].complete) \in Nat
      BY DEF One
    <2> QED
      BY <1>1, <2>1 DEF Holds
  <1>3. iter[c] \in Nat /\ opt.n \in Nat /\ iter[c] <= opt.n
    BY OptFields DEF PhaseInv, ClientPhase, Typed, TypeOK, Procs
  <1>4. Future(c) \in Nat
    BY <1>3, NatStep DEF Future
  <1>5. Arrived(c) \in Nat
    <2>1. Held(c) \in Nat
      BY <1>2 DEF Held
    <2> QED
      BY <1>1, <2>1 DEF Arrived
  <1> QED
    BY <1>1, <1>2, <1>3, <1>4, <1>5

\* They are after a step, too.
LEMMA CountTypesNext ==
    ASSUME Typed', PhaseInv', NEW c \in Clients
    PROVE  /\ Arrived(c)' \in Nat /\ Future(c)' \in Nat /\ Len(net'[c][Server]) \in Nat
           /\ Holds' \in Nat /\ Len(rcvd'[c]) \in Nat /\ opt'.n \in Nat
  <1>1. /\ Len(rcvd'[c]) \in Nat /\ Len(net'[c][Server]) \in Nat
        /\ Len(unexp'[Server]) \in Nat
    BY DEF Typed, TypeOK, Procs
  <1>2. Holds' \in Nat
    <2>1. One(HasMsg)' \in Nat /\ One(am_data_desc[Server].complete)' \in Nat
      BY DEF One
    <2> QED
      BY <1>1, <2>1 DEF Holds
  <1>3. iter'[c] \in Nat /\ opt'.n \in Nat /\ iter'[c] <= opt'.n
    <2>1. opt' \in Options /\ iter'[c] \in Nat
      BY DEF Typed, TypeOK, Procs
    <2>2. opt'.n \in Nat
      BY <2>1, ItersAssumption DEF Options
    <2> QED
      BY <2>1, <2>2 DEF PhaseInv, ClientPhase
  <1>4. Future(c)' \in Nat
    BY <1>3, NatStep DEF Future
  <1>5. Arrived(c)' \in Nat
    BY <1>1, <1>2 DEF Arrived, Held
  <1> QED
    BY <1>1, <1>2, <1>3, <1>4, <1>5

\* A bounded sum stays bounded when two neighbouring terms are replaced.
LEMMA SumPairs ==
    ASSUME NEW a \in Nat, NEW b \in Nat, NEW d \in Nat, NEW n \in Nat, a + b + d <= n,
           NEW x \in Nat, NEW y \in Nat
    PROVE  /\ x + y <= a + b => x + y + d <= n
           /\ x + y <= b + d => a + x + y <= n
  OBVIOUS

\* The sum does not grow, if its first or its last terms do not.
LEMMA CreditKept ==
    ASSUME Typed, Typed', PhaseInv, PhaseInv', NEW c \in Clients, opt' = opt, Credit(c),
           \/ /\ Future(c)' = Future(c)
              /\ Arrived(c)' + Len(net'[c][Server]) <= Arrived(c) + Len(net[c][Server])
           \/ /\ Arrived(c)' = Arrived(c)
              /\ Len(net'[c][Server]) + Future(c)' <= Len(net[c][Server]) + Future(c)
    PROVE  Credit(c)'
  <1>1. /\ Arrived(c) \in Nat /\ Len(net[c][Server]) \in Nat /\ Future(c) \in Nat
        /\ opt.n \in Nat /\ Arrived(c) + Len(net[c][Server]) + Future(c) <= opt.n
    BY CountTypes DEF Credit
  <1>2. Arrived(c)' \in Nat /\ Len(net'[c][Server]) \in Nat /\ Future(c)' \in Nat
    BY CountTypesNext
  <1>3. \A x, y \in Nat : x + y <= Arrived(c) + Len(net[c][Server]) =>
                           x + y + Future(c) <= opt.n
    BY <1>1, SumPairs
  <1>4. \A x, y \in Nat : x + y <= Len(net[c][Server]) + Future(c) =>
                           Arrived(c) + x + y <= opt.n
    BY <1>1, SumPairs
  <1>5. Arrived(c)' + Len(net'[c][Server]) + Future(c)' <= opt.n
    BY <1>2, <1>3, <1>4
  <1> QED
    BY <1>5 DEF Credit

\* A step of one client changes nothing the server holds.
LEMMA ArrivedKept ==
    ASSUME NEW p \in Clients, StepOf(p), conn_request' = conn_request,
           unexp'[Server] = unexp[Server]
    PROVE  /\ Serving' = Serving /\ (HasMsg' <=> HasMsg) /\ Holds' = Holds
           /\ am_data_desc'[Server] = am_data_desc[Server] /\ pc'[Server] = pc[Server]
           /\ buf'[Server] = buf[Server]
           /\ req'[Server] = req[Server] \/ req'[Server] \in {"sent", "nak"}
  <1>1. SameLocal(Server) /\ opt' = opt
    BY NamesAssumption DEF StepOf, Procs
  <1>2. Serving' = Serving /\ (HasMsg' <=> HasMsg)
    BY <1>1 DEF SameLocal, Serving, HasMsg
  <1>3. am_data_desc'[Server] = am_data_desc[Server]
    BY <1>1 DEF SameLocal
  <1>4. One(HasMsg)' = One(HasMsg)
    BY <1>2 DEF One
  <1>5. One(am_data_desc[Server].complete)' = One(am_data_desc[Server].complete)
    BY <1>3 DEF One
  <1>6. Holds' = Holds
    BY <1>4, <1>5 DEF Holds
  <1> QED
    BY <1>1, <1>2, <1>3, <1>6 DEF SameLocal

\* A step of another process leaves a client's loop alone.
LEMMA FutureKept ==
    ASSUME NEW p \in Procs, StepOf(p), NEW c \in Clients, c # p
    PROVE  Future(c)' = Future(c)
  BY DEF StepOf, SameLocal, Future, Procs

\* What a step of a client has to show for the count.
LEMMA ClientCredit ==
    ASSUME Typed, Typed', PhaseInv, PhaseInv', CreditInv, NEW p \in Clients, StepOf(p),
           conn_request' = conn_request, unexp'[Server] = unexp[Server], rcvd' = rcvd,
           \A c \in Clients \ {p} : net'[c][Server] = net[c][Server],
           Len(net'[p][Server]) + Future(p)' <= Len(net[p][Server]) + Future(p)
    PROVE  CreditInv'
  <1>0. p \in Procs /\ opt' = opt
    BY DEF Procs, StepOf
  <1>1. ASSUME NEW c \in Clients
        PROVE  Credit(c)'
    <2>1. Credit(c)
      BY DEF CreditInv
    <2>2. Arrived(c)' = Arrived(c)
      BY ArrivedKept DEF Arrived, Held
    <2>3. /\ Arrived(c) \in Nat /\ Len(net[c][Server]) \in Nat /\ Future(c) \in Nat
          /\ Len(net'[c][Server]) \in Nat /\ Future(c)' \in Nat /\ opt.n \in Nat
      BY CountTypes, CountTypesNext
    <2>4. Len(net'[c][Server]) + Future(c)' <= Len(net[c][Server]) + Future(c)
      <3>1. CASE c = p
        BY <3>1
      <3>2. CASE c # p
        <4>1. Future(c)' = Future(c) /\ net'[c][Server] = net[c][Server]
          BY <1>0, <3>2, FutureKept
        <4> QED
          BY <2>3, <4>1
      <3> QED
        BY <3>1, <3>2
    <2> QED
      BY <1>0, <2>1, <2>2, <2>4, CreditKept
  <1>2. CleanStart'
    BY <1>0, ArrivedKept DEF CreditInv, CleanStart
  <1> QED
    BY <1>1, <1>2 DEF CreditInv

\* What a step of the server in a session with c has to show for it.
LEMMA ServerCredit ==
    ASSUME Typed, Typed', PhaseInv, PhaseInv', CreditInv, StepOf(Server),
           NEW c \in Clients, Serving = c, Serving' = c,
           \A d \in Clients \ {c} : rcvd'[d] = rcvd[d] /\ net'[d][Server] = net[d][Server],
           Len(rcvd'[c]) + Holds' + Len(net'[c][Server])
             <= Len(rcvd[c]) + Holds + Len(net[c][Server]),
           CleanStart'
    PROVE  CreditInv'
  <1>0. Server \in Procs /\ Server \notin Clients /\ opt' = opt
    BY NamesAssumption DEF Procs, StepOf
  <1>1. ASSUME NEW d \in Clients
        PROVE  Credit(d)'
    <2>1. Credit(d) /\ Future(d)' = Future(d)
      BY <1>0, FutureKept DEF CreditInv
    <2>2. /\ Len(net[d][Server]) \in Nat /\ Future(d) \in Nat /\ Len(rcvd[d]) \in Nat
          /\ Holds \in Nat /\ opt.n \in Nat
      BY CountTypes
    <2>3. Len(net'[d][Server]) \in Nat /\ Len(rcvd'[d]) \in Nat /\ Holds' \in Nat
      BY CountTypesNext
    <2>4. CASE d = c
      <3>1. Arrived(d) = Len(rcvd[d]) + Holds /\ Arrived(d)' = Len(rcvd'[d]) + Holds'
        BY <2>4 DEF Arrived, Held
      <3>2. Arrived(d)' + Len(net'[d][Server]) <= Arrived(d) + Len(net[d][Server])
        BY <2>4, <3>1
      <3> QED
        BY <1>0, <2>1, <3>2, CreditKept
    <2>5. CASE d # c
      <3>1. Arrived(d) = Len(rcvd[d]) /\ Arrived(d)' = Len(rcvd[d])
        BY <2>2, <2>5 DEF Arrived, Held
      <3>2. net'[d][Server] = net[d][Server]
        BY <2>5
      <3> QED
        BY <1>0, <2>1, <2>2, <3>1, <3>2 DEF Credit
    <2> QED
      BY <2>4, <2>5
  <1> QED
    BY <1>1 DEF CreditInv

\* A step of a client that posts nothing.
LEMMA QuietClient ==
    ASSUME Typed, Typed', PhaseInv, PhaseInv', CreditInv, NEW p \in Clients, StepOf(p),
           conn_request' = conn_request, unexp'[Server] = unexp[Server], rcvd' = rcvd,
           \A c \in Clients : net'[c][Server] = net[c][Server],
           Future(p)' = Future(p) \/ Future(p)' = 0
    PROVE  CreditInv'
  <1>1. Len(net[p][Server]) \in Nat /\ Future(p) \in Nat
    BY CountTypes
  <1>2. Len(net'[p][Server]) + Future(p)' <= Len(net[p][Server]) + Future(p)
    BY <1>1
  <1> QED
    BY <1>2, ClientCredit

\* A step of the server that takes nothing in.
LEMMA QuietServer ==
    ASSUME Typed, Typed', PhaseInv, PhaseInv', CreditInv, StepOf(Server), rcvd' = rcvd,
           \A c \in Clients : net'[c][Server] \in {net[c][Server], <<>>},
           Serving' \in {Serving, NoClient}, HasMsg' => HasMsg,
           am_data_desc'[Server].complete => am_data_desc[Server].complete,
           unexp'[Server] \in {unexp[Server], <<>>}, CleanStart'
    PROVE  CreditInv'
  <1>0. Server \in Procs /\ Server \notin Clients /\ opt' = opt /\ NoClient \notin Clients
    BY NamesAssumption DEF Procs, StepOf
  <1>1. Holds \in Nat /\ Holds' \in Nat /\ Holds' <= Holds
    <2>1. Len(unexp[Server]) \in Nat /\ Len(unexp'[Server]) \in Nat
      BY <1>0 DEF Typed, TypeOK
    <2>2. Len(unexp'[Server]) <= Len(unexp[Server])
      <3>1. CASE unexp'[Server] = unexp[Server]
        BY <2>1, <3>1
      <3>2. CASE unexp'[Server] = <<>>
        BY <2>1, <3>2
      <3> QED
        BY <3>1, <3>2
    <2>3. /\ One(HasMsg) \in Nat /\ One(HasMsg)' \in Nat
          /\ One(HasMsg)' <= One(HasMsg)
      BY DEF One
    <2>4. /\ One(am_data_desc[Server].complete) \in Nat
          /\ One(am_data_desc[Server].complete)' \in Nat
          /\ One(am_data_desc[Server].complete)' <= One(am_data_desc[Server].complete)
      BY DEF One
    <2> QED
      BY <2>1, <2>2, <2>3, <2>4 DEF Holds
  <1>2. ASSUME NEW c \in Clients
        PROVE  Credit(c)'
    <2>1. Credit(c) /\ Future(c)' = Future(c)
      BY <1>0, FutureKept DEF CreditInv
    <2>2. Len(rcvd[c]) \in Nat /\ Len(net[c][Server]) \in Nat /\ Len(net'[c][Server]) \in Nat
      BY CountTypes, CountTypesNext
    <2>3. Len(net'[c][Server]) <= Len(net[c][Server])
      <3>1. CASE net'[c][Server] = net[c][Server]
        BY <2>2, <3>1
      <3>2. CASE net'[c][Server] = <<>>
        BY <2>2, <3>2
      <3> QED
        BY <3>1, <3>2
    <2>4. Held(c) \in Nat /\ Held(c)' \in Nat /\ Held(c)' <= Held(c)
      BY <1>0, <1>1 DEF Held
    <2>5. Arrived(c) = Len(rcvd[c]) + Held(c) /\ Arrived(c)' = Len(rcvd[c]) + Held(c)'
      BY DEF Arrived
    <2>6. Arrived(c)' + Len(net'[c][Server]) <= Arrived(c) + Len(net[c][Server])
      <3>1. \A x, y \in Nat :
              x <= Held(c) /\ y <= Len(net[c][Server]) =>
                (Len(rcvd[c]) + x) + y <= (Len(rcvd[c]) + Held(c)) + Len(net[c][Server])
        BY <2>2, <2>4
      <3> QED
        BY <2>2, <2>3, <2>4, <2>5, <3>1
    <2> QED
      BY <1>0, <2>1, <2>6, CreditKept
  <1> QED
    BY <1>2 DEF CreditInv

\* The terms of Holds.
LEMMA HoldsTypes ==
    ASSUME Typed
    PROVE  /\ One(HasMsg) \in {0, 1} /\ One(am_data_desc[Server].complete) \in {0, 1}
           /\ unexp[Server] \in Seq(Message) /\ Len(unexp[Server]) \in Nat /\ Holds \in Nat
  <1>1. One(HasMsg) \in {0, 1} /\ One(am_data_desc[Server].complete) \in {0, 1}
    BY DEF One
  <1>2. unexp[Server] \in Seq(Message) /\ Len(unexp[Server]) \in Nat
    BY DEF Typed, TypeOK, Procs
  <1> QED
    BY <1>1, <1>2 DEF Holds

\* The same after a step.
LEMMA HoldsTypesNext ==
    ASSUME Typed'
    PROVE  /\ One(HasMsg)' \in {0, 1} /\ One(am_data_desc[Server].complete)' \in {0, 1}
           /\ unexp'[Server] \in Seq(Message) /\ Len(unexp'[Server]) \in Nat /\ Holds' \in Nat
  <1>1. One(HasMsg)' \in {0, 1} /\ One(am_data_desc[Server].complete)' \in {0, 1}
    BY DEF One
  <1>2. unexp'[Server] \in Seq(Message) /\ Len(unexp'[Server]) \in Nat
    BY DEF Typed, TypeOK, Procs
  <1> QED
    BY <1>1, <1>2 DEF Holds

\* Arithmetic of the count: a message moves from one term to the next.
LEMMA SumKept ==
    ASSUME NEW r \in Nat, NEW h \in Nat, NEW m \in Nat,
           NEW r2 \in Nat, NEW h2 \in Nat, NEW m2 \in Nat,
           \/ r2 = r /\ m2 = m /\ h2 <= h
           \/ r2 = r + 1 /\ m2 = m /\ h = h2 + 1
           \/ r2 = r /\ m = m2 + 1 /\ h2 <= h + 1
    PROVE  r2 + h2 + m2 <= r + h + m
  OBVIOUS

\* Arithmetic of what is held.
LEMMA HoldsKept ==
    ASSUME NEW a \in Nat, NEW b \in Nat, NEW u \in Nat,
           NEW a2 \in Nat, NEW b2 \in Nat, NEW u2 \in Nat,
           \/ b2 = b /\ a2 + u2 <= a + u
           \/ u2 = u /\ a2 + b2 <= a + b
    PROVE  a2 + b2 + u2 <= a + b + u
  OBVIOUS

\* The same when a message arrives.
LEMMA HoldsOneMore ==
    ASSUME NEW a \in Nat, NEW b \in Nat, NEW u \in Nat,
           NEW a2 \in Nat, NEW b2 \in Nat, NEW u2 \in Nat,
           \/ b2 = b /\ a2 + u2 <= a + u + 1
           \/ u2 = u /\ a2 + b2 <= a + b + 1
    PROVE  a2 + b2 + u2 <= a + b + u + 1
  OBVIOUS

\* AllocFails keeps the count.
LEMMA Credit_AllocFails ==
    ASSUME Typed, Typed', CountInv, PhaseInv, PhaseInv', EndpointInv, CreditInv,
           NEW p \in Procs, AllocFails(p)
    PROVE  CreditInv'
  <1>0. StepOf(p) /\ opt' = opt
    BY Step_AllocFails DEF StepOf
  <1>1. CASE p \in Clients
    <2>1. /\ conn_request' = conn_request /\ unexp'[Server] = unexp[Server] /\ rcvd' = rcvd
         /\ \A c \in Clients : net'[c][Server] = net[c][Server]
      BY <1>0, <1>1, NamesAssumption DEF Typed, TypeOK, Procs, Peer, AllocFails
    <2>2. Future(p)' = Future(p) \/ Future(p)' = 0
      BY <1>0, <1>1, NamesAssumption, OptFields DEF Typed, TypeOK, Procs, Future,
         PhaseInv, ClientPhase, AllocFails, Receiver, InFin
    <2> QED
      BY <1>0, <1>1, <2>1, <2>2, QuietClient
  <1>2. CASE p = Server
    <2>1. rcvd' = rcvd /\ \A c \in Clients : net'[c][Server] \in {net[c][Server], <<>>}
      BY <1>0, <1>2, NamesAssumption DEF Typed, TypeOK, Procs, Peer, AllocFails
    <2>2. Serving' \in {Serving, NoClient}
      BY <1>0, <1>2 DEF Typed, TypeOK, Procs, Serving, SessionPcs, AllocFails
    <2>3. HasMsg' => HasMsg
      BY <1>0, <1>2 DEF Typed, TypeOK, Procs, HasMsg, PhaseInv, RequestPhase, Receiver,
         InFin, RecvReqs, SendReqs, AllocFails
    <2>4. /\ am_data_desc'[Server].complete => am_data_desc[Server].complete
         /\ unexp'[Server] \in {unexp[Server], <<>>}
      BY <1>0, <1>2 DEF Typed, TypeOK, Procs, AllocFails
    <2>5. CleanStart'
      BY <1>0, <1>2, <2>4 DEF Typed, TypeOK, Procs, AllocFails, CreditInv, CleanStart,
         PhaseInv, RequestPhase
    <2> QED
      BY <1>0, <1>2, <2>1, <2>2, <2>3, <2>4, <2>5, QuietServer
  <1> QED
    BY <1>1, <1>2 DEF Procs

\* Send keeps the count.
LEMMA Credit_Send ==
    ASSUME Typed, Typed', CountInv, PhaseInv, PhaseInv', EndpointInv, CreditInv,
           NEW p \in Procs, Send(p)
    PROVE  CreditInv'
  <1>0. StepOf(p) /\ opt' = opt
    BY Step_Send DEF StepOf
  <1>1. CASE p \in Clients
    <2>1. iter[p] # opt.n /\ pc[p] = "comm" /\ pc'[p] = "wait" /\ iter' = iter
      BY <1>1, NamesAssumption DEF Typed, TypeOK, Procs, Send, Receiver, InFin
    <2>2. Future(p) = opt.n - iter[p] /\ Future(p)' = opt.n - iter[p] - 1
      BY <1>0, <2>1 DEF Future
    <2>3. /\ \A c \in Clients \ {p} : net'[c][Server] = net[c][Server]
          /\ net'[p][Server] \in {net[p][Server], Append(net[p][Server], CurrentMsg(p))}
      BY <1>1, NamesAssumption DEF Typed, TypeOK, Procs, Send, Peer
    <2>4. net[p][Server] \in Seq(Message) /\ CurrentMsg(p) \in Message
      BY <1>1, CurrentMsgType DEF Typed, TypeOK, Procs
    <2>5. \/ Len(net'[p][Server]) = Len(net[p][Server])
          \/ Len(net'[p][Server]) = Len(net[p][Server]) + 1
      BY <2>3, <2>4
    <2>6. Len(net[p][Server]) \in Nat /\ iter[p] \in Nat /\ opt.n \in Nat
      BY <1>1, CountTypes DEF Typed, TypeOK, Procs
    <2>7. Len(net'[p][Server]) + Future(p)' <= Len(net[p][Server]) + Future(p)
      BY <2>2, <2>5, <2>6
    <2>8. conn_request' = conn_request /\ unexp' = unexp /\ rcvd' = rcvd
      BY DEF Send
    <2> QED
      BY <1>0, <1>1, <2>3, <2>7, <2>8, ClientCredit
  <1>2. CASE p = Server
    <2>1. rcvd' = rcvd /\ \A c \in Clients : net'[c][Server] \in {net[c][Server], <<>>}
      BY <1>0, <1>2, NamesAssumption DEF Typed, TypeOK, Procs, Peer, Send, SendResults
    <2>2. Serving' \in {Serving, NoClient}
      BY <1>0, <1>2 DEF Typed, TypeOK, Procs, Serving, SessionPcs, Send, SendResults
    <2>3. HasMsg' => HasMsg
      BY <1>0, <1>2 DEF Typed, TypeOK, Procs, HasMsg, PhaseInv, RequestPhase, Receiver,
         InFin, RecvReqs, SendReqs, Send, SendResults
    <2>4. /\ am_data_desc'[Server].complete => am_data_desc[Server].complete
         /\ unexp'[Server] \in {unexp[Server], <<>>}
      BY <1>0, <1>2 DEF Typed, TypeOK, Procs, Send, SendResults
    <2>5. CleanStart'
      BY <1>0, <1>2, <2>4 DEF Typed, TypeOK, Procs, Send, SendResults, CreditInv,
         CleanStart, PhaseInv, RequestPhase
    <2> QED
      BY <1>0, <1>2, <2>1, <2>2, <2>3, <2>4, <2>5, QuietServer
  <1> QED
    BY <1>1, <1>2 DEF Procs

\* Recv keeps the count.
LEMMA Credit_Recv ==
    ASSUME Typed, Typed', CountInv, PhaseInv, PhaseInv', EndpointInv, CreditInv,
           NEW p \in Procs, Recv(p)
    PROVE  CreditInv'
  <1>0. StepOf(p) /\ opt' = opt
    BY Step_Recv DEF StepOf
  <1>1. CASE p \in Clients
    <2>1. /\ conn_request' = conn_request /\ unexp'[Server] = unexp[Server] /\ rcvd' = rcvd
         /\ \A c \in Clients : net'[c][Server] = net[c][Server]
      BY <1>0, <1>1, NamesAssumption DEF Typed, TypeOK, Procs, Peer, Recv
    <2>2. Future(p)' = Future(p) \/ Future(p)' = 0
      BY <1>0, <1>1, NamesAssumption, OptFields DEF Typed, TypeOK, Procs, Future,
         PhaseInv, ClientPhase, Recv, Receiver, InFin
    <2> QED
      BY <1>0, <1>1, <2>1, <2>2, QuietClient
  <1>2. CASE p = Server
    <2>0. \/ unexp'[Server] = unexp[Server] /\ req'[Server] \in {"recv", "err"}
          \/ /\ unexp[Server] # <<>> /\ unexp'[Server] = Tail(unexp[Server])
             /\ req'[Server] \in {"fetch", "ok"}
      BY <1>2 DEF Typed, TypeOK, Procs, Recv, RecvResults
    <2>1. /\ conn_request \in Clients /\ conn_request' = conn_request
          /\ Serving = conn_request /\ Serving' = conn_request
      BY <1>2 DEF Typed, TypeOK, SessionHasClient, Serving, SessionPcs, Procs, Recv
    <2>2. \A d \in Clients \ {conn_request} :
            rcvd'[d] = rcvd[d] /\ net'[d][Server] = net[d][Server]
      BY <1>2, <2>1, NamesAssumption DEF Typed, TypeOK, Procs, Peer, Recv
    <2>3. /\ Len(rcvd[conn_request]) \in Nat /\ Len(net[conn_request][Server]) \in Nat
          /\ Len(rcvd'[conn_request]) \in Nat /\ Len(net'[conn_request][Server]) \in Nat
      BY <2>1, CountTypes, CountTypesNext
    <2>4. rcvd' = rcvd /\ net' = net /\ am_data_desc' = am_data_desc /\ ~HasMsg
      BY <1>2 DEF Recv, HasMsg
    <2>5. One(am_data_desc[Server].complete)' = One(am_data_desc[Server].complete)
      BY <2>4 DEF One
    <2>6. One(HasMsg)' + Len(unexp'[Server]) <= One(HasMsg) + Len(unexp[Server])
      <3>0. One(HasMsg) = 0 /\ unexp[Server] \in Seq(Message) /\ Len(unexp[Server]) \in Nat
        BY <2>4, HoldsTypes DEF One
      <3>1. CASE req'[Server] \in {"recv", "err"}
        <4>1. ~HasMsg' /\ unexp'[Server] = unexp[Server]
          BY <2>0, <3>1 DEF HasMsg
        <4>2. One(HasMsg)' = 0
          BY <4>1 DEF One
        <4> QED
          BY <3>0, <4>1, <4>2
      <3>2. CASE req'[Server] \in {"fetch", "ok"}
        <4>1. Len(unexp'[Server]) + 1 = Len(unexp[Server])
          <5>1. unexp[Server] # <<>> /\ unexp'[Server] = Tail(unexp[Server])
            BY <2>0, <3>2
          <5> QED
            BY <3>0, <5>1
        <4>2. One(HasMsg)' \in {0, 1} /\ Len(unexp'[Server]) \in Nat
          BY HoldsTypesNext
        <4>3. \A x \in {0, 1}, y, z \in Nat : y + 1 = z => x + y <= 0 + z
          OBVIOUS
        <4> QED
          BY <3>0, <4>1, <4>2, <4>3
      <3> QED
        BY <2>0, <3>1, <3>2
    <2>7. /\ Holds \in Nat /\ Holds' \in Nat
          /\ Holds' <= Holds
      <3>1. /\ One(HasMsg) \in Nat /\ One(am_data_desc[Server].complete) \in Nat
            /\ Len(unexp[Server]) \in Nat /\ Holds \in Nat
        BY HoldsTypes
      <3>2. /\ One(HasMsg)' \in Nat /\ One(am_data_desc[Server].complete)' \in Nat
            /\ Len(unexp'[Server]) \in Nat /\ Holds' \in Nat
        BY HoldsTypesNext
      <3> QED
        BY <2>5, <2>6, <3>1, <3>2, HoldsKept DEF Holds
    <2>8. Len(rcvd'[conn_request]) + Holds' + Len(net'[conn_request][Server])
            <= Len(rcvd[conn_request]) + Holds + Len(net[conn_request][Server])
      BY <2>3, <2>4, <2>7, SumKept
    <2>9. CleanStart'
      <3>1. pc'[Server] = "wait" /\ opt.api # "am"
        BY <1>2 DEF Typed, TypeOK, Procs, Recv
      <3>2. req'[Server] = "recv" => unexp'[Server] = <<>>
        BY <1>2, <2>0 DEF Typed, TypeOK, Procs, Recv, RecvResults
      <3> QED
        BY <1>0, <3>1, <3>2 DEF CleanStart
    <2> QED
      BY <1>0, <1>2, <2>1, <2>2, <2>8, <2>9, ServerCredit
  <1> QED
    BY <1>1, <1>2 DEF Procs

\* AmRecv keeps the count.
LEMMA Credit_AmRecv ==
    ASSUME Typed, Typed', CountInv, PhaseInv, PhaseInv', EndpointInv, CreditInv,
           NEW p \in Procs, AmRecv(p)
    PROVE  CreditInv'
  <1>0. StepOf(p) /\ opt' = opt
    BY Step_AmRecv DEF StepOf
  <1>1. CASE p \in Clients
    <2>1. /\ conn_request' = conn_request /\ unexp'[Server] = unexp[Server] /\ rcvd' = rcvd
         /\ \A c \in Clients : net'[c][Server] = net[c][Server]
      BY <1>0, <1>1, NamesAssumption DEF Typed, TypeOK, Procs, Peer, AmRecv
    <2>2. Future(p)' = Future(p) \/ Future(p)' = 0
      BY <1>0, <1>1, NamesAssumption, OptFields DEF Typed, TypeOK, Procs, Future,
         PhaseInv, ClientPhase, AmRecv, Receiver, InFin
    <2> QED
      BY <1>0, <1>1, <2>1, <2>2, QuietClient
  <1>2. CASE p = Server
    <2>1. rcvd' = rcvd /\ \A c \in Clients : net'[c][Server] \in {net[c][Server], <<>>}
      BY <1>0, <1>2, NamesAssumption DEF Typed, TypeOK, Procs, Peer, AmRecv
    <2>2. Serving' \in {Serving, NoClient}
      BY <1>0, <1>2 DEF Typed, TypeOK, Procs, Serving, SessionPcs, AmRecv
    <2>3. HasMsg' => HasMsg
      BY <1>0, <1>2 DEF Typed, TypeOK, Procs, HasMsg, PhaseInv, RequestPhase, Receiver,
         InFin, RecvReqs, SendReqs, AmRecv
    <2>4. /\ am_data_desc'[Server].complete => am_data_desc[Server].complete
         /\ unexp'[Server] \in {unexp[Server], <<>>}
      BY <1>0, <1>2 DEF Typed, TypeOK, Procs, AmRecv
    <2>5. CleanStart'
      BY <1>0, <1>2, <2>4 DEF Typed, TypeOK, Procs, AmRecv, CreditInv, CleanStart,
         PhaseInv, RequestPhase
    <2> QED
      BY <1>0, <1>2, <2>1, <2>2, <2>3, <2>4, <2>5, QuietServer
  <1> QED
    BY <1>1, <1>2 DEF Procs

\* AmArrived keeps the count.
LEMMA Credit_AmArrived ==
    ASSUME Typed, Typed', CountInv, PhaseInv, PhaseInv', EndpointInv, CreditInv,
           NEW p \in Procs, AmArrived(p)
    PROVE  CreditInv'
  <1>0. StepOf(p) /\ opt' = opt
    BY Step_AmArrived DEF StepOf
  <1>1. CASE p \in Clients
    <2>1. /\ conn_request' = conn_request /\ unexp'[Server] = unexp[Server] /\ rcvd' = rcvd
         /\ \A c \in Clients : net'[c][Server] = net[c][Server]
      BY <1>0, <1>1, NamesAssumption DEF Typed, TypeOK, Procs, Peer, AmArrived
    <2>2. Future(p)' = Future(p) \/ Future(p)' = 0
      <3>1. pc[p] = "amwait" /\ pc'[p] = "wait" /\ iter' = iter /\ opt' = opt
        BY <1>1 DEF Typed, TypeOK, Procs, AmArrived
      <3>2. iter[p] = opt.n
        BY <1>1, <3>1, NamesAssumption DEF PhaseInv, AmPhase, Receiver, InFin
      <3> QED
        BY <3>1, <3>2 DEF Future
    <2> QED
      BY <1>0, <1>1, <2>1, <2>2, QuietClient
  <1>2. CASE p = Server
    <2>0. am_data_desc[Server].complete /\ ~am_data_desc'[Server].complete /\ ~HasMsg
      BY <1>2 DEF Typed, TypeOK, Procs, AmDesc, AmArrived, LoopDone, Taken, HasMsg
    <2>1. /\ conn_request \in Clients /\ conn_request' = conn_request
          /\ Serving = conn_request /\ Serving' = conn_request
      BY <1>2 DEF Typed, TypeOK, SessionHasClient, Serving, SessionPcs, Procs, AmArrived
    <2>2. \A d \in Clients \ {conn_request} :
            rcvd'[d] = rcvd[d] /\ net'[d][Server] = net[d][Server]
      BY <1>2, <2>1, NamesAssumption DEF Typed, TypeOK, Procs, Peer, AmArrived
    <2>3. /\ Len(rcvd[conn_request]) \in Nat /\ Len(net[conn_request][Server]) \in Nat
          /\ Len(rcvd'[conn_request]) \in Nat /\ Len(net'[conn_request][Server]) \in Nat
      BY <2>1, CountTypes, CountTypesNext
    <2>4. rcvd' = rcvd /\ net' = net /\ unexp' = unexp
      BY DEF AmArrived
    <2>5. Len(unexp'[Server]) = Len(unexp[Server])
      BY <2>4
    <2>6. One(HasMsg)' + One(am_data_desc[Server].complete)'
            <= One(HasMsg) + One(am_data_desc[Server].complete)
      <3>1. /\ One(HasMsg) = 0 /\ One(am_data_desc[Server].complete) = 1
            /\ One(am_data_desc[Server].complete)' = 0 /\ One(HasMsg)' \in {0, 1}
        BY <2>0 DEF One
      <3> QED
        BY <3>1
    <2>7. /\ Holds \in Nat /\ Holds' \in Nat
          /\ Holds' <= Holds
      <3>1. /\ One(HasMsg) \in Nat /\ One(am_data_desc[Server].complete) \in Nat
            /\ Len(unexp[Server]) \in Nat /\ Holds \in Nat
        BY HoldsTypes
      <3>2. /\ One(HasMsg)' \in Nat /\ One(am_data_desc[Server].complete)' \in Nat
            /\ Len(unexp'[Server]) \in Nat /\ Holds' \in Nat
        BY HoldsTypesNext
      <3> QED
        BY <2>5, <2>6, <3>1, <3>2, HoldsKept DEF Holds
    <2>8. Len(rcvd'[conn_request]) + Holds' + Len(net'[conn_request][Server])
            <= Len(rcvd[conn_request]) + Holds + Len(net[conn_request][Server])
      BY <2>3, <2>4, <2>7, SumKept
    <2>9. CleanStart'
      <3>1. pc'[Server] = "wait" /\ req'[Server] # "recv" /\ unexp' = unexp
        BY <1>2 DEF Typed, TypeOK, Procs, AmArrived
      <3> QED
        BY <1>0, <3>1 DEF CreditInv, CleanStart
    <2> QED
      BY <1>0, <1>2, <2>1, <2>2, <2>8, <2>9, ServerCredit
  <1> QED
    BY <1>1, <1>2 DEF Procs

\* FinalizeError keeps the count.
LEMMA Credit_FinalizeError ==
    ASSUME Typed, Typed', CountInv, PhaseInv, PhaseInv', EndpointInv, CreditInv,
           NEW p \in Procs, FinalizeError(p)
    PROVE  CreditInv'
  <1>0. StepOf(p) /\ opt' = opt
    BY Step_FinalizeError DEF StepOf
  <1>1. CASE p \in Clients
    <2>1. /\ conn_request' = conn_request /\ unexp'[Server] = unexp[Server] /\ rcvd' = rcvd
         /\ \A c \in Clients : net'[c][Server] = net[c][Server]
      BY <1>0, <1>1, NamesAssumption DEF Typed, TypeOK, Procs, Peer, FinalizeError
    <2>2. Future(p)' = Future(p) \/ Future(p)' = 0
      BY <1>0, <1>1, NamesAssumption, OptFields DEF Typed, TypeOK, Procs, Future,
         PhaseInv, ClientPhase, FinalizeError, Receiver, InFin
    <2> QED
      BY <1>0, <1>1, <2>1, <2>2, QuietClient
  <1>2. CASE p = Server
    <2>1. rcvd' = rcvd /\ \A c \in Clients : net'[c][Server] \in {net[c][Server], <<>>}
      BY <1>0, <1>2, NamesAssumption DEF Typed, TypeOK, Procs, Peer, FinalizeError
    <2>2. Serving' \in {Serving, NoClient}
      BY <1>0, <1>2 DEF Typed, TypeOK, Procs, Serving, SessionPcs, FinalizeError
    <2>3. HasMsg' => HasMsg
      BY <1>0, <1>2 DEF Typed, TypeOK, Procs, HasMsg, PhaseInv, RequestPhase, Receiver,
         InFin, RecvReqs, SendReqs, FinalizeError, FreeIov
    <2>4. /\ am_data_desc'[Server].complete => am_data_desc[Server].complete
         /\ unexp'[Server] \in {unexp[Server], <<>>}
      BY <1>0, <1>2 DEF Typed, TypeOK, Procs, FinalizeError, FreeIov
    <2>5. CleanStart'
      BY <1>0, <1>2, <2>4 DEF Typed, TypeOK, Procs, FinalizeError, CreditInv,
         CleanStart, PhaseInv, RequestPhase
    <2> QED
      BY <1>0, <1>2, <2>1, <2>2, <2>3, <2>4, <2>5, QuietServer
  <1> QED
    BY <1>1, <1>2 DEF Procs

\* FinalizeData keeps the count.
LEMMA Credit_FinalizeData ==
    ASSUME Typed, Typed', CountInv, PhaseInv, PhaseInv', EndpointInv, CreditInv,
           NEW p \in Procs, FinalizeData(p)
    PROVE  CreditInv'
  <1>0. StepOf(p) /\ opt' = opt
    BY Step_FinalizeData DEF StepOf
  <1>1. CASE p \in Clients
    <2>1. /\ conn_request' = conn_request /\ unexp'[Server] = unexp[Server] /\ rcvd' = rcvd
         /\ \A c \in Clients : net'[c][Server] = net[c][Server]
      BY <1>0, <1>1, NamesAssumption DEF Typed, TypeOK, Procs, Peer, FinalizeData
    <2>2. Future(p)' = Future(p) \/ Future(p)' = 0
      BY <1>0, <1>1, NamesAssumption, OptFields DEF Typed, TypeOK, Procs, Future,
         PhaseInv, ClientPhase, FinalizeData, AfterIter, Receiver, InFin
    <2> QED
      BY <1>0, <1>1, <2>1, <2>2, QuietClient
  <1>2. CASE p = Server
    <2>0. HasMsg /\ ~HasMsg' /\ pc'[Server] = "comm" /\ req'[Server] = "none"
      BY <1>2 DEF Typed, TypeOK, Procs, FinalizeData, HasMsg, InFin, AfterIter
    <2>1. /\ conn_request \in Clients /\ conn_request' = conn_request
          /\ Serving = conn_request /\ Serving' = conn_request
      BY <1>2 DEF Typed, TypeOK, SessionHasClient, Serving, SessionPcs, Procs, FinalizeData, AfterIter
    <2>2. \A d \in Clients \ {conn_request} :
            rcvd'[d] = rcvd[d] /\ net'[d][Server] = net[d][Server]
      BY <1>2, <2>1, NamesAssumption DEF Typed, TypeOK, Procs, Peer, FinalizeData
    <2>3. /\ Len(rcvd[conn_request]) \in Nat /\ Len(net[conn_request][Server]) \in Nat
          /\ Len(rcvd'[conn_request]) \in Nat /\ Len(net'[conn_request][Server]) \in Nat
      BY <2>1, CountTypes, CountTypesNext
    <2>4. /\ net' = net /\ unexp' = unexp
          /\ am_data_desc'[Server].complete = am_data_desc[Server].complete
      BY <1>2 DEF Typed, TypeOK, Procs, FinalizeData, FreeIov
    <2>5. Len(rcvd'[conn_request]) = Len(rcvd[conn_request]) + 1
      <3>1. /\ rcvd'[conn_request] = Append(rcvd[conn_request], buf[Server])
            /\ rcvd[conn_request] \in Seq(Message) /\ buf[Server] \in Message
        BY <1>2, <2>1 DEF Typed, TypeOK, Procs, FinalizeData
      <3> QED
        BY <3>1
    <2>6. One(HasMsg) = 1 /\ One(HasMsg)' = 0
      BY <2>0 DEF One
    <2>7. /\ Holds \in Nat /\ Holds' \in Nat
          /\ Holds = Holds' + 1
      <3>1. One(am_data_desc[Server].complete)' = One(am_data_desc[Server].complete)
        BY <2>4 DEF One
      <3>2. /\ One(am_data_desc[Server].complete) \in Nat /\ Len(unexp[Server]) \in Nat
            /\ Holds \in Nat /\ Holds' \in Nat
        BY HoldsTypes, HoldsTypesNext
      <3>3. \A b, u \in Nat : 1 + b + u = (0 + b + u) + 1
        OBVIOUS
      <3> QED
        BY <2>4, <2>6, <3>1, <3>2, <3>3 DEF Holds
    <2>8. Len(rcvd'[conn_request]) + Holds' + Len(net'[conn_request][Server])
            <= Len(rcvd[conn_request]) + Holds + Len(net[conn_request][Server])
      BY <2>3, <2>4, <2>5, <2>7, SumKept
    <2>9. CleanStart'
      BY <1>0, <2>0, <2>4 DEF CreditInv, CleanStart
    <2> QED
      BY <1>0, <1>2, <2>1, <2>2, <2>8, <2>9, ServerCredit
  <1> QED
    BY <1>1, <1>2 DEF Procs

\* FinalizeFin keeps the count.
LEMMA Credit_FinalizeFin ==
    ASSUME Typed, Typed', CountInv, PhaseInv, PhaseInv', EndpointInv, CreditInv,
           NEW p \in Procs, FinalizeFin(p)
    PROVE  CreditInv'
  <1>0. StepOf(p) /\ opt' = opt
    BY Step_FinalizeFin DEF StepOf
  <1>1. CASE p \in Clients
    <2>1. /\ conn_request' = conn_request /\ unexp'[Server] = unexp[Server] /\ rcvd' = rcvd
         /\ \A c \in Clients : net'[c][Server] = net[c][Server]
      BY <1>0, <1>1, NamesAssumption DEF Typed, TypeOK, Procs, Peer, FinalizeFin
    <2>2. Future(p)' = Future(p) \/ Future(p)' = 0
      BY <1>0, <1>1, NamesAssumption, OptFields DEF Typed, TypeOK, Procs, Future,
         PhaseInv, ClientPhase, FinalizeFin, Receiver, InFin
    <2> QED
      BY <1>0, <1>1, <2>1, <2>2, QuietClient
  <1>2. CASE p = Server
    <2>1. rcvd' = rcvd /\ \A c \in Clients : net'[c][Server] \in {net[c][Server], <<>>}
      BY <1>0, <1>2, NamesAssumption DEF Typed, TypeOK, Procs, Peer, FinalizeFin
    <2>2. Serving' \in {Serving, NoClient}
      BY <1>0, <1>2 DEF Typed, TypeOK, Procs, Serving, SessionPcs, FinalizeFin
    <2>3. HasMsg' => HasMsg
      BY <1>0, <1>2 DEF Typed, TypeOK, Procs, HasMsg, PhaseInv, RequestPhase, Receiver,
         InFin, RecvReqs, SendReqs, FinalizeFin, FreeIov
    <2>4. /\ am_data_desc'[Server].complete => am_data_desc[Server].complete
         /\ unexp'[Server] \in {unexp[Server], <<>>}
      BY <1>0, <1>2 DEF Typed, TypeOK, Procs, FinalizeFin, FreeIov
    <2>5. CleanStart'
      BY <1>0, <1>2, <2>4 DEF Typed, TypeOK, Procs, FinalizeFin, CreditInv, CleanStart,
         PhaseInv, RequestPhase
    <2> QED
      BY <1>0, <1>2, <2>1, <2>2, <2>3, <2>4, <2>5, QuietServer
  <1> QED
    BY <1>1, <1>2 DEF Procs

\* SendCb keeps the count.
LEMMA Credit_SendCb ==
    ASSUME Typed, Typed', CountInv, PhaseInv, PhaseInv', EndpointInv, CreditInv,
           NEW p \in Procs, SendCb(p)
    PROVE  CreditInv'
  <1>0. StepOf(p) /\ opt' = opt
    BY Step_SendCb DEF StepOf
  <1>1. CASE p \in Clients
    <2>1. /\ conn_request' = conn_request /\ unexp'[Server] = unexp[Server] /\ rcvd' = rcvd
         /\ \A c \in Clients : net'[c][Server] = net[c][Server]
      BY <1>0, <1>1, NamesAssumption DEF Typed, TypeOK, Procs, Peer, SendCb, InDataLoop,
         DataLoops
    <2>2. Future(p)' = Future(p) \/ Future(p)' = 0
      BY <1>0, <1>1, NamesAssumption, OptFields DEF Typed, TypeOK, Procs, Future,
         PhaseInv, ClientPhase, SendCb, InDataLoop, DataLoops, Receiver, InFin
    <2> QED
      BY <1>0, <1>1, <2>1, <2>2, QuietClient
  <1>2. CASE p = Server
    <2>1. rcvd' = rcvd /\ \A c \in Clients : net'[c][Server] \in {net[c][Server], <<>>}
      BY <1>0, <1>2, NamesAssumption DEF Typed, TypeOK, Procs, Peer, SendCb, InDataLoop,
         DataLoops
    <2>2. Serving' \in {Serving, NoClient}
      BY <1>0, <1>2 DEF Typed, TypeOK, Procs, Serving, SessionPcs, SendCb, InDataLoop,
         DataLoops
    <2>3. HasMsg' => HasMsg
      <3>1. pc' = pc /\ iter' = iter
        BY DEF SendCb
      <3>2. req[Server] \in {"send", "sent", "nak"}
        BY <1>2 DEF SendCb
      <3>3. pc[Server] = "wait" => iter[Server] = opt.n
        BY <3>2 DEF PhaseInv, RequestPhase, Receiver, InFin, RecvReqs, Procs
      <3> QED
        BY <1>0, <3>1, <3>3 DEF HasMsg
    <2>4. /\ am_data_desc'[Server].complete => am_data_desc[Server].complete
         /\ unexp'[Server] \in {unexp[Server], <<>>}
      BY <1>0, <1>2 DEF Typed, TypeOK, Procs, SendCb, InDataLoop, DataLoops
    <2>5. CleanStart'
      BY <1>0, <1>2, <2>4 DEF Typed, TypeOK, Procs, SendCb, InDataLoop, DataLoops,
         CreditInv, CleanStart, PhaseInv, RequestPhase
    <2> QED
      BY <1>0, <1>2, <2>1, <2>2, <2>3, <2>4, <2>5, QuietServer
  <1> QED
    BY <1>1, <1>2 DEF Procs

\* FetchCb keeps the count.
LEMMA Credit_FetchCb ==
    ASSUME Typed, Typed', CountInv, PhaseInv, PhaseInv', EndpointInv, CreditInv,
           NEW p \in Procs, FetchCb(p)
    PROVE  CreditInv'
  <1>0. StepOf(p) /\ opt' = opt
    BY Step_FetchCb DEF StepOf
  <1>1. CASE p \in Clients
    <2>1. /\ conn_request' = conn_request /\ unexp'[Server] = unexp[Server] /\ rcvd' = rcvd
         /\ \A c \in Clients : net'[c][Server] = net[c][Server]
      BY <1>0, <1>1, NamesAssumption DEF Typed, TypeOK, Procs, Peer, FetchCb,
         InDataLoop, DataLoops
    <2>2. Future(p)' = Future(p) \/ Future(p)' = 0
      BY <1>0, <1>1, NamesAssumption, OptFields DEF Typed, TypeOK, Procs, Future,
         PhaseInv, ClientPhase, FetchCb, InDataLoop, DataLoops, Receiver, InFin
    <2> QED
      BY <1>0, <1>1, <2>1, <2>2, QuietClient
  <1>2. CASE p = Server
    <2>1. rcvd' = rcvd /\ \A c \in Clients : net'[c][Server] \in {net[c][Server], <<>>}
      BY <1>0, <1>2, NamesAssumption DEF Typed, TypeOK, Procs, Peer, FetchCb,
         InDataLoop, DataLoops
    <2>2. Serving' \in {Serving, NoClient}
      BY <1>0, <1>2 DEF Typed, TypeOK, Procs, Serving, SessionPcs, FetchCb, InDataLoop,
         DataLoops
    <2>3. HasMsg' => HasMsg
      BY <1>0, <1>2 DEF Typed, TypeOK, Procs, HasMsg, PhaseInv, RequestPhase, Receiver,
         InFin, RecvReqs, SendReqs, FetchCb, InDataLoop, DataLoops, Confirm
    <2>4. /\ am_data_desc'[Server].complete => am_data_desc[Server].complete
         /\ unexp'[Server] \in {unexp[Server], <<>>}
      BY <1>0, <1>2 DEF Typed, TypeOK, Procs, FetchCb, InDataLoop, DataLoops
    <2>5. CleanStart'
      BY <1>0, <1>2, <2>4 DEF Typed, TypeOK, Procs, FetchCb, InDataLoop, DataLoops,
         Confirm, CreditInv, CleanStart, PhaseInv, RequestPhase
    <2> QED
      BY <1>0, <1>2, <2>1, <2>2, <2>3, <2>4, <2>5, QuietServer
  <1> QED
    BY <1>1, <1>2 DEF Procs

\* RecvCb keeps the count.
LEMMA Credit_RecvCb ==
    ASSUME Typed, Typed', CountInv, PhaseInv, PhaseInv', EndpointInv, CreditInv,
           NEW p \in Procs, RecvCb(p)
    PROVE  CreditInv'
  <1>0. StepOf(p) /\ opt' = opt
    BY Step_RecvCb DEF StepOf
  <1>1. CASE p \in Clients
    <2>1. /\ conn_request' = conn_request /\ unexp'[Server] = unexp[Server] /\ rcvd' = rcvd
         /\ \A c \in Clients : net'[c][Server] = net[c][Server]
      BY <1>0, <1>1, NamesAssumption DEF Typed, TypeOK, Procs, Peer, RecvCb, InDataLoop,
         DataLoops, In
    <2>2. Future(p)' = Future(p) \/ Future(p)' = 0
      BY <1>0, <1>1, NamesAssumption, OptFields DEF Typed, TypeOK, Procs, Future,
         PhaseInv, ClientPhase, RecvCb, InDataLoop, DataLoops, In, Receiver, InFin
    <2> QED
      BY <1>0, <1>1, <2>1, <2>2, QuietClient
  <1>2. CASE p = Server
    <2>0. /\ opt.api # "am" /\ pc' = pc /\ iter' = iter /\ am_data_desc' = am_data_desc
          /\ pc[Server] \in {"wait", "drain", "close"} /\ ReqAfterArrival(Server)
          /\ \/ req[Server] = "recv" /\ unexp' = unexp
             \/ /\ req[Server] # "recv"
                /\ unexp'[Server] = Append(unexp[Server], Head(In(Server)))
      BY <1>2, ReqAfter_RecvCb DEF Typed, TypeOK, Procs, RecvCb, InDataLoop, DataLoops, PhaseInv,
         AmPhase
    <2>1. /\ conn_request \in Clients /\ conn_request' = conn_request
          /\ Serving = conn_request /\ Serving' = conn_request
      BY <1>2 DEF Typed, TypeOK, SessionHasClient, Serving, SessionPcs, Procs, RecvCb, InDataLoop, DataLoops
    <2>2. \A d \in Clients \ {conn_request} :
            rcvd'[d] = rcvd[d] /\ net'[d][Server] = net[d][Server]
      BY <1>2, <2>1, NamesAssumption DEF Typed, TypeOK, Procs, Peer, RecvCb
    <2>3. /\ Len(rcvd[conn_request]) \in Nat /\ Len(net[conn_request][Server]) \in Nat
          /\ Len(rcvd'[conn_request]) \in Nat /\ Len(net'[conn_request][Server]) \in Nat
      BY <2>1, CountTypes, CountTypesNext
    <2>4. /\ net[conn_request][Server] \in Seq(Message) /\ net[conn_request][Server] # <<>>
          /\ net'[conn_request][Server] = Tail(net[conn_request][Server]) /\ rcvd' = rcvd
      BY <1>2, <2>1, NamesAssumption DEF Typed, TypeOK, Procs, Peer, In, RecvCb
    <2>5. Len(net'[conn_request][Server]) + 1 = Len(net[conn_request][Server])
      BY <2>4
    <2>6. One(HasMsg)' + Len(unexp'[Server]) <= One(HasMsg) + Len(unexp[Server]) + 1
      <3>0. /\ One(HasMsg) \in {0, 1} /\ One(HasMsg)' \in {0, 1}
            /\ unexp[Server] \in Seq(Message) /\ Len(unexp[Server]) \in Nat
        BY HoldsTypes, HoldsTypesNext
      <3>1. CASE req[Server] = "recv"
        <4>1. unexp' = unexp
          BY <2>0, <3>1
        <4>2. \A x, y \in {0, 1}, z \in Nat : x + z <= y + z + 1
          OBVIOUS
        <4> QED
          BY <3>0, <4>1, <4>2
      <3>2. CASE req[Server] # "recv"
        <4>1. HasMsg' <=> HasMsg
          BY <1>0, <2>0, <3>2 DEF HasMsg, ReqAfterArrival, Procs
        <4>2. One(HasMsg)' = One(HasMsg)
          BY <4>1 DEF One
        <4>3. Head(In(Server)) \in Message
          BY <2>1, <2>4, NamesAssumption DEF Typed, TypeOK, Procs, In, Peer
        <4>4. Len(unexp'[Server]) = Len(unexp[Server]) + 1
          BY <2>0, <3>0, <3>2, <4>3
        <4>5. \A x \in {0, 1}, z \in Nat : x + (z + 1) <= x + z + 1
          OBVIOUS
        <4> QED
          BY <3>0, <4>2, <4>4, <4>5
      <3> QED
        BY <3>1, <3>2
    <2>7. /\ Holds \in Nat /\ Holds' \in Nat
          /\ Holds' <= Holds + 1
      <3>0. One(am_data_desc[Server].complete)' = One(am_data_desc[Server].complete)
        BY <2>0 DEF One
      <3>1. /\ One(HasMsg) \in Nat /\ One(am_data_desc[Server].complete) \in Nat
            /\ Len(unexp[Server]) \in Nat /\ Holds \in Nat
        BY HoldsTypes
      <3>2. /\ One(HasMsg)' \in Nat /\ One(am_data_desc[Server].complete)' \in Nat
            /\ Len(unexp'[Server]) \in Nat /\ Holds' \in Nat
        BY HoldsTypesNext
      <3> QED
        BY <2>5, <2>6, <3>1, <3>2, <3>0, HoldsOneMore DEF Holds
    <2>8. Len(rcvd'[conn_request]) + Holds' + Len(net'[conn_request][Server])
            <= Len(rcvd[conn_request]) + Holds + Len(net[conn_request][Server])
      BY <2>3, <2>4, <2>5, <2>7, SumKept
    <2>9. CleanStart'
      BY <1>0, <2>0 DEF CreditInv, CleanStart, ReqAfterArrival, Procs
    <2> QED
      BY <1>0, <1>2, <2>1, <2>2, <2>8, <2>9, ServerCredit
  <1> QED
    BY <1>1, <1>2 DEF Procs

\* AmDropped keeps the count.
LEMMA Credit_AmDropped ==
    ASSUME Typed, Typed', CountInv, PhaseInv, PhaseInv', EndpointInv, CreditInv,
           NEW p \in Procs, AmDropped(p)
    PROVE  CreditInv'
  <1>0. StepOf(p) /\ opt' = opt
    BY Step_AmDropped DEF StepOf
  <1>1. CASE p \in Clients
    <2>1. /\ conn_request' = conn_request /\ unexp'[Server] = unexp[Server] /\ rcvd' = rcvd
         /\ \A c \in Clients : net'[c][Server] = net[c][Server]
      BY <1>0, <1>1, NamesAssumption DEF Typed, TypeOK, Procs, Peer, AmDropped,
         InDataLoop, DataLoops, In
    <2>2. Future(p)' = Future(p) \/ Future(p)' = 0
      BY <1>0, <1>1, NamesAssumption, OptFields DEF Typed, TypeOK, Procs, Future,
         PhaseInv, ClientPhase, AmDropped, InDataLoop, DataLoops, In, Receiver, InFin
    <2> QED
      BY <1>0, <1>1, <2>1, <2>2, QuietClient
  <1>2. CASE p = Server
    <2>1. handler[Server] /\ ~handler[Server]
      BY <1>2 DEF AmDropped, InDataLoop, DataLoops, SessionPcs, PhaseInv, ServerPhase
    <2> QED
      BY <2>1
  <1> QED
    BY <1>1, <1>2 DEF Procs

\* ucp_am_data_cb keeps the count.
LEMMA Credit_ucp_am_data_cb ==
    ASSUME Typed, Typed', CountInv, PhaseInv, PhaseInv', EndpointInv, CreditInv,
           NEW p \in Procs, ucp_am_data_cb(p)
    PROVE  CreditInv'
  <1>0. StepOf(p) /\ opt' = opt
    BY Step_ucp_am_data_cb DEF StepOf
  <1>1. CASE p \in Clients
    <2>1. /\ conn_request' = conn_request /\ unexp'[Server] = unexp[Server] /\ rcvd' = rcvd
         /\ \A c \in Clients : net'[c][Server] = net[c][Server]
      BY <1>0, <1>1, NamesAssumption DEF Typed, TypeOK, Procs, Peer, ucp_am_data_cb, AmDispatched,
         InDataLoop, DataLoops, In
    <2>2. Future(p)' = Future(p) \/ Future(p)' = 0
      BY <1>0, <1>1, NamesAssumption, OptFields DEF Typed, TypeOK, Procs, Future,
         PhaseInv, ClientPhase, ucp_am_data_cb, AmDispatched, InDataLoop, DataLoops, In, Receiver,
         InFin
    <2> QED
      BY <1>0, <1>1, <2>1, <2>2, QuietClient
  <1>2. CASE p = Server
    <2>0. /\ opt.api = "am" /\ pc' = pc /\ iter' = iter /\ unexp' = unexp
          /\ ReqAfterArrival(Server) /\ pc[Server] # "accept" /\ pc[Server] # "init"
          /\ req[Server] # "recv"
      BY <1>2, ReqAfter_ucp_am_data_cb, NamesAssumption DEF Typed, TypeOK, Procs,
         ucp_am_data_cb, AmDispatched, InDataLoop, DataLoops, PhaseInv, AmPhase, RequestPhase, SendReqs
    <2>1. /\ conn_request \in Clients /\ conn_request' = conn_request
          /\ Serving = conn_request /\ Serving' = conn_request
      BY <1>2 DEF Typed, TypeOK, SessionHasClient, Serving, SessionPcs, Procs, ucp_am_data_cb, AmDispatched, InDataLoop, DataLoops
    <2>2. \A d \in Clients \ {conn_request} :
            rcvd'[d] = rcvd[d] /\ net'[d][Server] = net[d][Server]
      BY <1>2, <2>1, NamesAssumption DEF Typed, TypeOK, Procs, Peer, ucp_am_data_cb, AmDispatched
    <2>3. /\ Len(rcvd[conn_request]) \in Nat /\ Len(net[conn_request][Server]) \in Nat
          /\ Len(rcvd'[conn_request]) \in Nat /\ Len(net'[conn_request][Server]) \in Nat
      BY <2>1, CountTypes, CountTypesNext
    <2>4. /\ net[conn_request][Server] \in Seq(Message) /\ net[conn_request][Server] # <<>>
          /\ net'[conn_request][Server] = Tail(net[conn_request][Server]) /\ rcvd' = rcvd
      BY <1>2, <2>1, NamesAssumption DEF Typed, TypeOK, Procs, Peer, In, ucp_am_data_cb, AmDispatched
    <2>5. Len(net'[conn_request][Server]) + 1 = Len(net[conn_request][Server])
      BY <2>4
    <2>6. One(HasMsg)' = One(HasMsg)
      <3>1. HasMsg' <=> HasMsg
        BY <1>0, <2>0 DEF HasMsg, ReqAfterArrival, Procs
      <3> QED
        BY <3>1 DEF One
    <2>7. /\ Holds \in Nat /\ Holds' \in Nat
          /\ Holds' <= Holds + 1
      <3>0. /\ Len(unexp'[Server]) = Len(unexp[Server])
            /\ One(HasMsg)' + One(am_data_desc[Server].complete)'
                 <= One(HasMsg) + One(am_data_desc[Server].complete) + 1
        <4>1. /\ One(HasMsg) \in {0, 1} /\ One(am_data_desc[Server].complete) \in {0, 1}
              /\ One(am_data_desc[Server].complete)' \in {0, 1}
          BY HoldsTypes, HoldsTypesNext
        <4>2. \A x, y, z \in {0, 1} : x + y <= x + z + 1
          OBVIOUS
        <4> QED
          BY <2>0, <2>6, <4>1, <4>2
      <3>1. /\ One(HasMsg) \in Nat /\ One(am_data_desc[Server].complete) \in Nat
            /\ Len(unexp[Server]) \in Nat /\ Holds \in Nat
        BY HoldsTypes
      <3>2. /\ One(HasMsg)' \in Nat /\ One(am_data_desc[Server].complete)' \in Nat
            /\ Len(unexp'[Server]) \in Nat /\ Holds' \in Nat
        BY HoldsTypesNext
      <3> QED
        BY <2>5, <2>6, <3>1, <3>2, <3>0, HoldsOneMore DEF Holds
    <2>8. Len(rcvd'[conn_request]) + Holds' + Len(net'[conn_request][Server])
            <= Len(rcvd[conn_request]) + Holds + Len(net[conn_request][Server])
      BY <2>3, <2>4, <2>5, <2>7, SumKept
    <2>9. CleanStart'
      BY <1>0, <2>0 DEF CreditInv, CleanStart, ReqAfterArrival, Procs
    <2> QED
      BY <1>0, <1>2, <2>1, <2>2, <2>8, <2>9, ServerCredit
  <1> QED
    BY <1>1, <1>2 DEF Procs

\* err_cb keeps the count.
LEMMA Credit_err_cb ==
    ASSUME Typed, Typed', CountInv, PhaseInv, PhaseInv', EndpointInv, CreditInv,
           NEW p \in Procs, err_cb(p)
    PROVE  CreditInv'
  <1>0. StepOf(p) /\ opt' = opt
    BY Step_err_cb DEF StepOf
  <1>1. CASE p \in Clients
    <2>1. /\ conn_request' = conn_request /\ unexp'[Server] = unexp[Server] /\ rcvd' = rcvd
         /\ \A c \in Clients : net'[c][Server] = net[c][Server]
      BY <1>0, <1>1, NamesAssumption DEF Typed, TypeOK, Procs, Peer, err_cb, InDataLoop,
         DataLoops
    <2>2. Future(p)' = Future(p) \/ Future(p)' = 0
      BY <1>0, <1>1, NamesAssumption, OptFields DEF Typed, TypeOK, Procs, Future,
         PhaseInv, ClientPhase, err_cb, InDataLoop, DataLoops, Receiver, InFin
    <2> QED
      BY <1>0, <1>1, <2>1, <2>2, QuietClient
  <1>2. CASE p = Server
    <2>1. rcvd' = rcvd /\ \A c \in Clients : net'[c][Server] \in {net[c][Server], <<>>}
      BY <1>0, <1>2, NamesAssumption DEF Typed, TypeOK, Procs, Peer, err_cb, InDataLoop,
         DataLoops
    <2>2. Serving' \in {Serving, NoClient}
      BY <1>0, <1>2 DEF Typed, TypeOK, Procs, Serving, SessionPcs, err_cb, InDataLoop,
         DataLoops
    <2>3. HasMsg' => HasMsg
      <3>1. /\ pc' = pc /\ iter' = iter /\ opt' = opt
            /\ req'[Server] = FailedReq(req[Server])
        BY <1>2 DEF Typed, TypeOK, Procs, err_cb
      <3>2. pc[Server] = "wait" /\ iter[Server] # opt.n => req[Server] \in RecvReqs
        BY DEF PhaseInv, RequestPhase, Receiver, InFin, Procs
      <3> QED
        BY <3>1, <3>2 DEF HasMsg, FailedReq, RecvReqs
    <2>4. /\ am_data_desc'[Server].complete => am_data_desc[Server].complete
         /\ unexp'[Server] \in {unexp[Server], <<>>}
      BY <1>0, <1>2 DEF Typed, TypeOK, Procs, err_cb, InDataLoop, DataLoops
    <2>5. CleanStart'
      BY <1>0, <1>2, <2>4 DEF Typed, TypeOK, Procs, err_cb, InDataLoop, DataLoops,
         FailedReq, CreditInv, CleanStart, PhaseInv, RequestPhase
    <2> QED
      BY <1>0, <1>2, <2>1, <2>2, <2>3, <2>4, <2>5, QuietServer
  <1> QED
    BY <1>1, <1>2 DEF Procs

\* Progress keeps the count.
LEMMA Credit_Progress ==
    ASSUME Typed, Typed', CountInv, PhaseInv, PhaseInv', EndpointInv, CreditInv,
           NEW p \in Procs, Progress(p)
    PROVE  CreditInv'
  <1>0. StepOf(p) /\ opt' = opt
    BY Step_Progress DEF StepOf
  <1>1. CASE p \in Clients
    <2>1. /\ conn_request' = conn_request /\ unexp'[Server] = unexp[Server] /\ rcvd' = rcvd
         /\ \A c \in Clients : net'[c][Server] = net[c][Server]
      BY <1>0, <1>1, NamesAssumption DEF Typed, TypeOK, Procs, Peer, Progress, DataLoops
    <2>2. Future(p)' = Future(p) \/ Future(p)' = 0
      BY <1>0, <1>1, NamesAssumption, OptFields DEF Typed, TypeOK, Procs, Future,
         PhaseInv, ClientPhase, Progress, DataLoops, Receiver, InFin
    <2> QED
      BY <1>0, <1>1, <2>1, <2>2, QuietClient
  <1>2. CASE p = Server
    <2>1. rcvd' = rcvd /\ \A c \in Clients : net'[c][Server] \in {net[c][Server], <<>>}
      BY <1>0, <1>2, NamesAssumption DEF Typed, TypeOK, Procs, Peer, Progress, LoopDone,
         DataLoops
    <2>2. Serving' \in {Serving, NoClient}
      BY <1>0, <1>2 DEF Typed, TypeOK, Procs, Serving, SessionPcs, Progress, LoopDone,
         DataLoops
    <2>3. HasMsg' => HasMsg
      BY <1>0, <1>2 DEF Typed, TypeOK, Procs, HasMsg, PhaseInv, RequestPhase, Receiver,
         InFin, RecvReqs, SendReqs, Progress, LoopDone, DataLoops
    <2>4. /\ am_data_desc'[Server].complete => am_data_desc[Server].complete
         /\ unexp'[Server] \in {unexp[Server], <<>>}
      BY <1>0, <1>2 DEF Typed, TypeOK, Procs, Progress, LoopDone, DataLoops
    <2>5. CleanStart'
      BY <1>0, <1>2, <2>4 DEF Typed, TypeOK, Procs, Progress, LoopDone, DataLoops,
         CreditInv, CleanStart, PhaseInv, RequestPhase
    <2> QED
      BY <1>0, <1>2, <2>1, <2>2, <2>3, <2>4, <2>5, QuietServer
  <1> QED
    BY <1>1, <1>2 DEF Procs

\* The death of a process keeps the count.
LEMMA Credit_Die ==
    ASSUME Typed, Typed', CountInv, PhaseInv, PhaseInv', EndpointInv, CreditInv,
           NEW p \in Procs, Die(p)
    PROVE  CreditInv'
  <1>0. StepOf(p) /\ opt' = opt
    BY Step_Die DEF StepOf
  <1>1. CASE p \in Clients
    <2>1. /\ conn_request' = conn_request /\ unexp'[Server] = unexp[Server] /\ rcvd' = rcvd
         /\ \A c \in Clients : net'[c][Server] = net[c][Server]
      BY <1>0, <1>1, NamesAssumption DEF Typed, TypeOK, Procs, Peer, Die
    <2>2. Future(p)' = Future(p) \/ Future(p)' = 0
      BY <1>0, <1>1, NamesAssumption, OptFields DEF Typed, TypeOK, Procs, Future,
         PhaseInv, ClientPhase, Die, Receiver, InFin
    <2> QED
      BY <1>0, <1>1, <2>1, <2>2, QuietClient
  <1>2. CASE p = Server
    <2>1. rcvd' = rcvd /\ \A c \in Clients : net'[c][Server] \in {net[c][Server], <<>>}
      BY <1>0, <1>2, NamesAssumption DEF Typed, TypeOK, Procs, Peer, Die
    <2>2. Serving' \in {Serving, NoClient}
      BY <1>0, <1>2 DEF Typed, TypeOK, Procs, Serving, SessionPcs, Die
    <2>3. HasMsg' => HasMsg
      BY <1>0, <1>2 DEF Typed, TypeOK, Procs, HasMsg, PhaseInv, RequestPhase, Receiver,
         InFin, RecvReqs, SendReqs, Die
    <2>4. /\ am_data_desc'[Server].complete => am_data_desc[Server].complete
         /\ unexp'[Server] \in {unexp[Server], <<>>}
      BY <1>0, <1>2 DEF Typed, TypeOK, Procs, Die
    <2>5. CleanStart'
      BY <1>0, <1>2, <2>4 DEF Typed, TypeOK, Procs, Die, CreditInv, CleanStart,
         PhaseInv, RequestPhase
    <2> QED
      BY <1>0, <1>2, <2>1, <2>2, <2>3, <2>4, <2>5, QuietServer
  <1> QED
    BY <1>1, <1>2 DEF Procs

\* StartClient keeps the count.
LEMMA Credit_StartClient ==
    ASSUME Typed, Typed', CountInv, PhaseInv, PhaseInv', EndpointInv, CreditInv,
           NEW c0 \in Clients, StartClient(c0)
    PROVE  CreditInv'
  <1>0. StepOf(c0) /\ opt' = opt
    BY Step_StartClient DEF StepOf
  <1>1. /\ conn_request' = conn_request /\ unexp'[Server] = unexp[Server] /\ rcvd' = rcvd
       /\ \A c \in Clients : net'[c][Server] = net[c][Server]
    BY <1>0, NamesAssumption DEF Typed, TypeOK, Procs, Peer, StartClient
  <1>2. Future(c0)' = Future(c0) \/ Future(c0)' = 0
    BY <1>0, NamesAssumption, OptFields DEF Typed, TypeOK, Procs, Future, PhaseInv,
       ClientPhase, StartClient, AfterIter, Receiver, InFin
  <1> QED
    BY <1>0, <1>1, <1>2, QuietClient

\* StartClientFails keeps the count.
LEMMA Credit_StartClientFails ==
    ASSUME Typed, Typed', CountInv, PhaseInv, PhaseInv', EndpointInv, CreditInv,
           NEW c0 \in Clients, StartClientFails(c0)
    PROVE  CreditInv'
  <1>0. StepOf(c0) /\ opt' = opt
    BY Step_StartClientFails DEF StepOf
  <1>1. /\ conn_request' = conn_request /\ unexp'[Server] = unexp[Server] /\ rcvd' = rcvd
       /\ \A c \in Clients : net'[c][Server] = net[c][Server]
    BY <1>0, NamesAssumption DEF Typed, TypeOK, Procs, Peer, StartClientFails
  <1>2. Future(c0)' = Future(c0) \/ Future(c0)' = 0
    BY <1>0, NamesAssumption, OptFields DEF Typed, TypeOK, Procs, Future, PhaseInv,
       ClientPhase, StartClientFails, Receiver, InFin
  <1> QED
    BY <1>0, <1>1, <1>2, QuietClient

\* RegisterFinHandler keeps the count.
LEMMA Credit_RegisterFinHandler ==
    ASSUME Typed, Typed', CountInv, PhaseInv, PhaseInv', EndpointInv, CreditInv,
           NEW c0 \in Clients, RegisterFinHandler(c0)
    PROVE  CreditInv'
  <1>0. StepOf(c0) /\ opt' = opt
    BY Step_RegisterFinHandler DEF StepOf
  <1>1. /\ conn_request' = conn_request /\ unexp'[Server] = unexp[Server] /\ rcvd' = rcvd
       /\ \A c \in Clients : net'[c][Server] = net[c][Server]
    BY <1>0, NamesAssumption DEF Typed, TypeOK, Procs, Peer, RegisterFinHandler,
       Registered
  <1>2. Future(c0)' = Future(c0) \/ Future(c0)' = 0
    BY <1>0, NamesAssumption, OptFields DEF Typed, TypeOK, Procs, Future, PhaseInv,
       ClientPhase, RegisterFinHandler, Registered, Receiver, InFin
  <1> QED
    BY <1>0, <1>1, <1>2, QuietClient

\* CloseClient keeps the count.
LEMMA Credit_CloseClient ==
    ASSUME Typed, Typed', CountInv, PhaseInv, PhaseInv', EndpointInv, CreditInv,
           NEW c0 \in Clients, CloseClient(c0)
    PROVE  CreditInv'
  <1>0. StepOf(c0) /\ opt' = opt
    BY Step_CloseClient DEF StepOf
  <1>1. /\ conn_request' = conn_request /\ unexp'[Server] = unexp[Server] /\ rcvd' = rcvd
       /\ \A c \in Clients : net'[c][Server] = net[c][Server]
    BY <1>0, NamesAssumption DEF Typed, TypeOK, Procs, Peer, CloseClient
  <1>2. Future(c0)' = Future(c0) \/ Future(c0)' = 0
    BY <1>0, NamesAssumption, OptFields DEF Typed, TypeOK, Procs, Future, PhaseInv,
       ClientPhase, CloseClient, Receiver, InFin
  <1> QED
    BY <1>0, <1>1, <1>2, QuietClient

\* server_conn_handle_cb keeps the count.
LEMMA Credit_server_conn_handle_cb ==
    ASSUME Typed, Typed', CountInv, PhaseInv, PhaseInv', EndpointInv, CreditInv,
           NEW c0 \in Clients, server_conn_handle_cb(c0)
    PROVE  CreditInv'
  <1>0. StepOf(Server) /\ opt' = opt
    BY Step_server_conn_handle_cb DEF StepOf
  <1>1. rcvd' = rcvd /\ \A c \in Clients : net'[c][Server] \in {net[c][Server], <<>>}
    BY <1>0, NamesAssumption DEF Typed, TypeOK, Procs, Peer, server_conn_handle_cb
  <1>2. Serving' \in {Serving, NoClient}
    BY <1>0 DEF Typed, TypeOK, Procs, Serving, SessionPcs, server_conn_handle_cb
  <1>3. HasMsg' => HasMsg
    BY <1>0 DEF Typed, TypeOK, Procs, HasMsg, PhaseInv, RequestPhase, Receiver, InFin,
       RecvReqs, SendReqs, server_conn_handle_cb
  <1>4. /\ am_data_desc'[Server].complete => am_data_desc[Server].complete
       /\ unexp'[Server] \in {unexp[Server], <<>>}
    BY <1>0 DEF Typed, TypeOK, Procs, server_conn_handle_cb
  <1>5. CleanStart'
    BY <1>0, <1>4 DEF Typed, TypeOK, Procs, server_conn_handle_cb, CreditInv,
       CleanStart, PhaseInv, RequestPhase
  <1> QED
    BY <1>0, <1>1, <1>2, <1>3, <1>4, <1>5, QuietServer

\* StartServer keeps the count.
LEMMA Credit_StartServer ==
    ASSUME Typed, Typed', CountInv, PhaseInv, PhaseInv', EndpointInv, CreditInv,
           StartServer
    PROVE  CreditInv'
  <1>0. StepOf(Server) /\ opt' = opt
    BY Step_StartServer DEF StepOf
  <1>1. rcvd' = rcvd /\ \A c \in Clients : net'[c][Server] \in {net[c][Server], <<>>}
    BY <1>0, NamesAssumption DEF Typed, TypeOK, Procs, Peer, StartServer, Registered
  <1>2. Serving' \in {Serving, NoClient}
    BY <1>0 DEF Typed, TypeOK, Procs, Serving, SessionPcs, StartServer, Registered
  <1>3. HasMsg' => HasMsg
    BY <1>0 DEF Typed, TypeOK, Procs, HasMsg, PhaseInv, RequestPhase, Receiver, InFin,
       RecvReqs, SendReqs, StartServer, Registered
  <1>4. /\ am_data_desc'[Server].complete => am_data_desc[Server].complete
       /\ unexp'[Server] \in {unexp[Server], <<>>}
    BY <1>0 DEF Typed, TypeOK, Procs, StartServer, Registered
  <1>5. CleanStart'
    BY <1>0, <1>4 DEF Typed, TypeOK, Procs, StartServer, Registered, CreditInv,
       CleanStart, PhaseInv, RequestPhase
  <1> QED
    BY <1>0, <1>1, <1>2, <1>3, <1>4, <1>5, QuietServer

\* ServerSetupFails keeps the count.
LEMMA Credit_ServerSetupFails ==
    ASSUME Typed, Typed', CountInv, PhaseInv, PhaseInv', EndpointInv, CreditInv,
           ServerSetupFails
    PROVE  CreditInv'
  <1>0. StepOf(Server) /\ opt' = opt
    BY Step_ServerSetupFails DEF StepOf
  <1>1. rcvd' = rcvd /\ \A c \in Clients : net'[c][Server] \in {net[c][Server], <<>>}
    BY <1>0, NamesAssumption DEF Typed, TypeOK, Procs, Peer, ServerSetupFails, LoopDone
  <1>2. Serving' \in {Serving, NoClient}
    BY <1>0 DEF Typed, TypeOK, Procs, Serving, SessionPcs, ServerSetupFails, LoopDone
  <1>3. HasMsg' => HasMsg
    BY <1>0 DEF Typed, TypeOK, Procs, HasMsg, PhaseInv, RequestPhase, Receiver, InFin,
       RecvReqs, SendReqs, ServerSetupFails, LoopDone
  <1>4. /\ am_data_desc'[Server].complete => am_data_desc[Server].complete
       /\ unexp'[Server] \in {unexp[Server], <<>>}
    BY <1>0 DEF Typed, TypeOK, Procs, ServerSetupFails, LoopDone
  <1>5. CleanStart'
    BY <1>0, <1>4 DEF Typed, TypeOK, Procs, ServerSetupFails, LoopDone, CreditInv,
       CleanStart, PhaseInv, RequestPhase
  <1> QED
    BY <1>0, <1>1, <1>2, <1>3, <1>4, <1>5, QuietServer

\* CreateEp keeps the count.
LEMMA Credit_CreateEp ==
    ASSUME Typed, Typed', CountInv, PhaseInv, PhaseInv', EndpointInv, CreditInv,
           CreateEp
    PROVE  CreditInv'
  <1>0. StepOf(Server) /\ opt' = opt
    BY Step_CreateEp DEF StepOf
  <1>1. /\ unexp[Server] = <<>> /\ ~am_data_desc[Server].complete /\ pc[Server] = "accept"
        /\ pc'[Server] = "comm" /\ unexp' = unexp /\ am_data_desc' = am_data_desc
        /\ req' = req /\ rcvd' = rcvd /\ net' = net
    BY DEF Typed, TypeOK, Procs, CreateEp, AfterIter, CreditInv, CleanStart
  <1>2. Serving = NoClient /\ ~HasMsg'
    BY <1>1 DEF Serving, HasMsg, SessionPcs
  <1>3. Holds' = 0
    <2>1. One(HasMsg)' = 0 /\ One(am_data_desc[Server].complete)' = 0
      BY <1>1, <1>2 DEF One
    <2> QED
      BY <1>1, <2>1 DEF Holds
  <1>4. ASSUME NEW c \in Clients
        PROVE  Credit(c)'
    <2>1. Held(c) = 0 /\ Held(c)' = 0
      BY <1>2, <1>3, NamesAssumption DEF Held
    <2>2. Arrived(c)' = Arrived(c) /\ Credit(c)
      BY <1>1, <2>1 DEF Arrived, CreditInv
    <2>3. Future(c)' = Future(c)
      BY <1>0, FutureKept, NamesAssumption DEF Procs
    <2> QED
      BY <1>0, <1>1, <2>2, <2>3 DEF Credit
  <1>5. CleanStart'
    BY <1>0, <1>1 DEF CreditInv, CleanStart
  <1> QED
    BY <1>4, <1>5 DEF CreditInv

\* Drained keeps the count.
LEMMA Credit_Drained ==
    ASSUME Typed, Typed', CountInv, PhaseInv, PhaseInv', EndpointInv, CreditInv,
           Drained
    PROVE  CreditInv'
  <1>0. StepOf(Server) /\ opt' = opt
    BY Step_Drained DEF StepOf
  <1>1. rcvd' = rcvd /\ \A c \in Clients : net'[c][Server] \in {net[c][Server], <<>>}
    BY <1>0, NamesAssumption DEF Typed, TypeOK, Procs, Peer, Drained, LoopDone
  <1>2. Serving' \in {Serving, NoClient}
    BY <1>0 DEF Typed, TypeOK, Procs, Serving, SessionPcs, Drained, LoopDone
  <1>3. HasMsg' => HasMsg
    BY <1>0 DEF Typed, TypeOK, Procs, HasMsg, PhaseInv, RequestPhase, Receiver, InFin,
       RecvReqs, SendReqs, Drained, LoopDone
  <1>4. /\ am_data_desc'[Server].complete => am_data_desc[Server].complete
       /\ unexp'[Server] \in {unexp[Server], <<>>}
    BY <1>0 DEF Typed, TypeOK, Procs, Drained, LoopDone
  <1>5. CleanStart'
    BY <1>0, <1>4 DEF Typed, TypeOK, Procs, Drained, LoopDone, CreditInv, CleanStart,
       PhaseInv, RequestPhase
  <1> QED
    BY <1>0, <1>1, <1>2, <1>3, <1>4, <1>5, QuietServer

\* A session that succeeded leaves nothing behind: all its messages are received.
LEMMA NothingHeld ==
    ASSUME Typed, CountInv, PhaseInv, CreditInv, NextClient
    PROVE  unexp[Server] = <<>> /\ ~am_data_desc[Server].complete
  <1>1. /\ conn_request \in Clients /\ Serving = conn_request
        /\ Len(rcvd[conn_request]) = opt.n
    BY DEF Typed, TypeOK, SessionHasClient, SessionPcs, Serving, CountInv, SessionCount,
       NextClient
  <1>2. Arrived(conn_request) = opt.n + Holds /\ Credit(conn_request)
    BY <1>1 DEF Arrived, Held, CreditInv
  <1>3. /\ Holds \in Nat /\ Len(net[conn_request][Server]) \in Nat
        /\ Future(conn_request) \in Nat /\ opt.n \in Nat
    BY <1>1, CountTypes
  <1>4. Holds = 0
    <2>1. \A h, x, y, n \in Nat : n + h + x + y <= n => h = 0
      OBVIOUS
    <2>2. opt.n + Holds + Len(net[conn_request][Server]) + Future(conn_request) <= opt.n
      BY <1>2 DEF Credit
    <2> QED
      BY <1>3, <2>1, <2>2
  <1>5. unexp[Server] = <<>> /\ ~am_data_desc[Server].complete
    <2>1. unexp[Server] \in Seq(Message)
      BY DEF Typed, TypeOK, Procs
    <2>2. One(HasMsg) \in Nat /\ One(am_data_desc[Server].complete) \in Nat
      BY DEF One
    <2>3. Len(unexp[Server]) = 0 /\ One(am_data_desc[Server].complete) = 0
      <3>1. \A x, y, z \in Nat : x + y + z = 0 => y = 0 /\ z = 0
        OBVIOUS
      <3> QED
        BY <1>4, <2>1, <2>2, <3>1 DEF Holds
    <2> QED
      BY <2>1, <2>3 DEF One
  <1> QED
    BY <1>5

\* NextClient keeps the count.
LEMMA Credit_NextClient ==
    ASSUME Typed, Typed', CountInv, PhaseInv, PhaseInv', EndpointInv, CreditInv,
           NextClient
    PROVE  CreditInv'
  <1>0. StepOf(Server) /\ opt' = opt
    BY Step_NextClient DEF StepOf
  <1>1. rcvd' = rcvd /\ \A c \in Clients : net'[c][Server] \in {net[c][Server], <<>>}
    BY <1>0, NamesAssumption DEF Typed, TypeOK, Procs, Peer, NextClient, CloseServerEp
  <1>2. Serving' \in {Serving, NoClient}
    BY <1>0 DEF Typed, TypeOK, Procs, Serving, SessionPcs, NextClient, CloseServerEp
  <1>3. HasMsg' => HasMsg
    BY <1>0 DEF Typed, TypeOK, Procs, HasMsg, PhaseInv, RequestPhase, Receiver, InFin,
       RecvReqs, SendReqs, NextClient, CloseServerEp
  <1>4. /\ am_data_desc'[Server].complete => am_data_desc[Server].complete
       /\ unexp'[Server] \in {unexp[Server], <<>>}
    BY <1>0 DEF Typed, TypeOK, Procs, NextClient, CloseServerEp
  <1>5. CleanStart'
    <2>5. unexp[Server] = <<>> /\ ~am_data_desc[Server].complete
      BY NothingHeld
    <2>6. unexp'[Server] = <<>> /\ am_data_desc' = am_data_desc /\ req' = req /\ opt' = opt
      BY <2>5 DEF NextClient, CloseServerEp, Typed, TypeOK, Procs
    <2> QED
      BY <2>5, <2>6 DEF CleanStart
  <1> QED
    BY <1>0, <1>1, <1>2, <1>3, <1>4, <1>5, QuietServer

\* ServerExit keeps the count.
LEMMA Credit_ServerExit ==
    ASSUME Typed, Typed', CountInv, PhaseInv, PhaseInv', EndpointInv, CreditInv,
           ServerExit
    PROVE  CreditInv'
  <1>0. StepOf(Server) /\ opt' = opt
    BY Step_ServerExit DEF StepOf
  <1>1. rcvd' = rcvd /\ \A c \in Clients : net'[c][Server] \in {net[c][Server], <<>>}
    BY <1>0, NamesAssumption DEF Typed, TypeOK, Procs, Peer, ServerExit, CloseServerEp
  <1>2. Serving' \in {Serving, NoClient}
    BY <1>0 DEF Typed, TypeOK, Procs, Serving, SessionPcs, ServerExit, CloseServerEp
  <1>3. HasMsg' => HasMsg
    BY <1>0 DEF Typed, TypeOK, Procs, HasMsg, PhaseInv, RequestPhase, Receiver, InFin,
       RecvReqs, SendReqs, ServerExit, CloseServerEp
  <1>4. /\ am_data_desc'[Server].complete => am_data_desc[Server].complete
       /\ unexp'[Server] \in {unexp[Server], <<>>}
    BY <1>0 DEF Typed, TypeOK, Procs, ServerExit, CloseServerEp
  <1>5. CleanStart'
    BY <1>0, <1>4 DEF Typed, TypeOK, Procs, ServerExit, CloseServerEp, CreditInv,
       CleanStart, PhaseInv, RequestPhase
  <1> QED
    BY <1>0, <1>1, <1>2, <1>3, <1>4, <1>5, QuietServer

\* Every step keeps the count.
LEMMA CreditNext ==
    ASSUME Typed, Typed', CountInv, PhaseInv, PhaseInv', EndpointInv, CreditInv, [Next]_vars
    PROVE  CreditInv'
  <1>1. ASSUME NEW p \in Procs, Communicate(p)
        PROVE  CreditInv'
    BY <1>1, Credit_AllocFails, Credit_Send, Credit_Recv, Credit_AmRecv,
       Credit_AmArrived, Credit_FinalizeError, Credit_FinalizeData, Credit_FinalizeFin
       DEF Communicate
  <1>2. ASSUME NEW p \in Procs, Callback(p)
        PROVE  CreditInv'
    BY <1>2, Credit_SendCb, Credit_FetchCb, Credit_RecvCb, Credit_AmDropped,
       Credit_ucp_am_data_cb, Credit_err_cb, Credit_Die DEF Callback, AmCopyFaults
  <1>3. CASE ServerStep
    BY <1>1, <1>2, <1>3, Credit_StartServer, Credit_ServerSetupFails, Credit_CreateEp,
       Credit_Drained, Credit_NextClient, Credit_ServerExit,
       Credit_server_conn_handle_cb, Credit_Progress DEF ServerStep, Procs
  <1>4. ASSUME NEW c \in Clients, ClientStep(c)
        PROVE  CreditInv'
    BY <1>1, <1>2, <1>4, Credit_StartClient, Credit_StartClientFails,
       Credit_RegisterFinHandler, Credit_CloseClient, Credit_Progress DEF ClientStep,
       Procs
  <1>5. CASE UNCHANGED vars
    <2>1. \A c \in Clients : Credit(c)'
      BY <1>5 DEF vars, CreditInv, Credit, Arrived, Held, Holds, HasMsg, Serving, Future
    <2>2. CleanStart'
      BY <1>5 DEF vars, CreditInv, CleanStart
    <2> QED
      BY <2>1, <2>2 DEF CreditInv
  <1> QED
    BY <1>3, <1>4, <1>5, Credit_Die DEF Next, Idle, Crash

\* It holds initially.
LEMMA CreditInit == Init => CreditInv
  <1> SUFFICES ASSUME Init PROVE CreditInv
    OBVIOUS
  <1>1. CleanStart
    BY DEF Init, CleanStart, Procs
  <1>2. ASSUME NEW c \in Clients
        PROVE  Credit(c)
    <2>1. /\ Serving = NoClient /\ rcvd[c] = <<>> /\ net[c][Server] = <<>>
          /\ pc[c] = "start" /\ iter[c] = 0
      BY NamesAssumption DEF Init, Serving, SessionPcs, Procs
    <2>2. Arrived(c) = 0 /\ Len(net[c][Server]) = 0
      BY <2>1, NamesAssumption DEF Arrived, Held
    <2>3. Future(c) = opt.n /\ opt.n \in Nat
      BY <2>1, OptFields DEF Init, Future
    <2> QED
      BY <2>2, <2>3 DEF Credit
  <1> QED
    BY <1>1, <1>2 DEF CreditInv

--------------------------------------------------------------------------------
(***************************************************************************)
(* Messages of another size: the callback ignores them, so the session of  *)
(* such a client never gets beyond its first receive.                      *)
(***************************************************************************)
OddInv ==
    opt.n > 0 =>
      \A c \in opt.odd :
        /\ rcvd[c] = <<>>
        /\ c = Serving => /\ ~am_data_desc[Server].complete
                          /\ pc[Server] \in {"comm", "amwait", "close"}

\* Only active messages may have another size.
LEMMA OddIsAm ==
    ASSUME Typed, NEW c \in opt.odd
    PROVE  c \in Clients /\ c # NoClient /\ opt.api = "am"
  <1>1. opt \in Options
    BY DEF Typed, TypeOK
  <1> QED
    BY <1>1, OddSizeAssumption, NamesAssumption DEF Options

\* What a step of a client has to show for it.
LEMMA OddFrame ==
    ASSUME OddInv, NEW p \in Clients, StepOf(p), rcvd' = rcvd, conn_request' = conn_request
    PROVE  OddInv'
  <1>1. SameLocal(Server) /\ opt' = opt
    BY NamesAssumption DEF StepOf, Procs
  <1> QED
    BY <1>1 DEF OddInv, SameLocal, Serving

\* What a step of the server has to show for it.
LEMMA OddServer ==
    ASSUME Typed, OddInv, opt' = opt,
           ASSUME NEW c \in Clients, opt.n > 0, c \in opt.odd, opt.api = "am", rcvd[c] = <<>>,
                  c = Serving => /\ ~am_data_desc[Server].complete
                                 /\ pc[Server] \in {"comm", "amwait", "close"}
           PROVE  /\ rcvd'[c] = <<>>
                  /\ c = Serving' => /\ ~am_data_desc'[Server].complete
                                     /\ pc'[Server] \in {"comm", "amwait", "close"}
    PROVE  OddInv'
  <1> SUFFICES ASSUME opt.n > 0, NEW c \in opt.odd
               PROVE  /\ rcvd'[c] = <<>>
                      /\ c = Serving' => /\ ~am_data_desc'[Server].complete
                                         /\ pc'[Server] \in {"comm", "amwait", "close"}
    BY DEF OddInv
  <1>1. c \in Clients /\ opt.api = "am"
    BY OddIsAm
  <1> QED
    BY <1>1 DEF OddInv

\* AllocFails keeps it.
LEMMA Odd_AllocFails ==
    ASSUME Typed, Typed', CountInv, CreditInv, OddInv,
           NEW p \in Procs, AllocFails(p)
    PROVE  OddInv'
  <1>0. StepOf(p) /\ opt' = opt
    BY Step_AllocFails DEF StepOf
  <1>1. CASE p \in Clients
    <2>1. rcvd' = rcvd /\ conn_request' = conn_request
      BY <1>1, NamesAssumption DEF AllocFails
    <2> QED
      BY <1>0, <1>1, <2>1, OddFrame
  <1>2. CASE p = Server
    <2>1. SUFFICES ASSUME NEW c \in Clients, opt.n > 0, c \in opt.odd, opt.api = "am",
                          rcvd[c] = <<>>,
                          c = Serving => /\ ~am_data_desc[Server].complete
                                         /\ pc[Server] \in {"comm", "amwait", "close"}
                   PROVE  /\ rcvd'[c] = <<>>
                          /\ c = Serving' => /\ ~am_data_desc'[Server].complete
                                             /\ pc'[Server] \in {"comm", "amwait", "close"}
      BY <1>0, OddServer
    <2>2. /\ c # NoClient /\ opt.n \in Nat
          /\ pc[Server] \in {"comm", "wait", "amwait", "drain"} /\ c = conn_request => iter[Server] = 0
      <3>1. c # NoClient /\ opt.n \in Nat
        BY NamesAssumption, OptFields DEF Typed, TypeOK
      <3>2. CASE pc[Server] \in {"comm", "wait", "amwait", "drain"} /\ c = conn_request
        <4>1. Len(rcvd[c]) = 0
          BY <2>1
        <4> QED
          BY <3>1, <3>2, <4>1 DEF CountInv, SessionCount
      <3> QED
        BY <3>1, <3>2
    <2> QED
      BY <1>2, <2>1, <2>2 DEF Typed, TypeOK, SessionHasClient, Procs, Serving,
         SessionPcs, Receiver, InFin, AllocFails
  <1> QED
    BY <1>1, <1>2 DEF Procs

\* Send keeps it.
LEMMA Odd_Send ==
    ASSUME Typed, Typed', CountInv, CreditInv, OddInv,
           NEW p \in Procs, Send(p)
    PROVE  OddInv'
  <1>0. StepOf(p) /\ opt' = opt
    BY Step_Send DEF StepOf
  <1>1. CASE p \in Clients
    <2>1. rcvd' = rcvd /\ conn_request' = conn_request
      BY <1>1, NamesAssumption DEF Send
    <2> QED
      BY <1>0, <1>1, <2>1, OddFrame
  <1>2. CASE p = Server
    <2>1. SUFFICES ASSUME NEW c \in Clients, opt.n > 0, c \in opt.odd, opt.api = "am",
                          rcvd[c] = <<>>,
                          c = Serving => /\ ~am_data_desc[Server].complete
                                         /\ pc[Server] \in {"comm", "amwait", "close"}
                   PROVE  /\ rcvd'[c] = <<>>
                          /\ c = Serving' => /\ ~am_data_desc'[Server].complete
                                             /\ pc'[Server] \in {"comm", "amwait", "close"}
      BY <1>0, OddServer
    <2>2. /\ c # NoClient /\ opt.n \in Nat
          /\ pc[Server] \in {"comm", "wait", "amwait", "drain"} /\ c = conn_request => iter[Server] = 0
      <3>1. c # NoClient /\ opt.n \in Nat
        BY NamesAssumption, OptFields DEF Typed, TypeOK
      <3>2. CASE pc[Server] \in {"comm", "wait", "amwait", "drain"} /\ c = conn_request
        <4>1. Len(rcvd[c]) = 0
          BY <2>1
        <4> QED
          BY <3>1, <3>2, <4>1 DEF CountInv, SessionCount
      <3> QED
        BY <3>1, <3>2
    <2> QED
      BY <1>2, <2>1, <2>2 DEF Typed, TypeOK, SessionHasClient, Procs, Serving,
         SessionPcs, Receiver, InFin, Send
  <1> QED
    BY <1>1, <1>2 DEF Procs

\* Recv keeps it.
LEMMA Odd_Recv ==
    ASSUME Typed, Typed', CountInv, CreditInv, OddInv,
           NEW p \in Procs, Recv(p)
    PROVE  OddInv'
  <1>0. StepOf(p) /\ opt' = opt
    BY Step_Recv DEF StepOf
  <1>1. CASE p \in Clients
    <2>1. rcvd' = rcvd /\ conn_request' = conn_request
      BY <1>1, NamesAssumption DEF Recv
    <2> QED
      BY <1>0, <1>1, <2>1, OddFrame
  <1>2. CASE p = Server
    <2>1. SUFFICES ASSUME NEW c \in Clients, opt.n > 0, c \in opt.odd, opt.api = "am",
                          rcvd[c] = <<>>,
                          c = Serving => /\ ~am_data_desc[Server].complete
                                         /\ pc[Server] \in {"comm", "amwait", "close"}
                   PROVE  /\ rcvd'[c] = <<>>
                          /\ c = Serving' => /\ ~am_data_desc'[Server].complete
                                             /\ pc'[Server] \in {"comm", "amwait", "close"}
      BY <1>0, OddServer
    <2>2. /\ c # NoClient /\ opt.n \in Nat
          /\ pc[Server] \in {"comm", "wait", "amwait", "drain"} /\ c = conn_request => iter[Server] = 0
      <3>1. c # NoClient /\ opt.n \in Nat
        BY NamesAssumption, OptFields DEF Typed, TypeOK
      <3>2. CASE pc[Server] \in {"comm", "wait", "amwait", "drain"} /\ c = conn_request
        <4>1. Len(rcvd[c]) = 0
          BY <2>1
        <4> QED
          BY <3>1, <3>2, <4>1 DEF CountInv, SessionCount
      <3> QED
        BY <3>1, <3>2
    <2> QED
      BY <1>2, <2>1, <2>2 DEF Typed, TypeOK, SessionHasClient, Procs, Serving,
         SessionPcs, Receiver, InFin, Recv
  <1> QED
    BY <1>1, <1>2 DEF Procs

\* AmRecv keeps it.
LEMMA Odd_AmRecv ==
    ASSUME Typed, Typed', CountInv, CreditInv, OddInv,
           NEW p \in Procs, AmRecv(p)
    PROVE  OddInv'
  <1>0. StepOf(p) /\ opt' = opt
    BY Step_AmRecv DEF StepOf
  <1>1. CASE p \in Clients
    <2>1. rcvd' = rcvd /\ conn_request' = conn_request
      BY <1>1, NamesAssumption DEF AmRecv
    <2> QED
      BY <1>0, <1>1, <2>1, OddFrame
  <1>2. CASE p = Server
    <2>1. SUFFICES ASSUME NEW c \in Clients, opt.n > 0, c \in opt.odd, opt.api = "am",
                          rcvd[c] = <<>>,
                          c = Serving => /\ ~am_data_desc[Server].complete
                                         /\ pc[Server] \in {"comm", "amwait", "close"}
                   PROVE  /\ rcvd'[c] = <<>>
                          /\ c = Serving' => /\ ~am_data_desc'[Server].complete
                                             /\ pc'[Server] \in {"comm", "amwait", "close"}
      BY <1>0, OddServer
    <2>2. /\ c # NoClient /\ opt.n \in Nat
          /\ pc[Server] \in {"comm", "wait", "amwait", "drain"} /\ c = conn_request => iter[Server] = 0
      <3>1. c # NoClient /\ opt.n \in Nat
        BY NamesAssumption, OptFields DEF Typed, TypeOK
      <3>2. CASE pc[Server] \in {"comm", "wait", "amwait", "drain"} /\ c = conn_request
        <4>1. Len(rcvd[c]) = 0
          BY <2>1
        <4> QED
          BY <3>1, <3>2, <4>1 DEF CountInv, SessionCount
      <3> QED
        BY <3>1, <3>2
    <2> QED
      BY <1>2, <2>1, <2>2 DEF Typed, TypeOK, SessionHasClient, Procs, Serving,
         SessionPcs, Receiver, InFin, AmRecv
  <1> QED
    BY <1>1, <1>2 DEF Procs

\* AmArrived keeps it.
LEMMA Odd_AmArrived ==
    ASSUME Typed, Typed', CountInv, CreditInv, OddInv,
           NEW p \in Procs, AmArrived(p)
    PROVE  OddInv'
  <1>0. StepOf(p) /\ opt' = opt
    BY Step_AmArrived DEF StepOf
  <1>1. CASE p \in Clients
    <2>1. rcvd' = rcvd /\ conn_request' = conn_request
      BY <1>1, NamesAssumption DEF AmArrived
    <2> QED
      BY <1>0, <1>1, <2>1, OddFrame
  <1>2. CASE p = Server
    <2>1. SUFFICES ASSUME NEW c \in Clients, opt.n > 0, c \in opt.odd, opt.api = "am",
                          rcvd[c] = <<>>,
                          c = Serving => /\ ~am_data_desc[Server].complete
                                         /\ pc[Server] \in {"comm", "amwait", "close"}
                   PROVE  /\ rcvd'[c] = <<>>
                          /\ c = Serving' => /\ ~am_data_desc'[Server].complete
                                             /\ pc'[Server] \in {"comm", "amwait", "close"}
      BY <1>0, OddServer
    <2>2. /\ c # NoClient /\ opt.n \in Nat
          /\ pc[Server] \in {"comm", "wait", "amwait", "drain"} /\ c = conn_request => iter[Server] = 0
      <3>1. c # NoClient /\ opt.n \in Nat
        BY NamesAssumption, OptFields DEF Typed, TypeOK
      <3>2. CASE pc[Server] \in {"comm", "wait", "amwait", "drain"} /\ c = conn_request
        <4>1. Len(rcvd[c]) = 0
          BY <2>1
        <4> QED
          BY <3>1, <3>2, <4>1 DEF CountInv, SessionCount
      <3> QED
        BY <3>1, <3>2
    <2> QED
      BY <1>2, <2>1, <2>2 DEF Typed, TypeOK, SessionHasClient, Procs, Serving,
         SessionPcs, Receiver, InFin, AmArrived, Taken, LoopDone
  <1> QED
    BY <1>1, <1>2 DEF Procs

\* FinalizeError keeps it.
LEMMA Odd_FinalizeError ==
    ASSUME Typed, Typed', CountInv, CreditInv, OddInv,
           NEW p \in Procs, FinalizeError(p)
    PROVE  OddInv'
  <1>0. StepOf(p) /\ opt' = opt
    BY Step_FinalizeError DEF StepOf
  <1>1. CASE p \in Clients
    <2>1. rcvd' = rcvd /\ conn_request' = conn_request
      BY <1>1, NamesAssumption DEF FinalizeError
    <2> QED
      BY <1>0, <1>1, <2>1, OddFrame
  <1>2. CASE p = Server
    <2>1. SUFFICES ASSUME NEW c \in Clients, opt.n > 0, c \in opt.odd, opt.api = "am",
                          rcvd[c] = <<>>,
                          c = Serving => /\ ~am_data_desc[Server].complete
                                         /\ pc[Server] \in {"comm", "amwait", "close"}
                   PROVE  /\ rcvd'[c] = <<>>
                          /\ c = Serving' => /\ ~am_data_desc'[Server].complete
                                             /\ pc'[Server] \in {"comm", "amwait", "close"}
      BY <1>0, OddServer
    <2>2. /\ c # NoClient /\ opt.n \in Nat
          /\ pc[Server] \in {"comm", "wait", "amwait", "drain"} /\ c = conn_request => iter[Server] = 0
      <3>1. c # NoClient /\ opt.n \in Nat
        BY NamesAssumption, OptFields DEF Typed, TypeOK
      <3>2. CASE pc[Server] \in {"comm", "wait", "amwait", "drain"} /\ c = conn_request
        <4>1. Len(rcvd[c]) = 0
          BY <2>1
        <4> QED
          BY <3>1, <3>2, <4>1 DEF CountInv, SessionCount
      <3> QED
        BY <3>1, <3>2
    <2> QED
      BY <1>2, <2>1, <2>2 DEF Typed, TypeOK, SessionHasClient, Procs, Serving,
         SessionPcs, Receiver, InFin, FinalizeError, FreeIov
  <1> QED
    BY <1>1, <1>2 DEF Procs

\* FinalizeData keeps it.
LEMMA Odd_FinalizeData ==
    ASSUME Typed, Typed', CountInv, CreditInv, OddInv,
           NEW p \in Procs, FinalizeData(p)
    PROVE  OddInv'
  <1>0. StepOf(p) /\ opt' = opt
    BY Step_FinalizeData DEF StepOf
  <1>1. CASE p \in Clients
    <2>1. rcvd' = rcvd /\ conn_request' = conn_request
      BY <1>1, NamesAssumption DEF FinalizeData
    <2> QED
      BY <1>0, <1>1, <2>1, OddFrame
  <1>2. CASE p = Server
    <2>1. SUFFICES ASSUME NEW c \in Clients, opt.n > 0, c \in opt.odd, opt.api = "am",
                          rcvd[c] = <<>>,
                          c = Serving => /\ ~am_data_desc[Server].complete
                                         /\ pc[Server] \in {"comm", "amwait", "close"}
                   PROVE  /\ rcvd'[c] = <<>>
                          /\ c = Serving' => /\ ~am_data_desc'[Server].complete
                                             /\ pc'[Server] \in {"comm", "amwait", "close"}
      BY <1>0, OddServer
    <2>2. /\ c # NoClient /\ opt.n \in Nat
          /\ pc[Server] \in {"comm", "wait", "amwait", "drain"} /\ c = conn_request => iter[Server] = 0
      <3>1. c # NoClient /\ opt.n \in Nat
        BY NamesAssumption, OptFields DEF Typed, TypeOK
      <3>2. CASE pc[Server] \in {"comm", "wait", "amwait", "drain"} /\ c = conn_request
        <4>1. Len(rcvd[c]) = 0
          BY <2>1
        <4> QED
          BY <3>1, <3>2, <4>1 DEF CountInv, SessionCount
      <3> QED
        BY <3>1, <3>2
    <2> QED
      BY <1>2, <2>1, <2>2 DEF Typed, TypeOK, SessionHasClient, Procs, Serving,
         SessionPcs, Receiver, InFin, FinalizeData, FreeIov, AfterIter
  <1> QED
    BY <1>1, <1>2 DEF Procs

\* FinalizeFin keeps it.
LEMMA Odd_FinalizeFin ==
    ASSUME Typed, Typed', CountInv, CreditInv, OddInv,
           NEW p \in Procs, FinalizeFin(p)
    PROVE  OddInv'
  <1>0. StepOf(p) /\ opt' = opt
    BY Step_FinalizeFin DEF StepOf
  <1>1. CASE p \in Clients
    <2>1. rcvd' = rcvd /\ conn_request' = conn_request
      BY <1>1, NamesAssumption DEF FinalizeFin
    <2> QED
      BY <1>0, <1>1, <2>1, OddFrame
  <1>2. CASE p = Server
    <2>1. SUFFICES ASSUME NEW c \in Clients, opt.n > 0, c \in opt.odd, opt.api = "am",
                          rcvd[c] = <<>>,
                          c = Serving => /\ ~am_data_desc[Server].complete
                                         /\ pc[Server] \in {"comm", "amwait", "close"}
                   PROVE  /\ rcvd'[c] = <<>>
                          /\ c = Serving' => /\ ~am_data_desc'[Server].complete
                                             /\ pc'[Server] \in {"comm", "amwait", "close"}
      BY <1>0, OddServer
    <2>2. /\ c # NoClient /\ opt.n \in Nat
          /\ pc[Server] \in {"comm", "wait", "amwait", "drain"} /\ c = conn_request => iter[Server] = 0
      <3>1. c # NoClient /\ opt.n \in Nat
        BY NamesAssumption, OptFields DEF Typed, TypeOK
      <3>2. CASE pc[Server] \in {"comm", "wait", "amwait", "drain"} /\ c = conn_request
        <4>1. Len(rcvd[c]) = 0
          BY <2>1
        <4> QED
          BY <3>1, <3>2, <4>1 DEF CountInv, SessionCount
      <3> QED
        BY <3>1, <3>2
    <2> QED
      BY <1>2, <2>1, <2>2 DEF Typed, TypeOK, SessionHasClient, Procs, Serving,
         SessionPcs, Receiver, InFin, FinalizeFin, FreeIov
  <1> QED
    BY <1>1, <1>2 DEF Procs

\* SendCb keeps it.
LEMMA Odd_SendCb ==
    ASSUME Typed, Typed', CountInv, CreditInv, OddInv,
           NEW p \in Procs, SendCb(p)
    PROVE  OddInv'
  <1>0. StepOf(p) /\ opt' = opt
    BY Step_SendCb DEF StepOf
  <1>1. CASE p \in Clients
    <2>1. rcvd' = rcvd /\ conn_request' = conn_request
      BY <1>1, NamesAssumption DEF SendCb
    <2> QED
      BY <1>0, <1>1, <2>1, OddFrame
  <1>2. CASE p = Server
    <2>1. SUFFICES ASSUME NEW c \in Clients, opt.n > 0, c \in opt.odd, opt.api = "am",
                          rcvd[c] = <<>>,
                          c = Serving => /\ ~am_data_desc[Server].complete
                                         /\ pc[Server] \in {"comm", "amwait", "close"}
                   PROVE  /\ rcvd'[c] = <<>>
                          /\ c = Serving' => /\ ~am_data_desc'[Server].complete
                                             /\ pc'[Server] \in {"comm", "amwait", "close"}
      BY <1>0, OddServer
    <2>2. /\ c # NoClient /\ opt.n \in Nat
          /\ pc[Server] \in {"comm", "wait", "amwait", "drain"} /\ c = conn_request => iter[Server] = 0
      <3>1. c # NoClient /\ opt.n \in Nat
        BY NamesAssumption, OptFields DEF Typed, TypeOK
      <3>2. CASE pc[Server] \in {"comm", "wait", "amwait", "drain"} /\ c = conn_request
        <4>1. Len(rcvd[c]) = 0
          BY <2>1
        <4> QED
          BY <3>1, <3>2, <4>1 DEF CountInv, SessionCount
      <3> QED
        BY <3>1, <3>2
    <2> QED
      BY <1>2, <2>1, <2>2 DEF Typed, TypeOK, SessionHasClient, Procs, Serving,
         SessionPcs, Receiver, InFin, SendCb, InDataLoop, DataLoops
  <1> QED
    BY <1>1, <1>2 DEF Procs

\* FetchCb keeps it.
LEMMA Odd_FetchCb ==
    ASSUME Typed, Typed', CountInv, CreditInv, OddInv,
           NEW p \in Procs, FetchCb(p)
    PROVE  OddInv'
  <1>0. StepOf(p) /\ opt' = opt
    BY Step_FetchCb DEF StepOf
  <1>1. CASE p \in Clients
    <2>1. rcvd' = rcvd /\ conn_request' = conn_request
      BY <1>1, NamesAssumption DEF FetchCb
    <2> QED
      BY <1>0, <1>1, <2>1, OddFrame
  <1>2. CASE p = Server
    <2>1. SUFFICES ASSUME NEW c \in Clients, opt.n > 0, c \in opt.odd, opt.api = "am",
                          rcvd[c] = <<>>,
                          c = Serving => /\ ~am_data_desc[Server].complete
                                         /\ pc[Server] \in {"comm", "amwait", "close"}
                   PROVE  /\ rcvd'[c] = <<>>
                          /\ c = Serving' => /\ ~am_data_desc'[Server].complete
                                             /\ pc'[Server] \in {"comm", "amwait", "close"}
      BY <1>0, OddServer
    <2>2. /\ c # NoClient /\ opt.n \in Nat
          /\ pc[Server] \in {"comm", "wait", "amwait", "drain"} /\ c = conn_request => iter[Server] = 0
      <3>1. c # NoClient /\ opt.n \in Nat
        BY NamesAssumption, OptFields DEF Typed, TypeOK
      <3>2. CASE pc[Server] \in {"comm", "wait", "amwait", "drain"} /\ c = conn_request
        <4>1. Len(rcvd[c]) = 0
          BY <2>1
        <4> QED
          BY <3>1, <3>2, <4>1 DEF CountInv, SessionCount
      <3> QED
        BY <3>1, <3>2
    <2> QED
      BY <1>2, <2>1, <2>2 DEF Typed, TypeOK, SessionHasClient, Procs, Serving,
         SessionPcs, Receiver, InFin, FetchCb, InDataLoop, DataLoops
  <1> QED
    BY <1>1, <1>2 DEF Procs

\* RecvCb keeps it.
LEMMA Odd_RecvCb ==
    ASSUME Typed, Typed', CountInv, CreditInv, OddInv,
           NEW p \in Procs, RecvCb(p)
    PROVE  OddInv'
  <1>0. StepOf(p) /\ opt' = opt
    BY Step_RecvCb DEF StepOf
  <1>1. CASE p \in Clients
    <2>1. rcvd' = rcvd /\ conn_request' = conn_request
      BY <1>1, NamesAssumption DEF RecvCb
    <2> QED
      BY <1>0, <1>1, <2>1, OddFrame
  <1>2. CASE p = Server
    <2>1. SUFFICES ASSUME NEW c \in Clients, opt.n > 0, c \in opt.odd, opt.api = "am",
                          rcvd[c] = <<>>,
                          c = Serving => /\ ~am_data_desc[Server].complete
                                         /\ pc[Server] \in {"comm", "amwait", "close"}
                   PROVE  /\ rcvd'[c] = <<>>
                          /\ c = Serving' => /\ ~am_data_desc'[Server].complete
                                             /\ pc'[Server] \in {"comm", "amwait", "close"}
      BY <1>0, OddServer
    <2>2. /\ c # NoClient /\ opt.n \in Nat
          /\ pc[Server] \in {"comm", "wait", "amwait", "drain"} /\ c = conn_request => iter[Server] = 0
      <3>1. c # NoClient /\ opt.n \in Nat
        BY NamesAssumption, OptFields DEF Typed, TypeOK
      <3>2. CASE pc[Server] \in {"comm", "wait", "amwait", "drain"} /\ c = conn_request
        <4>1. Len(rcvd[c]) = 0
          BY <2>1
        <4> QED
          BY <3>1, <3>2, <4>1 DEF CountInv, SessionCount
      <3> QED
        BY <3>1, <3>2
    <2> QED
      BY <1>2, <2>1, <2>2 DEF Typed, TypeOK, SessionHasClient, Procs, Serving,
         SessionPcs, Receiver, InFin, RecvCb, InDataLoop, DataLoops, In
  <1> QED
    BY <1>1, <1>2 DEF Procs

\* AmDropped keeps it.
LEMMA Odd_AmDropped ==
    ASSUME Typed, Typed', CountInv, CreditInv, OddInv,
           NEW p \in Procs, AmDropped(p)
    PROVE  OddInv'
  <1>0. StepOf(p) /\ opt' = opt
    BY Step_AmDropped DEF StepOf
  <1>1. CASE p \in Clients
    <2>1. rcvd' = rcvd /\ conn_request' = conn_request
      BY <1>1, NamesAssumption DEF AmDropped
    <2> QED
      BY <1>0, <1>1, <2>1, OddFrame
  <1>2. CASE p = Server
    <2>1. SUFFICES ASSUME NEW c \in Clients, opt.n > 0, c \in opt.odd, opt.api = "am",
                          rcvd[c] = <<>>,
                          c = Serving => /\ ~am_data_desc[Server].complete
                                         /\ pc[Server] \in {"comm", "amwait", "close"}
                   PROVE  /\ rcvd'[c] = <<>>
                          /\ c = Serving' => /\ ~am_data_desc'[Server].complete
                                             /\ pc'[Server] \in {"comm", "amwait", "close"}
      BY <1>0, OddServer
    <2>2. /\ c # NoClient /\ opt.n \in Nat
          /\ pc[Server] \in {"comm", "wait", "amwait", "drain"} /\ c = conn_request => iter[Server] = 0
      <3>1. c # NoClient /\ opt.n \in Nat
        BY NamesAssumption, OptFields DEF Typed, TypeOK
      <3>2. CASE pc[Server] \in {"comm", "wait", "amwait", "drain"} /\ c = conn_request
        <4>1. Len(rcvd[c]) = 0
          BY <2>1
        <4> QED
          BY <3>1, <3>2, <4>1 DEF CountInv, SessionCount
      <3> QED
        BY <3>1, <3>2
    <2> QED
      BY <1>2, <2>1, <2>2 DEF Typed, TypeOK, SessionHasClient, Procs, Serving,
         SessionPcs, Receiver, InFin, AmDropped, InDataLoop, DataLoops, In
  <1> QED
    BY <1>1, <1>2 DEF Procs

\* ucp_am_data_cb keeps it.
LEMMA Odd_ucp_am_data_cb ==
    ASSUME Typed, Typed', CountInv, CreditInv, OddInv,
           NEW p \in Procs, ucp_am_data_cb(p)
    PROVE  OddInv'
  <1>0. StepOf(p) /\ opt' = opt
    BY Step_ucp_am_data_cb DEF StepOf
  <1>1. CASE p \in Clients
    <2>1. rcvd' = rcvd /\ conn_request' = conn_request
      BY <1>1, NamesAssumption DEF ucp_am_data_cb, AmDispatched
    <2> QED
      BY <1>0, <1>1, <2>1, OddFrame
  <1>2. CASE p = Server
    <2>1. SUFFICES ASSUME NEW c \in Clients, opt.n > 0, c \in opt.odd, opt.api = "am",
                          rcvd[c] = <<>>,
                          c = Serving => /\ ~am_data_desc[Server].complete
                                         /\ pc[Server] \in {"comm", "amwait", "close"}
                   PROVE  /\ rcvd'[c] = <<>>
                          /\ c = Serving' => /\ ~am_data_desc'[Server].complete
                                             /\ pc'[Server] \in {"comm", "amwait", "close"}
      BY <1>0, OddServer
    <2>2. /\ c # NoClient /\ opt.n \in Nat
          /\ pc[Server] \in {"comm", "wait", "amwait", "drain"} /\ c = conn_request => iter[Server] = 0
      <3>1. c # NoClient /\ opt.n \in Nat
        BY NamesAssumption, OptFields DEF Typed, TypeOK
      <3>2. CASE pc[Server] \in {"comm", "wait", "amwait", "drain"} /\ c = conn_request
        <4>1. Len(rcvd[c]) = 0
          BY <2>1
        <4> QED
          BY <3>1, <3>2, <4>1 DEF CountInv, SessionCount
      <3> QED
        BY <3>1, <3>2
    <2> QED
      BY <1>2, <2>1, <2>2 DEF Typed, TypeOK, SessionHasClient, Procs, Serving,
         SessionPcs, Receiver, InFin, ucp_am_data_cb, AmDispatched, InDataLoop, DataLoops, In,
         WrongLength
  <1> QED
    BY <1>1, <1>2 DEF Procs

\* err_cb keeps it.
LEMMA Odd_err_cb ==
    ASSUME Typed, Typed', CountInv, CreditInv, OddInv,
           NEW p \in Procs, err_cb(p)
    PROVE  OddInv'
  <1>0. StepOf(p) /\ opt' = opt
    BY Step_err_cb DEF StepOf
  <1>1. CASE p \in Clients
    <2>1. rcvd' = rcvd /\ conn_request' = conn_request
      BY <1>1, NamesAssumption DEF err_cb
    <2> QED
      BY <1>0, <1>1, <2>1, OddFrame
  <1>2. CASE p = Server
    <2>1. SUFFICES ASSUME NEW c \in Clients, opt.n > 0, c \in opt.odd, opt.api = "am",
                          rcvd[c] = <<>>,
                          c = Serving => /\ ~am_data_desc[Server].complete
                                         /\ pc[Server] \in {"comm", "amwait", "close"}
                   PROVE  /\ rcvd'[c] = <<>>
                          /\ c = Serving' => /\ ~am_data_desc'[Server].complete
                                             /\ pc'[Server] \in {"comm", "amwait", "close"}
      BY <1>0, OddServer
    <2>2. /\ c # NoClient /\ opt.n \in Nat
          /\ pc[Server] \in {"comm", "wait", "amwait", "drain"} /\ c = conn_request => iter[Server] = 0
      <3>1. c # NoClient /\ opt.n \in Nat
        BY NamesAssumption, OptFields DEF Typed, TypeOK
      <3>2. CASE pc[Server] \in {"comm", "wait", "amwait", "drain"} /\ c = conn_request
        <4>1. Len(rcvd[c]) = 0
          BY <2>1
        <4> QED
          BY <3>1, <3>2, <4>1 DEF CountInv, SessionCount
      <3> QED
        BY <3>1, <3>2
    <2> QED
      BY <1>2, <2>1, <2>2 DEF Typed, TypeOK, SessionHasClient, Procs, Serving,
         SessionPcs, Receiver, InFin, err_cb, InDataLoop, DataLoops
  <1> QED
    BY <1>1, <1>2 DEF Procs

\* Progress keeps it.
LEMMA Odd_Progress ==
    ASSUME Typed, Typed', CountInv, CreditInv, OddInv,
           NEW p \in Procs, Progress(p)
    PROVE  OddInv'
  <1>0. StepOf(p) /\ opt' = opt
    BY Step_Progress DEF StepOf
  <1>1. CASE p \in Clients
    <2>1. rcvd' = rcvd /\ conn_request' = conn_request
      BY <1>1, NamesAssumption DEF Progress
    <2> QED
      BY <1>0, <1>1, <2>1, OddFrame
  <1>2. CASE p = Server
    <2>1. SUFFICES ASSUME NEW c \in Clients, opt.n > 0, c \in opt.odd, opt.api = "am",
                          rcvd[c] = <<>>,
                          c = Serving => /\ ~am_data_desc[Server].complete
                                         /\ pc[Server] \in {"comm", "amwait", "close"}
                   PROVE  /\ rcvd'[c] = <<>>
                          /\ c = Serving' => /\ ~am_data_desc'[Server].complete
                                             /\ pc'[Server] \in {"comm", "amwait", "close"}
      BY <1>0, OddServer
    <2>2. /\ c # NoClient /\ opt.n \in Nat
          /\ pc[Server] \in {"comm", "wait", "amwait", "drain"} /\ c = conn_request => iter[Server] = 0
      <3>1. c # NoClient /\ opt.n \in Nat
        BY NamesAssumption, OptFields DEF Typed, TypeOK
      <3>2. CASE pc[Server] \in {"comm", "wait", "amwait", "drain"} /\ c = conn_request
        <4>1. Len(rcvd[c]) = 0
          BY <2>1
        <4> QED
          BY <3>1, <3>2, <4>1 DEF CountInv, SessionCount
      <3> QED
        BY <3>1, <3>2
    <2> QED
      BY <1>2, <2>1, <2>2 DEF Typed, TypeOK, SessionHasClient, Procs, Serving,
         SessionPcs, Receiver, InFin, Progress, LoopDone, DataLoops
  <1> QED
    BY <1>1, <1>2 DEF Procs

\* The death of a process keeps it.
LEMMA Odd_Die ==
    ASSUME Typed, Typed', CountInv, CreditInv, OddInv,
           NEW p \in Procs, Die(p)
    PROVE  OddInv'
  <1>0. StepOf(p) /\ opt' = opt
    BY Step_Die DEF StepOf
  <1>1. CASE p \in Clients
    <2>1. rcvd' = rcvd /\ conn_request' = conn_request
      BY <1>1, NamesAssumption DEF Die
    <2> QED
      BY <1>0, <1>1, <2>1, OddFrame
  <1>2. CASE p = Server
    <2>1. SUFFICES ASSUME NEW c \in Clients, opt.n > 0, c \in opt.odd, opt.api = "am",
                          rcvd[c] = <<>>,
                          c = Serving => /\ ~am_data_desc[Server].complete
                                         /\ pc[Server] \in {"comm", "amwait", "close"}
                   PROVE  /\ rcvd'[c] = <<>>
                          /\ c = Serving' => /\ ~am_data_desc'[Server].complete
                                             /\ pc'[Server] \in {"comm", "amwait", "close"}
      BY <1>0, OddServer
    <2>2. /\ c # NoClient /\ opt.n \in Nat
          /\ pc[Server] \in {"comm", "wait", "amwait", "drain"} /\ c = conn_request => iter[Server] = 0
      <3>1. c # NoClient /\ opt.n \in Nat
        BY NamesAssumption, OptFields DEF Typed, TypeOK
      <3>2. CASE pc[Server] \in {"comm", "wait", "amwait", "drain"} /\ c = conn_request
        <4>1. Len(rcvd[c]) = 0
          BY <2>1
        <4> QED
          BY <3>1, <3>2, <4>1 DEF CountInv, SessionCount
      <3> QED
        BY <3>1, <3>2
    <2> QED
      BY <1>2, <2>1, <2>2 DEF Typed, TypeOK, SessionHasClient, Procs, Serving,
         SessionPcs, Receiver, InFin, Die
  <1> QED
    BY <1>1, <1>2 DEF Procs

\* StartClient keeps it.
LEMMA Odd_StartClient ==
    ASSUME Typed, Typed', CountInv, CreditInv, OddInv,
           NEW c0 \in Clients, StartClient(c0)
    PROVE  OddInv'
  <1>0. StepOf(c0) /\ opt' = opt
    BY Step_StartClient DEF StepOf
  <1>1. rcvd' = rcvd /\ conn_request' = conn_request
    BY DEF StartClient
  <1> QED
    BY <1>0, <1>1, OddFrame

\* StartClientFails keeps it.
LEMMA Odd_StartClientFails ==
    ASSUME Typed, Typed', CountInv, CreditInv, OddInv,
           NEW c0 \in Clients, StartClientFails(c0)
    PROVE  OddInv'
  <1>0. StepOf(c0) /\ opt' = opt
    BY Step_StartClientFails DEF StepOf
  <1>1. rcvd' = rcvd /\ conn_request' = conn_request
    BY DEF StartClientFails
  <1> QED
    BY <1>0, <1>1, OddFrame

\* RegisterFinHandler keeps it.
LEMMA Odd_RegisterFinHandler ==
    ASSUME Typed, Typed', CountInv, CreditInv, OddInv,
           NEW c0 \in Clients, RegisterFinHandler(c0)
    PROVE  OddInv'
  <1>0. StepOf(c0) /\ opt' = opt
    BY Step_RegisterFinHandler DEF StepOf
  <1>1. rcvd' = rcvd /\ conn_request' = conn_request
    BY DEF RegisterFinHandler
  <1> QED
    BY <1>0, <1>1, OddFrame

\* CloseClient keeps it.
LEMMA Odd_CloseClient ==
    ASSUME Typed, Typed', CountInv, CreditInv, OddInv,
           NEW c0 \in Clients, CloseClient(c0)
    PROVE  OddInv'
  <1>0. StepOf(c0) /\ opt' = opt
    BY Step_CloseClient DEF StepOf
  <1>1. rcvd' = rcvd /\ conn_request' = conn_request
    BY DEF CloseClient
  <1> QED
    BY <1>0, <1>1, OddFrame

\* server_conn_handle_cb keeps it.
LEMMA Odd_server_conn_handle_cb ==
    ASSUME Typed, Typed', CountInv, CreditInv, OddInv,
           NEW c0 \in Clients, server_conn_handle_cb(c0)
    PROVE  OddInv'
  <1>0. StepOf(Server) /\ opt' = opt
    BY Step_server_conn_handle_cb DEF StepOf
  <1>1. SUFFICES ASSUME NEW c \in Clients, opt.n > 0, c \in opt.odd, opt.api = "am",
                        rcvd[c] = <<>>,
                        c = Serving => /\ ~am_data_desc[Server].complete
                                       /\ pc[Server] \in {"comm", "amwait", "close"}
                 PROVE  /\ rcvd'[c] = <<>>
                        /\ c = Serving' => /\ ~am_data_desc'[Server].complete
                                           /\ pc'[Server] \in {"comm", "amwait", "close"}
    BY <1>0, OddServer
  <1>2. /\ c # NoClient /\ opt.n \in Nat
        /\ pc[Server] \in {"comm", "wait", "amwait", "drain"} /\ c = conn_request => iter[Server] = 0
    <2>1. c # NoClient /\ opt.n \in Nat
      BY NamesAssumption, OptFields DEF Typed, TypeOK
    <2>2. CASE pc[Server] \in {"comm", "wait", "amwait", "drain"} /\ c = conn_request
      <3>1. Len(rcvd[c]) = 0
        BY <1>1
      <3> QED
        BY <2>1, <2>2, <3>1 DEF CountInv, SessionCount
    <2> QED
      BY <2>1, <2>2
  <1> QED
    BY <1>1, <1>2 DEF Typed, TypeOK, SessionHasClient, Procs, Serving, SessionPcs,
       Receiver, InFin, server_conn_handle_cb

\* StartServer keeps it.
LEMMA Odd_StartServer ==
    ASSUME Typed, Typed', CountInv, CreditInv, OddInv,
           StartServer
    PROVE  OddInv'
  <1>0. StepOf(Server) /\ opt' = opt
    BY Step_StartServer DEF StepOf
  <1>1. SUFFICES ASSUME NEW c \in Clients, opt.n > 0, c \in opt.odd, opt.api = "am",
                        rcvd[c] = <<>>,
                        c = Serving => /\ ~am_data_desc[Server].complete
                                       /\ pc[Server] \in {"comm", "amwait", "close"}
                 PROVE  /\ rcvd'[c] = <<>>
                        /\ c = Serving' => /\ ~am_data_desc'[Server].complete
                                           /\ pc'[Server] \in {"comm", "amwait", "close"}
    BY <1>0, OddServer
  <1>2. /\ c # NoClient /\ opt.n \in Nat
        /\ pc[Server] \in {"comm", "wait", "amwait", "drain"} /\ c = conn_request => iter[Server] = 0
    <2>1. c # NoClient /\ opt.n \in Nat
      BY NamesAssumption, OptFields DEF Typed, TypeOK
    <2>2. CASE pc[Server] \in {"comm", "wait", "amwait", "drain"} /\ c = conn_request
      <3>1. Len(rcvd[c]) = 0
        BY <1>1
      <3> QED
        BY <2>1, <2>2, <3>1 DEF CountInv, SessionCount
    <2> QED
      BY <2>1, <2>2
  <1> QED
    BY <1>1, <1>2 DEF Typed, TypeOK, SessionHasClient, Procs, Serving, SessionPcs,
       Receiver, InFin, StartServer, Registered

\* ServerSetupFails keeps it.
LEMMA Odd_ServerSetupFails ==
    ASSUME Typed, Typed', CountInv, CreditInv, OddInv,
           ServerSetupFails
    PROVE  OddInv'
  <1>0. StepOf(Server) /\ opt' = opt
    BY Step_ServerSetupFails DEF StepOf
  <1>1. SUFFICES ASSUME NEW c \in Clients, opt.n > 0, c \in opt.odd, opt.api = "am",
                        rcvd[c] = <<>>,
                        c = Serving => /\ ~am_data_desc[Server].complete
                                       /\ pc[Server] \in {"comm", "amwait", "close"}
                 PROVE  /\ rcvd'[c] = <<>>
                        /\ c = Serving' => /\ ~am_data_desc'[Server].complete
                                           /\ pc'[Server] \in {"comm", "amwait", "close"}
    BY <1>0, OddServer
  <1>2. /\ c # NoClient /\ opt.n \in Nat
        /\ pc[Server] \in {"comm", "wait", "amwait", "drain"} /\ c = conn_request => iter[Server] = 0
    <2>1. c # NoClient /\ opt.n \in Nat
      BY NamesAssumption, OptFields DEF Typed, TypeOK
    <2>2. CASE pc[Server] \in {"comm", "wait", "amwait", "drain"} /\ c = conn_request
      <3>1. Len(rcvd[c]) = 0
        BY <1>1
      <3> QED
        BY <2>1, <2>2, <3>1 DEF CountInv, SessionCount
    <2> QED
      BY <2>1, <2>2
  <1> QED
    BY <1>1, <1>2 DEF Typed, TypeOK, SessionHasClient, Procs, Serving, SessionPcs,
       Receiver, InFin, ServerSetupFails, LoopDone

\* CreateEp keeps it.
LEMMA Odd_CreateEp ==
    ASSUME Typed, Typed', CountInv, CreditInv, OddInv,
           CreateEp
    PROVE  OddInv'
  <1>0. StepOf(Server) /\ opt' = opt
    BY Step_CreateEp DEF StepOf
  <1>1. SUFFICES ASSUME NEW c \in Clients, opt.n > 0, c \in opt.odd, opt.api = "am",
                        rcvd[c] = <<>>,
                        c = Serving => /\ ~am_data_desc[Server].complete
                                       /\ pc[Server] \in {"comm", "amwait", "close"}
                 PROVE  /\ rcvd'[c] = <<>>
                        /\ c = Serving' => /\ ~am_data_desc'[Server].complete
                                           /\ pc'[Server] \in {"comm", "amwait", "close"}
    BY <1>0, OddServer
  <1>2. /\ c # NoClient /\ opt.n \in Nat
        /\ pc[Server] \in {"comm", "wait", "amwait", "drain"} /\ c = conn_request => iter[Server] = 0
    <2>1. c # NoClient /\ opt.n \in Nat
      BY NamesAssumption, OptFields DEF Typed, TypeOK
    <2>2. CASE pc[Server] \in {"comm", "wait", "amwait", "drain"} /\ c = conn_request
      <3>1. Len(rcvd[c]) = 0
        BY <1>1
      <3> QED
        BY <2>1, <2>2, <3>1 DEF CountInv, SessionCount
    <2> QED
      BY <2>1, <2>2
  <1> QED
    BY <1>1, <1>2 DEF Typed, TypeOK, SessionHasClient, Procs, Serving, SessionPcs,
       Receiver, InFin, CreateEp, AfterIter, LoopDone, CreditInv, CleanStart

\* Drained keeps it.
LEMMA Odd_Drained ==
    ASSUME Typed, Typed', CountInv, CreditInv, OddInv,
           Drained
    PROVE  OddInv'
  <1>0. StepOf(Server) /\ opt' = opt
    BY Step_Drained DEF StepOf
  <1>1. SUFFICES ASSUME NEW c \in Clients, opt.n > 0, c \in opt.odd, opt.api = "am",
                        rcvd[c] = <<>>,
                        c = Serving => /\ ~am_data_desc[Server].complete
                                       /\ pc[Server] \in {"comm", "amwait", "close"}
                 PROVE  /\ rcvd'[c] = <<>>
                        /\ c = Serving' => /\ ~am_data_desc'[Server].complete
                                           /\ pc'[Server] \in {"comm", "amwait", "close"}
    BY <1>0, OddServer
  <1>2. /\ c # NoClient /\ opt.n \in Nat
        /\ pc[Server] \in {"comm", "wait", "amwait", "drain"} /\ c = conn_request => iter[Server] = 0
    <2>1. c # NoClient /\ opt.n \in Nat
      BY NamesAssumption, OptFields DEF Typed, TypeOK
    <2>2. CASE pc[Server] \in {"comm", "wait", "amwait", "drain"} /\ c = conn_request
      <3>1. Len(rcvd[c]) = 0
        BY <1>1
      <3> QED
        BY <2>1, <2>2, <3>1 DEF CountInv, SessionCount
    <2> QED
      BY <2>1, <2>2
  <1> QED
    BY <1>1, <1>2 DEF Typed, TypeOK, SessionHasClient, Procs, Serving, SessionPcs,
       Receiver, InFin, Drained, LoopDone

\* NextClient keeps it.
LEMMA Odd_NextClient ==
    ASSUME Typed, Typed', CountInv, CreditInv, OddInv,
           NextClient
    PROVE  OddInv'
  <1>0. StepOf(Server) /\ opt' = opt
    BY Step_NextClient DEF StepOf
  <1>1. SUFFICES ASSUME NEW c \in Clients, opt.n > 0, c \in opt.odd, opt.api = "am",
                        rcvd[c] = <<>>,
                        c = Serving => /\ ~am_data_desc[Server].complete
                                       /\ pc[Server] \in {"comm", "amwait", "close"}
                 PROVE  /\ rcvd'[c] = <<>>
                        /\ c = Serving' => /\ ~am_data_desc'[Server].complete
                                           /\ pc'[Server] \in {"comm", "amwait", "close"}
    BY <1>0, OddServer
  <1>2. /\ c # NoClient /\ opt.n \in Nat
        /\ pc[Server] \in {"comm", "wait", "amwait", "drain"} /\ c = conn_request => iter[Server] = 0
    <2>1. c # NoClient /\ opt.n \in Nat
      BY NamesAssumption, OptFields DEF Typed, TypeOK
    <2>2. CASE pc[Server] \in {"comm", "wait", "amwait", "drain"} /\ c = conn_request
      <3>1. Len(rcvd[c]) = 0
        BY <1>1
      <3> QED
        BY <2>1, <2>2, <3>1 DEF CountInv, SessionCount
    <2> QED
      BY <2>1, <2>2
  <1> QED
    BY <1>1, <1>2 DEF Typed, TypeOK, SessionHasClient, Procs, Serving, SessionPcs,
       Receiver, InFin, NextClient, CloseServerEp

\* ServerExit keeps it.
LEMMA Odd_ServerExit ==
    ASSUME Typed, Typed', CountInv, CreditInv, OddInv,
           ServerExit
    PROVE  OddInv'
  <1>0. StepOf(Server) /\ opt' = opt
    BY Step_ServerExit DEF StepOf
  <1>1. SUFFICES ASSUME NEW c \in Clients, opt.n > 0, c \in opt.odd, opt.api = "am",
                        rcvd[c] = <<>>,
                        c = Serving => /\ ~am_data_desc[Server].complete
                                       /\ pc[Server] \in {"comm", "amwait", "close"}
                 PROVE  /\ rcvd'[c] = <<>>
                        /\ c = Serving' => /\ ~am_data_desc'[Server].complete
                                           /\ pc'[Server] \in {"comm", "amwait", "close"}
    BY <1>0, OddServer
  <1>2. /\ c # NoClient /\ opt.n \in Nat
        /\ pc[Server] \in {"comm", "wait", "amwait", "drain"} /\ c = conn_request => iter[Server] = 0
    <2>1. c # NoClient /\ opt.n \in Nat
      BY NamesAssumption, OptFields DEF Typed, TypeOK
    <2>2. CASE pc[Server] \in {"comm", "wait", "amwait", "drain"} /\ c = conn_request
      <3>1. Len(rcvd[c]) = 0
        BY <1>1
      <3> QED
        BY <2>1, <2>2, <3>1 DEF CountInv, SessionCount
    <2> QED
      BY <2>1, <2>2
  <1> QED
    BY <1>1, <1>2 DEF Typed, TypeOK, SessionHasClient, Procs, Serving, SessionPcs,
       Receiver, InFin, ServerExit, CloseServerEp

\* Every step keeps it.
LEMMA OddNext ==
    ASSUME Typed, Typed', CountInv, CreditInv, OddInv, [Next]_vars
    PROVE  OddInv'
  <1>1. ASSUME NEW p \in Procs, Communicate(p)
        PROVE  OddInv'
    BY <1>1, Odd_AllocFails, Odd_Send, Odd_Recv, Odd_AmRecv, Odd_AmArrived,
       Odd_FinalizeError, Odd_FinalizeData, Odd_FinalizeFin DEF Communicate
  <1>2. ASSUME NEW p \in Procs, Callback(p)
        PROVE  OddInv'
    BY <1>2, Odd_SendCb, Odd_FetchCb, Odd_RecvCb, Odd_AmDropped, Odd_ucp_am_data_cb,
       Odd_err_cb, Odd_Die DEF Callback, AmCopyFaults
  <1>3. CASE ServerStep
    BY <1>1, <1>2, <1>3, Odd_StartServer, Odd_ServerSetupFails, Odd_CreateEp,
       Odd_Drained, Odd_NextClient, Odd_ServerExit, Odd_server_conn_handle_cb,
       Odd_Progress DEF ServerStep, Procs
  <1>4. ASSUME NEW c \in Clients, ClientStep(c)
        PROVE  OddInv'
    BY <1>1, <1>2, <1>4, Odd_StartClient, Odd_StartClientFails, Odd_RegisterFinHandler,
       Odd_CloseClient, Odd_Progress DEF ClientStep, Procs
  <1>5. CASE UNCHANGED vars
    BY <1>5 DEF vars, OddInv, Serving
  <1> QED
    BY <1>3, <1>4, <1>5, Odd_Die DEF Next, Idle, Crash

\* It holds initially.
LEMMA OddInit == Init => OddInv
  <1> SUFFICES ASSUME Init PROVE OddInv
    OBVIOUS
  <1>1. Typed
    BY TypedInit
  <1>2. Serving = NoClient /\ \A c \in Clients : rcvd[c] = <<>>
    BY DEF Init, Serving, SessionPcs, Procs
  <1> QED
    BY <1>1, <1>2, OddIsAm DEF OddInv

--------------------------------------------------------------------------------
(***************************************************************************)
(* The invariant, and what follows from it.                                *)
(***************************************************************************)
DeliveryInv == SessionInv /\ CreditInv /\ OddInv

\* The phases, the endpoints, the count of messages and the sessions of clients
\* with another message size are as stated in every reachable state.
THEOREM Delivery == Spec => []DeliveryInv
  <1>1. Init => DeliveryInv
    BY TypedInit, CountsInit, PhaseInit, EndsInit, CreditInit, OddInit
       DEF DeliveryInv, SessionInv
  <1>2. DeliveryInv /\ [Next]_vars => DeliveryInv'
    <2> SUFFICES ASSUME DeliveryInv, [Next]_vars
                 PROVE  DeliveryInv'
      OBVIOUS
    <2>1. Typed /\ CountInv /\ PhaseInv /\ EndpointInv /\ CreditInv /\ OddInv
      BY DEF DeliveryInv, SessionInv
    <2>2. Typed' /\ CountInv' /\ PhaseInv' /\ EndpointInv'
      BY <2>1, TypedNext, CountsNext, PhaseNext, EndsNext
    <2>3. CreditInv' /\ OddInv'
      BY <2>1, <2>2, CreditNext, OddNext
    <2> QED
      BY <2>2, <2>3 DEF DeliveryInv, SessionInv
  <1> QED
    BY <1>1, <1>2, PTL DEF Spec

\* When all of a client's messages are received, none is on its way.
LEMMA CompleteMeansNoneLeft ==
    ASSUME Typed, PhaseInv, CreditInv, NEW c \in Clients, Len(rcvd[c]) = opt.n
    PROVE  net[c][Server] = <<>>
  <1>1. /\ Arrived(c) \in Nat /\ Len(net[c][Server]) \in Nat /\ Future(c) \in Nat
        /\ opt.n \in Nat /\ Holds \in Nat
    BY CountTypes
  <1>2. Arrived(c) \in {opt.n, opt.n + Holds}
    BY <1>1 DEF Arrived, Held
  <1>3. Arrived(c) + Len(net[c][Server]) + Future(c) <= opt.n
    BY DEF CreditInv, Credit
  <1>4. \A a, x, y, n, h \in Nat : a \in {n, n + h} /\ a + x + y <= n => x = 0
    OBVIOUS
  <1>5. Len(net[c][Server]) = 0
    BY <1>1, <1>2, <1>3, <1>4
  <1>6. net[c][Server] \in Seq(Message)
    BY DEF Typed, TypeOK, Procs
  <1> QED
    BY <1>5, <1>6

\* The server is back in its accept loop (run_server) with nothing left of an
\* earlier session: no unexpected message, am_data_desc.complete reset, no
\* request, nothing in flight from a client whose session is over.
THEOREM Leftovers == Spec => []NoLeftovers
  <1>1. DeliveryInv => NoLeftovers
    <2> SUFFICES ASSUME DeliveryInv, pc[Server] = "accept"
                 PROVE  /\ unexp[Server] = <<>>
                        /\ ~am_data_desc[Server].complete
                        /\ req[Server] = "none"
                        /\ \A c \in Clients : ep[Server][c] = "closed" => net[c][Server] = <<>>
      BY DEF NoLeftovers
    <2>1. Typed /\ PhaseInv /\ EndpointInv /\ CreditInv
      BY DEF DeliveryInv, SessionInv
    <2>2. unexp[Server] = <<>> /\ ~am_data_desc[Server].complete
      BY <2>1 DEF CreditInv, CleanStart
    <2>3. req[Server] = "none"
      BY <2>1 DEF PhaseInv, RequestPhase, Procs
    <2>4. ASSUME NEW c \in Clients, ep[Server][c] = "closed"
          PROVE  net[c][Server] = <<>>
      <3>1. Len(rcvd[c]) = opt.n
        BY <2>1, <2>4 DEF EndpointInv, ClosedComplete, ServerGone
      <3> QED
        BY <2>1, <3>1, CompleteMeansNoneLeft
    <2> QED
      BY <2>2, <2>3, <2>4
  <1> QED
    BY Delivery, <1>1, PTL

\* Whenever ucp_am_data_cb may run for an eager message, recv_buf points to live
\* buffers: in the demo's own loops it copies only inside the receive loop of
\* send_recv_am, since no message is left once the data loop is over; and inside
\* ep_close none is left either, unless the process closes because it could not
\* allocate the buffers of that very receive.
THEOREM CopyTarget == Spec => []EagerCopyTarget
  <1>1. DeliveryInv /\ ClosingInv => EagerCopyTarget
    <2> SUFFICES ASSUME DeliveryInv, ClosingInv, NEW p \in Procs, AmDispatched(p), ~opt.rndv
                 PROVE  \/ am_data_desc[p].recv_buf = "live"
                        \/ pc[p] = "close" /\ ret[p] = "err" /\ Receiver(p) /\ "alloc" \in Faults
      BY DEF EagerCopyTarget
    <2>0. /\ (prog[p] /\ pc[p] \in DataLoops) \/ pc[p] = "close"
          /\ opt.api = "am" /\ handler[p] /\ In(p) # <<>>
      BY DEF AmDispatched, InDataLoop
    <2>1. Typed /\ CountInv /\ PhaseInv /\ EndpointInv /\ CreditInv /\ ClosedFor(p) /\ FinInv
      BY DEF DeliveryInv, SessionInv, ClosingInv, CloseInv
    <2>2. CASE pc[p] = "amwait"
      BY <2>1, <2>2 DEF PhaseInv, AmPhase
    <2>3. CASE pc[p] = "wait" /\ Receiver(p)
      BY <2>0, <2>1, <2>3 DEF PhaseInv, AmPhase
    <2>4. CASE p \in Clients /\ (pc[p] = "drain" \/ (pc[p] = "wait" /\ ~Receiver(p)))
      BY <2>0, <2>1, <2>4, NamesAssumption DEF PhaseInv, ClientPhase, Receiver, InFin
    <2>5. CASE p = Server /\ pc[p] # "amwait" /\ ~(pc[p] = "wait" /\ Receiver(p))
      <3>1. conn_request \in Clients
        BY <2>0, <2>1, <2>5 DEF Typed, SessionHasClient, SessionPcs, DataLoops
      <3>2. ASSUME Len(rcvd[conn_request]) = opt.n
            PROVE  FALSE
        <4>1. net[conn_request][Server] = <<>>
          BY <2>1, <3>1, <3>2, CompleteMeansNoneLeft
        <4> QED
          BY <2>0, <2>5, <4>1 DEF In, Peer
      <3>3. CASE pc[p] # "close"
        BY <2>0, <2>1, <2>5, <3>2, <3>3 DEF CountInv, SessionCount, Receiver, InFin, DataLoops
      <3>4. CASE pc[p] = "close"
        <4>1. iter[p] # opt.n /\ ret[p] # "none"
          BY <2>1, <2>5, <3>2, <3>4 DEF ClosedFor, CountInv, SessionCount
        <4>2. ret[p] = "err" /\ Receiver(p)
          BY <2>1, <2>5, <4>1 DEF ClosedFor, Typed, TypeOK, Receiver, InFin
        <4> QED
          BY <2>0, <2>1, <3>4, <4>2 DEF ClosedFor
      <3> QED
        BY <3>3, <3>4
    <2>6. CASE p \in Clients /\ pc[p] = "close"
      <3>1. p # Server /\ Receiver(p)
        BY <2>0, <2>1, <2>6, NamesAssumption DEF PhaseInv, ClientPhase, Receiver, InFin
      <3>2. ret[p] # "ok"
        BY <2>0, <2>6, <3>1, <2>1 DEF FinInv, FinTaken, In, Peer
      <3>3. ret[p] = "err"
        BY <2>1, <2>6, <3>2 DEF ClosedFor, Typed, TypeOK
      <3> QED
        BY <2>0, <2>1, <2>6, <3>1, <3>3 DEF ClosedFor
    <2> QED
      <3>1. p \in Clients \/ p = Server
        BY DEF Procs
      <3>2. pc[p] = "amwait" \/ pc[p] = "drain" \/ pc[p] = "wait" \/ pc[p] = "close"
        BY <2>0 DEF DataLoops
      <3> QED
        BY <2>2, <2>3, <2>4, <2>5, <2>6, <3>1, <3>2
  <1> QED
    BY Delivery, Closing, <1>1, PTL

\* With active messages, a client whose messages have another size than the server
\* expects is never told that they were delivered: ucp_am_data_cb ignores every one
\* of them.
THEOREM WrongSize == Spec => []WrongSizeNeverAcked
  <1>1. DeliveryInv => WrongSizeNeverAcked
    <2> SUFFICES ASSUME DeliveryInv, opt.n > 0, NEW c \in opt.odd
                 PROVE  ret[c] # "ok" /\ rcvd[c] = <<>>
      BY DEF WrongSizeNeverAcked
    <2>1. Typed /\ CountInv /\ OddInv
      BY DEF DeliveryInv, SessionInv
    <2>2. c \in Clients /\ opt.n \in Nat
      BY <2>1, OddIsAm, OptFields DEF Typed, TypeOK
    <2>3. rcvd[c] = <<>>
      BY <2>1 DEF OddInv
    <2>4. ret[c] = "ok" => Len(rcvd[c]) = opt.n
      BY <2>1, <2>2 DEF CountInv, FinMeansComplete, FinUnderWay
    <2> QED
      BY <2>2, <2>3, <2>4
  <1> QED
    BY Delivery, <1>1, PTL

--------------------------------------------------------------------------------
(***************************************************************************)
(* The server's progress calls, and the flag of an eager active message.   *)
(***************************************************************************)
QuietInv ==
    /\ prog[Server] => pc[Server] \in DataLoops \cup {"accept"}
    /\ pc[Server] = "wait" /\ iter[Server] # opt.n /\ req[Server] = "err" /\ prog[Server]
         => ep[Server][conn_request] = "failed"
    /\ am_data_desc[Server].complete => am_data_desc[Server].is_rndv = opt.rndv
    /\ am_data_desc[Server].complete /\ ~opt.rndv => pc[Server] \in {"amwait", "close", "exit", "dead"}

\* A step of a client keeps it.
LEMMA QuietFrame ==
    ASSUME QuietInv, NEW p \in Clients, StepOf(p), ep'[Server] = ep[Server],
           conn_request' = conn_request
    PROVE  QuietInv'
  <1>1. SameLocal(Server) /\ opt' = opt
    BY NamesAssumption DEF StepOf, Procs
  <1> QED
    BY <1>1 DEF QuietInv, SameLocal

\* Messages arrive only in the data loop: after it none is left.
LEMMA ArrivesInDataLoop ==
    ASSUME Typed, CountInv, PhaseInv, CreditInv, prog[Server], pc[Server] \in DataLoops,
           In(Server) # <<>>
    PROVE  /\ conn_request \in Clients /\ Serving = conn_request /\ In(Server) = net[conn_request][Server]
           /\ Len(rcvd[conn_request]) = iter[Server]
           /\ iter[Server] # opt.n /\ pc[Server] \in {"wait", "amwait"}
           /\ opt.api = "am" /\ ~opt.rndv => pc[Server] = "amwait"
  <1>1. conn_request \in Clients /\ Serving = conn_request /\ pc[Server] \in SessionPcs
    BY DEF Typed, SessionHasClient, Serving, SessionPcs, DataLoops
  <1>2. In(Server) = net[conn_request][Server]
    BY DEF In, Peer
  <1>3. Len(rcvd[conn_request]) = iter[Server]
    BY DEF CountInv, SessionCount, DataLoops
  <1>4. iter[Server] # opt.n
    BY <1>1, <1>2, <1>3, CompleteMeansNoneLeft
  <1>5. pc[Server] \in {"wait", "amwait"}
    BY <1>4 DEF CountInv, SessionCount, DataLoops
  <1>6. opt.api = "am" /\ ~opt.rndv => pc[Server] = "amwait"
    BY <1>4, <1>5 DEF PhaseInv, AmPhase, Receiver, InFin, Procs
  <1> QED
    BY <1>1, <1>2, <1>3, <1>4, <1>5, <1>6

\* AllocFails keeps it.
LEMMA Quiet_AllocFails ==
    ASSUME Typed, Typed', CountInv, PhaseInv, EndpointInv, CreditInv, QuietInv,
           NEW p \in Procs, AllocFails(p)
    PROVE  QuietInv'
  <1>0. StepOf(p) /\ opt' = opt
    BY Step_AllocFails DEF StepOf
  <1>1. CASE p \in Clients
    <2>1. ep'[Server] = ep[Server] /\ conn_request' = conn_request
      BY <1>1, NamesAssumption DEF Typed, TypeOK, Procs, AllocFails
    <2> QED
      BY <1>0, <1>1, <2>1, QuietFrame
  <1>2. CASE p = Server
    <2>1. (prog[Server] => pc[Server] \in DataLoops \cup {"accept"})'
      BY <1>0, <1>2 DEF Typed, TypeOK, Procs, AmDesc, QuietInv, DataLoops, AllocFails
    <2>2. (pc[Server] = "wait" /\ iter[Server] # opt.n /\ req[Server] = "err" /\ prog[Server]
            => ep[Server][conn_request] = "failed")'
      BY <1>0, <1>2 DEF Typed, TypeOK, Procs, AmDesc, QuietInv, DataLoops, AllocFails,
         PhaseInv, RequestPhase, RecvReqs, Receiver, InFin, SessionEp, EndpointInv,
         SessionPcs, Peer
    <2>3. (am_data_desc[Server].complete => am_data_desc[Server].is_rndv = opt.rndv)'
      BY <1>0, <1>2 DEF Typed, TypeOK, Procs, AmDesc, QuietInv, AllocFails
    <2>4. (am_data_desc[Server].complete /\ ~opt.rndv => pc[Server] \in {"amwait", "close", "exit", "dead"})'
      BY <1>0, <1>2 DEF Typed, TypeOK, Procs, AmDesc, QuietInv, AllocFails
    <2> QED
      BY <2>1, <2>2, <2>3, <2>4 DEF QuietInv
  <1> QED
    BY <1>1, <1>2 DEF Procs

\* Send keeps it.
LEMMA Quiet_Send ==
    ASSUME Typed, Typed', CountInv, PhaseInv, EndpointInv, CreditInv, QuietInv,
           NEW p \in Procs, Send(p)
    PROVE  QuietInv'
  <1>0. StepOf(p) /\ opt' = opt
    BY Step_Send DEF StepOf
  <1>1. CASE p \in Clients
    <2>1. ep'[Server] = ep[Server] /\ conn_request' = conn_request
      BY <1>1, NamesAssumption DEF Typed, TypeOK, Procs, Send
    <2> QED
      BY <1>0, <1>1, <2>1, QuietFrame
  <1>2. CASE p = Server
    <2>1. (prog[Server] => pc[Server] \in DataLoops \cup {"accept"})'
      BY <1>0, <1>2 DEF Typed, TypeOK, Procs, AmDesc, QuietInv, DataLoops, Send,
         SendResults
    <2>2. (pc[Server] = "wait" /\ iter[Server] # opt.n /\ req[Server] = "err" /\ prog[Server]
            => ep[Server][conn_request] = "failed")'
      BY <1>0, <1>2 DEF Typed, TypeOK, Procs, AmDesc, QuietInv, DataLoops, Send,
         SendResults, PhaseInv, RequestPhase, RecvReqs, Receiver, InFin, SessionEp,
         EndpointInv, SessionPcs, Peer
    <2>3. (am_data_desc[Server].complete => am_data_desc[Server].is_rndv = opt.rndv)'
      BY <1>0, <1>2 DEF Typed, TypeOK, Procs, AmDesc, QuietInv, Send, SendResults
    <2>4. (am_data_desc[Server].complete /\ ~opt.rndv => pc[Server] \in {"amwait", "close", "exit", "dead"})'
      BY <1>0, <1>2 DEF Typed, TypeOK, Procs, AmDesc, QuietInv, Send, SendResults
    <2> QED
      BY <2>1, <2>2, <2>3, <2>4 DEF QuietInv
  <1> QED
    BY <1>1, <1>2 DEF Procs

\* Recv keeps it.
LEMMA Quiet_Recv ==
    ASSUME Typed, Typed', CountInv, PhaseInv, EndpointInv, CreditInv, QuietInv,
           NEW p \in Procs, Recv(p)
    PROVE  QuietInv'
  <1>0. StepOf(p) /\ opt' = opt
    BY Step_Recv DEF StepOf
  <1>1. CASE p \in Clients
    <2>1. ep'[Server] = ep[Server] /\ conn_request' = conn_request
      BY <1>1, NamesAssumption DEF Typed, TypeOK, Procs, Recv
    <2> QED
      BY <1>0, <1>1, <2>1, QuietFrame
  <1>2. CASE p = Server
    <2>1. (prog[Server] => pc[Server] \in DataLoops \cup {"accept"})'
      BY <1>0, <1>2 DEF Typed, TypeOK, Procs, AmDesc, QuietInv, DataLoops, Recv,
         RecvResults
    <2>2. (pc[Server] = "wait" /\ iter[Server] # opt.n /\ req[Server] = "err" /\ prog[Server]
            => ep[Server][conn_request] = "failed")'
      BY <1>0, <1>2 DEF Typed, TypeOK, Procs, AmDesc, QuietInv, DataLoops, Recv,
         RecvResults, PhaseInv, RequestPhase, RecvReqs, Receiver, InFin, SessionEp,
         EndpointInv, SessionPcs, Peer
    <2>3. (am_data_desc[Server].complete => am_data_desc[Server].is_rndv = opt.rndv)'
      BY <1>0, <1>2 DEF Typed, TypeOK, Procs, AmDesc, QuietInv, Recv, RecvResults
    <2>4. (am_data_desc[Server].complete /\ ~opt.rndv => pc[Server] \in {"amwait", "close", "exit", "dead"})'
      BY <1>0, <1>2 DEF Typed, TypeOK, Procs, AmDesc, QuietInv, Recv, RecvResults
    <2> QED
      BY <2>1, <2>2, <2>3, <2>4 DEF QuietInv
  <1> QED
    BY <1>1, <1>2 DEF Procs

\* AmRecv keeps it.
LEMMA Quiet_AmRecv ==
    ASSUME Typed, Typed', CountInv, PhaseInv, EndpointInv, CreditInv, QuietInv,
           NEW p \in Procs, AmRecv(p)
    PROVE  QuietInv'
  <1>0. StepOf(p) /\ opt' = opt
    BY Step_AmRecv DEF StepOf
  <1>1. CASE p \in Clients
    <2>1. ep'[Server] = ep[Server] /\ conn_request' = conn_request
      BY <1>1, NamesAssumption DEF Typed, TypeOK, Procs, AmRecv
    <2> QED
      BY <1>0, <1>1, <2>1, QuietFrame
  <1>2. CASE p = Server
    <2>1. (prog[Server] => pc[Server] \in DataLoops \cup {"accept"})'
      BY <1>0, <1>2 DEF Typed, TypeOK, Procs, AmDesc, QuietInv, DataLoops, AmRecv
    <2>2. (pc[Server] = "wait" /\ iter[Server] # opt.n /\ req[Server] = "err" /\ prog[Server]
            => ep[Server][conn_request] = "failed")'
      BY <1>0, <1>2 DEF Typed, TypeOK, Procs, AmDesc, QuietInv, DataLoops, AmRecv,
         PhaseInv, RequestPhase, RecvReqs, Receiver, InFin, SessionEp, EndpointInv,
         SessionPcs, Peer
    <2>3. (am_data_desc[Server].complete => am_data_desc[Server].is_rndv = opt.rndv)'
      BY <1>0, <1>2 DEF Typed, TypeOK, Procs, AmDesc, QuietInv, AmRecv
    <2>4. (am_data_desc[Server].complete /\ ~opt.rndv => pc[Server] \in {"amwait", "close", "exit", "dead"})'
      BY <1>0, <1>2 DEF Typed, TypeOK, Procs, AmDesc, QuietInv, AmRecv
    <2> QED
      BY <2>1, <2>2, <2>3, <2>4 DEF QuietInv
  <1> QED
    BY <1>1, <1>2 DEF Procs

\* AmArrived keeps it.
LEMMA Quiet_AmArrived ==
    ASSUME Typed, Typed', CountInv, PhaseInv, EndpointInv, CreditInv, QuietInv,
           NEW p \in Procs, AmArrived(p)
    PROVE  QuietInv'
  <1>0. StepOf(p) /\ opt' = opt
    BY Step_AmArrived DEF StepOf
  <1>1. CASE p \in Clients
    <2>1. ep'[Server] = ep[Server] /\ conn_request' = conn_request
      BY <1>1, NamesAssumption DEF Typed, TypeOK, Procs, AmArrived
    <2> QED
      BY <1>0, <1>1, <2>1, QuietFrame
  <1>2. CASE p = Server
    <2>1. (prog[Server] => pc[Server] \in DataLoops \cup {"accept"})'
      BY <1>0, <1>2 DEF Typed, TypeOK, Procs, AmDesc, QuietInv, DataLoops, AmArrived,
         Taken, LoopDone
    <2>2. (pc[Server] = "wait" /\ iter[Server] # opt.n /\ req[Server] = "err" /\ prog[Server]
            => ep[Server][conn_request] = "failed")'
      BY <1>0, <1>2 DEF Typed, TypeOK, Procs, AmDesc, QuietInv, DataLoops, AmArrived,
         Taken, LoopDone, PhaseInv, RequestPhase, RecvReqs, Receiver, InFin, SessionEp,
         EndpointInv, SessionPcs, Peer
    <2>3. (am_data_desc[Server].complete => am_data_desc[Server].is_rndv = opt.rndv)'
      BY <1>0, <1>2 DEF Typed, TypeOK, Procs, AmDesc, QuietInv, AmArrived, Taken,
         LoopDone
    <2>4. (am_data_desc[Server].complete /\ ~opt.rndv => pc[Server] \in {"amwait", "close", "exit", "dead"})'
      BY <1>0, <1>2 DEF Typed, TypeOK, Procs, AmDesc, QuietInv, AmArrived, Taken,
         LoopDone
    <2> QED
      BY <2>1, <2>2, <2>3, <2>4 DEF QuietInv
  <1> QED
    BY <1>1, <1>2 DEF Procs

\* FinalizeError keeps it.
LEMMA Quiet_FinalizeError ==
    ASSUME Typed, Typed', CountInv, PhaseInv, EndpointInv, CreditInv, QuietInv,
           NEW p \in Procs, FinalizeError(p)
    PROVE  QuietInv'
  <1>0. StepOf(p) /\ opt' = opt
    BY Step_FinalizeError DEF StepOf
  <1>1. CASE p \in Clients
    <2>1. ep'[Server] = ep[Server] /\ conn_request' = conn_request
      BY <1>1, NamesAssumption DEF Typed, TypeOK, Procs, FinalizeError
    <2> QED
      BY <1>0, <1>1, <2>1, QuietFrame
  <1>2. CASE p = Server
    <2>1. (prog[Server] => pc[Server] \in DataLoops \cup {"accept"})'
      BY <1>0, <1>2 DEF Typed, TypeOK, Procs, AmDesc, QuietInv, DataLoops,
         FinalizeError, FreeIov
    <2>2. (pc[Server] = "wait" /\ iter[Server] # opt.n /\ req[Server] = "err" /\ prog[Server]
            => ep[Server][conn_request] = "failed")'
      BY <1>0, <1>2 DEF Typed, TypeOK, Procs, AmDesc, QuietInv, DataLoops,
         FinalizeError, FreeIov, PhaseInv, RequestPhase, RecvReqs, Receiver, InFin,
         SessionEp, EndpointInv, SessionPcs, Peer
    <2>3. (am_data_desc[Server].complete => am_data_desc[Server].is_rndv = opt.rndv)'
      BY <1>0, <1>2 DEF Typed, TypeOK, Procs, AmDesc, QuietInv, FinalizeError, FreeIov
    <2>4. (am_data_desc[Server].complete /\ ~opt.rndv => pc[Server] \in {"amwait", "close", "exit", "dead"})'
      BY <1>0, <1>2 DEF Typed, TypeOK, Procs, AmDesc, QuietInv, FinalizeError, FreeIov
    <2> QED
      BY <2>1, <2>2, <2>3, <2>4 DEF QuietInv
  <1> QED
    BY <1>1, <1>2 DEF Procs

\* FinalizeData keeps it.
LEMMA Quiet_FinalizeData ==
    ASSUME Typed, Typed', CountInv, PhaseInv, EndpointInv, CreditInv, QuietInv,
           NEW p \in Procs, FinalizeData(p)
    PROVE  QuietInv'
  <1>0. StepOf(p) /\ opt' = opt
    BY Step_FinalizeData DEF StepOf
  <1>1. CASE p \in Clients
    <2>1. ep'[Server] = ep[Server] /\ conn_request' = conn_request
      BY <1>1, NamesAssumption DEF Typed, TypeOK, Procs, FinalizeData
    <2> QED
      BY <1>0, <1>1, <2>1, QuietFrame
  <1>2. CASE p = Server
    <2>1. (prog[Server] => pc[Server] \in DataLoops \cup {"accept"})'
      BY <1>0, <1>2 DEF Typed, TypeOK, Procs, AmDesc, QuietInv, DataLoops, FinalizeData,
         FreeIov, AfterIter
    <2>2. (pc[Server] = "wait" /\ iter[Server] # opt.n /\ req[Server] = "err" /\ prog[Server]
            => ep[Server][conn_request] = "failed")'
      BY <1>0, <1>2 DEF Typed, TypeOK, Procs, AmDesc, QuietInv, DataLoops, FinalizeData,
         FreeIov, AfterIter, PhaseInv, RequestPhase, RecvReqs, Receiver, InFin,
         SessionEp, EndpointInv, SessionPcs, Peer
    <2>3. (am_data_desc[Server].complete => am_data_desc[Server].is_rndv = opt.rndv)'
      BY <1>0, <1>2 DEF Typed, TypeOK, Procs, AmDesc, QuietInv, FinalizeData, FreeIov,
         AfterIter
    <2>4. (am_data_desc[Server].complete /\ ~opt.rndv => pc[Server] \in {"amwait", "close", "exit", "dead"})'
      BY <1>0, <1>2 DEF Typed, TypeOK, Procs, AmDesc, QuietInv, FinalizeData, FreeIov,
         AfterIter
    <2> QED
      BY <2>1, <2>2, <2>3, <2>4 DEF QuietInv
  <1> QED
    BY <1>1, <1>2 DEF Procs

\* FinalizeFin keeps it.
LEMMA Quiet_FinalizeFin ==
    ASSUME Typed, Typed', CountInv, PhaseInv, EndpointInv, CreditInv, QuietInv,
           NEW p \in Procs, FinalizeFin(p)
    PROVE  QuietInv'
  <1>0. StepOf(p) /\ opt' = opt
    BY Step_FinalizeFin DEF StepOf
  <1>1. CASE p \in Clients
    <2>1. ep'[Server] = ep[Server] /\ conn_request' = conn_request
      BY <1>1, NamesAssumption DEF Typed, TypeOK, Procs, FinalizeFin
    <2> QED
      BY <1>0, <1>1, <2>1, QuietFrame
  <1>2. CASE p = Server
    <2>1. (prog[Server] => pc[Server] \in DataLoops \cup {"accept"})'
      BY <1>0, <1>2 DEF Typed, TypeOK, Procs, AmDesc, QuietInv, DataLoops, FinalizeFin,
         FreeIov
    <2>2. (pc[Server] = "wait" /\ iter[Server] # opt.n /\ req[Server] = "err" /\ prog[Server]
            => ep[Server][conn_request] = "failed")'
      BY <1>0, <1>2 DEF Typed, TypeOK, Procs, AmDesc, QuietInv, DataLoops, FinalizeFin,
         FreeIov, PhaseInv, RequestPhase, RecvReqs, Receiver, InFin, SessionEp,
         EndpointInv, SessionPcs, Peer
    <2>3. (am_data_desc[Server].complete => am_data_desc[Server].is_rndv = opt.rndv)'
      BY <1>0, <1>2 DEF Typed, TypeOK, Procs, AmDesc, QuietInv, FinalizeFin, FreeIov
    <2>4. (am_data_desc[Server].complete /\ ~opt.rndv => pc[Server] \in {"amwait", "close", "exit", "dead"})'
      BY <1>0, <1>2 DEF Typed, TypeOK, Procs, AmDesc, QuietInv, FinalizeFin, FreeIov
    <2> QED
      BY <2>1, <2>2, <2>3, <2>4 DEF QuietInv
  <1> QED
    BY <1>1, <1>2 DEF Procs

\* SendCb keeps it.
LEMMA Quiet_SendCb ==
    ASSUME Typed, Typed', CountInv, PhaseInv, EndpointInv, CreditInv, QuietInv,
           NEW p \in Procs, SendCb(p)
    PROVE  QuietInv'
  <1>0. StepOf(p) /\ opt' = opt
    BY Step_SendCb DEF StepOf
  <1>1. CASE p \in Clients
    <2>1. ep'[Server] = ep[Server] /\ conn_request' = conn_request
      BY <1>1, NamesAssumption DEF Typed, TypeOK, Procs, SendCb
    <2> QED
      BY <1>0, <1>1, <2>1, QuietFrame
  <1>2. CASE p = Server
    <2>1. (prog[Server] => pc[Server] \in DataLoops \cup {"accept"})'
      BY <1>0, <1>2 DEF Typed, TypeOK, Procs, AmDesc, QuietInv, DataLoops, SendCb,
         InDataLoop
    <2>2. (pc[Server] = "wait" /\ iter[Server] # opt.n /\ req[Server] = "err" /\ prog[Server]
            => ep[Server][conn_request] = "failed")'
      BY <1>0, <1>2 DEF Typed, TypeOK, Procs, AmDesc, QuietInv, DataLoops, SendCb,
         InDataLoop, PhaseInv, RequestPhase, RecvReqs, Receiver, InFin, SessionEp,
         EndpointInv, SessionPcs, Peer
    <2>3. (am_data_desc[Server].complete => am_data_desc[Server].is_rndv = opt.rndv)'
      BY <1>0, <1>2 DEF Typed, TypeOK, Procs, AmDesc, QuietInv, SendCb, InDataLoop,
         DataLoops
    <2>4. (am_data_desc[Server].complete /\ ~opt.rndv => pc[Server] \in {"amwait", "close", "exit", "dead"})'
      BY <1>0, <1>2 DEF Typed, TypeOK, Procs, AmDesc, QuietInv, SendCb, InDataLoop,
         DataLoops
    <2> QED
      BY <2>1, <2>2, <2>3, <2>4 DEF QuietInv
  <1> QED
    BY <1>1, <1>2 DEF Procs

\* FetchCb keeps it.
LEMMA Quiet_FetchCb ==
    ASSUME Typed, Typed', CountInv, PhaseInv, EndpointInv, CreditInv, QuietInv,
           NEW p \in Procs, FetchCb(p)
    PROVE  QuietInv'
  <1>0. StepOf(p) /\ opt' = opt
    BY Step_FetchCb DEF StepOf
  <1>1. CASE p \in Clients
    <2>1. ep'[Server] = ep[Server] /\ conn_request' = conn_request
      BY <1>1, NamesAssumption DEF Typed, TypeOK, Procs, FetchCb
    <2> QED
      BY <1>0, <1>1, <2>1, QuietFrame
  <1>2. CASE p = Server
    <2>1. (prog[Server] => pc[Server] \in DataLoops \cup {"accept"})'
      BY <1>0, <1>2 DEF Typed, TypeOK, Procs, AmDesc, QuietInv, DataLoops, FetchCb,
         InDataLoop
    <2>2. (pc[Server] = "wait" /\ iter[Server] # opt.n /\ req[Server] = "err" /\ prog[Server]
            => ep[Server][conn_request] = "failed")'
      BY <1>0, <1>2 DEF Typed, TypeOK, Procs, AmDesc, QuietInv, DataLoops, FetchCb,
         InDataLoop, PhaseInv, RequestPhase, RecvReqs, Receiver, InFin, SessionEp,
         EndpointInv, SessionPcs, Peer, Confirm
    <2>3. (am_data_desc[Server].complete => am_data_desc[Server].is_rndv = opt.rndv)'
      BY <1>0, <1>2 DEF Typed, TypeOK, Procs, AmDesc, QuietInv, FetchCb, InDataLoop,
         DataLoops
    <2>4. (am_data_desc[Server].complete /\ ~opt.rndv => pc[Server] \in {"amwait", "close", "exit", "dead"})'
      BY <1>0, <1>2 DEF Typed, TypeOK, Procs, AmDesc, QuietInv, FetchCb, InDataLoop,
         DataLoops
    <2> QED
      BY <2>1, <2>2, <2>3, <2>4 DEF QuietInv
  <1> QED
    BY <1>1, <1>2 DEF Procs

\* RecvCb keeps it.
LEMMA Quiet_RecvCb ==
    ASSUME Typed, Typed', CountInv, PhaseInv, EndpointInv, CreditInv, QuietInv,
           NEW p \in Procs, RecvCb(p)
    PROVE  QuietInv'
  <1>0. StepOf(p) /\ opt' = opt
    BY Step_RecvCb DEF StepOf
  <1>1. CASE p \in Clients
    <2>1. ep'[Server] = ep[Server] /\ conn_request' = conn_request
      BY <1>1, NamesAssumption DEF Typed, TypeOK, Procs, RecvCb
    <2> QED
      BY <1>0, <1>1, <2>1, QuietFrame
  <1>2. CASE p = Server
    <2>1. (prog[Server] => pc[Server] \in DataLoops \cup {"accept"})'
      BY <1>0, <1>2 DEF Typed, TypeOK, Procs, AmDesc, QuietInv, DataLoops, RecvCb,
         InDataLoop
    <2>2. (pc[Server] = "wait" /\ iter[Server] # opt.n /\ req[Server] = "err" /\ prog[Server]
            => ep[Server][conn_request] = "failed")'
      <3>1. ReqAfterArrival(Server)
        BY <1>2, ReqAfter_RecvCb
      <3>2. req'[Server] = "err" => req[Server] = "err"
        BY <3>1 DEF ReqAfterArrival, Procs
      <3>3. /\ pc' = pc /\ iter' = iter /\ prog' = prog /\ ep' = ep /\ conn_request' = conn_request
        BY DEF RecvCb
      <3> QED
        BY <1>0, <3>2, <3>3 DEF QuietInv
    <2>3. (am_data_desc[Server].complete => am_data_desc[Server].is_rndv = opt.rndv)'
      BY <1>0, <1>2 DEF Typed, TypeOK, Procs, AmDesc, QuietInv, RecvCb, InDataLoop,
         DataLoops
    <2>4. (am_data_desc[Server].complete /\ ~opt.rndv => pc[Server] \in {"amwait", "close", "exit", "dead"})'
      BY <1>0, <1>2 DEF Typed, TypeOK, Procs, AmDesc, QuietInv, RecvCb, InDataLoop,
         DataLoops
    <2> QED
      BY <2>1, <2>2, <2>3, <2>4 DEF QuietInv
  <1> QED
    BY <1>1, <1>2 DEF Procs

\* AmDropped keeps it.
LEMMA Quiet_AmDropped ==
    ASSUME Typed, Typed', CountInv, PhaseInv, EndpointInv, CreditInv, QuietInv,
           NEW p \in Procs, AmDropped(p)
    PROVE  QuietInv'
  <1>0. StepOf(p) /\ opt' = opt
    BY Step_AmDropped DEF StepOf
  <1>1. CASE p \in Clients
    <2>1. ep'[Server] = ep[Server] /\ conn_request' = conn_request
      BY <1>1, NamesAssumption DEF Typed, TypeOK, Procs, AmDropped
    <2> QED
      BY <1>0, <1>1, <2>1, QuietFrame
  <1>2. CASE p = Server
    <2>1. (prog[Server] => pc[Server] \in DataLoops \cup {"accept"})'
      BY <1>0, <1>2 DEF Typed, TypeOK, Procs, AmDesc, QuietInv, DataLoops, AmDropped,
         InDataLoop
    <2>2. (pc[Server] = "wait" /\ iter[Server] # opt.n /\ req[Server] = "err" /\ prog[Server]
            => ep[Server][conn_request] = "failed")'
      <3>1. ReqAfterArrival(Server)
        BY <1>2, ReqAfter_AmDropped
      <3>2. req'[Server] = "err" => req[Server] = "err"
        BY <3>1 DEF ReqAfterArrival, Procs
      <3>3. /\ pc' = pc /\ iter' = iter /\ prog' = prog /\ ep' = ep /\ conn_request' = conn_request
        BY DEF AmDropped
      <3> QED
        BY <1>0, <3>2, <3>3 DEF QuietInv
    <2>3. (am_data_desc[Server].complete => am_data_desc[Server].is_rndv = opt.rndv)'
      BY <1>0, <1>2 DEF Typed, TypeOK, Procs, AmDesc, QuietInv, AmDropped, InDataLoop,
         DataLoops
    <2>4. (am_data_desc[Server].complete /\ ~opt.rndv => pc[Server] \in {"amwait", "close", "exit", "dead"})'
      BY <1>0, <1>2 DEF Typed, TypeOK, Procs, AmDesc, QuietInv, AmDropped, InDataLoop,
         DataLoops
    <2> QED
      BY <2>1, <2>2, <2>3, <2>4 DEF QuietInv
  <1> QED
    BY <1>1, <1>2 DEF Procs

\* ucp_am_data_cb keeps it.
LEMMA Quiet_ucp_am_data_cb ==
    ASSUME Typed, Typed', CountInv, PhaseInv, EndpointInv, CreditInv, QuietInv,
           NEW p \in Procs, ucp_am_data_cb(p)
    PROVE  QuietInv'
  <1>0. StepOf(p) /\ opt' = opt
    BY Step_ucp_am_data_cb DEF StepOf
  <1>1. CASE p \in Clients
    <2>1. ep'[Server] = ep[Server] /\ conn_request' = conn_request
      BY <1>1, NamesAssumption DEF Typed, TypeOK, Procs, ucp_am_data_cb, AmDispatched
    <2> QED
      BY <1>0, <1>1, <2>1, QuietFrame
  <1>2. CASE p = Server
    <2>1. (prog[Server] => pc[Server] \in DataLoops \cup {"accept"})'
      BY <1>0, <1>2 DEF Typed, TypeOK, Procs, AmDesc, QuietInv, DataLoops,
         ucp_am_data_cb, AmDispatched, InDataLoop
    <2>2. (pc[Server] = "wait" /\ iter[Server] # opt.n /\ req[Server] = "err" /\ prog[Server]
            => ep[Server][conn_request] = "failed")'
      <3>1. ReqAfterArrival(Server)
        BY <1>2, ReqAfter_ucp_am_data_cb
      <3>2. req'[Server] = "err" => req[Server] = "err"
        BY <3>1 DEF ReqAfterArrival, Procs
      <3>3. /\ pc' = pc /\ iter' = iter /\ prog' = prog /\ ep' = ep /\ conn_request' = conn_request
        BY DEF ucp_am_data_cb, AmDispatched
      <3> QED
        BY <1>0, <3>2, <3>3 DEF QuietInv
    <2>3. (am_data_desc[Server].complete => am_data_desc[Server].is_rndv = opt.rndv)'
      BY <1>0, <1>2 DEF Typed, TypeOK, Procs, AmDesc, QuietInv, ucp_am_data_cb, AmDispatched,
         InDataLoop, DataLoops
    <2>4. (am_data_desc[Server].complete /\ ~opt.rndv => pc[Server] \in {"amwait", "close", "exit", "dead"})'
      <3>1. pc[Server] \in {"amwait", "close"} \/ opt.rndv
        <4>1. /\ (prog[Server] /\ pc[Server] \in DataLoops) \/ pc[Server] = "close"
              /\ In(Server) # <<>> /\ opt.api = "am"
          BY <1>2 DEF ucp_am_data_cb, AmDispatched, InDataLoop
        <4> QED
          BY <4>1, ArrivesInDataLoop
      <3>2. pc' = pc
        BY DEF ucp_am_data_cb, AmDispatched
      <3> QED
        BY <1>0, <3>1, <3>2
    <2> QED
      BY <2>1, <2>2, <2>3, <2>4 DEF QuietInv
  <1> QED
    BY <1>1, <1>2 DEF Procs

\* err_cb keeps it.
LEMMA Quiet_err_cb ==
    ASSUME Typed, Typed', CountInv, PhaseInv, EndpointInv, CreditInv, QuietInv,
           NEW p \in Procs, err_cb(p)
    PROVE  QuietInv'
  <1>0. StepOf(p) /\ opt' = opt
    BY Step_err_cb DEF StepOf
  <1>1. CASE p \in Clients
    <2>1. ep'[Server] = ep[Server] /\ conn_request' = conn_request
      BY <1>1, NamesAssumption DEF Typed, TypeOK, Procs, err_cb
    <2> QED
      BY <1>0, <1>1, <2>1, QuietFrame
  <1>2. CASE p = Server
    <2>1. (prog[Server] => pc[Server] \in DataLoops \cup {"accept"})'
      BY <1>0, <1>2 DEF Typed, TypeOK, Procs, AmDesc, QuietInv, DataLoops, err_cb,
         InDataLoop
    <2>2. (pc[Server] = "wait" /\ iter[Server] # opt.n /\ req[Server] = "err" /\ prog[Server]
            => ep[Server][conn_request] = "failed")'
      BY <1>0, <1>2 DEF Typed, TypeOK, Procs, AmDesc, QuietInv, DataLoops, err_cb,
         InDataLoop, FailedReq, PhaseInv, RequestPhase, RecvReqs, Receiver, InFin,
         SessionEp, EndpointInv, SessionPcs, Peer
    <2>3. (am_data_desc[Server].complete => am_data_desc[Server].is_rndv = opt.rndv)'
      BY <1>0, <1>2 DEF Typed, TypeOK, Procs, AmDesc, QuietInv, err_cb, InDataLoop,
         DataLoops
    <2>4. (am_data_desc[Server].complete /\ ~opt.rndv => pc[Server] \in {"amwait", "close", "exit", "dead"})'
      BY <1>0, <1>2 DEF Typed, TypeOK, Procs, AmDesc, QuietInv, err_cb, InDataLoop,
         DataLoops
    <2> QED
      BY <2>1, <2>2, <2>3, <2>4 DEF QuietInv
  <1> QED
    BY <1>1, <1>2 DEF Procs

\* Progress keeps it.
LEMMA Quiet_Progress ==
    ASSUME Typed, Typed', CountInv, PhaseInv, EndpointInv, CreditInv, QuietInv,
           NEW p \in Procs, Progress(p)
    PROVE  QuietInv'
  <1>0. StepOf(p) /\ opt' = opt
    BY Step_Progress DEF StepOf
  <1>1. CASE p \in Clients
    <2>1. ep'[Server] = ep[Server] /\ conn_request' = conn_request
      BY <1>1, NamesAssumption DEF Typed, TypeOK, Procs, Progress
    <2> QED
      BY <1>0, <1>1, <2>1, QuietFrame
  <1>2. CASE p = Server
    <2>1. (prog[Server] => pc[Server] \in DataLoops \cup {"accept"})'
      BY <1>0, <1>2 DEF Typed, TypeOK, Procs, AmDesc, QuietInv, DataLoops, Progress,
         LoopDone
    <2>2. (pc[Server] = "wait" /\ iter[Server] # opt.n /\ req[Server] = "err" /\ prog[Server]
            => ep[Server][conn_request] = "failed")'
      BY <1>0, <1>2 DEF Typed, TypeOK, Procs, AmDesc, QuietInv, DataLoops, Progress,
         LoopDone, PhaseInv, RequestPhase, RecvReqs, Receiver, InFin, SessionEp,
         EndpointInv, SessionPcs, Peer
    <2>3. (am_data_desc[Server].complete => am_data_desc[Server].is_rndv = opt.rndv)'
      BY <1>0, <1>2 DEF Typed, TypeOK, Procs, AmDesc, QuietInv, Progress, LoopDone,
         DataLoops
    <2>4. (am_data_desc[Server].complete /\ ~opt.rndv => pc[Server] \in {"amwait", "close", "exit", "dead"})'
      BY <1>0, <1>2 DEF Typed, TypeOK, Procs, AmDesc, QuietInv, Progress, LoopDone,
         DataLoops
    <2> QED
      BY <2>1, <2>2, <2>3, <2>4 DEF QuietInv
  <1> QED
    BY <1>1, <1>2 DEF Procs

\* The death of a process keeps it.
LEMMA Quiet_Die ==
    ASSUME Typed, Typed', CountInv, PhaseInv, EndpointInv, CreditInv, QuietInv,
           NEW p \in Procs, Die(p)
    PROVE  QuietInv'
  <1>0. StepOf(p) /\ opt' = opt
    BY Step_Die DEF StepOf
  <1>1. CASE p \in Clients
    <2>1. ep'[Server] = ep[Server] /\ conn_request' = conn_request
      BY <1>1, NamesAssumption DEF Typed, TypeOK, Procs, Die
    <2> QED
      BY <1>0, <1>1, <2>1, QuietFrame
  <1>2. CASE p = Server
    <2>1. (prog[Server] => pc[Server] \in DataLoops \cup {"accept"})'
      BY <1>0, <1>2 DEF Typed, TypeOK, Procs, AmDesc, QuietInv, DataLoops, Die
    <2>2. (pc[Server] = "wait" /\ iter[Server] # opt.n /\ req[Server] = "err" /\ prog[Server]
            => ep[Server][conn_request] = "failed")'
      BY <1>0, <1>2 DEF Typed, TypeOK, Procs, AmDesc, QuietInv, DataLoops, Die,
         PhaseInv, RequestPhase, RecvReqs, Receiver, InFin, SessionEp, EndpointInv,
         SessionPcs, Peer
    <2>3. (am_data_desc[Server].complete => am_data_desc[Server].is_rndv = opt.rndv)'
      BY <1>0, <1>2 DEF Typed, TypeOK, Procs, AmDesc, QuietInv, Die
    <2>4. (am_data_desc[Server].complete /\ ~opt.rndv => pc[Server] \in {"amwait", "close", "exit", "dead"})'
      BY <1>0, <1>2 DEF Typed, TypeOK, Procs, AmDesc, QuietInv, Die
    <2> QED
      BY <2>1, <2>2, <2>3, <2>4 DEF QuietInv
  <1> QED
    BY <1>1, <1>2 DEF Procs

\* StartClient keeps it.
LEMMA Quiet_StartClient ==
    ASSUME Typed, Typed', CountInv, PhaseInv, EndpointInv, CreditInv, QuietInv,
           NEW c0 \in Clients, StartClient(c0)
    PROVE  QuietInv'
  <1>0. StepOf(c0) /\ opt' = opt
    BY Step_StartClient DEF StepOf
  <1>1. ep'[Server] = ep[Server] /\ conn_request' = conn_request
    BY NamesAssumption DEF Typed, TypeOK, Procs, StartClient
  <1> QED
    BY <1>0, <1>1, QuietFrame

\* StartClientFails keeps it.
LEMMA Quiet_StartClientFails ==
    ASSUME Typed, Typed', CountInv, PhaseInv, EndpointInv, CreditInv, QuietInv,
           NEW c0 \in Clients, StartClientFails(c0)
    PROVE  QuietInv'
  <1>0. StepOf(c0) /\ opt' = opt
    BY Step_StartClientFails DEF StepOf
  <1>1. ep'[Server] = ep[Server] /\ conn_request' = conn_request
    BY NamesAssumption DEF Typed, TypeOK, Procs, StartClientFails
  <1> QED
    BY <1>0, <1>1, QuietFrame

\* RegisterFinHandler keeps it.
LEMMA Quiet_RegisterFinHandler ==
    ASSUME Typed, Typed', CountInv, PhaseInv, EndpointInv, CreditInv, QuietInv,
           NEW c0 \in Clients, RegisterFinHandler(c0)
    PROVE  QuietInv'
  <1>0. StepOf(c0) /\ opt' = opt
    BY Step_RegisterFinHandler DEF StepOf
  <1>1. ep'[Server] = ep[Server] /\ conn_request' = conn_request
    BY NamesAssumption DEF Typed, TypeOK, Procs, RegisterFinHandler
  <1> QED
    BY <1>0, <1>1, QuietFrame

\* CloseClient keeps it.
LEMMA Quiet_CloseClient ==
    ASSUME Typed, Typed', CountInv, PhaseInv, EndpointInv, CreditInv, QuietInv,
           NEW c0 \in Clients, CloseClient(c0)
    PROVE  QuietInv'
  <1>0. StepOf(c0) /\ opt' = opt
    BY Step_CloseClient DEF StepOf
  <1>1. ep'[Server] = ep[Server] /\ conn_request' = conn_request
    BY NamesAssumption DEF Typed, TypeOK, Procs, CloseClient
  <1> QED
    BY <1>0, <1>1, QuietFrame

\* server_conn_handle_cb keeps it.
LEMMA Quiet_server_conn_handle_cb ==
    ASSUME Typed, Typed', CountInv, PhaseInv, EndpointInv, CreditInv, QuietInv,
           NEW c0 \in Clients, server_conn_handle_cb(c0)
    PROVE  QuietInv'
  <1>0. StepOf(Server) /\ opt' = opt
    BY Step_server_conn_handle_cb DEF StepOf
  <1>1. (prog[Server] => pc[Server] \in DataLoops \cup {"accept"})'
    BY <1>0 DEF Typed, TypeOK, Procs, AmDesc, QuietInv, DataLoops, server_conn_handle_cb
  <1>2. (pc[Server] = "wait" /\ iter[Server] # opt.n /\ req[Server] = "err" /\ prog[Server]
            => ep[Server][conn_request] = "failed")'
    BY <1>0 DEF Typed, TypeOK, Procs, AmDesc, QuietInv, DataLoops,
       server_conn_handle_cb, PhaseInv, RequestPhase, RecvReqs, Receiver, InFin,
       SessionEp, EndpointInv, SessionPcs, Peer
  <1>3. (am_data_desc[Server].complete => am_data_desc[Server].is_rndv = opt.rndv)'
    BY <1>0 DEF Typed, TypeOK, Procs, AmDesc, QuietInv, server_conn_handle_cb
  <1>4. (am_data_desc[Server].complete /\ ~opt.rndv => pc[Server] \in {"amwait", "close", "exit", "dead"})'
    BY <1>0 DEF Typed, TypeOK, Procs, AmDesc, QuietInv, server_conn_handle_cb
  <1> QED
    BY <1>1, <1>2, <1>3, <1>4 DEF QuietInv

\* StartServer keeps it.
LEMMA Quiet_StartServer ==
    ASSUME Typed, Typed', CountInv, PhaseInv, EndpointInv, CreditInv, QuietInv,
           StartServer
    PROVE  QuietInv'
  <1>0. StepOf(Server) /\ opt' = opt
    BY Step_StartServer DEF StepOf
  <1>1. (prog[Server] => pc[Server] \in DataLoops \cup {"accept"})'
    BY <1>0 DEF Typed, TypeOK, Procs, AmDesc, QuietInv, DataLoops, StartServer,
       Registered
  <1>2. (pc[Server] = "wait" /\ iter[Server] # opt.n /\ req[Server] = "err" /\ prog[Server]
            => ep[Server][conn_request] = "failed")'
    BY <1>0 DEF Typed, TypeOK, Procs, AmDesc, QuietInv, DataLoops, StartServer,
       Registered, PhaseInv, RequestPhase, RecvReqs, Receiver, InFin, SessionEp,
       EndpointInv, SessionPcs, Peer
  <1>3. (am_data_desc[Server].complete => am_data_desc[Server].is_rndv = opt.rndv)'
    BY <1>0 DEF Typed, TypeOK, Procs, AmDesc, QuietInv, StartServer, Registered
  <1>4. (am_data_desc[Server].complete /\ ~opt.rndv => pc[Server] \in {"amwait", "close", "exit", "dead"})'
    BY <1>0 DEF Typed, TypeOK, Procs, AmDesc, QuietInv, StartServer, Registered
  <1> QED
    BY <1>1, <1>2, <1>3, <1>4 DEF QuietInv

\* ServerSetupFails keeps it.
LEMMA Quiet_ServerSetupFails ==
    ASSUME Typed, Typed', CountInv, PhaseInv, EndpointInv, CreditInv, QuietInv,
           ServerSetupFails
    PROVE  QuietInv'
  <1>0. StepOf(Server) /\ opt' = opt
    BY Step_ServerSetupFails DEF StepOf
  <1>1. (prog[Server] => pc[Server] \in DataLoops \cup {"accept"})'
    BY <1>0 DEF Typed, TypeOK, Procs, AmDesc, QuietInv, DataLoops, ServerSetupFails,
       LoopDone
  <1>2. (pc[Server] = "wait" /\ iter[Server] # opt.n /\ req[Server] = "err" /\ prog[Server]
            => ep[Server][conn_request] = "failed")'
    BY <1>0 DEF Typed, TypeOK, Procs, AmDesc, QuietInv, DataLoops, ServerSetupFails,
       LoopDone, PhaseInv, RequestPhase, RecvReqs, Receiver, InFin, SessionEp,
       EndpointInv, SessionPcs, Peer
  <1>3. (am_data_desc[Server].complete => am_data_desc[Server].is_rndv = opt.rndv)'
    BY <1>0 DEF Typed, TypeOK, Procs, AmDesc, QuietInv, ServerSetupFails, LoopDone
  <1>4. (am_data_desc[Server].complete /\ ~opt.rndv => pc[Server] \in {"amwait", "close", "exit", "dead"})'
    BY <1>0 DEF Typed, TypeOK, Procs, AmDesc, QuietInv, ServerSetupFails, LoopDone
  <1> QED
    BY <1>1, <1>2, <1>3, <1>4 DEF QuietInv

\* CreateEp keeps it.
LEMMA Quiet_CreateEp ==
    ASSUME Typed, Typed', CountInv, PhaseInv, EndpointInv, CreditInv, QuietInv,
           CreateEp
    PROVE  QuietInv'
  <1>0. StepOf(Server) /\ opt' = opt
    BY Step_CreateEp DEF StepOf
  <1>1. (prog[Server] => pc[Server] \in DataLoops \cup {"accept"})'
    BY <1>0 DEF Typed, TypeOK, Procs, AmDesc, QuietInv, DataLoops, CreateEp, AfterIter,
       LoopDone
  <1>2. (pc[Server] = "wait" /\ iter[Server] # opt.n /\ req[Server] = "err" /\ prog[Server]
            => ep[Server][conn_request] = "failed")'
    BY <1>0 DEF Typed, TypeOK, Procs, AmDesc, QuietInv, DataLoops, CreateEp, AfterIter,
       LoopDone, PhaseInv, RequestPhase, RecvReqs, Receiver, InFin, SessionEp,
       EndpointInv, SessionPcs, Peer
  <1>3. (am_data_desc[Server].complete => am_data_desc[Server].is_rndv = opt.rndv)'
    BY <1>0 DEF Typed, TypeOK, Procs, AmDesc, QuietInv, CreateEp, AfterIter, LoopDone
  <1>4. (am_data_desc[Server].complete /\ ~opt.rndv => pc[Server] \in {"amwait", "close", "exit", "dead"})'
    BY <1>0 DEF Typed, TypeOK, Procs, AmDesc, QuietInv, CreateEp, AfterIter, LoopDone
  <1> QED
    BY <1>1, <1>2, <1>3, <1>4 DEF QuietInv

\* Drained keeps it.
LEMMA Quiet_Drained ==
    ASSUME Typed, Typed', CountInv, PhaseInv, EndpointInv, CreditInv, QuietInv,
           Drained
    PROVE  QuietInv'
  <1>0. StepOf(Server) /\ opt' = opt
    BY Step_Drained DEF StepOf
  <1>1. (prog[Server] => pc[Server] \in DataLoops \cup {"accept"})'
    BY <1>0 DEF Typed, TypeOK, Procs, AmDesc, QuietInv, DataLoops, Drained, LoopDone
  <1>2. (pc[Server] = "wait" /\ iter[Server] # opt.n /\ req[Server] = "err" /\ prog[Server]
            => ep[Server][conn_request] = "failed")'
    BY <1>0 DEF Typed, TypeOK, Procs, AmDesc, QuietInv, DataLoops, Drained, LoopDone,
       PhaseInv, RequestPhase, RecvReqs, Receiver, InFin, SessionEp, EndpointInv,
       SessionPcs, Peer
  <1>3. (am_data_desc[Server].complete => am_data_desc[Server].is_rndv = opt.rndv)'
    BY <1>0 DEF Typed, TypeOK, Procs, AmDesc, QuietInv, Drained, LoopDone
  <1>4. (am_data_desc[Server].complete /\ ~opt.rndv => pc[Server] \in {"amwait", "close", "exit", "dead"})'
    BY <1>0 DEF Typed, TypeOK, Procs, AmDesc, QuietInv, Drained, LoopDone
  <1> QED
    BY <1>1, <1>2, <1>3, <1>4 DEF QuietInv

\* NextClient keeps it.
LEMMA Quiet_NextClient ==
    ASSUME Typed, Typed', CountInv, PhaseInv, EndpointInv, CreditInv, QuietInv,
           NextClient
    PROVE  QuietInv'
  <1>0. StepOf(Server) /\ opt' = opt
    BY Step_NextClient DEF StepOf
  <1>1. (prog[Server] => pc[Server] \in DataLoops \cup {"accept"})'
    BY <1>0 DEF Typed, TypeOK, Procs, AmDesc, QuietInv, DataLoops, NextClient,
       CloseServerEp
  <1>2. (pc[Server] = "wait" /\ iter[Server] # opt.n /\ req[Server] = "err" /\ prog[Server]
            => ep[Server][conn_request] = "failed")'
    BY <1>0 DEF Typed, TypeOK, Procs, AmDesc, QuietInv, DataLoops, NextClient,
       CloseServerEp, PhaseInv, RequestPhase, RecvReqs, Receiver, InFin, SessionEp,
       EndpointInv, SessionPcs, Peer
  <1>3. (am_data_desc[Server].complete => am_data_desc[Server].is_rndv = opt.rndv)'
    BY <1>0 DEF Typed, TypeOK, Procs, AmDesc, QuietInv, NextClient, CloseServerEp
  <1>4. (am_data_desc[Server].complete /\ ~opt.rndv => pc[Server] \in {"amwait", "close", "exit", "dead"})'
    <2>1. ~am_data_desc[Server].complete
      BY NothingHeld
    <2> QED
      BY <2>1 DEF NextClient
  <1> QED
    BY <1>1, <1>2, <1>3, <1>4 DEF QuietInv

\* ServerExit keeps it.
LEMMA Quiet_ServerExit ==
    ASSUME Typed, Typed', CountInv, PhaseInv, EndpointInv, CreditInv, QuietInv,
           ServerExit
    PROVE  QuietInv'
  <1>0. StepOf(Server) /\ opt' = opt
    BY Step_ServerExit DEF StepOf
  <1>1. (prog[Server] => pc[Server] \in DataLoops \cup {"accept"})'
    BY <1>0 DEF Typed, TypeOK, Procs, AmDesc, QuietInv, DataLoops, ServerExit,
       CloseServerEp
  <1>2. (pc[Server] = "wait" /\ iter[Server] # opt.n /\ req[Server] = "err" /\ prog[Server]
            => ep[Server][conn_request] = "failed")'
    BY <1>0 DEF Typed, TypeOK, Procs, AmDesc, QuietInv, DataLoops, ServerExit,
       CloseServerEp, PhaseInv, RequestPhase, RecvReqs, Receiver, InFin, SessionEp,
       EndpointInv, SessionPcs, Peer
  <1>3. (am_data_desc[Server].complete => am_data_desc[Server].is_rndv = opt.rndv)'
    BY <1>0 DEF Typed, TypeOK, Procs, AmDesc, QuietInv, ServerExit, CloseServerEp
  <1>4. (am_data_desc[Server].complete /\ ~opt.rndv => pc[Server] \in {"amwait", "close", "exit", "dead"})'
    BY <1>0 DEF Typed, TypeOK, Procs, AmDesc, QuietInv, ServerExit, CloseServerEp
  <1> QED
    BY <1>1, <1>2, <1>3, <1>4 DEF QuietInv

\* Every step keeps it.
LEMMA QuietNext ==
    ASSUME Typed, Typed', CountInv, PhaseInv, EndpointInv, CreditInv, QuietInv, [Next]_vars
    PROVE  QuietInv'
  <1>1. ASSUME NEW p \in Procs, Communicate(p)
        PROVE  QuietInv'
    BY <1>1, Quiet_AllocFails, Quiet_Send, Quiet_Recv, Quiet_AmRecv, Quiet_AmArrived,
       Quiet_FinalizeError, Quiet_FinalizeData, Quiet_FinalizeFin DEF Communicate
  <1>2. ASSUME NEW p \in Procs, Callback(p)
        PROVE  QuietInv'
    BY <1>2, Quiet_SendCb, Quiet_FetchCb, Quiet_RecvCb, Quiet_AmDropped,
       Quiet_ucp_am_data_cb, Quiet_err_cb, Quiet_Die DEF Callback, AmCopyFaults
  <1>3. CASE ServerStep
    BY <1>1, <1>2, <1>3, Quiet_StartServer, Quiet_ServerSetupFails, Quiet_CreateEp,
       Quiet_Drained, Quiet_NextClient, Quiet_ServerExit, Quiet_server_conn_handle_cb,
       Quiet_Progress DEF ServerStep, Procs
  <1>4. ASSUME NEW c \in Clients, ClientStep(c)
        PROVE  QuietInv'
    BY <1>1, <1>2, <1>4, Quiet_StartClient, Quiet_StartClientFails,
       Quiet_RegisterFinHandler, Quiet_CloseClient, Quiet_Progress DEF ClientStep, Procs
  <1>5. CASE UNCHANGED vars
    BY <1>5 DEF vars, QuietInv
  <1> QED
    BY <1>3, <1>4, <1>5, Quiet_Die DEF Next, Idle, Crash

\* It holds initially.
LEMMA QuietInit == Init => QuietInv
  BY DEF Init, QuietInv, Procs

--------------------------------------------------------------------------------
(***************************************************************************)
(* The order of the messages, from the client's loop to the server's       *)
(* receives, while the channel between them is up.                         *)
(***************************************************************************)
Ordered == opt.api # "am" \/ opt.rndv \/ opt.n <= 1

Msg(c, i) == [from |-> c, id |-> i]

\* s holds consecutive messages of c, from number a on.
Run(s, c, a) == \A k \in 1..Len(s) : s[k] = Msg(c, a + k - 1)

\* The session can still receive.
Receiving == pc[Server] # "close" /\ req[Server] # "err"

\* What c sends can still be received, in a session to come or in this one.
ChannelUp(c) ==
    \/ ep[Server][c] = "none"
    \/ c = Serving /\ ep[Server][c] = "open" /\ Receiving

\* c is in its data loop and its sends went well so far.
StillSending(c) ==
    /\ iter[c] # opt.n
    /\ pc[c] \in {"start", "comm"} \/ (pc[c] = "wait" /\ req[c] \notin {"err", "nak"})

\* Its next message comes after everything it has posted: nothing was lost.
NextInLine(c) ==
    ChannelUp(c) /\ StillSending(c) =>
      Arrived(c) + Len(net[c][Server]) = iter[c] + One(pc[c] = "wait")

\* The server pulls the data of a rendezvous message.
Fetching == pc[Server] = "wait" /\ iter[Server] # opt.n /\ req[Server] = "fetch"

\* Nothing of c is between its send and the end of the server's fetch.
Clear(c) ==
    /\ net[c][Server] = <<>>
    /\ c = Serving => ~am_data_desc[Server].complete /\ ~Fetching

\* A rendezvous send is complete only after the fetch, so there is one active
\* message at a time and am_data_desc is never overwritten.
OneAtATime(c) ==
    opt.api = "am" /\ opt.rndv /\ ChannelUp(c) =>
      /\ Len(net[c][Server]) <= 1
      /\ c = Serving => /\ net[c][Server] # <<>> => ~am_data_desc[Server].complete /\ ~Fetching
                        /\ am_data_desc[Server].complete => ~Fetching
      /\ StillSending(c) /\ (pc[c] # "wait" \/ req[c] # "send") => Clear(c)

\* What the server has received of c.
Received(c) == Run(rcvd[c], c, 0)

\* What it holds for its next receives.
HeldInOrder(c) ==
    c = Serving /\ Receiving =>
      /\ HasMsg => buf[Server] = Msg(c, Len(rcvd[c]))
      /\ Run(unexp[Server], c, Len(rcvd[c]) + One(HasMsg))
      /\ am_data_desc[Server].complete /\ opt.rndv =>
           am_data_desc[Server].desc = Msg(c, Len(rcvd[c]) + One(HasMsg))
      /\ am_data_desc[Server].complete /\ ~opt.rndv => buf[Server] = Msg(c, Len(rcvd[c]))

\* What is in flight.
FlightInOrder(c) == ChannelUp(c) => Run(net[c][Server], c, Arrived(c))

OrderOf(c) ==
    /\ Received(c) /\ HeldInOrder(c)
    /\ c \notin opt.odd => NextInLine(c) /\ OneAtATime(c) /\ FlightInOrder(c)

OrderInv == Ordered => \A c \in Clients : OrderOf(c)

\* The empty sequence is a run.
LEMMA RunEmpty ==
    ASSUME NEW c, NEW a
    PROVE  Run(<<>>, c, a)
  BY DEF Run

\* Taking the first message of a run leaves a run.
LEMMA RunTail ==
    ASSUME NEW s \in Seq(Message), s # <<>>, NEW c, NEW a \in Nat, Run(s, c, a)
    PROVE  Head(s) = Msg(c, a) /\ Run(Tail(s), c, a + 1)
  <1>1. Len(s) \in Nat /\ Len(s) >= 1 /\ s[1] = Msg(c, a + 1 - 1)
    BY DEF Run
  <1>2. a + 1 - 1 = a
    OBVIOUS
  <1>3. Head(s) = Msg(c, a)
    BY <1>1, <1>2
  <1>4. ASSUME NEW k \in 1..Len(Tail(s))
        PROVE  Tail(s)[k] = Msg(c, a + 1 + k - 1)
    <2>1. k \in Nat /\ k + 1 \in 1..Len(s) /\ Tail(s)[k] = s[k + 1]
      BY <1>1, <1>4
    <2>2. s[k + 1] = Msg(c, a + (k + 1) - 1)
      BY <2>1 DEF Run
    <2>3. a + (k + 1) - 1 = a + 1 + k - 1
      BY <2>1
    <2> QED
      BY <2>1, <2>2, <2>3
  <1> QED
    BY <1>3, <1>4 DEF Run

\* Adding the next message to a run gives a run.
LEMMA RunAppend ==
    ASSUME NEW s \in Seq(Message), NEW c, NEW a \in Nat, Run(s, c, a), NEW m \in Message,
           m = Msg(c, a + Len(s))
    PROVE  Run(Append(s, m), c, a)
  <1> SUFFICES ASSUME NEW k \in 1..Len(Append(s, m))
               PROVE  Append(s, m)[k] = Msg(c, a + k - 1)
    BY DEF Run
  <1>1. Len(s) \in Nat /\ k \in 1..(Len(s) + 1)
    OBVIOUS
  <1>2. CASE k = Len(s) + 1
    <2>1. Append(s, m)[k] = m
      BY <1>2
    <2>2. a + k - 1 = a + Len(s)
      BY <1>1, <1>2
    <2> QED
      BY <2>1, <2>2
  <1>3. CASE k # Len(s) + 1
    <2>1. k \in 1..Len(s) /\ Append(s, m)[k] = s[k]
      BY <1>1, <1>3
    <2> QED
      BY <2>1 DEF Run
  <1> QED
    BY <1>2, <1>3

\* A client confirms to the server only.
LEMMA ConfirmOthers ==
    ASSUME NEW r \in [Procs -> ReqStates], NEW p \in Clients, NEW m, NEW s, NEW d \in Clients
    PROVE  Confirm(r, p, m, s)[d] = r[d]
  <1>1. Peer(p) = Server /\ Server # d
    BY NamesAssumption DEF Peer
  <1> QED
    BY <1>1 DEF Confirm, Procs

\* A step of a client is invisible in the server's part.
LEMMA ServerSame ==
    ASSUME NEW p \in Clients, StepOf(p), conn_request' = conn_request,
           unexp'[Server] = unexp[Server], ep'[Server] = ep[Server]
    PROVE  /\ Serving' = Serving /\ (HasMsg' <=> HasMsg) /\ One(HasMsg)' = One(HasMsg)
           /\ Holds' = Holds /\ (Receiving' <=> Receiving) /\ (Fetching' <=> Fetching)
           /\ am_data_desc'[Server] = am_data_desc[Server] /\ buf'[Server] = buf[Server]
           /\ \A c \in Clients : ChannelUp(c)' <=> ChannelUp(c)
  <1>1. SameLocal(Server) /\ opt' = opt
    BY NamesAssumption DEF StepOf, Procs
  <1>2. /\ Serving' = Serving /\ (HasMsg' <=> HasMsg) /\ Holds' = Holds
        /\ am_data_desc'[Server] = am_data_desc[Server] /\ buf'[Server] = buf[Server]
    BY ArrivedKept
  <1>3. One(HasMsg)' = One(HasMsg)
    BY <1>2 DEF One
  <1>4. (Receiving' <=> Receiving) /\ (Fetching' <=> Fetching)
    BY <1>1 DEF SameLocal, Receiving, Fetching
  <1>5. \A c \in Clients : ChannelUp(c)' <=> ChannelUp(c)
    BY <1>2, <1>4 DEF ChannelUp
  <1> QED
    BY <1>2, <1>3, <1>4, <1>5

\* Nor in what concerns a client that posts nothing.
LEMMA ClientOrder ==
    ASSUME NEW p \in Clients, StepOf(p), conn_request' = conn_request,
           unexp'[Server] = unexp[Server], ep'[Server] = ep[Server], rcvd' = rcvd,
           NEW c \in Clients, net'[c][Server] = net[c][Server], OrderOf(c),
           StillSending(c)' =>
             /\ StillSending(c)
             /\ iter'[c] + One(pc[c] = "wait")' = iter[c] + One(pc[c] = "wait")
             /\ opt.rndv /\ (pc'[c] # "wait" \/ req'[c] # "send") =>
                  pc[c] # "wait" \/ req[c] # "send"
    PROVE  OrderOf(c)'
  <1>1. /\ Serving' = Serving /\ (HasMsg' <=> HasMsg) /\ One(HasMsg)' = One(HasMsg)
        /\ Holds' = Holds /\ (Receiving' <=> Receiving) /\ (Fetching' <=> Fetching)
        /\ am_data_desc'[Server] = am_data_desc[Server] /\ buf'[Server] = buf[Server]
        /\ ChannelUp(c)' <=> ChannelUp(c)
    BY ServerSame
  <1>2. opt' = opt
    BY DEF StepOf
  <1>3. Arrived(c)' = Arrived(c)
    BY <1>1 DEF Arrived, Held
  <1>4. Received(c)' /\ HeldInOrder(c)'
    BY <1>1, <1>2 DEF OrderOf, Received, HeldInOrder, Run
  <1>5. ASSUME c \notin opt.odd
        PROVE  NextInLine(c)' /\ OneAtATime(c)' /\ FlightInOrder(c)'
    <2>1. NextInLine(c) /\ OneAtATime(c) /\ FlightInOrder(c)
      BY <1>5 DEF OrderOf
    <2>2. NextInLine(c)'
      BY <1>1, <1>3, <2>1 DEF NextInLine
    <2>3. Clear(c)' <=> Clear(c)
      BY <1>1 DEF Clear
    <2>4. OneAtATime(c)'
      BY <1>1, <1>2, <2>1, <2>3 DEF OneAtATime
    <2>5. FlightInOrder(c)'
      BY <1>1, <1>3, <2>1 DEF FlightInOrder, Run
    <2> QED
      BY <2>2, <2>4, <2>5
  <1> QED
    BY <1>2, <1>4, <1>5 DEF OrderOf

\* What a step of a client has to show.
LEMMA ClientStepOrder ==
    ASSUME OrderInv, NEW p \in Clients, StepOf(p), conn_request' = conn_request,
           unexp'[Server] = unexp[Server], ep'[Server] = ep[Server], rcvd' = rcvd,
           \A d \in Clients \ {p} : net'[d][Server] = net[d][Server] /\ req'[d] = req[d],
           Ordered /\ OrderOf(p) => OrderOf(p)'
    PROVE  OrderInv'
  <1>1. opt' = opt
    BY DEF StepOf
  <1> SUFFICES ASSUME Ordered, NEW d \in Clients
               PROVE  OrderOf(d)'
    BY <1>1 DEF OrderInv, Ordered
  <1>2. OrderOf(d)
    BY DEF OrderInv
  <1>3. CASE d = p
    BY <1>2, <1>3
  <1>4. CASE d # p
    <2>1. SameLocal(d) /\ net'[d][Server] = net[d][Server] /\ req'[d] = req[d]
      BY <1>4 DEF StepOf, Procs
    <2>2. /\ pc'[d] = pc[d] /\ iter'[d] = iter[d] /\ (StillSending(d)' <=> StillSending(d))
      BY <1>1, <2>1 DEF SameLocal, StillSending
    <2>3. One(pc[d] = "wait")' = One(pc[d] = "wait")
      BY <2>2 DEF One
    <2> QED
      BY <1>2, <2>1, <2>2, <2>3, ClientOrder
  <1> QED
    BY <1>3, <1>4

\* The step of a client that posts nothing.
LEMMA QuietClientOrder ==
    ASSUME OrderInv, NEW p \in Clients, StepOf(p), conn_request' = conn_request,
           unexp'[Server] = unexp[Server], ep'[Server] = ep[Server], rcvd' = rcvd,
           \A d \in Clients : net'[d][Server] = net[d][Server],
           \A d \in Clients \ {p} : req'[d] = req[d],
           StillSending(p)' =>
             /\ StillSending(p)
             /\ iter'[p] + One(pc[p] = "wait")' = iter[p] + One(pc[p] = "wait")
             /\ opt.rndv /\ (pc'[p] # "wait" \/ req'[p] # "send") =>
                  pc[p] # "wait" \/ req[p] # "send"
    PROVE  OrderInv'
  <1>1. OrderOf(p) => OrderOf(p)'
    BY ClientOrder
  <1> QED
    BY <1>1, ClientStepOrder

\* A step of the server in no session afterwards: only clients it has no endpoint
\* for matter, and for them nothing has changed.
LEMMA ServerLeavesOrder ==
    ASSUME Typed, EndpointInv, OrderInv, StepOf(Server), Serving' = NoClient, rcvd' = rcvd,
           \A d \in Clients : ep'[Server][d] = "none" =>
             ep[Server][d] = "none" /\ net'[d][Server] = net[d][Server] /\ req'[d] = req[d]
    PROVE  OrderInv'
  <1>1. opt' = opt
    BY DEF StepOf
  <1> SUFFICES ASSUME Ordered, NEW d \in Clients
               PROVE  OrderOf(d)'
    BY <1>1 DEF OrderInv, Ordered
  <1>2. OrderOf(d) /\ d # Serving'
    BY NamesAssumption DEF OrderInv
  <1>3. Received(d)' /\ HeldInOrder(d)'
    BY <1>2 DEF OrderOf, Received, HeldInOrder, Run
  <1>4. CASE ep'[Server][d] # "none"
    <2>1. ~ChannelUp(d)'
      BY <1>2, <1>4 DEF ChannelUp
    <2> QED
      BY <1>3, <2>1 DEF OrderOf, NextInLine, OneAtATime, FlightInOrder
  <1>5. CASE ep'[Server][d] = "none"
    <2>1. /\ ep[Server][d] = "none" /\ net'[d][Server] = net[d][Server] /\ req'[d] = req[d]
          /\ SameLocal(d)
      BY <1>5, NamesAssumption DEF StepOf, Procs
    <2>2. d # Serving
      BY <2>1, NamesAssumption DEF EndpointInv, SessionEp, Serving
    <2>3. ChannelUp(d) /\ Arrived(d)' = Arrived(d) /\ (Clear(d)' <=> Clear(d))
      BY <1>2, <2>1, <2>2 DEF ChannelUp, Arrived, Held, Clear
    <2>4. /\ pc'[d] = pc[d] /\ iter'[d] = iter[d] /\ (StillSending(d)' <=> StillSending(d))
      BY <1>1, <2>1 DEF SameLocal, StillSending
    <2>5. One(pc[d] = "wait")' = One(pc[d] = "wait")
      BY <2>4 DEF One
    <2>6. ASSUME d \notin opt.odd
          PROVE  NextInLine(d)' /\ OneAtATime(d)' /\ FlightInOrder(d)'
      <3>1. NextInLine(d) /\ OneAtATime(d) /\ FlightInOrder(d)
        BY <1>2, <2>6 DEF OrderOf
      <3>2. NextInLine(d)'
        BY <2>1, <2>3, <2>4, <2>5, <3>1 DEF NextInLine
      <3>3. OneAtATime(d)'
        BY <1>1, <1>2, <2>1, <2>2, <2>3, <2>4, <3>1 DEF OneAtATime
      <3>4. FlightInOrder(d)'
        BY <2>1, <2>3, <3>1 DEF FlightInOrder, Run
      <3> QED
        BY <3>2, <3>3, <3>4
    <2> QED
      BY <1>1, <1>3, <2>6 DEF OrderOf
  <1> QED
    BY <1>4, <1>5

\* A step of the server in a session with c.
LEMMA SessionOrder ==
    ASSUME Typed, EndpointInv, OrderInv, StepOf(Server), NEW c \in Clients, Serving' = c,
           \A d \in Clients \ {c} :
             /\ d # Serving /\ rcvd'[d] = rcvd[d] /\ net'[d][Server] = net[d][Server]
             /\ ep'[Server][d] = ep[Server][d] /\ req'[d] = req[d],
           Ordered /\ OrderOf(c) => OrderOf(c)'
    PROVE  OrderInv'
  <1>1. opt' = opt
    BY DEF StepOf
  <1> SUFFICES ASSUME Ordered, NEW d \in Clients
               PROVE  OrderOf(d)'
    BY <1>1 DEF OrderInv, Ordered
  <1>2. OrderOf(d)
    BY DEF OrderInv
  <1>3. CASE d = c
    BY <1>2, <1>3
  <1>4. CASE d # c
    <2>1. /\ d # Serving /\ d # Serving' /\ rcvd'[d] = rcvd[d]
          /\ net'[d][Server] = net[d][Server] /\ ep'[Server][d] = ep[Server][d]
          /\ req'[d] = req[d] /\ SameLocal(d)
      BY <1>4, NamesAssumption DEF StepOf, Procs
    <2>2. Received(d)' /\ HeldInOrder(d)'
      BY <1>2, <2>1 DEF OrderOf, Received, HeldInOrder, Run
    <2>3. /\ ChannelUp(d)' <=> ChannelUp(d)
          /\ Arrived(d)' = Arrived(d) /\ (Clear(d)' <=> Clear(d))
      BY <2>1 DEF ChannelUp, Arrived, Held, Clear
    <2>4. /\ pc'[d] = pc[d] /\ iter'[d] = iter[d] /\ (StillSending(d)' <=> StillSending(d))
      BY <1>1, <2>1 DEF SameLocal, StillSending
    <2>5. One(pc[d] = "wait")' = One(pc[d] = "wait")
      BY <2>4 DEF One
    <2>6. ASSUME d \notin opt.odd
          PROVE  NextInLine(d)' /\ OneAtATime(d)' /\ FlightInOrder(d)'
      <3>1. NextInLine(d) /\ OneAtATime(d) /\ FlightInOrder(d)
        BY <1>2, <2>6 DEF OrderOf
      <3>2. NextInLine(d)'
        BY <2>1, <2>3, <2>4, <2>5, <3>1 DEF NextInLine
      <3>3. OneAtATime(d)'
        BY <1>1, <2>1, <2>3, <2>4, <3>1 DEF OneAtATime
      <3>4. FlightInOrder(d)'
        BY <2>1, <2>3, <3>1 DEF FlightInOrder, Run
      <3> QED
        BY <3>2, <3>3, <3>4
    <2> QED
      BY <1>1, <2>2, <2>6 DEF OrderOf
  <1> QED
    BY <1>3, <1>4

\* The client of a session sees at most the answer to its send.
LEMMA NextInLineKept ==
    ASSUME StepOf(Server), NEW c \in Clients, NextInLine(c),
           ChannelUp(c)' => /\ ChannelUp(c)
                            /\ Arrived(c)' + Len(net'[c][Server]) = Arrived(c) + Len(net[c][Server])
    PROVE  NextInLine(c)'
  <1>1. SameLocal(c) /\ opt' = opt
    BY NamesAssumption DEF StepOf, Procs
  <1>2. pc'[c] = pc[c] /\ iter'[c] = iter[c] /\ (StillSending(c)' => StillSending(c))
    BY <1>1 DEF SameLocal, StillSending
  <1>3. One(pc[c] = "wait")' = One(pc[c] = "wait")
    BY <1>2 DEF One
  <1> QED
    BY <1>2, <1>3 DEF NextInLine

\* A step of the server that takes nothing in and delivers nothing.
LEMMA QuietSessionOrder ==
    ASSUME Typed, EndpointInv, OrderInv, StepOf(Server), NEW c \in Clients,
           Serving = c, Serving' = c, rcvd' = rcvd,
           \A d \in Clients \ {c} :
             net'[d][Server] = net[d][Server] /\ ep'[Server][d] = ep[Server][d],
           \A d \in Clients : req'[d] = req[d],
           ep'[Server][c] # "none",
           Receiving' => Receiving /\ (HasMsg' <=> HasMsg) /\ (Fetching' <=> Fetching),
           am_data_desc'[Server].complete = am_data_desc[Server].complete,
           am_data_desc'[Server].desc = am_data_desc[Server].desc,
           unexp'[Server] \in {unexp[Server], <<>>},
           Receiving' /\ (HasMsg \/ (am_data_desc[Server].complete /\ ~opt.rndv)) =>
             buf'[Server] = buf[Server],
           ep'[Server][c] = "open" =>
             /\ ep[Server][c] = "open" /\ unexp'[Server] = unexp[Server]
             /\ net'[c][Server] = net[c][Server]
    PROVE  OrderInv'
  <1>0. opt' = opt
    BY DEF StepOf
  <1>1. ASSUME Ordered, OrderOf(c)
        PROVE  OrderOf(c)'
    <2>1. Received(c)'
      BY <1>1 DEF OrderOf, Received, Run
    <2>2. HeldInOrder(c)'
      <3> SUFFICES ASSUME Receiving'
                   PROVE  HeldInOrder(c)'
        BY DEF HeldInOrder
      <3>1. One(HasMsg)' = One(HasMsg)
        BY DEF One
      <3>2. Run(unexp'[Server], c, Len(rcvd'[c]) + One(HasMsg)')
        <4>1. Run(unexp[Server], c, Len(rcvd[c]) + One(HasMsg))
          BY <1>1 DEF OrderOf, HeldInOrder
        <4>2. CASE unexp'[Server] = unexp[Server]
          BY <3>1, <4>1, <4>2
        <4>3. CASE unexp'[Server] = <<>>
          BY <4>3, RunEmpty
        <4> QED
          BY <4>2, <4>3
      <3> QED
        BY <1>0, <1>1, <3>1, <3>2 DEF OrderOf, HeldInOrder, Run
    <2>3. ASSUME c \notin opt.odd
          PROVE  NextInLine(c)' /\ OneAtATime(c)' /\ FlightInOrder(c)'
      <3>1. NextInLine(c) /\ OneAtATime(c) /\ FlightInOrder(c)
        BY <1>1, <2>3 DEF OrderOf
      <3>2. CASE ~ChannelUp(c)'
        BY <3>2 DEF NextInLine, OneAtATime, FlightInOrder
      <3>3. CASE ChannelUp(c)'
        <4>1. /\ Receiving' /\ ChannelUp(c) /\ unexp'[Server] = unexp[Server]
              /\ net'[c][Server] = net[c][Server] /\ (Fetching' <=> Fetching)
          BY <3>3 DEF ChannelUp
        <4>2. Arrived(c)' = Arrived(c)
          <5>1. One(HasMsg)' = One(HasMsg)
            BY <4>1 DEF One
          <5>2. One(am_data_desc[Server].complete)' = One(am_data_desc[Server].complete)
            BY <4>1 DEF One
          <5> QED
            BY <4>1, <5>1, <5>2 DEF Arrived, Held, Holds
        <4>3. NextInLine(c)'
          BY <3>1, <4>1, <4>2, NextInLineKept
        <4>4. SameLocal(c) /\ req'[c] = req[c]
          BY NamesAssumption DEF StepOf, Procs
        <4>5. /\ pc'[c] = pc[c] /\ (StillSending(c)' <=> StillSending(c))
              /\ Clear(c)' <=> Clear(c)
          BY <1>0, <4>1, <4>4 DEF SameLocal, StillSending, Clear
        <4>6. OneAtATime(c)'
          BY <1>0, <3>1, <4>1, <4>4, <4>5 DEF OneAtATime
        <4>7. FlightInOrder(c)'
          BY <3>1, <4>1, <4>2 DEF FlightInOrder, Run
        <4> QED
          BY <4>3, <4>6, <4>7
      <3> QED
        BY <3>2, <3>3
    <2> QED
      BY <1>0, <2>1, <2>2, <2>3 DEF OrderOf
  <1> QED
    BY <1>1, SessionOrder

\* The server confirms to the session's client only.
LEMMA ConfirmPeer ==
    ASSUME NEW r \in [Procs -> ReqStates], NEW m, NEW s, NEW d \in Procs, d # conn_request
    PROVE  Confirm(r, Server, m, s)[d] = r[d]
  BY DEF Confirm, Peer

\* What has arrived is counted in another place only.
LEMMA SameCount ==
    ASSUME StepOf(Server), NEW c \in Clients, NextInLine(c), FlightInOrder(c),
           ChannelUp(c)' => ChannelUp(c), Arrived(c)' = Arrived(c),
           net'[c][Server] = net[c][Server]
    PROVE  NextInLine(c)' /\ FlightInOrder(c)'
  <1>1. NextInLine(c)'
    BY NextInLineKept
  <1>2. FlightInOrder(c)'
    BY DEF FlightInOrder, Run
  <1> QED
    BY <1>1, <1>2

\* The first message in flight arrives.
LEMMA TookOne ==
    ASSUME Typed, PhaseInv, StepOf(Server), NEW c \in Clients, NextInLine(c),
           FlightInOrder(c), ChannelUp(c), Arrived(c)' = Arrived(c) + 1,
           net[c][Server] # <<>>, net'[c][Server] = Tail(net[c][Server])
    PROVE  NextInLine(c)' /\ FlightInOrder(c)'
  <1>1. /\ net[c][Server] \in Seq(Message) /\ Arrived(c) \in Nat
        /\ Len(net[c][Server]) \in Nat
    BY CountTypes DEF Typed, TypeOK, Procs
  <1>2. Len(net[c][Server]) = Len(net'[c][Server]) + 1 /\ Len(net'[c][Server]) \in Nat
    BY <1>1
  <1>3. Arrived(c)' + Len(net'[c][Server]) = Arrived(c) + Len(net[c][Server])
    <2>1. \A x, y \in Nat : (x + 1) + y = x + (y + 1)
      OBVIOUS
    <2> QED
      BY <1>1, <1>2, <2>1
  <1>4. NextInLine(c)'
    BY <1>3, NextInLineKept
  <1>5. Run(net[c][Server], c, Arrived(c))
    BY DEF FlightInOrder
  <1>6. Run(net'[c][Server], c, Arrived(c)')
    BY <1>1, <1>5, RunTail
  <1> QED
    BY <1>4, <1>6 DEF FlightInOrder

\* An arrival finds the channel up.
LEMMA ArrivalUp ==
    ASSUME Typed, CountInv, PhaseInv, CreditInv, QuietInv, prog[Server],
           pc[Server] \in DataLoops, In(Server) # <<>>, ep[Server][conn_request] = "open"
    PROVE  ChannelUp(conn_request) /\ Receiving
  <1>1. /\ conn_request \in Clients /\ Serving = conn_request
        /\ iter[Server] # opt.n /\ pc[Server] \in {"wait", "amwait"}
    BY ArrivesInDataLoop
  <1>2. req[Server] # "err"
    BY <1>1 DEF QuietInv, PhaseInv, RequestPhase, Procs
  <1> QED
    BY <1>1, <1>2 DEF ChannelUp, Receiving

\* A callback inside ep_close changes nothing that is still to be received.
LEMMA ClosingOrder ==
    ASSUME NEW c \in Clients, Serving' = c, pc'[Server] = "close", opt' = opt,
           rcvd'[c] = rcvd[c], ep'[Server][c] \in {"open", "failed"}, OrderOf(c)
    PROVE  OrderOf(c)'
  <1>1. ~Receiving' /\ ~ChannelUp(c)'
    BY DEF Receiving, ChannelUp
  <1>2. Received(c)'
    BY DEF OrderOf, Received, Run
  <1> QED
    BY <1>1, <1>2 DEF OrderOf, HeldInOrder, NextInLine, OneAtATime, FlightInOrder

\* AllocFails keeps it.
LEMMA Order_AllocFails ==
    ASSUME Typed, Typed', CountInv, PhaseInv, PhaseInv', EndpointInv, CreditInv, OddInv,
       QuietInv, OrderInv,
           NEW p \in Procs, AllocFails(p)
    PROVE  OrderInv'
  <1>0. StepOf(p) /\ opt' = opt
    BY Step_AllocFails DEF StepOf
  <1>1. CASE p \in Clients
    <2>1. /\ conn_request' = conn_request /\ unexp'[Server] = unexp[Server] /\ rcvd' = rcvd
         /\ ep'[Server] = ep[Server]
         /\ \A d \in Clients : net'[d][Server] = net[d][Server]
      BY <1>0, <1>1, NamesAssumption DEF Typed, TypeOK, Procs, Peer, AllocFails
    <2>2. \A d \in Clients \ {p} : req'[d] = req[d]
      BY <1>0, <1>1, NamesAssumption DEF Typed, TypeOK, Procs, AllocFails
    <2>3. StillSending(p)' =>
           /\ StillSending(p)
           /\ iter'[p] + One(pc[p] = "wait")' = iter[p] + One(pc[p] = "wait")
           /\ opt.rndv /\ (pc'[p] # "wait" \/ req'[p] # "send") =>
                pc[p] # "wait" \/ req[p] # "send"
      <3>1. ~StillSending(p)'
        BY <1>0, <1>1, NamesAssumption DEF Typed, TypeOK, Procs, StillSending,
           AllocFails
      <3> QED
        BY <3>1
    <2> QED
      BY <1>0, <1>1, <2>1, <2>2, <2>3, QuietClientOrder
  <1>2. CASE p = Server
    <2>1. /\ conn_request \in Clients /\ conn_request' = conn_request /\ Serving = conn_request
         /\ Serving' = conn_request /\ rcvd' = rcvd
      BY <1>0, <1>2 DEF Typed, TypeOK, SessionHasClient, Serving, SessionPcs, Procs,
         AllocFails
    <2>2. \A d \in Clients \ {conn_request} :
           net'[d][Server] = net[d][Server] /\ ep'[Server][d] = ep[Server][d]
      BY <1>0, <1>2, <2>1, NamesAssumption DEF Typed, TypeOK, Procs, Peer, AllocFails
    <2>3. \A d \in Clients : req'[d] = req[d]
      BY <1>0, <1>2, NamesAssumption DEF Typed, TypeOK, Procs, AllocFails
    <2>4. ep[Server][conn_request] \in {"open", "failed"} /\ ep'[Server][conn_request] # "none"
      BY <1>0, <1>2, <2>1 DEF EndpointInv, SessionEp, Typed, TypeOK, SessionPcs, Procs,
         Peer, AllocFails
    <2>5. Receiving' => Receiving /\ (HasMsg' <=> HasMsg) /\ (Fetching' <=> Fetching)
      BY <1>0, <1>2 DEF Typed, TypeOK, Procs, Receiving, HasMsg, Fetching, Receiver,
         InFin, AllocFails
    <2>6. /\ am_data_desc'[Server].complete = am_data_desc[Server].complete
         /\ am_data_desc'[Server].desc = am_data_desc[Server].desc
         /\ unexp'[Server] \in {unexp[Server], <<>>}
      BY <1>0, <1>2 DEF Typed, TypeOK, AmDesc, Procs, AllocFails
    <2>7. Receiving' /\ (HasMsg \/ (am_data_desc[Server].complete /\ ~opt.rndv)) =>
           buf'[Server] = buf[Server]
      BY <1>0, <1>2 DEF Typed, TypeOK, Procs, Receiving, AllocFails
    <2>8. ep'[Server][conn_request] = "open" =>
           /\ ep[Server][conn_request] = "open" /\ unexp'[Server] = unexp[Server]
           /\ net'[conn_request][Server] = net[conn_request][Server]
      BY <1>0, <1>2, <2>1, NamesAssumption DEF Typed, TypeOK, Procs, Peer, AllocFails
    <2> QED
      BY <1>0, <1>2, <2>1, <2>2, <2>3, <2>4, <2>5, <2>6, <2>7, <2>8, QuietSessionOrder
  <1> QED
    BY <1>1, <1>2 DEF Procs

\* Send keeps it.
LEMMA Order_Send ==
    ASSUME Typed, Typed', CountInv, PhaseInv, PhaseInv', EndpointInv, CreditInv, OddInv,
       QuietInv, OrderInv,
           NEW p \in Procs, Send(p)
    PROVE  OrderInv'
  <1>0. StepOf(p) /\ opt' = opt
    BY Step_Send DEF StepOf
  <1>1. CASE p \in Clients
    <2>1. iter[p] # opt.n /\ pc[p] = "comm" /\ pc'[p] = "wait" /\ iter' = iter /\ p # Server
      BY <1>1, NamesAssumption DEF Typed, TypeOK, Procs, Send, Receiver, InFin
    <2>2. /\ conn_request' = conn_request /\ unexp'[Server] = unexp[Server] /\ rcvd' = rcvd
          /\ ep'[Server] = ep[Server]
          /\ \A d \in Clients \ {p} : net'[d][Server] = net[d][Server] /\ req'[d] = req[d]
      BY <1>1, <2>1 DEF Typed, TypeOK, Procs, Send, Peer
    <2>3. ASSUME OrderOf(p), Ordered
          PROVE  OrderOf(p)'
      <3>1. /\ Serving' = Serving /\ (HasMsg' <=> HasMsg) /\ One(HasMsg)' = One(HasMsg)
            /\ Holds' = Holds /\ (Receiving' <=> Receiving) /\ (Fetching' <=> Fetching)
            /\ am_data_desc'[Server] = am_data_desc[Server] /\ buf'[Server] = buf[Server]
            /\ ChannelUp(p)' <=> ChannelUp(p)
        BY <1>0, <1>1, <2>2, ServerSame
      <3>2. Arrived(p)' = Arrived(p)
        BY <2>2, <3>1 DEF Arrived, Held
      <3>3. Received(p)' /\ HeldInOrder(p)'
        BY <1>0, <2>2, <2>3, <3>1 DEF OrderOf, Received, HeldInOrder, Run
      <3>4. ASSUME p \notin opt.odd
            PROVE  NextInLine(p)' /\ OneAtATime(p)' /\ FlightInOrder(p)'
        <4>1. NextInLine(p) /\ OneAtATime(p) /\ FlightInOrder(p) /\ StillSending(p)
          BY <2>1, <2>3, <3>4 DEF OrderOf, StillSending
        <4>2. CASE ~ChannelUp(p)
          BY <3>1, <4>2 DEF NextInLine, OneAtATime, FlightInOrder
        <4>3. CASE ChannelUp(p) /\ req'[p] = "err"
          <5>1. net' = net /\ ~StillSending(p)'
            BY <1>1, <4>3 DEF Typed, TypeOK, Procs, Send, StillSending
          <5>2. NextInLine(p)'
            BY <5>1 DEF NextInLine
          <5>3. OneAtATime(p)'
            BY <1>0, <3>1, <4>1, <5>1 DEF OneAtATime
          <5>4. FlightInOrder(p)'
            BY <3>1, <3>2, <4>1, <5>1 DEF FlightInOrder, Run
          <5> QED
            BY <5>2, <5>3, <5>4
        <4>4. CASE ChannelUp(p) /\ req'[p] # "err"
          <5>1. /\ net'[p][Server] = Append(net[p][Server], CurrentMsg(p))
                /\ opt.rndv => req'[p] = "send"
            BY <1>1, <2>1, <4>4 DEF Typed, TypeOK, Procs, Send, SendResults, Peer
          <5>2. /\ net[p][Server] \in Seq(Message) /\ CurrentMsg(p) \in Message
                /\ CurrentMsg(p) = Msg(p, iter[p]) /\ iter[p] \in Nat
            BY <1>1, <2>1, CurrentMsgType DEF Typed, TypeOK, Procs, CurrentMsg, InFin, Msg
          <5>3. Len(net[p][Server]) \in Nat /\ Len(net'[p][Server]) = Len(net[p][Server]) + 1
            BY <5>1, <5>2
          <5>4. Arrived(p) \in Nat /\ Arrived(p) + Len(net[p][Server]) = iter[p]
            <6>1. One(pc[p] = "wait") = 0
              BY <2>1 DEF One
            <6>2. Arrived(p) + Len(net[p][Server]) = iter[p] + 0
              BY <4>1, <4>4, <6>1 DEF NextInLine
            <6>3. Arrived(p) \in Nat
              BY <1>1, CountTypes
            <6> QED
              BY <5>2, <6>2, <6>3
          <5>5. NextInLine(p)'
            <6>1. One(pc[p] = "wait")' = 1
              BY <2>1 DEF One
            <6>2. \A x, y, z \in Nat : x + y = z => x + (y + 1) = z + 1
              OBVIOUS
            <6>3. Arrived(p) + (Len(net[p][Server]) + 1) = iter[p] + 1
              BY <5>2, <5>3, <5>4, <6>2
            <6>4. Arrived(p)' + Len(net'[p][Server]) = iter'[p] + One(pc[p] = "wait")'
              BY <2>1, <3>2, <5>3, <6>1, <6>3
            <6> QED
              BY <6>4 DEF NextInLine
          <5>6. FlightInOrder(p)'
            <6>1. Run(net[p][Server], p, Arrived(p))
              BY <4>1, <4>4 DEF FlightInOrder
            <6>2. CurrentMsg(p) = Msg(p, Arrived(p) + Len(net[p][Server]))
              BY <5>2, <5>4
            <6>3. Run(Append(net[p][Server], CurrentMsg(p)), p, Arrived(p))
              BY <5>2, <5>4, <6>1, <6>2, RunAppend
            <6>4. Run(net'[p][Server], p, Arrived(p)')
              BY <3>2, <5>1, <6>3
            <6> QED
              BY <6>4 DEF FlightInOrder
          <5>7. OneAtATime(p)'
            <6> SUFFICES ASSUME opt.api = "am", opt.rndv
                         PROVE  OneAtATime(p)'
              BY <1>0 DEF OneAtATime
            <6>1. Clear(p)
              BY <2>1, <4>1, <4>4 DEF OneAtATime
            <6>2. Len(net'[p][Server]) = 1
              BY <5>1, <5>2, <6>1 DEF Clear
            <6>3. p = Serving' => ~am_data_desc'[Server].complete /\ ~Fetching'
              BY <3>1, <6>1 DEF Clear
            <6> QED
              BY <2>1, <5>1, <6>2, <6>3 DEF OneAtATime
          <5> QED
            BY <5>5, <5>6, <5>7
        <4> QED
          BY <4>2, <4>3, <4>4
      <3> QED
        BY <1>0, <3>3, <3>4 DEF OrderOf
    <2> QED
      BY <1>0, <1>1, <2>2, <2>3, ClientStepOrder
  <1>2. CASE p = Server
    <2>1. /\ conn_request \in Clients /\ conn_request' = conn_request /\ Serving = conn_request
         /\ Serving' = conn_request /\ rcvd' = rcvd
      BY <1>0, <1>2 DEF Typed, TypeOK, SessionHasClient, Serving, SessionPcs, Procs,
         Send
    <2>2. \A d \in Clients \ {conn_request} :
           net'[d][Server] = net[d][Server] /\ ep'[Server][d] = ep[Server][d]
      BY <1>0, <1>2, <2>1, NamesAssumption DEF Typed, TypeOK, Procs, Peer, Send
    <2>3. \A d \in Clients : req'[d] = req[d]
      BY <1>0, <1>2, NamesAssumption DEF Typed, TypeOK, Procs, Send
    <2>4. ep[Server][conn_request] \in {"open", "failed"} /\ ep'[Server][conn_request] # "none"
      BY <1>0, <1>2, <2>1 DEF EndpointInv, SessionEp, Typed, TypeOK, SessionPcs, Procs,
         Peer, Send
    <2>5. Receiving' => Receiving /\ (HasMsg' <=> HasMsg) /\ (Fetching' <=> Fetching)
      <3>1. /\ pc[Server] = "comm" /\ iter[Server] = opt.n /\ iter' = iter
        BY <1>2 DEF Send, Receiver, InFin
      <3>2. req[Server] = "none"
        BY <3>1 DEF PhaseInv, RequestPhase, Procs
      <3> QED
        BY <1>0, <3>1, <3>2 DEF Receiving, HasMsg, Fetching
    <2>6. /\ am_data_desc'[Server].complete = am_data_desc[Server].complete
         /\ am_data_desc'[Server].desc = am_data_desc[Server].desc
         /\ unexp'[Server] \in {unexp[Server], <<>>}
      BY <1>0, <1>2 DEF Typed, TypeOK, AmDesc, Procs, Send
    <2>7. Receiving' /\ (HasMsg \/ (am_data_desc[Server].complete /\ ~opt.rndv)) =>
           buf'[Server] = buf[Server]
      BY <1>0, <1>2 DEF Typed, TypeOK, Procs, Receiving, Send
    <2>8. ep'[Server][conn_request] = "open" =>
           /\ ep[Server][conn_request] = "open" /\ unexp'[Server] = unexp[Server]
           /\ net'[conn_request][Server] = net[conn_request][Server]
      BY <1>0, <1>2, <2>1, NamesAssumption DEF Typed, TypeOK, Procs, Peer, Send
    <2> QED
      BY <1>0, <1>2, <2>1, <2>2, <2>3, <2>4, <2>5, <2>6, <2>7, <2>8, QuietSessionOrder
  <1> QED
    BY <1>1, <1>2 DEF Procs

\* Recv keeps it.
LEMMA Order_Recv ==
    ASSUME Typed, Typed', CountInv, PhaseInv, PhaseInv', EndpointInv, CreditInv, OddInv,
       QuietInv, OrderInv,
           NEW p \in Procs, Recv(p)
    PROVE  OrderInv'
  <1>0. StepOf(p) /\ opt' = opt
    BY Step_Recv DEF StepOf
  <1>1. CASE p \in Clients
    <2>1. /\ conn_request' = conn_request /\ unexp'[Server] = unexp[Server] /\ rcvd' = rcvd
         /\ ep'[Server] = ep[Server]
         /\ \A d \in Clients : net'[d][Server] = net[d][Server]
      BY <1>0, <1>1, NamesAssumption DEF Typed, TypeOK, Procs, Peer, Recv
    <2>2. \A d \in Clients \ {p} : req'[d] = req[d]
      BY <1>0, <1>1, NamesAssumption DEF Typed, TypeOK, Procs, Recv
    <2>3. StillSending(p)' =>
           /\ StillSending(p)
           /\ iter'[p] + One(pc[p] = "wait")' = iter[p] + One(pc[p] = "wait")
           /\ opt.rndv /\ (pc'[p] # "wait" \/ req'[p] # "send") =>
                pc[p] # "wait" \/ req[p] # "send"
      <3>1. ~StillSending(p)'
        BY <1>0, <1>1, NamesAssumption DEF Typed, TypeOK, Procs, StillSending, Recv,
           Receiver, InFin
      <3> QED
        BY <3>1
    <2> QED
      BY <1>0, <1>1, <2>1, <2>2, <2>3, QuietClientOrder
  <1>2. CASE p = Server
    <2>1. /\ conn_request \in Clients /\ conn_request' = conn_request
          /\ Serving = conn_request /\ Serving' = conn_request /\ ep' = ep
      BY <1>2 DEF Typed, TypeOK, SessionHasClient, Serving, SessionPcs, Procs, Recv
    <2>2. PICK c \in Clients : c = conn_request
      BY <2>1
    <2>3. Serving = c /\ Serving' = c /\ ep[Server][c] \in {"open", "failed"} /\ c # Server
      BY <2>1, <2>2, NamesAssumption DEF EndpointInv, SessionEp, Serving
    <2>4. \A d \in Clients \ {c} :
            /\ d # Serving /\ rcvd'[d] = rcvd[d] /\ net'[d][Server] = net[d][Server]
            /\ ep'[Server][d] = ep[Server][d] /\ req'[d] = req[d]
      <3>1. \A d \in Clients \ {c} :
              rcvd'[d] = rcvd[d] /\ net'[d][Server] = net[d][Server]
        BY <1>2, <2>2, NamesAssumption DEF Typed, TypeOK, Procs, Peer, Recv
      <3>2. \A d \in Clients \ {c} : req'[d] = req[d]
        BY <1>2, NamesAssumption DEF Typed, TypeOK, Procs, Recv
      <3> QED
        BY <2>1, <2>3, <3>1, <3>2
    <2>5. /\ pc[Server] = "comm" /\ pc'[Server] = "wait" /\ iter' = iter /\ iter[Server] # opt.n
          /\ rcvd' = rcvd /\ net' = net /\ am_data_desc' = am_data_desc /\ opt.api # "am"
          /\ \/ /\ unexp'[Server] = unexp[Server] /\ req'[Server] \in {"recv", "err"}
             \/ /\ unexp[Server] # <<>> /\ unexp'[Server] = Tail(unexp[Server])
                /\ buf'[Server] = Head(unexp[Server]) /\ req'[Server] \in {"fetch", "ok"}
      <3>1. /\ pc[Server] = "comm" /\ pc'[Server] = "wait" /\ iter' = iter
            /\ iter[Server] # opt.n /\ rcvd' = rcvd /\ net' = net
            /\ am_data_desc' = am_data_desc /\ opt.api # "am"
        BY <1>2 DEF Typed, TypeOK, Procs, Recv, Receiver, InFin
      <3>2. \/ unexp' = unexp /\ req'[Server] \in {"recv", "err"}
            \/ /\ unexp[Server] # <<>> /\ unexp'[Server] = Tail(unexp[Server])
               /\ buf'[Server] = Head(unexp[Server]) /\ req'[Server] \in {"fetch", "ok"}
        BY <1>2 DEF Typed, TypeOK, Procs, Recv, RecvResults
      <3> QED
        BY <3>1, <3>2
    <2>6. /\ ~HasMsg /\ One(HasMsg) = 0 /\ Receiving /\ ~am_data_desc[Server].complete
      BY <2>5 DEF HasMsg, One, Receiving, PhaseInv, RequestPhase, AmPhase, Procs
    <2>7. /\ unexp[Server] \in Seq(Message) /\ Len(unexp[Server]) \in Nat
          /\ Len(rcvd[c]) \in Nat /\ Len(unexp'[Server]) \in Nat
      BY HoldsTypes, HoldsTypesNext, CountTypes
    <2>8. Holds' = Holds
      <3>1. One(am_data_desc[Server].complete) = 0 /\ One(am_data_desc[Server].complete)' = 0
        BY <2>5, <2>6 DEF One
      <3>2. CASE req'[Server] \in {"recv", "err"}
        <4>1. unexp'[Server] = unexp[Server] /\ ~HasMsg'
          BY <2>5, <3>2 DEF HasMsg
        <4>2. One(HasMsg)' = 0
          BY <4>1 DEF One
        <4> QED
          BY <2>6, <3>1, <4>1, <4>2 DEF Holds
      <3>3. CASE req'[Server] \in {"fetch", "ok"}
        <4>1. HasMsg' /\ unexp[Server] # <<>> /\ unexp'[Server] = Tail(unexp[Server])
          BY <1>0, <2>5, <3>3 DEF HasMsg
        <4>2. One(HasMsg)' = 1
          BY <4>1 DEF One
        <4>3. Len(unexp[Server]) = Len(unexp'[Server]) + 1
          BY <2>7, <4>1
        <4>4. \A x \in Nat : 1 + 0 + x = 0 + 0 + (x + 1)
          OBVIOUS
        <4> QED
          BY <2>6, <2>7, <3>1, <4>2, <4>3, <4>4 DEF Holds
      <3> QED
        BY <2>5, <3>2, <3>3
    <2>9. ASSUME Ordered, OrderOf(c)
          PROVE  OrderOf(c)'
      <3>1. Received(c)'
        BY <2>5, <2>9 DEF OrderOf, Received, Run
      <3>2. HeldInOrder(c)'
        <4>1. Run(unexp[Server], c, Len(rcvd[c]) + 0)
          BY <2>3, <2>6, <2>9 DEF OrderOf, HeldInOrder
        <4>2. CASE req'[Server] = "err"
          BY <4>2 DEF HeldInOrder, Receiving
        <4>3. CASE req'[Server] = "recv"
          <5>1. ~HasMsg' /\ unexp'[Server] = unexp[Server]
            BY <2>5, <4>3 DEF HasMsg
          <5>2. One(HasMsg)' = 0
            BY <5>1 DEF One
          <5> QED
            BY <2>5, <2>6, <4>1, <5>1, <5>2 DEF HeldInOrder
        <4>4. CASE req'[Server] \in {"fetch", "ok"}
          <5>1. /\ unexp[Server] # <<>> /\ unexp'[Server] = Tail(unexp[Server])
                /\ buf'[Server] = Head(unexp[Server]) /\ HasMsg'
            BY <1>0, <2>5, <4>4 DEF HasMsg
          <5>2. One(HasMsg)' = 1 /\ Len(rcvd[c]) + 0 = Len(rcvd[c])
            BY <2>7, <5>1 DEF One
          <5>3. /\ Head(unexp[Server]) = Msg(c, Len(rcvd[c]))
                /\ Run(Tail(unexp[Server]), c, Len(rcvd[c]) + 1)
            BY <2>7, <4>1, <5>1, <5>2, RunTail
          <5> QED
            BY <2>5, <2>6, <5>1, <5>2, <5>3 DEF HeldInOrder
        <4> QED
          BY <2>5, <4>2, <4>3, <4>4
      <3>3. ASSUME c \notin opt.odd
            PROVE  NextInLine(c)' /\ OneAtATime(c)' /\ FlightInOrder(c)'
        <4>1. NextInLine(c) /\ FlightInOrder(c)
          BY <2>9, <3>3 DEF OrderOf
        <4>2. Arrived(c)' = Arrived(c) /\ (ChannelUp(c)' => ChannelUp(c))
          BY <2>1, <2>3, <2>5, <2>6, <2>8 DEF Arrived, Held, ChannelUp
        <4>3. NextInLine(c)' /\ FlightInOrder(c)'
          BY <1>0, <1>2, <2>5, <4>1, <4>2, SameCount
        <4> QED
          BY <1>0, <2>5, <4>3 DEF OneAtATime
      <3> QED
        BY <1>0, <3>1, <3>2, <3>3 DEF OrderOf
    <2> QED
      BY <1>0, <1>2, <2>3, <2>4, <2>9, SessionOrder
  <1> QED
    BY <1>1, <1>2 DEF Procs

\* AmRecv keeps it.
LEMMA Order_AmRecv ==
    ASSUME Typed, Typed', CountInv, PhaseInv, PhaseInv', EndpointInv, CreditInv, OddInv,
       QuietInv, OrderInv,
           NEW p \in Procs, AmRecv(p)
    PROVE  OrderInv'
  <1>0. StepOf(p) /\ opt' = opt
    BY Step_AmRecv DEF StepOf
  <1>1. CASE p \in Clients
    <2>1. /\ conn_request' = conn_request /\ unexp'[Server] = unexp[Server] /\ rcvd' = rcvd
         /\ ep'[Server] = ep[Server]
         /\ \A d \in Clients : net'[d][Server] = net[d][Server]
      BY <1>0, <1>1, NamesAssumption DEF Typed, TypeOK, Procs, Peer, AmRecv
    <2>2. \A d \in Clients \ {p} : req'[d] = req[d]
      BY <1>0, <1>1, NamesAssumption DEF Typed, TypeOK, Procs, AmRecv
    <2>3. StillSending(p)' =>
           /\ StillSending(p)
           /\ iter'[p] + One(pc[p] = "wait")' = iter[p] + One(pc[p] = "wait")
           /\ opt.rndv /\ (pc'[p] # "wait" \/ req'[p] # "send") =>
                pc[p] # "wait" \/ req[p] # "send"
      <3>1. ~StillSending(p)'
        BY <1>0, <1>1, NamesAssumption DEF Typed, TypeOK, Procs, StillSending, AmRecv,
           Receiver, InFin
      <3> QED
        BY <3>1
    <2> QED
      BY <1>0, <1>1, <2>1, <2>2, <2>3, QuietClientOrder
  <1>2. CASE p = Server
    <2>1. /\ conn_request \in Clients /\ conn_request' = conn_request /\ Serving = conn_request
         /\ Serving' = conn_request /\ rcvd' = rcvd
      BY <1>0, <1>2 DEF Typed, TypeOK, SessionHasClient, Serving, SessionPcs, Procs,
         AmRecv
    <2>2. \A d \in Clients \ {conn_request} :
           net'[d][Server] = net[d][Server] /\ ep'[Server][d] = ep[Server][d]
      BY <1>0, <1>2, <2>1, NamesAssumption DEF Typed, TypeOK, Procs, Peer, AmRecv
    <2>3. \A d \in Clients : req'[d] = req[d]
      BY <1>0, <1>2, NamesAssumption DEF Typed, TypeOK, Procs, AmRecv
    <2>4. ep[Server][conn_request] \in {"open", "failed"} /\ ep'[Server][conn_request] # "none"
      BY <1>0, <1>2, <2>1 DEF EndpointInv, SessionEp, Typed, TypeOK, SessionPcs, Procs,
         Peer, AmRecv
    <2>5. Receiving' => Receiving /\ (HasMsg' <=> HasMsg) /\ (Fetching' <=> Fetching)
      BY <1>0, <1>2 DEF Typed, TypeOK, Procs, Receiving, HasMsg, Fetching, Receiver,
         InFin, AmRecv
    <2>6. /\ am_data_desc'[Server].complete = am_data_desc[Server].complete
         /\ am_data_desc'[Server].desc = am_data_desc[Server].desc
         /\ unexp'[Server] \in {unexp[Server], <<>>}
      BY <1>0, <1>2 DEF Typed, TypeOK, AmDesc, Procs, AmRecv
    <2>7. Receiving' /\ (HasMsg \/ (am_data_desc[Server].complete /\ ~opt.rndv)) =>
           buf'[Server] = buf[Server]
      BY <1>0, <1>2 DEF Typed, TypeOK, Procs, Receiving, AmRecv
    <2>8. ep'[Server][conn_request] = "open" =>
           /\ ep[Server][conn_request] = "open" /\ unexp'[Server] = unexp[Server]
           /\ net'[conn_request][Server] = net[conn_request][Server]
      BY <1>0, <1>2, <2>1, NamesAssumption DEF Typed, TypeOK, Procs, Peer, AmRecv
    <2> QED
      BY <1>0, <1>2, <2>1, <2>2, <2>3, <2>4, <2>5, <2>6, <2>7, <2>8, QuietSessionOrder
  <1> QED
    BY <1>1, <1>2 DEF Procs

\* AmArrived keeps it.
LEMMA Order_AmArrived ==
    ASSUME Typed, Typed', CountInv, PhaseInv, PhaseInv', EndpointInv, CreditInv, OddInv,
       QuietInv, OrderInv,
           NEW p \in Procs, AmArrived(p)
    PROVE  OrderInv'
  <1>0. StepOf(p) /\ opt' = opt
    BY Step_AmArrived DEF StepOf
  <1>1. CASE p \in Clients
    <2>1. /\ conn_request' = conn_request /\ unexp'[Server] = unexp[Server] /\ rcvd' = rcvd
         /\ ep'[Server] = ep[Server]
         /\ \A d \in Clients : net'[d][Server] = net[d][Server]
      BY <1>0, <1>1, NamesAssumption DEF Typed, TypeOK, Procs, Peer, AmArrived
    <2>2. \A d \in Clients \ {p} : req'[d] = req[d]
      BY <1>0, <1>1, NamesAssumption DEF Typed, TypeOK, Procs, AmArrived
    <2>3. StillSending(p)' =>
           /\ StillSending(p)
           /\ iter'[p] + One(pc[p] = "wait")' = iter[p] + One(pc[p] = "wait")
           /\ opt.rndv /\ (pc'[p] # "wait" \/ req'[p] # "send") =>
                pc[p] # "wait" \/ req[p] # "send"
      <3>1. iter' = iter /\ opt' = opt /\ pc[p] = "amwait"
        BY <1>0 DEF AmArrived
      <3>2. iter[p] = opt.n
        BY <1>1, <3>1, NamesAssumption DEF PhaseInv, AmPhase, Receiver, InFin
      <3> QED
        BY <3>1, <3>2 DEF StillSending
    <2> QED
      BY <1>0, <1>1, <2>1, <2>2, <2>3, QuietClientOrder
  <1>2. CASE p = Server
    <2>1. /\ conn_request \in Clients /\ conn_request' = conn_request
          /\ Serving = conn_request /\ Serving' = conn_request /\ ep' = ep
      BY <1>2 DEF Typed, TypeOK, SessionHasClient, Serving, SessionPcs, Procs, AmArrived
    <2>2. PICK c \in Clients : c = conn_request
      BY <2>1
    <2>3. Serving = c /\ Serving' = c /\ ep[Server][c] \in {"open", "failed"} /\ c # Server
      BY <2>1, <2>2, NamesAssumption DEF EndpointInv, SessionEp, Serving
    <2>4. \A d \in Clients \ {c} :
            /\ d # Serving /\ rcvd'[d] = rcvd[d] /\ net'[d][Server] = net[d][Server]
            /\ ep'[Server][d] = ep[Server][d] /\ req'[d] = req[d]
      <3>1. \A d \in Clients \ {c} :
              rcvd'[d] = rcvd[d] /\ net'[d][Server] = net[d][Server]
        BY <1>2, <2>2, NamesAssumption DEF Typed, TypeOK, Procs, Peer, AmArrived
      <3>2. \A d \in Clients \ {c} : req'[d] = req[d]
        BY <1>2, NamesAssumption DEF Typed, TypeOK, Procs, AmArrived
      <3> QED
        BY <2>1, <2>3, <3>1, <3>2
    <2>5. /\ pc[Server] = "amwait" /\ pc'[Server] = "wait" /\ iter' = iter
          /\ rcvd' = rcvd /\ net' = net /\ unexp' = unexp
          /\ am_data_desc[Server].complete /\ ~am_data_desc'[Server].complete
          /\ \/ /\ am_data_desc[Server].is_rndv /\ req'[Server] \in {"fetch", "err"}
                /\ buf'[Server] = am_data_desc[Server].desc
             \/ /\ ~am_data_desc[Server].is_rndv /\ req'[Server] = "ok" /\ buf' = buf
      BY <1>2 DEF Typed, TypeOK, Procs, AmDesc, AmArrived, LoopDone, Taken
    <2>6. /\ iter[Server] # opt.n /\ opt.api = "am" /\ ~HasMsg /\ Receiving
          /\ am_data_desc[Server].is_rndv = opt.rndv /\ unexp[Server] = <<>>
      <3>1. iter[Server] # opt.n /\ opt.api = "am" /\ req[Server] = "none"
        BY <2>5 DEF PhaseInv, AmPhase, RequestPhase, Receiver, InFin, Procs
      <3> QED
        BY <2>5, <3>1 DEF HasMsg, Receiving, QuietInv, CreditInv, CleanStart
    <2>7. One(HasMsg) = 0 /\ Len(rcvd[c]) \in Nat
      BY <2>6, CountTypes DEF One
    <2>8. req'[Server] # "err" => HasMsg' /\ One(HasMsg)' = 1 /\ Holds' = Holds
      <3> SUFFICES ASSUME req'[Server] # "err"
                   PROVE  HasMsg' /\ One(HasMsg)' = 1 /\ Holds' = Holds
        OBVIOUS
      <3>1. HasMsg'
        BY <1>0, <2>5, <2>6 DEF HasMsg
      <3>2. /\ One(HasMsg)' = 1 /\ One(am_data_desc[Server].complete) = 1
            /\ One(am_data_desc[Server].complete)' = 0
        BY <2>5, <3>1 DEF One
      <3>3. Len(unexp[Server]) \in Nat
        BY HoldsTypes
      <3>4. \A x \in Nat : 1 + 0 + x = 0 + 1 + x
        OBVIOUS
      <3> QED
        BY <2>5, <2>7, <3>1, <3>2, <3>3, <3>4 DEF Holds
    <2>9. ASSUME Ordered, OrderOf(c)
          PROVE  OrderOf(c)'
      <3>1. Received(c)'
        BY <2>5, <2>9 DEF OrderOf, Received, Run
      <3>2. HeldInOrder(c)'
        <4> SUFFICES ASSUME req'[Server] # "err"
                     PROVE  HeldInOrder(c)'
          BY DEF HeldInOrder, Receiving
        <4>1. /\ opt.rndv => am_data_desc[Server].desc = Msg(c, Len(rcvd[c]) + 0)
              /\ ~opt.rndv => buf[Server] = Msg(c, Len(rcvd[c]))
          BY <2>3, <2>5, <2>6, <2>7, <2>9 DEF OrderOf, HeldInOrder
        <4>2. buf'[Server] = Msg(c, Len(rcvd[c]))
          BY <2>5, <2>6, <2>7, <4>1
        <4>3. Run(unexp'[Server], c, Len(rcvd'[c]) + One(HasMsg)')
          BY <2>5, <2>6, RunEmpty
        <4> QED
          BY <2>5, <4>2, <4>3 DEF HeldInOrder
      <3>3. ASSUME c \notin opt.odd
            PROVE  NextInLine(c)' /\ OneAtATime(c)' /\ FlightInOrder(c)'
        <4>1. NextInLine(c) /\ FlightInOrder(c) /\ OneAtATime(c)
          BY <2>9, <3>3 DEF OrderOf
        <4>2. CASE ~ChannelUp(c)'
          BY <4>2 DEF NextInLine, OneAtATime, FlightInOrder
        <4>3. CASE ChannelUp(c)'
          <5>1. ChannelUp(c) /\ req'[Server] # "err"
            BY <2>1, <2>3, <2>6, <4>3 DEF ChannelUp, Receiving
          <5>2. Arrived(c)' = Arrived(c)
            BY <2>3, <2>5, <2>8, <5>1 DEF Arrived, Held
          <5>3. NextInLine(c)' /\ FlightInOrder(c)'
            BY <1>0, <1>2, <2>5, <4>1, <5>1, <5>2, SameCount
          <5>4. OneAtATime(c)'
            <6> SUFFICES ASSUME opt.rndv
                         PROVE  OneAtATime(c)'
              BY <1>0 DEF OneAtATime
            <6>1. /\ net[c][Server] = <<>> /\ Len(net[c][Server]) <= 1
                  /\ ~(StillSending(c) /\ (pc[c] # "wait" \/ req[c] # "send"))
              BY <2>3, <2>5, <2>6, <4>1, <5>1 DEF OneAtATime, Clear
            <6>2. /\ SameLocal(c) /\ req'[c] = req[c]
              BY <1>0, <1>2, <2>3 DEF StepOf, AmArrived, Typed, TypeOK, Procs
            <6>3. ~(StillSending(c)' /\ (pc'[c] # "wait" \/ req'[c] # "send"))
              BY <1>0, <6>1, <6>2 DEF SameLocal, StillSending
            <6> QED
              BY <2>5, <6>1, <6>3 DEF OneAtATime
          <5> QED
            BY <5>3, <5>4
        <4> QED
          BY <4>2, <4>3
      <3> QED
        BY <1>0, <3>1, <3>2, <3>3 DEF OrderOf
    <2> QED
      BY <1>0, <1>2, <2>3, <2>4, <2>9, SessionOrder
  <1> QED
    BY <1>1, <1>2 DEF Procs

\* FinalizeError keeps it.
LEMMA Order_FinalizeError ==
    ASSUME Typed, Typed', CountInv, PhaseInv, PhaseInv', EndpointInv, CreditInv, OddInv,
       QuietInv, OrderInv,
           NEW p \in Procs, FinalizeError(p)
    PROVE  OrderInv'
  <1>0. StepOf(p) /\ opt' = opt
    BY Step_FinalizeError DEF StepOf
  <1>1. CASE p \in Clients
    <2>1. /\ conn_request' = conn_request /\ unexp'[Server] = unexp[Server] /\ rcvd' = rcvd
         /\ ep'[Server] = ep[Server]
         /\ \A d \in Clients : net'[d][Server] = net[d][Server]
      BY <1>0, <1>1, NamesAssumption DEF Typed, TypeOK, Procs, Peer, FinalizeError
    <2>2. \A d \in Clients \ {p} : req'[d] = req[d]
      BY <1>0, <1>1, NamesAssumption DEF Typed, TypeOK, Procs, FinalizeError
    <2>3. StillSending(p)' =>
           /\ StillSending(p)
           /\ iter'[p] + One(pc[p] = "wait")' = iter[p] + One(pc[p] = "wait")
           /\ opt.rndv /\ (pc'[p] # "wait" \/ req'[p] # "send") =>
                pc[p] # "wait" \/ req[p] # "send"
      <3>1. ~StillSending(p)'
        BY <1>0, <1>1, NamesAssumption DEF Typed, TypeOK, Procs, StillSending,
           FinalizeError
      <3> QED
        BY <3>1
    <2> QED
      BY <1>0, <1>1, <2>1, <2>2, <2>3, QuietClientOrder
  <1>2. CASE p = Server
    <2>1. /\ conn_request \in Clients /\ conn_request' = conn_request /\ Serving = conn_request
         /\ Serving' = conn_request /\ rcvd' = rcvd
      BY <1>0, <1>2 DEF Typed, TypeOK, SessionHasClient, Serving, SessionPcs, Procs,
         FinalizeError
    <2>2. \A d \in Clients \ {conn_request} :
           net'[d][Server] = net[d][Server] /\ ep'[Server][d] = ep[Server][d]
      BY <1>0, <1>2, <2>1, NamesAssumption DEF Typed, TypeOK, Procs, Peer, FinalizeError
    <2>3. \A d \in Clients : req'[d] = req[d]
      BY <1>0, <1>2, NamesAssumption DEF Typed, TypeOK, Procs, FinalizeError
    <2>4. ep[Server][conn_request] \in {"open", "failed"} /\ ep'[Server][conn_request] # "none"
      BY <1>0, <1>2, <2>1 DEF EndpointInv, SessionEp, Typed, TypeOK, SessionPcs, Procs,
         Peer, FinalizeError
    <2>5. Receiving' => Receiving /\ (HasMsg' <=> HasMsg) /\ (Fetching' <=> Fetching)
      BY <1>0, <1>2 DEF Typed, TypeOK, Procs, Receiving, HasMsg, Fetching, Receiver,
         InFin, FinalizeError
    <2>6. /\ am_data_desc'[Server].complete = am_data_desc[Server].complete
         /\ am_data_desc'[Server].desc = am_data_desc[Server].desc
         /\ unexp'[Server] \in {unexp[Server], <<>>}
      BY <1>0, <1>2 DEF Typed, TypeOK, AmDesc, Procs, FinalizeError, FreeIov
    <2>7. Receiving' /\ (HasMsg \/ (am_data_desc[Server].complete /\ ~opt.rndv)) =>
           buf'[Server] = buf[Server]
      BY <1>0, <1>2 DEF Typed, TypeOK, Procs, Receiving, FinalizeError
    <2>8. ep'[Server][conn_request] = "open" =>
           /\ ep[Server][conn_request] = "open" /\ unexp'[Server] = unexp[Server]
           /\ net'[conn_request][Server] = net[conn_request][Server]
      BY <1>0, <1>2, <2>1, NamesAssumption DEF Typed, TypeOK, Procs, Peer, FinalizeError
    <2> QED
      BY <1>0, <1>2, <2>1, <2>2, <2>3, <2>4, <2>5, <2>6, <2>7, <2>8, QuietSessionOrder
  <1> QED
    BY <1>1, <1>2 DEF Procs

\* FinalizeData keeps it.
LEMMA Order_FinalizeData ==
    ASSUME Typed, Typed', CountInv, PhaseInv, PhaseInv', EndpointInv, CreditInv, OddInv,
       QuietInv, OrderInv,
           NEW p \in Procs, FinalizeData(p)
    PROVE  OrderInv'
  <1>0. StepOf(p) /\ opt' = opt
    BY Step_FinalizeData DEF StepOf
  <1>1. CASE p \in Clients
    <2>1. /\ conn_request' = conn_request /\ unexp'[Server] = unexp[Server] /\ rcvd' = rcvd
         /\ ep'[Server] = ep[Server]
         /\ \A d \in Clients : net'[d][Server] = net[d][Server]
      BY <1>0, <1>1, NamesAssumption DEF Typed, TypeOK, Procs, Peer, FinalizeData
    <2>2. \A d \in Clients \ {p} : req'[d] = req[d]
      BY <1>0, <1>1, NamesAssumption DEF Typed, TypeOK, Procs, FinalizeData
    <2>3. StillSending(p)' =>
           /\ StillSending(p)
           /\ iter'[p] + One(pc[p] = "wait")' = iter[p] + One(pc[p] = "wait")
           /\ opt.rndv /\ (pc'[p] # "wait" \/ req'[p] # "send") =>
                pc[p] # "wait" \/ req[p] # "send"
      <3>1. /\ pc[p] = "wait" /\ pc'[p] # "wait" /\ req[p] = "ok" /\ iter'[p] = iter[p] + 1
            /\ iter[p] # opt.n /\ iter[p] \in Nat
        BY <1>1, NamesAssumption DEF Typed, TypeOK, Procs, FinalizeData, AfterIter, InFin
      <3>2. One(pc[p] = "wait") = 1 /\ One(pc[p] = "wait")' = 0
        BY <3>1 DEF One
      <3>3. iter'[p] + One(pc[p] = "wait")' = iter[p] + One(pc[p] = "wait")
        BY <3>1, <3>2
      <3> QED
        BY <1>0, <3>1, <3>3 DEF StillSending
    <2> QED
      BY <1>0, <1>1, <2>1, <2>2, <2>3, QuietClientOrder
  <1>2. CASE p = Server
    <2>1. /\ conn_request \in Clients /\ conn_request' = conn_request
          /\ Serving = conn_request /\ Serving' = conn_request /\ ep' = ep
      BY <1>2 DEF Typed, TypeOK, SessionHasClient, Serving, SessionPcs, Procs, FinalizeData, AfterIter
    <2>2. PICK c \in Clients : c = conn_request
      BY <2>1
    <2>3. Serving = c /\ Serving' = c /\ ep[Server][c] \in {"open", "failed"} /\ c # Server
      BY <2>1, <2>2, NamesAssumption DEF EndpointInv, SessionEp, Serving
    <2>4. \A d \in Clients \ {c} :
            /\ d # Serving /\ rcvd'[d] = rcvd[d] /\ net'[d][Server] = net[d][Server]
            /\ ep'[Server][d] = ep[Server][d] /\ req'[d] = req[d]
      <3>1. \A d \in Clients \ {c} :
              rcvd'[d] = rcvd[d] /\ net'[d][Server] = net[d][Server]
        BY <1>2, <2>2, NamesAssumption DEF Typed, TypeOK, Procs, Peer, FinalizeData
      <3>2. \A d \in Clients \ {c} : req'[d] = req[d]
        BY <1>2, NamesAssumption DEF Typed, TypeOK, Procs, FinalizeData
      <3> QED
        BY <2>1, <2>3, <3>1, <3>2
    <2>5. /\ pc[Server] = "wait" /\ req[Server] = "ok" /\ iter[Server] # opt.n
          /\ pc'[Server] = "comm" /\ req'[Server] = "none"
          /\ net' = net /\ unexp' = unexp
          /\ rcvd'[c] = Append(rcvd[c], buf[Server])
          /\ am_data_desc'[Server].complete = am_data_desc[Server].complete
          /\ am_data_desc'[Server].desc = am_data_desc[Server].desc
      BY <1>2, <2>2 DEF Typed, TypeOK, Procs, AmDesc, FinalizeData, FreeIov, AfterIter, InFin
    <2>6. HasMsg /\ ~HasMsg' /\ Receiving /\ ~Fetching /\ ~Fetching'
      BY <2>5 DEF HasMsg, Receiving, Fetching
    <2>7. /\ One(HasMsg) = 1 /\ One(HasMsg)' = 0 /\ rcvd[c] \in Seq(Message)
          /\ buf[Server] \in Message /\ Len(rcvd[c]) \in Nat /\ Len(rcvd'[c]) = Len(rcvd[c]) + 1
      <3>1. rcvd[c] \in Seq(Message) /\ buf[Server] \in Message
        BY DEF Typed, TypeOK, Procs
      <3>2. Len(rcvd[c]) \in Nat /\ Len(rcvd'[c]) = Len(rcvd[c]) + 1
        BY <2>5, <3>1
      <3> QED
        BY <2>6, <3>1, <3>2 DEF One
    <2>8. Arrived(c)' = Arrived(c)
      <3>1. One(am_data_desc[Server].complete)' = One(am_data_desc[Server].complete)
        BY <2>5 DEF One
      <3>2. One(am_data_desc[Server].complete) \in Nat /\ Len(unexp[Server]) \in Nat
        BY HoldsTypes
      <3>3. \A r, b, u \in Nat : (r + 1) + (0 + b + u) = r + (1 + b + u)
        OBVIOUS
      <3>4. /\ Holds = 1 + One(am_data_desc[Server].complete) + Len(unexp[Server])
            /\ Holds' = 0 + One(am_data_desc[Server].complete) + Len(unexp[Server])
        BY <2>5, <2>7, <3>1 DEF Holds
      <3>5. Arrived(c) = Len(rcvd[c]) + Holds /\ Arrived(c)' = Len(rcvd'[c]) + Holds'
        BY <2>3 DEF Arrived, Held
      <3>6. (Len(rcvd[c]) + 1) + Holds' = Len(rcvd[c]) + Holds
        BY <2>7, <3>2, <3>3, <3>4
      <3> QED
        BY <2>7, <3>5, <3>6
    <2>9. ASSUME Ordered, OrderOf(c)
          PROVE  OrderOf(c)'
      <3>0. /\ buf[Server] = Msg(c, Len(rcvd[c])) /\ Run(unexp[Server], c, Len(rcvd[c]) + 1)
            /\ am_data_desc[Server].complete /\ opt.rndv =>
                 am_data_desc[Server].desc = Msg(c, Len(rcvd[c]) + 1)
        BY <2>3, <2>6, <2>7, <2>9 DEF OrderOf, HeldInOrder
      <3>1. Received(c)'
        <4>1. Run(rcvd[c], c, 0) /\ buf[Server] = Msg(c, 0 + Len(rcvd[c]))
          BY <2>7, <2>9, <3>0 DEF OrderOf, Received
        <4>2. Run(Append(rcvd[c], buf[Server]), c, 0)
          BY <2>7, <4>1, RunAppend
        <4> QED
          BY <2>5, <4>2 DEF Received
      <3>2. HeldInOrder(c)'
        <4>1. Len(rcvd'[c]) + One(HasMsg)' = Len(rcvd[c]) + 1
          BY <2>7
        <4>2. Run(unexp'[Server], c, Len(rcvd'[c]) + One(HasMsg)')
          BY <2>5, <3>0, <4>1
        <4>3. am_data_desc'[Server].complete /\ opt.rndv =>
                am_data_desc'[Server].desc = Msg(c, Len(rcvd'[c]) + One(HasMsg)')
          BY <2>5, <3>0, <4>1
        <4>4. am_data_desc'[Server].complete => opt.rndv
          BY <2>5 DEF QuietInv
        <4> QED
          BY <1>0, <2>6, <4>2, <4>3, <4>4 DEF HeldInOrder
      <3>3. ASSUME c \notin opt.odd
            PROVE  NextInLine(c)' /\ OneAtATime(c)' /\ FlightInOrder(c)'
        <4>1. NextInLine(c) /\ FlightInOrder(c) /\ OneAtATime(c)
          BY <2>9, <3>3 DEF OrderOf
        <4>2. ChannelUp(c)' => ChannelUp(c)
          BY <2>1, <2>3, <2>6 DEF ChannelUp
        <4>3. NextInLine(c)' /\ FlightInOrder(c)'
          BY <1>0, <1>2, <2>5, <2>8, <4>1, <4>2, SameCount
        <4>4. SameLocal(c) /\ req'[c] = req[c]
          BY <1>0, <1>2, <2>3 DEF StepOf, FinalizeData, Typed, TypeOK, Procs
        <4>5. /\ pc'[c] = pc[c] /\ (StillSending(c)' <=> StillSending(c))
              /\ Clear(c)' <=> Clear(c)
          BY <1>0, <2>3, <2>5, <2>6, <4>4 DEF SameLocal, StillSending, Clear
        <4>6. OneAtATime(c)'
          BY <1>0, <2>3, <2>5, <2>6, <4>1, <4>2, <4>4, <4>5 DEF OneAtATime
        <4> QED
          BY <4>3, <4>6
      <3> QED
        BY <1>0, <3>1, <3>2, <3>3 DEF OrderOf
    <2> QED
      BY <1>0, <1>2, <2>3, <2>4, <2>9, SessionOrder
  <1> QED
    BY <1>1, <1>2 DEF Procs

\* FinalizeFin keeps it.
LEMMA Order_FinalizeFin ==
    ASSUME Typed, Typed', CountInv, PhaseInv, PhaseInv', EndpointInv, CreditInv, OddInv,
       QuietInv, OrderInv,
           NEW p \in Procs, FinalizeFin(p)
    PROVE  OrderInv'
  <1>0. StepOf(p) /\ opt' = opt
    BY Step_FinalizeFin DEF StepOf
  <1>1. CASE p \in Clients
    <2>1. /\ conn_request' = conn_request /\ unexp'[Server] = unexp[Server] /\ rcvd' = rcvd
         /\ ep'[Server] = ep[Server]
         /\ \A d \in Clients : net'[d][Server] = net[d][Server]
      BY <1>0, <1>1, NamesAssumption DEF Typed, TypeOK, Procs, Peer, FinalizeFin
    <2>2. \A d \in Clients \ {p} : req'[d] = req[d]
      BY <1>0, <1>1, NamesAssumption DEF Typed, TypeOK, Procs, FinalizeFin
    <2>3. StillSending(p)' =>
           /\ StillSending(p)
           /\ iter'[p] + One(pc[p] = "wait")' = iter[p] + One(pc[p] = "wait")
           /\ opt.rndv /\ (pc'[p] # "wait" \/ req'[p] # "send") =>
                pc[p] # "wait" \/ req[p] # "send"
      <3>1. ~StillSending(p)'
        BY <1>0, <1>1, NamesAssumption DEF Typed, TypeOK, Procs, StillSending,
           FinalizeFin
      <3> QED
        BY <3>1
    <2> QED
      BY <1>0, <1>1, <2>1, <2>2, <2>3, QuietClientOrder
  <1>2. CASE p = Server
    <2>1. /\ conn_request \in Clients /\ conn_request' = conn_request /\ Serving = conn_request
         /\ Serving' = conn_request /\ rcvd' = rcvd
      BY <1>0, <1>2 DEF Typed, TypeOK, SessionHasClient, Serving, SessionPcs, Procs,
         FinalizeFin
    <2>2. \A d \in Clients \ {conn_request} :
           net'[d][Server] = net[d][Server] /\ ep'[Server][d] = ep[Server][d]
      BY <1>0, <1>2, <2>1, NamesAssumption DEF Typed, TypeOK, Procs, Peer, FinalizeFin
    <2>3. \A d \in Clients : req'[d] = req[d]
      BY <1>0, <1>2, NamesAssumption DEF Typed, TypeOK, Procs, FinalizeFin
    <2>4. ep[Server][conn_request] \in {"open", "failed"} /\ ep'[Server][conn_request] # "none"
      BY <1>0, <1>2, <2>1 DEF EndpointInv, SessionEp, Typed, TypeOK, SessionPcs, Procs,
         Peer, FinalizeFin
    <2>5. Receiving' => Receiving /\ (HasMsg' <=> HasMsg) /\ (Fetching' <=> Fetching)
      BY <1>0, <1>2 DEF Typed, TypeOK, Procs, Receiving, HasMsg, Fetching, Receiver,
         InFin, FinalizeFin
    <2>6. /\ am_data_desc'[Server].complete = am_data_desc[Server].complete
         /\ am_data_desc'[Server].desc = am_data_desc[Server].desc
         /\ unexp'[Server] \in {unexp[Server], <<>>}
      BY <1>0, <1>2 DEF Typed, TypeOK, AmDesc, Procs, FinalizeFin, FreeIov
    <2>7. Receiving' /\ (HasMsg \/ (am_data_desc[Server].complete /\ ~opt.rndv)) =>
           buf'[Server] = buf[Server]
      BY <1>0, <1>2 DEF Typed, TypeOK, Procs, HasMsg, InFin, QuietInv, FinalizeFin
    <2>8. ep'[Server][conn_request] = "open" =>
           /\ ep[Server][conn_request] = "open" /\ unexp'[Server] = unexp[Server]
           /\ net'[conn_request][Server] = net[conn_request][Server]
      BY <1>0, <1>2, <2>1, NamesAssumption DEF Typed, TypeOK, Procs, Peer, FinalizeFin
    <2> QED
      BY <1>0, <1>2, <2>1, <2>2, <2>3, <2>4, <2>5, <2>6, <2>7, <2>8, QuietSessionOrder
  <1> QED
    BY <1>1, <1>2 DEF Procs

\* SendCb keeps it.
LEMMA Order_SendCb ==
    ASSUME Typed, Typed', CountInv, PhaseInv, PhaseInv', EndpointInv, CreditInv, OddInv,
       QuietInv, OrderInv,
           NEW p \in Procs, SendCb(p)
    PROVE  OrderInv'
  <1>0. StepOf(p) /\ opt' = opt
    BY Step_SendCb DEF StepOf
  <1>1. CASE p \in Clients
    <2>1. /\ conn_request' = conn_request /\ unexp'[Server] = unexp[Server] /\ rcvd' = rcvd
         /\ ep'[Server] = ep[Server]
         /\ \A d \in Clients : net'[d][Server] = net[d][Server]
      BY <1>0, <1>1, NamesAssumption DEF Typed, TypeOK, Procs, Peer, SendCb, InDataLoop,
         DataLoops
    <2>2. \A d \in Clients \ {p} : req'[d] = req[d]
      BY <1>0, <1>1, NamesAssumption DEF Typed, TypeOK, Procs, SendCb
    <2>3. StillSending(p)' =>
           /\ StillSending(p)
           /\ iter'[p] + One(pc[p] = "wait")' = iter[p] + One(pc[p] = "wait")
           /\ opt.rndv /\ (pc'[p] # "wait" \/ req'[p] # "send") =>
                pc[p] # "wait" \/ req[p] # "send"
      <3>1. pc'[p] = pc[p] /\ iter'[p] = iter[p]
        BY <1>1 DEF SendCb
      <3>2. One(pc[p] = "wait")' = One(pc[p] = "wait")
        BY <3>1 DEF One
      <3> QED
        BY <1>0, <1>1, <3>1, <3>2 DEF StillSending, Typed, TypeOK, Procs, SendCb
    <2> QED
      BY <1>0, <1>1, <2>1, <2>2, <2>3, QuietClientOrder
  <1>2. CASE p = Server
    <2>1. /\ conn_request \in Clients /\ conn_request' = conn_request /\ Serving = conn_request
         /\ Serving' = conn_request /\ rcvd' = rcvd
      BY <1>0, <1>2 DEF Typed, TypeOK, SessionHasClient, Serving, SessionPcs, Procs,
         SendCb, InDataLoop, DataLoops
    <2>2. \A d \in Clients \ {conn_request} :
           net'[d][Server] = net[d][Server] /\ ep'[Server][d] = ep[Server][d]
      BY <1>0, <1>2, <2>1, NamesAssumption DEF Typed, TypeOK, Procs, Peer, SendCb
    <2>3. \A d \in Clients : req'[d] = req[d]
      BY <1>0, <1>2, NamesAssumption DEF Typed, TypeOK, Procs, SendCb
    <2>4. ep[Server][conn_request] \in {"open", "failed"} /\ ep'[Server][conn_request] # "none"
      BY <1>0, <1>2, <2>1 DEF EndpointInv, SessionEp, Typed, TypeOK, SessionPcs, Procs,
         Peer, SendCb, InDataLoop, DataLoops
    <2>5. Receiving' => Receiving /\ (HasMsg' <=> HasMsg) /\ (Fetching' <=> Fetching)
      <3>1. /\ pc' = pc /\ iter' = iter /\ opt' = opt /\ req[Server] \in {"send", "sent", "nak"}
            /\ req'[Server] \in {"ok", "err"}
        BY <1>2 DEF Typed, TypeOK, Procs, SendCb
      <3>2. pc[Server] = "wait" => iter[Server] = opt.n
        BY <3>1 DEF PhaseInv, RequestPhase, RecvReqs, Receiver, InFin, Procs
      <3> QED
        BY <3>1, <3>2 DEF Receiving, HasMsg, Fetching
    <2>6. /\ am_data_desc'[Server].complete = am_data_desc[Server].complete
         /\ am_data_desc'[Server].desc = am_data_desc[Server].desc
         /\ unexp'[Server] \in {unexp[Server], <<>>}
      BY <1>0, <1>2 DEF Typed, TypeOK, AmDesc, Procs, SendCb
    <2>7. Receiving' /\ (HasMsg \/ (am_data_desc[Server].complete /\ ~opt.rndv)) =>
           buf'[Server] = buf[Server]
      BY <1>0, <1>2 DEF Typed, TypeOK, Procs, Receiving, SendCb
    <2>8. ep'[Server][conn_request] = "open" =>
           /\ ep[Server][conn_request] = "open" /\ unexp'[Server] = unexp[Server]
           /\ net'[conn_request][Server] = net[conn_request][Server]
      BY <1>0, <1>2, <2>1, NamesAssumption DEF Typed, TypeOK, Procs, Peer, SendCb
    <2> QED
      BY <1>0, <1>2, <2>1, <2>2, <2>3, <2>4, <2>5, <2>6, <2>7, <2>8, QuietSessionOrder
  <1> QED
    BY <1>1, <1>2 DEF Procs

\* FetchCb keeps it.
LEMMA Order_FetchCb ==
    ASSUME Typed, Typed', CountInv, PhaseInv, PhaseInv', EndpointInv, CreditInv, OddInv,
       QuietInv, OrderInv,
           NEW p \in Procs, FetchCb(p)
    PROVE  OrderInv'
  <1>0. StepOf(p) /\ opt' = opt
    BY Step_FetchCb DEF StepOf
  <1>1. CASE p \in Clients
    <2>1. /\ conn_request' = conn_request /\ unexp'[Server] = unexp[Server] /\ rcvd' = rcvd
         /\ ep'[Server] = ep[Server]
         /\ \A d \in Clients : net'[d][Server] = net[d][Server]
      BY <1>0, <1>1, NamesAssumption DEF Typed, TypeOK, Procs, Peer, FetchCb,
         InDataLoop, DataLoops
    <2>2. \A d \in Clients \ {p} : req'[d] = req[d]
      <3> DEFINE ok == [req EXCEPT ![p] = "ok"]
      <3>3. req \in [Procs -> ReqStates] /\ ok \in [Procs -> ReqStates]
        BY DEF Typed, TypeOK, ReqStates
      <3>4. req' = Confirm(ok, p, buf[p], "sent")
        BY DEF FetchCb
      <3>5. ASSUME NEW d \in Clients \ {p}
            PROVE  req'[d] = req[d]
        <4>1. d \in Clients /\ d \in Procs /\ d # p
          BY DEF Procs
        <4>2. \A m, s : Confirm(req, p, m, s)[d] = req[d]
          BY <1>1, <3>3, <4>1, ConfirmOthers
        <4>3. ok[d] = req[d] /\ [req EXCEPT ![p] = "fetch"][d] = req[d]
          BY <3>3, <4>1
        <4> HIDE DEF ok
        <4>4. \A m, s : Confirm(ok, p, m, s)[d] = ok[d]
          BY <1>1, <3>3, <4>1, ConfirmOthers
        <4> QED
          BY <3>4, <4>2, <4>3, <4>4
      <3> QED
        BY <3>5
    <2>3. StillSending(p)' =>
           /\ StillSending(p)
           /\ iter'[p] + One(pc[p] = "wait")' = iter[p] + One(pc[p] = "wait")
           /\ opt.rndv /\ (pc'[p] # "wait" \/ req'[p] # "send") =>
                pc[p] # "wait" \/ req[p] # "send"
      <3>1. ~StillSending(p)'
        BY <1>0, <1>1, NamesAssumption DEF Typed, TypeOK, Procs, StillSending, FetchCb,
           InDataLoop, DataLoops, PhaseInv, RequestPhase, SendReqs, Receiver, InFin
      <3> QED
        BY <3>1
    <2> QED
      BY <1>0, <1>1, <2>1, <2>2, <2>3, QuietClientOrder
  <1>2. CASE p = Server
    <2>1. /\ conn_request \in Clients /\ conn_request' = conn_request
          /\ Serving = conn_request /\ Serving' = conn_request /\ ep' = ep
      BY <1>2 DEF Typed, TypeOK, SessionHasClient, Serving, SessionPcs, Procs, FetchCb, InDataLoop, DataLoops
    <2>2. PICK c \in Clients : c = conn_request
      BY <2>1
    <2>3. Serving = c /\ Serving' = c /\ ep[Server][c] \in {"open", "failed"} /\ c # Server
      BY <2>1, <2>2, NamesAssumption DEF EndpointInv, SessionEp, Serving
    <2>4. \A d \in Clients \ {c} :
            /\ d # Serving /\ rcvd'[d] = rcvd[d] /\ net'[d][Server] = net[d][Server]
            /\ ep'[Server][d] = ep[Server][d] /\ req'[d] = req[d]
      <3>1. \A d \in Clients \ {c} :
              rcvd'[d] = rcvd[d] /\ net'[d][Server] = net[d][Server]
        BY <1>2, <2>2, NamesAssumption DEF Typed, TypeOK, Procs, Peer, FetchCb
      <3>2. \A d \in Clients \ {c} : req'[d] = req[d]
        <4>1. req \in [Procs -> ReqStates] /\ [req EXCEPT ![Server] = "ok"] \in [Procs -> ReqStates]
          BY DEF Typed, TypeOK, ReqStates
        <4>2. req' = Confirm([req EXCEPT ![Server] = "ok"], Server, buf[Server], "sent")
          BY <1>2 DEF FetchCb
        <4>3. ASSUME NEW d \in Clients \ {c}
              PROVE  req'[d] = req[d]
          <5>1. d \in Procs /\ d # conn_request /\ d # Server
            BY <2>2, NamesAssumption DEF Procs
          <5>2. [req EXCEPT ![Server] = "ok"][d] = req[d] /\ [req EXCEPT ![Server] = "fetch"][d] = req[d]
            BY <4>1, <5>1
          <5>3. \A m, s : Confirm(req, Server, m, s)[d] = req[d]
            BY <4>1, <5>1, ConfirmPeer
          <5>4. \A m, s : Confirm([req EXCEPT ![Server] = "ok"], Server, m, s)[d]
                           = [req EXCEPT ![Server] = "ok"][d]
            BY <4>1, <5>1, ConfirmPeer
          <5> QED
            BY <4>2, <5>2, <5>3, <5>4
        <4> QED
          BY <4>3
      <3> QED
        BY <2>1, <2>3, <3>1, <3>2
    <2>5. /\ pc' = pc /\ iter' = iter /\ req[Server] = "fetch" /\ req'[Server] = "ok"
          /\ rcvd' = rcvd /\ net' = net /\ unexp' = unexp /\ buf' = buf
          /\ am_data_desc' = am_data_desc
      <3>1. Peer(Server) # Server /\ Server \in Procs
        BY <2>2, <2>3 DEF Peer, Procs
      <3> QED
        BY <1>2, <3>1 DEF Typed, TypeOK, FetchCb, Confirm
    <2>6. pc[Server] = "wait" /\ iter[Server] # opt.n
      BY <1>2, <2>5 DEF PhaseInv, RequestPhase, SendReqs, Receiver, InFin, Procs, FetchCb,
         InDataLoop, DataLoops
    <2>7. HasMsg /\ HasMsg' /\ Receiving /\ Receiving' /\ Fetching /\ ~Fetching'
      BY <1>0, <2>5, <2>6 DEF HasMsg, Receiving, Fetching
    <2>8. One(HasMsg)' = One(HasMsg) /\ Holds' = Holds /\ Arrived(c)' = Arrived(c)
      <3>1. One(HasMsg)' = One(HasMsg)
        BY <2>7 DEF One
      <3>2. One(am_data_desc[Server].complete)' = One(am_data_desc[Server].complete)
        BY <2>5 DEF One
      <3>3. Holds' = Holds
        BY <2>5, <3>1, <3>2 DEF Holds
      <3> QED
        BY <2>3, <2>5, <3>1, <3>3 DEF Arrived, Held
    <2>9. ASSUME Ordered, OrderOf(c)
          PROVE  OrderOf(c)'
      <3>1. Received(c)' /\ HeldInOrder(c)'
        BY <1>0, <2>3, <2>5, <2>7, <2>8, <2>9 DEF OrderOf, Received, HeldInOrder, Run
      <3>2. ASSUME c \notin opt.odd
            PROVE  NextInLine(c)' /\ OneAtATime(c)' /\ FlightInOrder(c)'
        <4>1. NextInLine(c) /\ FlightInOrder(c) /\ OneAtATime(c)
          BY <2>9, <3>2 DEF OrderOf
        <4>2. ChannelUp(c)' => ChannelUp(c)
          BY <2>1, <2>3, <2>7 DEF ChannelUp
        <4>3. NextInLine(c)' /\ FlightInOrder(c)'
          BY <1>0, <1>2, <2>5, <2>8, <4>1, <4>2, SameCount
        <4>4. opt.api = "am" /\ opt.rndv /\ ChannelUp(c) =>
                net[c][Server] = <<>> /\ ~am_data_desc[Server].complete
          BY <2>3, <2>7, <4>1 DEF OneAtATime
        <4>5. OneAtATime(c)'
          BY <1>0, <2>5, <2>7, <4>1, <4>2, <4>4 DEF OneAtATime, Clear
        <4> QED
          BY <4>3, <4>5
      <3> QED
        BY <1>0, <3>1, <3>2 DEF OrderOf
    <2> QED
      BY <1>0, <1>2, <2>3, <2>4, <2>9, SessionOrder
  <1> QED
    BY <1>1, <1>2 DEF Procs

\* RecvCb keeps it.
LEMMA Order_RecvCb ==
    ASSUME Typed, Typed', CountInv, PhaseInv, PhaseInv', EndpointInv, CreditInv, OddInv,
       QuietInv, OrderInv,
           NEW p \in Procs, RecvCb(p)
    PROVE  OrderInv'
  <1>0. StepOf(p) /\ opt' = opt
    BY Step_RecvCb DEF StepOf
  <1>1. CASE p \in Clients
    <2>1. /\ conn_request' = conn_request /\ unexp'[Server] = unexp[Server] /\ rcvd' = rcvd
         /\ ep'[Server] = ep[Server]
         /\ \A d \in Clients : net'[d][Server] = net[d][Server]
      BY <1>0, <1>1, NamesAssumption DEF Typed, TypeOK, Procs, Peer, RecvCb, InDataLoop,
         DataLoops
    <2>2. \A d \in Clients \ {p} : req'[d] = req[d]
      <3> DEFINE ok == [req EXCEPT ![p] = "ok"]
      <3>3. req \in [Procs -> ReqStates] /\ ok \in [Procs -> ReqStates]
        BY DEF Typed, TypeOK, ReqStates
      <3>4. \/ \E m : req' = Confirm(ok, p, m, "sent")
            \/ \E m : req' = Confirm(req, p, m, "sent")
            \/ req' = req \/ req' = [req EXCEPT ![p] = "fetch"]
        BY DEF RecvCb
      <3>5. ASSUME NEW d \in Clients \ {p}
            PROVE  req'[d] = req[d]
        <4>1. d \in Clients /\ d \in Procs /\ d # p
          BY DEF Procs
        <4>2. \A m, s : Confirm(req, p, m, s)[d] = req[d]
          BY <1>1, <3>3, <4>1, ConfirmOthers
        <4>3. ok[d] = req[d] /\ [req EXCEPT ![p] = "fetch"][d] = req[d]
          BY <3>3, <4>1
        <4> HIDE DEF ok
        <4>4. \A m, s : Confirm(ok, p, m, s)[d] = ok[d]
          BY <1>1, <3>3, <4>1, ConfirmOthers
        <4> QED
          BY <3>4, <4>2, <4>3, <4>4
      <3> QED
        BY <3>5
    <2>3. StillSending(p)' =>
           /\ StillSending(p)
           /\ iter'[p] + One(pc[p] = "wait")' = iter[p] + One(pc[p] = "wait")
           /\ opt.rndv /\ (pc'[p] # "wait" \/ req'[p] # "send") =>
                pc[p] # "wait" \/ req[p] # "send"
      <3>1. pc'[p] = pc[p] /\ iter'[p] = iter[p]
        BY <1>1 DEF RecvCb
      <3>2. One(pc[p] = "wait")' = One(pc[p] = "wait")
        BY <3>1 DEF One
      <3>3. req'[p] = req[p] \/ iter[p] = opt.n
        <4>1. req'[p] = req[p] \/ req[p] = "recv"
          <5>1. Peer(p) = Server /\ p # Server /\ p \in Procs
            BY <1>1, NamesAssumption DEF Peer, Procs
          <5> QED
            BY <5>1 DEF Typed, TypeOK, RecvCb, Confirm
        <4>2. req[p] = "recv" /\ pc[p] = "wait" => Receiver(p)
          BY <1>1 DEF PhaseInv, RequestPhase, SendReqs, Procs
        <4>3. req[p] = "recv" => pc[p] = "wait"
          BY <1>1 DEF PhaseInv, RequestPhase, Procs, RecvCb, InDataLoop, DataLoops
        <4> QED
          BY <1>1, <4>1, <4>2, <4>3, NamesAssumption DEF Receiver, InFin
      <3> QED
        BY <1>0, <3>1, <3>2, <3>3 DEF StillSending
    <2> QED
      BY <1>0, <1>1, <2>1, <2>2, <2>3, QuietClientOrder
  <1>2. CASE p = Server
    <2>1. /\ conn_request \in Clients /\ conn_request' = conn_request
          /\ Serving = conn_request /\ Serving' = conn_request /\ ep' = ep
      BY <1>2 DEF Typed, TypeOK, SessionHasClient, Serving, SessionPcs, Procs, RecvCb, InDataLoop, DataLoops
    <2>2. PICK c \in Clients : c = conn_request
      BY <2>1
    <2>3. Serving = c /\ Serving' = c /\ ep[Server][c] \in {"open", "failed"} /\ c # Server
      BY <2>1, <2>2, NamesAssumption DEF EndpointInv, SessionEp, Serving
    <2>4. \A d \in Clients \ {c} :
            /\ d # Serving /\ rcvd'[d] = rcvd[d] /\ net'[d][Server] = net[d][Server]
            /\ ep'[Server][d] = ep[Server][d] /\ req'[d] = req[d]
      <3>1. \A d \in Clients \ {c} :
              rcvd'[d] = rcvd[d] /\ net'[d][Server] = net[d][Server]
        BY <1>2, <2>2, NamesAssumption DEF Typed, TypeOK, Procs, Peer, RecvCb
      <3>2. \A d \in Clients \ {c} : req'[d] = req[d]
        <4>1. req \in [Procs -> ReqStates] /\ [req EXCEPT ![Server] = "ok"] \in [Procs -> ReqStates]
          BY DEF Typed, TypeOK, ReqStates
        <4>2. \/ \E m : req' = Confirm([req EXCEPT ![Server] = "ok"], Server, m, "sent")
              \/ \E m : req' = Confirm(req, Server, m, "sent")
              \/ req' = req \/ req' = [req EXCEPT ![Server] = "fetch"]
          BY <1>2 DEF RecvCb
        <4>3. ASSUME NEW d \in Clients \ {c}
              PROVE  req'[d] = req[d]
          <5>1. d \in Procs /\ d # conn_request /\ d # Server
            BY <2>2, NamesAssumption DEF Procs
          <5>2. [req EXCEPT ![Server] = "ok"][d] = req[d] /\ [req EXCEPT ![Server] = "fetch"][d] = req[d]
            BY <4>1, <5>1
          <5>3. \A m, s : Confirm(req, Server, m, s)[d] = req[d]
            BY <4>1, <5>1, ConfirmPeer
          <5>4. \A m, s : Confirm([req EXCEPT ![Server] = "ok"], Server, m, s)[d]
                           = [req EXCEPT ![Server] = "ok"][d]
            BY <4>1, <5>1, ConfirmPeer
          <5> QED
            BY <4>2, <5>2, <5>3, <5>4
        <4> QED
          BY <4>3
      <3> QED
        BY <2>1, <2>3, <3>1, <3>2
    <2>c. CASE pc[Server] = "close"
      <3>1. pc' = pc /\ rcvd' = rcvd
        BY DEF RecvCb
      <3>2. Ordered /\ OrderOf(c) => OrderOf(c)'
        BY <1>0, <2>1, <2>3, <2>c, <3>1, ClosingOrder
      <3> QED
        BY <1>0, <1>2, <2>3, <2>4, <3>2, SessionOrder
    <2>n. SUFFICES ASSUME pc[Server] # "close"
                   PROVE  OrderInv'
      BY <2>c
    <2>5. /\ net[c][Server] # <<>> /\ net'[c][Server] = Tail(net[c][Server])
          /\ Head(In(Server)) = Head(net[c][Server]) /\ prog[Server] /\ pc[Server] \in DataLoops
          /\ In(Server) # <<>> /\ ep[Server][c] = "open" /\ opt.api # "am"
          /\ rcvd' = rcvd /\ pc' = pc /\ iter' = iter
      BY <1>2, <2>2, <2>n, NamesAssumption DEF Typed, TypeOK, Procs, In, Peer, InDataLoop,
         RecvCb
    <2>6. /\ iter[Server] # opt.n /\ ChannelUp(c) /\ Receiving /\ pc[Server] \in {"wait", "amwait"}
          /\ Head(net[c][Server]) \in Message
      <3>1. iter[Server] # opt.n /\ pc[Server] \in {"wait", "amwait"}
        BY <2>5, ArrivesInDataLoop
      <3>2. ChannelUp(c) /\ Receiving
        BY <2>2, <2>5, ArrivalUp
      <3>3. net[c][Server] \in Seq(Message)
        BY DEF Typed, TypeOK, Procs
      <3> QED
        BY <2>5, <3>1, <3>2, <3>3
    <2>7. /\ am_data_desc' = am_data_desc /\ ~am_data_desc[Server].complete /\ pc[Server] = "wait"
          /\ \/ /\ req[Server] = "recv" /\ req'[Server] \in {"fetch", "ok"} /\ unexp' = unexp
                /\ buf'[Server] = Head(net[c][Server])
             \/ /\ req[Server] # "recv" /\ req'[Server] = req[Server] /\ buf' = buf
                /\ unexp'[Server] = Append(unexp[Server], Head(net[c][Server]))
      <3>1. Peer(Server) # Server /\ Server \in Procs
        BY <2>2, <2>3 DEF Peer, Procs
      <3>2. am_data_desc' = am_data_desc /\ ~am_data_desc[Server].complete /\ pc[Server] = "wait"
        BY <2>5, <2>6 DEF RecvCb, PhaseInv, AmPhase, Procs
      <3> DEFINE ok == [req EXCEPT ![Server] = "ok"]
      <3>3. req \in [Procs -> ReqStates] /\ ok \in [Procs -> ReqStates] /\ ok[Server] = "ok"
        BY <3>1 DEF Typed, TypeOK, ReqStates
      <3> HIDE DEF ok
      <3>4. \A m, s : Confirm(req, Server, m, s)[Server] = req[Server]
        BY <2>2, <2>3, <3>1, <3>3, ConfirmPeer
      <3>5. \A m, s : Confirm(ok, Server, m, s)[Server] = "ok"
        BY <2>2, <2>3, <3>1, <3>3, ConfirmPeer
      <3>6. CASE req[Server] = "recv"
        <4>1. /\ unexp' = unexp /\ buf' = [buf EXCEPT ![Server] = Head(In(Server))]
              /\ \/ req' = [req EXCEPT ![Server] = "fetch"]
                 \/ req' = Confirm(ok, Server, Head(In(Server)), "sent")
          BY <1>2, <3>6 DEF RecvCb, ok
        <4>2. buf'[Server] = Head(net[c][Server])
          BY <2>5, <3>1, <4>1 DEF Typed, TypeOK
        <4>3. req'[Server] \in {"fetch", "ok"}
          BY <3>1, <3>3, <3>5, <4>1
        <4> QED
          BY <3>2, <3>6, <4>1, <4>2, <4>3
      <3>7. CASE req[Server] # "recv"
        <4>1. /\ unexp' = [unexp EXCEPT ![Server] = Append(@, Head(In(Server)))] /\ buf' = buf
              /\ req' = req \/ req' = Confirm(req, Server, Head(In(Server)), "sent")
          BY <1>2, <3>7 DEF RecvCb
        <4>2. unexp'[Server] = Append(unexp[Server], Head(net[c][Server]))
          BY <2>5, <3>1, <4>1 DEF Typed, TypeOK
        <4>3. req'[Server] = req[Server]
          BY <3>4, <4>1
        <4> QED
          BY <3>2, <3>7, <4>1, <4>2, <4>3
      <3> QED
        BY <3>6, <3>7
    <2>8. /\ One(am_data_desc[Server].complete) = 0 /\ One(am_data_desc[Server].complete)' = 0
          /\ unexp[Server] \in Seq(Message) /\ Len(unexp[Server]) \in Nat
          /\ Len(rcvd[c]) \in Nat /\ One(HasMsg) \in Nat
      BY <2>7, HoldsTypes, CountTypes DEF One
    <2>9. ASSUME Ordered, OrderOf(c)
          PROVE  OrderOf(c)'
      <3>1. Received(c)'
        BY <2>5, <2>9 DEF OrderOf, Received, Run
      <3>2. c \notin opt.odd
        BY <2>5, OddIsAm
      <3>3. NextInLine(c) /\ FlightInOrder(c) /\ HeldInOrder(c)
        BY <2>9, <3>2 DEF OrderOf
      <3>4. Head(net[c][Server]) = Msg(c, Arrived(c)) /\ Arrived(c) = Len(rcvd[c]) + Holds
        <4>1. /\ net[c][Server] \in Seq(Message) /\ Arrived(c) \in Nat
              /\ Run(net[c][Server], c, Arrived(c))
          BY <2>6, <3>3, CountTypes DEF Typed, TypeOK, Procs, FlightInOrder
        <4> QED
          BY <2>3, <2>5, <4>1, RunTail DEF Arrived, Held
      <3>5. HeldInOrder(c)' /\ Holds' = Holds + 1
        <4>1. CASE req[Server] = "recv"
          <5>1. ~HasMsg /\ HasMsg' /\ unexp[Server] = <<>> /\ unexp'[Server] = <<>>
            BY <1>0, <2>5, <2>6, <2>7, <4>1 DEF HasMsg, CreditInv, CleanStart
          <5>2. One(HasMsg) = 0 /\ One(HasMsg)' = 1 /\ Len(unexp[Server]) = 0 /\ Len(unexp'[Server]) = 0
            BY <5>1 DEF One
          <5>3. Holds = 0 /\ Holds' = 1
            BY <2>8, <5>2 DEF Holds
          <5>4. buf'[Server] = Msg(c, Len(rcvd[c]))
            BY <2>7, <2>8, <3>4, <4>1, <5>3
          <5>5. Run(unexp'[Server], c, Len(rcvd'[c]) + One(HasMsg)')
            BY <5>1, RunEmpty
          <5> QED
            BY <2>5, <2>7, <5>3, <5>4, <5>5 DEF HeldInOrder
        <4>2. CASE req[Server] # "recv"
          <5>1. /\ HasMsg' <=> HasMsg
                /\ unexp'[Server] = Append(unexp[Server], Head(net[c][Server])) /\ buf' = buf
            BY <1>0, <2>5, <2>7, <4>2 DEF HasMsg
          <5>2. One(HasMsg)' = One(HasMsg) /\ Len(unexp'[Server]) = Len(unexp[Server]) + 1
            BY <2>6, <2>8, <5>1 DEF One
          <5>3. Holds = One(HasMsg) + Len(unexp[Server]) /\ Holds' = Holds + 1
            <6>1. \A a, u \in Nat : a + 0 + u = a + u /\ a + 0 + (u + 1) = (a + 0 + u) + 1
              OBVIOUS
            <6>2. /\ Holds = One(HasMsg) + 0 + Len(unexp[Server])
                  /\ Holds' = One(HasMsg) + 0 + (Len(unexp[Server]) + 1)
              BY <2>8, <5>2 DEF Holds
            <6> QED
              BY <2>8, <6>1, <6>2
          <5>4. Head(net[c][Server]) = Msg(c, (Len(rcvd[c]) + One(HasMsg)) + Len(unexp[Server]))
            <6>1. \A r, a, u \in Nat : r + (a + u) = (r + a) + u
              OBVIOUS
            <6>2. Len(rcvd[c]) + (One(HasMsg) + Len(unexp[Server]))
                    = (Len(rcvd[c]) + One(HasMsg)) + Len(unexp[Server])
              BY <2>8, <6>1
            <6> QED
              BY <3>4, <5>3, <6>2
          <5>5. Run(unexp[Server], c, Len(rcvd[c]) + One(HasMsg))
            BY <2>3, <2>6, <3>3 DEF HeldInOrder
          <5>6. Run(unexp'[Server], c, Len(rcvd[c]) + One(HasMsg))
            <6>1. Len(rcvd[c]) + One(HasMsg) \in Nat
              BY <2>8
            <6> QED
              BY <2>6, <2>8, <5>1, <5>4, <5>5, <6>1, RunAppend
          <5>7. Run(unexp'[Server], c, Len(rcvd'[c]) + One(HasMsg)')
            BY <2>5, <5>2, <5>6
          <5>8. HasMsg' => buf'[Server] = Msg(c, Len(rcvd'[c]))
            BY <2>3, <2>5, <2>6, <3>3, <5>1 DEF HeldInOrder
          <5> QED
            BY <2>7, <5>3, <5>7, <5>8 DEF HeldInOrder
        <4> QED
          BY <4>1, <4>2
      <3>6. Arrived(c)' = Arrived(c) + 1
        <4>1. Arrived(c)' = Len(rcvd[c]) + Holds'
          BY <2>3, <2>5 DEF Arrived, Held
        <4>2. Holds \in Nat
          BY HoldsTypes
        <4> QED
          BY <2>8, <3>4, <3>5, <4>1, <4>2
      <3>7. NextInLine(c)' /\ FlightInOrder(c)'
        BY <1>0, <1>2, <2>5, <2>6, <3>3, <3>6, TookOne
      <3> QED
        BY <1>0, <2>5, <3>1, <3>5, <3>7 DEF OrderOf, OneAtATime
    <2> QED
      BY <1>0, <1>2, <2>3, <2>4, <2>9, SessionOrder
  <1> QED
    BY <1>1, <1>2 DEF Procs

\* AmDropped keeps it.
LEMMA Order_AmDropped ==
    ASSUME Typed, Typed', CountInv, PhaseInv, PhaseInv', EndpointInv, CreditInv, OddInv,
       QuietInv, OrderInv,
           NEW p \in Procs, AmDropped(p)
    PROVE  OrderInv'
  <1>0. StepOf(p) /\ opt' = opt
    BY Step_AmDropped DEF StepOf
  <1>1. CASE p \in Clients
    <2>1. /\ conn_request' = conn_request /\ unexp'[Server] = unexp[Server] /\ rcvd' = rcvd
         /\ ep'[Server] = ep[Server]
         /\ \A d \in Clients : net'[d][Server] = net[d][Server]
      BY <1>0, <1>1, NamesAssumption DEF Typed, TypeOK, Procs, Peer, AmDropped,
         InDataLoop, DataLoops
    <2>2. \A d \in Clients \ {p} : req'[d] = req[d]
      <3>3. req \in [Procs -> ReqStates]
        BY DEF Typed, TypeOK, ReqStates
      <3>4. \E m, s : req' = Confirm(req, p, m, s)
        BY DEF AmDropped
      <3>5. ASSUME NEW d \in Clients \ {p}
            PROVE  req'[d] = req[d]
        <4>1. d \in Clients /\ d \in Procs /\ d # p
          BY DEF Procs
        <4>2. \A m, s : Confirm(req, p, m, s)[d] = req[d]
          BY <1>1, <3>3, <4>1, ConfirmOthers
        <4> QED
          BY <3>4, <4>2
      <3> QED
        BY <3>5
    <2>3. StillSending(p)' =>
           /\ StillSending(p)
           /\ iter'[p] + One(pc[p] = "wait")' = iter[p] + One(pc[p] = "wait")
           /\ opt.rndv /\ (pc'[p] # "wait" \/ req'[p] # "send") =>
                pc[p] # "wait" \/ req[p] # "send"
      <3>1. pc'[p] = pc[p] /\ iter'[p] = iter[p]
        BY <1>1 DEF AmDropped
      <3>2. One(pc[p] = "wait")' = One(pc[p] = "wait")
        BY <3>1 DEF One
      <3>3. req'[p] = req[p] \/ iter[p] = opt.n
        BY <1>1, NamesAssumption DEF Typed, TypeOK, Procs, Peer, AmDropped, Confirm
      <3> QED
        BY <1>0, <3>1, <3>2, <3>3 DEF StillSending
    <2> QED
      BY <1>0, <1>1, <2>1, <2>2, <2>3, QuietClientOrder
  <1>2. CASE p = Server
    <2>1. handler[Server] /\ ~handler[Server]
      BY <1>2 DEF AmDropped, InDataLoop, DataLoops, SessionPcs, PhaseInv, ServerPhase
    <2> QED
      BY <2>1
  <1> QED
    BY <1>1, <1>2 DEF Procs

\* ucp_am_data_cb keeps it.
LEMMA Order_ucp_am_data_cb ==
    ASSUME Typed, Typed', CountInv, PhaseInv, PhaseInv', EndpointInv, CreditInv, OddInv,
       QuietInv, OrderInv,
           NEW p \in Procs, ucp_am_data_cb(p)
    PROVE  OrderInv'
  <1>0. StepOf(p) /\ opt' = opt
    BY Step_ucp_am_data_cb DEF StepOf
  <1>1. CASE p \in Clients
    <2>1. /\ conn_request' = conn_request /\ unexp'[Server] = unexp[Server] /\ rcvd' = rcvd
         /\ ep'[Server] = ep[Server]
         /\ \A d \in Clients : net'[d][Server] = net[d][Server]
      BY <1>0, <1>1, NamesAssumption DEF Typed, TypeOK, Procs, Peer, ucp_am_data_cb, AmDispatched,
         InDataLoop, DataLoops
    <2>2. \A d \in Clients \ {p} : req'[d] = req[d]
      <3>3. req \in [Procs -> ReqStates]
        BY DEF Typed, TypeOK, ReqStates
      <3>4. req' = req \/ \E m : req' = Confirm(req, p, m, "sent")
        BY DEF ucp_am_data_cb, AmDispatched
      <3>5. ASSUME NEW d \in Clients \ {p}
            PROVE  req'[d] = req[d]
        <4>1. d \in Clients /\ d \in Procs /\ d # p
          BY DEF Procs
        <4>2. \A m, s : Confirm(req, p, m, s)[d] = req[d]
          BY <1>1, <3>3, <4>1, ConfirmOthers
        <4> QED
          BY <3>4, <4>2
      <3> QED
        BY <3>5
    <2>3. StillSending(p)' =>
           /\ StillSending(p)
           /\ iter'[p] + One(pc[p] = "wait")' = iter[p] + One(pc[p] = "wait")
           /\ opt.rndv /\ (pc'[p] # "wait" \/ req'[p] # "send") =>
                pc[p] # "wait" \/ req[p] # "send"
      <3>1. ~StillSending(p)'
        BY <1>0, <1>1, NamesAssumption DEF Typed, TypeOK, Procs, StillSending,
           ucp_am_data_cb, AmDispatched, InDataLoop, DataLoops, PhaseInv, ClientPhase
      <3> QED
        BY <3>1
    <2> QED
      BY <1>0, <1>1, <2>1, <2>2, <2>3, QuietClientOrder
  <1>2. CASE p = Server
    <2>1. /\ conn_request \in Clients /\ conn_request' = conn_request
          /\ Serving = conn_request /\ Serving' = conn_request /\ ep' = ep
      BY <1>2 DEF Typed, TypeOK, SessionHasClient, Serving, SessionPcs, Procs, ucp_am_data_cb, AmDispatched, InDataLoop, DataLoops
    <2>2. PICK c \in Clients : c = conn_request
      BY <2>1
    <2>3. Serving = c /\ Serving' = c /\ ep[Server][c] \in {"open", "failed"} /\ c # Server
      BY <2>1, <2>2, NamesAssumption DEF EndpointInv, SessionEp, Serving
    <2>4. \A d \in Clients \ {c} :
            /\ d # Serving /\ rcvd'[d] = rcvd[d] /\ net'[d][Server] = net[d][Server]
            /\ ep'[Server][d] = ep[Server][d] /\ req'[d] = req[d]
      <3>1. \A d \in Clients \ {c} :
              rcvd'[d] = rcvd[d] /\ net'[d][Server] = net[d][Server]
        BY <1>2, <2>2, NamesAssumption DEF Typed, TypeOK, Procs, Peer, ucp_am_data_cb, AmDispatched
      <3>2. \A d \in Clients \ {c} : req'[d] = req[d]
        <4>1. req \in [Procs -> ReqStates]
          BY DEF Typed, TypeOK, ReqStates
        <4>2. req' = req \/ \E m : req' = Confirm(req, Server, m, "sent")
          BY <1>2 DEF ucp_am_data_cb, AmDispatched
        <4>3. ASSUME NEW d \in Clients \ {c}
              PROVE  req'[d] = req[d]
          <5>1. d \in Procs /\ d # conn_request /\ d # Server
            BY <2>2, NamesAssumption DEF Procs
          <5>2. \A m, s : Confirm(req, Server, m, s)[d] = req[d]
            BY <4>1, <5>1, ConfirmPeer
          <5> QED
            BY <4>2, <5>2
        <4> QED
          BY <4>3
      <3> QED
        BY <2>1, <2>3, <3>1, <3>2
    <2>c. CASE pc[Server] = "close"
      <3>1. pc' = pc /\ rcvd' = rcvd
        BY DEF ucp_am_data_cb
      <3>2. Ordered /\ OrderOf(c) => OrderOf(c)'
        BY <1>0, <2>1, <2>3, <2>c, <3>1, ClosingOrder
      <3> QED
        BY <1>0, <1>2, <2>3, <2>4, <3>2, SessionOrder
    <2>n. SUFFICES ASSUME pc[Server] # "close"
                   PROVE  OrderInv'
      BY <2>c
    <2>5. /\ net[c][Server] # <<>> /\ net'[c][Server] = Tail(net[c][Server])
          /\ Head(In(Server)) = Head(net[c][Server]) /\ prog[Server] /\ pc[Server] \in DataLoops
          /\ In(Server) # <<>> /\ ep[Server][c] = "open" /\ opt.api = "am"
          /\ rcvd' = rcvd /\ pc' = pc /\ iter' = iter
      BY <1>2, <2>2, <2>n, NamesAssumption DEF Typed, TypeOK, Procs, In, Peer, InDataLoop,
         ucp_am_data_cb, AmDispatched
    <2>6. /\ iter[Server] # opt.n /\ ChannelUp(c) /\ Receiving /\ pc[Server] \in {"wait", "amwait"}
          /\ Head(net[c][Server]) \in Message
      <3>1. iter[Server] # opt.n /\ pc[Server] \in {"wait", "amwait"}
        BY <2>5, ArrivesInDataLoop
      <3>2. ChannelUp(c) /\ Receiving
        BY <2>2, <2>5, ArrivalUp
      <3>3. net[c][Server] \in Seq(Message)
        BY DEF Typed, TypeOK, Procs
      <3> QED
        BY <2>5, <3>1, <3>2, <3>3
    <2>7. /\ unexp' = unexp /\ req'[Server] = req[Server] /\ unexp[Server] = <<>>
          /\ (HasMsg' <=> HasMsg) /\ (Fetching' <=> Fetching) /\ (Receiving' <=> Receiving)
          /\ One(HasMsg)' = One(HasMsg) /\ One(HasMsg) \in Nat /\ Len(rcvd[c]) \in Nat
      <3>1. Server \in Procs /\ req \in [Procs -> ReqStates]
        BY DEF Typed, TypeOK, Procs
      <3>2. \A m, s : Confirm(req, Server, m, s)[Server] = req[Server]
        BY <2>2, <2>3, <3>1, ConfirmPeer
      <3>3. req' = req \/ req' = Confirm(req, Server, Head(In(Server)), "sent")
        BY <1>2 DEF ucp_am_data_cb, AmDispatched
      <3>4. req'[Server] = req[Server]
        BY <3>2, <3>3
      <3>5. (HasMsg' <=> HasMsg) /\ (Fetching' <=> Fetching) /\ (Receiving' <=> Receiving)
        BY <1>0, <2>5, <3>4 DEF HasMsg, Fetching, Receiving
      <3>6. One(HasMsg)' = One(HasMsg) /\ One(HasMsg) \in Nat
        BY <3>5 DEF One
      <3>7. unexp' = unexp /\ unexp[Server] = <<>>
        BY <2>5 DEF ucp_am_data_cb, AmDispatched, CreditInv, CleanStart
      <3> QED
        BY <3>4, <3>5, <3>6, <3>7, CountTypes
    <2>8. /\ c \in opt.odd => am_data_desc' = am_data_desc /\ buf' = buf
          /\ c \notin opt.odd =>
               /\ am_data_desc'[Server].complete
               /\ opt.rndv => /\ am_data_desc'[Server].desc = Head(net[c][Server])
                              /\ buf' = buf /\ req' = req
               /\ ~opt.rndv => buf'[Server] = Head(net[c][Server])
      <3>1. Server \in Procs /\ (WrongLength(Server) <=> c \in opt.odd)
        BY <2>2 DEF Procs, WrongLength
      <3>2. /\ am_data_desc \in [Procs -> AmDesc]
            /\ DOMAIN buf = Procs
        BY DEF Typed, TypeOK
      <3>3. CASE c \in opt.odd
        BY <1>2, <3>1, <3>3 DEF ucp_am_data_cb, AmDispatched
      <3>4. CASE c \notin opt.odd /\ opt.rndv
        <4>1. /\ buf' = buf /\ req' = req
              /\ am_data_desc' = [am_data_desc EXCEPT ![Server] =
                    [complete |-> TRUE, is_rndv |-> opt.rndv,
                     recv_buf |-> am_data_desc[Server].recv_buf,
                     desc |-> Head(In(Server))]]
          BY <1>2, <3>1, <3>4 DEF ucp_am_data_cb, AmDispatched
        <4>2. am_data_desc'[Server] = [complete |-> TRUE, is_rndv |-> opt.rndv,
                     recv_buf |-> am_data_desc[Server].recv_buf,
                     desc |-> Head(In(Server))]
          BY <3>1, <3>2, <4>1
        <4> QED
          BY <2>5, <3>4, <4>1, <4>2
      <3>5. CASE c \notin opt.odd /\ ~opt.rndv
        <4>1. /\ buf' = [buf EXCEPT ![Server] = Head(In(Server))]
              /\ am_data_desc' = [am_data_desc EXCEPT ![Server] =
                    [complete |-> TRUE, is_rndv |-> opt.rndv,
                     recv_buf |-> am_data_desc[Server].recv_buf,
                     desc |-> am_data_desc[Server].desc]]
          BY <1>2, <3>1, <3>5 DEF ucp_am_data_cb, AmDispatched
        <4>2. am_data_desc'[Server] = [complete |-> TRUE, is_rndv |-> opt.rndv,
                     recv_buf |-> am_data_desc[Server].recv_buf,
                     desc |-> am_data_desc[Server].desc]
          BY <3>1, <3>2, <4>1
        <4> QED
          BY <2>5, <3>1, <3>2, <3>5, <4>1, <4>2
      <3> QED
        BY <3>3, <3>4, <3>5
    <2>9. ASSUME Ordered, OrderOf(c)
          PROVE  OrderOf(c)'
      <3>1. Received(c)'
        BY <2>5, <2>9 DEF OrderOf, Received, Run
      <3>2. CASE c \in opt.odd
        <4>1. HeldInOrder(c)'
          BY <1>0, <2>3, <2>5, <2>7, <2>8, <2>9, <3>2 DEF OrderOf, HeldInOrder, Run
        <4> QED
          BY <1>0, <3>1, <3>2, <4>1 DEF OrderOf
      <3>3. CASE c \notin opt.odd
        <4>1. NextInLine(c) /\ FlightInOrder(c) /\ HeldInOrder(c) /\ OneAtATime(c)
          BY <2>9, <3>3 DEF OrderOf
        <4>2. ~am_data_desc[Server].complete /\ (~opt.rndv => ~HasMsg)
          <5>1. CASE opt.rndv
            BY <2>3, <2>5, <2>6, <4>1, <5>1 DEF OneAtATime
          <5>2. CASE ~opt.rndv
            <6>1. opt.n <= 1 /\ opt.n \in Nat
              BY <2>5, <2>9, <5>2, CountTypes DEF Ordered
            <6>2. /\ Arrived(c) + Len(net[c][Server]) + Future(c) <= opt.n /\ Arrived(c) \in Nat
                  /\ Len(net[c][Server]) \in Nat /\ Future(c) \in Nat /\ Holds \in Nat
              BY CountTypes DEF CreditInv, Credit
            <6>3. Len(net[c][Server]) >= 1
              BY <2>5 DEF Typed, TypeOK, Procs
            <6>4. \A a, m, f, n \in Nat : a + m + f <= n /\ n <= 1 /\ m >= 1 => a = 0
              OBVIOUS
            <6>5. Arrived(c) = 0
              BY <6>1, <6>2, <6>3, <6>4
            <6>6. Len(rcvd[c]) + Holds = 0
              BY <2>3, <6>5 DEF Arrived, Held
            <6>7. Holds = 0
              BY <2>7, <6>2, <6>6
            <6>8. One(HasMsg) = 0 /\ One(am_data_desc[Server].complete) = 0
              <7>1. \A x, y, z \in Nat : x + y + z = 0 => x = 0 /\ y = 0
                OBVIOUS
              <7>2. /\ One(HasMsg) \in Nat /\ One(am_data_desc[Server].complete) \in Nat
                    /\ Len(unexp[Server]) \in Nat
                BY HoldsTypes
              <7> QED
                BY <6>7, <7>1, <7>2 DEF Holds
            <6> QED
              BY <6>8 DEF One
          <5> QED
            BY <5>1, <5>2
        <4>3. Holds = One(HasMsg) /\ Holds' = One(HasMsg) + 1
          <5>1. /\ One(am_data_desc[Server].complete) = 0 /\ Len(unexp[Server]) = 0
                /\ One(am_data_desc[Server].complete)' = 1 /\ Len(unexp'[Server]) = 0
            BY <2>7, <2>8, <3>3, <4>2 DEF One
          <5>2. Holds = One(HasMsg) + 0 + 0 /\ Holds' = One(HasMsg) + 1 + 0
            BY <2>7, <5>1 DEF Holds
          <5>3. \A x \in Nat : x + 0 + 0 = x /\ x + 1 + 0 = x + 1
            OBVIOUS
          <5> QED
            BY <2>7, <5>2, <5>3
        <4>4. Arrived(c) = Len(rcvd[c]) + One(HasMsg) /\ Arrived(c)' = Arrived(c) + 1
          <5>1. /\ Arrived(c) = Len(rcvd[c]) + One(HasMsg)
                /\ Arrived(c)' = Len(rcvd[c]) + (One(HasMsg) + 1)
            BY <2>3, <2>5, <4>3 DEF Arrived, Held
          <5>2. \A x, y \in Nat : x + (y + 1) = (x + y) + 1
            OBVIOUS
          <5> QED
            BY <2>7, <5>1, <5>2
        <4>5. Head(net[c][Server]) = Msg(c, Arrived(c))
          <5>1. /\ net[c][Server] \in Seq(Message) /\ Arrived(c) \in Nat
                /\ Run(net[c][Server], c, Arrived(c))
            BY <2>6, <4>1, CountTypes DEF Typed, TypeOK, Procs, FlightInOrder
          <5> QED
            BY <2>5, <5>1, RunTail
        <4>6. NextInLine(c)' /\ FlightInOrder(c)'
          BY <1>0, <1>2, <2>5, <2>6, <4>1, <4>4, TookOne
        <4>7. HeldInOrder(c)'
          <5>1. Run(unexp'[Server], c, Len(rcvd'[c]) + One(HasMsg)')
            BY <2>7, RunEmpty
          <5>2. opt.rndv => am_data_desc'[Server].desc = Msg(c, Len(rcvd'[c]) + One(HasMsg)')
            BY <2>5, <2>7, <2>8, <3>3, <4>4, <4>5
          <5>3. ~opt.rndv => ~HasMsg' /\ buf'[Server] = Msg(c, Len(rcvd'[c]))
            <6> SUFFICES ASSUME ~opt.rndv
                         PROVE  ~HasMsg' /\ buf'[Server] = Msg(c, Len(rcvd'[c]))
              OBVIOUS
            <6>1. ~HasMsg /\ ~HasMsg' /\ One(HasMsg) = 0
              BY <2>7, <4>2 DEF One
            <6>2. Arrived(c) = Len(rcvd[c])
              BY <2>7, <4>4, <6>1
            <6> QED
              BY <2>5, <2>8, <3>3, <4>5, <6>1, <6>2
          <5>4. opt.rndv /\ HasMsg' => buf'[Server] = Msg(c, Len(rcvd'[c]))
            BY <2>3, <2>5, <2>6, <2>7, <2>8, <3>3, <4>1 DEF HeldInOrder
          <5> QED
            BY <1>0, <5>1, <5>2, <5>3, <5>4 DEF HeldInOrder
        <4>8. OneAtATime(c)'
          <5> SUFFICES ASSUME opt.rndv
                       PROVE  OneAtATime(c)'
            BY <1>0 DEF OneAtATime
          <5>1. /\ Len(net[c][Server]) <= 1 /\ ~Fetching
                /\ ~(StillSending(c) /\ (pc[c] # "wait" \/ req[c] # "send"))
            BY <2>3, <2>5, <2>6, <4>1 DEF OneAtATime, Clear
          <5>2. net'[c][Server] = <<>> /\ Len(net'[c][Server]) <= 1
            <6>1. net[c][Server] \in Seq(Message)
              BY DEF Typed, TypeOK, Procs
            <6> QED
              BY <2>5, <5>1, <6>1
          <5>3. SameLocal(c) /\ req' = req
            BY <1>0, <1>2, <2>3, <2>8, <3>3 DEF StepOf, Procs
          <5>4. ~(StillSending(c)' /\ (pc'[c] # "wait" \/ req'[c] # "send"))
            BY <1>0, <5>1, <5>3 DEF SameLocal, StillSending
          <5> QED
            BY <2>7, <5>1, <5>2, <5>4 DEF OneAtATime
        <4> QED
          BY <1>0, <3>1, <4>6, <4>7, <4>8 DEF OrderOf
      <3> QED
        BY <3>2, <3>3
    <2> QED
      BY <1>0, <1>2, <2>3, <2>4, <2>9, SessionOrder
  <1> QED
    BY <1>1, <1>2 DEF Procs

\* err_cb keeps it.
LEMMA Order_err_cb ==
    ASSUME Typed, Typed', CountInv, PhaseInv, PhaseInv', EndpointInv, CreditInv, OddInv,
       QuietInv, OrderInv,
           NEW p \in Procs, err_cb(p)
    PROVE  OrderInv'
  <1>0. StepOf(p) /\ opt' = opt
    BY Step_err_cb DEF StepOf
  <1>1. CASE p \in Clients
    <2>1. /\ conn_request' = conn_request /\ unexp'[Server] = unexp[Server] /\ rcvd' = rcvd
         /\ ep'[Server] = ep[Server]
         /\ \A d \in Clients : net'[d][Server] = net[d][Server]
      BY <1>0, <1>1, NamesAssumption DEF Typed, TypeOK, Procs, Peer, err_cb, InDataLoop,
         DataLoops
    <2>2. \A d \in Clients \ {p} : req'[d] = req[d]
      BY <1>0, <1>1, NamesAssumption DEF Typed, TypeOK, Procs, err_cb
    <2>3. StillSending(p)' =>
           /\ StillSending(p)
           /\ iter'[p] + One(pc[p] = "wait")' = iter[p] + One(pc[p] = "wait")
           /\ opt.rndv /\ (pc'[p] # "wait" \/ req'[p] # "send") =>
                pc[p] # "wait" \/ req[p] # "send"
      <3>1. pc'[p] = pc[p] /\ iter'[p] = iter[p]
        BY <1>1 DEF err_cb
      <3>2. One(pc[p] = "wait")' = One(pc[p] = "wait")
        BY <3>1 DEF One
      <3> QED
        BY <1>0, <1>1, <3>1, <3>2 DEF StillSending, Typed, TypeOK, Procs, err_cb,
           FailedReq
    <2> QED
      BY <1>0, <1>1, <2>1, <2>2, <2>3, QuietClientOrder
  <1>2. CASE p = Server
    <2>1. /\ conn_request \in Clients /\ conn_request' = conn_request /\ Serving = conn_request
         /\ Serving' = conn_request /\ rcvd' = rcvd
      BY <1>0, <1>2 DEF Typed, TypeOK, SessionHasClient, Serving, SessionPcs, Procs,
         err_cb, InDataLoop, DataLoops
    <2>2. \A d \in Clients \ {conn_request} :
           net'[d][Server] = net[d][Server] /\ ep'[Server][d] = ep[Server][d]
      BY <1>0, <1>2, <2>1, NamesAssumption DEF Typed, TypeOK, Procs, Peer, err_cb
    <2>3. \A d \in Clients : req'[d] = req[d]
      BY <1>0, <1>2, NamesAssumption DEF Typed, TypeOK, Procs, err_cb
    <2>4. ep[Server][conn_request] \in {"open", "failed"} /\ ep'[Server][conn_request] # "none"
      BY <1>0, <1>2, <2>1 DEF EndpointInv, SessionEp, Typed, TypeOK, SessionPcs, Procs,
         Peer, err_cb, InDataLoop, DataLoops
    <2>5. Receiving' => Receiving /\ (HasMsg' <=> HasMsg) /\ (Fetching' <=> Fetching)
      BY <1>0, <1>2 DEF Typed, TypeOK, Procs, Receiving, HasMsg, Fetching, Receiver,
         InFin, err_cb, InDataLoop, DataLoops, FailedReq, PhaseInv, RequestPhase,
         RecvReqs
    <2>6. /\ am_data_desc'[Server].complete = am_data_desc[Server].complete
         /\ am_data_desc'[Server].desc = am_data_desc[Server].desc
         /\ unexp'[Server] \in {unexp[Server], <<>>}
      BY <1>0, <1>2 DEF Typed, TypeOK, AmDesc, Procs, err_cb
    <2>7. Receiving' /\ (HasMsg \/ (am_data_desc[Server].complete /\ ~opt.rndv)) =>
           buf'[Server] = buf[Server]
      BY <1>0, <1>2 DEF Typed, TypeOK, Procs, Receiving, err_cb
    <2>8. ep'[Server][conn_request] = "open" =>
           /\ ep[Server][conn_request] = "open" /\ unexp'[Server] = unexp[Server]
           /\ net'[conn_request][Server] = net[conn_request][Server]
      BY <1>0, <1>2, <2>1, NamesAssumption DEF Typed, TypeOK, Procs, Peer, err_cb
    <2> QED
      BY <1>0, <1>2, <2>1, <2>2, <2>3, <2>4, <2>5, <2>6, <2>7, <2>8, QuietSessionOrder
  <1> QED
    BY <1>1, <1>2 DEF Procs

\* Progress keeps it.
LEMMA Order_Progress ==
    ASSUME Typed, Typed', CountInv, PhaseInv, PhaseInv', EndpointInv, CreditInv, OddInv,
       QuietInv, OrderInv,
           NEW p \in Procs, Progress(p)
    PROVE  OrderInv'
  <1>0. StepOf(p) /\ opt' = opt
    BY Step_Progress DEF StepOf
  <1>1. CASE p \in Clients
    <2>1. /\ conn_request' = conn_request /\ unexp'[Server] = unexp[Server] /\ rcvd' = rcvd
         /\ ep'[Server] = ep[Server]
         /\ \A d \in Clients : net'[d][Server] = net[d][Server]
      BY <1>0, <1>1, NamesAssumption DEF Typed, TypeOK, Procs, Peer, Progress, DataLoops
    <2>2. \A d \in Clients \ {p} : req'[d] = req[d]
      BY <1>0, <1>1, NamesAssumption DEF Typed, TypeOK, Procs, Progress
    <2>3. StillSending(p)' =>
           /\ StillSending(p)
           /\ iter'[p] + One(pc[p] = "wait")' = iter[p] + One(pc[p] = "wait")
           /\ opt.rndv /\ (pc'[p] # "wait" \/ req'[p] # "send") =>
                pc[p] # "wait" \/ req[p] # "send"
      <3>1. pc'[p] = pc[p] /\ iter'[p] = iter[p]
        BY <1>1 DEF Progress
      <3>2. One(pc[p] = "wait")' = One(pc[p] = "wait")
        BY <3>1 DEF One
      <3> QED
        BY <1>0, <1>1, <3>1, <3>2 DEF StillSending, Typed, TypeOK, Procs, Progress
    <2> QED
      BY <1>0, <1>1, <2>1, <2>2, <2>3, QuietClientOrder
  <1>2. CASE p = Server
    <2>1. CASE pc[Server] = "accept"
      <3>1. rcvd' = rcvd /\ Serving' = NoClient
        BY <1>0, <1>2, <2>1 DEF Typed, TypeOK, Procs, Serving, SessionPcs, Progress,
           LoopDone, DataLoops
      <3>2. \A d \in Clients : ep'[Server][d] = "none" =>
             ep[Server][d] = "none" /\ net'[d][Server] = net[d][Server] /\ req'[d] = req[d]
        BY <1>0, <1>2, <2>1, NamesAssumption DEF Typed, TypeOK, SessionHasClient,
           SessionPcs, Procs, Progress, LoopDone, DataLoops
      <3> QED
        BY <1>0, <1>2, <2>1, <3>1, <3>2, ServerLeavesOrder
    <2>2. CASE pc[Server] # "accept"
      <3>1. /\ conn_request \in Clients /\ conn_request' = conn_request /\ Serving = conn_request
           /\ Serving' = conn_request /\ rcvd' = rcvd
        BY <1>0, <1>2, <2>2 DEF Typed, TypeOK, SessionHasClient, Serving, SessionPcs,
           Procs, Progress, LoopDone, DataLoops
      <3>2. \A d \in Clients \ {conn_request} :
             net'[d][Server] = net[d][Server] /\ ep'[Server][d] = ep[Server][d]
        BY <1>0, <1>2, <2>2, <3>1, NamesAssumption DEF Typed, TypeOK, Procs, Peer,
           Progress
      <3>3. \A d \in Clients : req'[d] = req[d]
        BY <1>0, <1>2, <2>2, NamesAssumption DEF Typed, TypeOK, Procs, Progress
      <3>4. ep[Server][conn_request] \in {"open", "failed"} /\ ep'[Server][conn_request] # "none"
        BY <1>0, <1>2, <2>2, <3>1 DEF EndpointInv, SessionEp, Typed, TypeOK, SessionPcs,
           Procs, Peer, Progress, LoopDone, DataLoops
      <3>5. Receiving' => Receiving /\ (HasMsg' <=> HasMsg) /\ (Fetching' <=> Fetching)
        BY <1>0, <1>2, <2>2 DEF Typed, TypeOK, Procs, Receiving, HasMsg, Fetching,
           Receiver, InFin, Progress, LoopDone, DataLoops
      <3>6. /\ am_data_desc'[Server].complete = am_data_desc[Server].complete
           /\ am_data_desc'[Server].desc = am_data_desc[Server].desc
           /\ unexp'[Server] \in {unexp[Server], <<>>}
        BY <1>0, <1>2, <2>2 DEF Typed, TypeOK, AmDesc, Procs, Progress
      <3>7. Receiving' /\ (HasMsg \/ (am_data_desc[Server].complete /\ ~opt.rndv)) =>
             buf'[Server] = buf[Server]
        BY <1>0, <1>2, <2>2 DEF Typed, TypeOK, Procs, Receiving, Progress
      <3>8. ep'[Server][conn_request] = "open" =>
             /\ ep[Server][conn_request] = "open" /\ unexp'[Server] = unexp[Server]
             /\ net'[conn_request][Server] = net[conn_request][Server]
        BY <1>0, <1>2, <2>2, <3>1, NamesAssumption DEF Typed, TypeOK, Procs, Peer,
           Progress
      <3> QED
        BY <1>0, <1>2, <2>2, <3>1, <3>2, <3>3, <3>4, <3>5, <3>6, <3>7, <3>8,
           QuietSessionOrder
    <2> QED
      BY <2>1, <2>2
  <1> QED
    BY <1>1, <1>2 DEF Procs

\* The death of a process keeps it.
LEMMA Order_Die ==
    ASSUME Typed, Typed', CountInv, PhaseInv, PhaseInv', EndpointInv, CreditInv, OddInv,
       QuietInv, OrderInv,
           NEW p \in Procs, Die(p)
    PROVE  OrderInv'
  <1>0. StepOf(p) /\ opt' = opt
    BY Step_Die DEF StepOf
  <1>1. CASE p \in Clients
    <2>1. /\ conn_request' = conn_request /\ unexp'[Server] = unexp[Server] /\ rcvd' = rcvd
         /\ ep'[Server] = ep[Server]
         /\ \A d \in Clients : net'[d][Server] = net[d][Server]
      BY <1>0, <1>1, NamesAssumption DEF Typed, TypeOK, Procs, Peer, Die
    <2>2. \A d \in Clients \ {p} : req'[d] = req[d]
      BY <1>0, <1>1, NamesAssumption DEF Typed, TypeOK, Procs, Die
    <2>3. StillSending(p)' =>
           /\ StillSending(p)
           /\ iter'[p] + One(pc[p] = "wait")' = iter[p] + One(pc[p] = "wait")
           /\ opt.rndv /\ (pc'[p] # "wait" \/ req'[p] # "send") =>
                pc[p] # "wait" \/ req[p] # "send"
      <3>1. ~StillSending(p)'
        BY <1>0, <1>1, NamesAssumption DEF Typed, TypeOK, Procs, StillSending, Die
      <3> QED
        BY <3>1
    <2> QED
      BY <1>0, <1>1, <2>1, <2>2, <2>3, QuietClientOrder
  <1>2. CASE p = Server
    <2>1. rcvd' = rcvd /\ Serving' = NoClient
      BY <1>0, <1>2 DEF Typed, TypeOK, Procs, Serving, SessionPcs, Die
    <2>2. \A d \in Clients : ep'[Server][d] = "none" =>
           ep[Server][d] = "none" /\ net'[d][Server] = net[d][Server] /\ req'[d] = req[d]
      BY <1>0, <1>2, NamesAssumption DEF Typed, TypeOK, SessionHasClient, SessionPcs,
         Procs, Die
    <2> QED
      BY <1>0, <1>2, <2>1, <2>2, ServerLeavesOrder
  <1> QED
    BY <1>1, <1>2 DEF Procs

\* StartClient keeps it.
LEMMA Order_StartClient ==
    ASSUME Typed, Typed', CountInv, PhaseInv, PhaseInv', EndpointInv, CreditInv, OddInv,
       QuietInv, OrderInv,
           NEW c0 \in Clients, StartClient(c0)
    PROVE  OrderInv'
  <1>0. StepOf(c0) /\ opt' = opt
    BY Step_StartClient DEF StepOf
  <1>1. /\ conn_request' = conn_request /\ unexp'[Server] = unexp[Server] /\ rcvd' = rcvd
       /\ ep'[Server] = ep[Server]
       /\ \A d \in Clients : net'[d][Server] = net[d][Server]
    BY <1>0, NamesAssumption DEF Typed, TypeOK, Procs, Peer, StartClient
  <1>2. \A d \in Clients \ {c0} : req'[d] = req[d]
    BY <1>0, NamesAssumption DEF Typed, TypeOK, Procs, StartClient
  <1>3. StillSending(c0)' =>
         /\ StillSending(c0)
         /\ iter'[c0] + One(pc[c0] = "wait")' = iter[c0] + One(pc[c0] = "wait")
         /\ opt.rndv /\ (pc'[c0] # "wait" \/ req'[c0] # "send") =>
              pc[c0] # "wait" \/ req[c0] # "send"
    <2>1. pc[c0] = "start" /\ pc'[c0] \in {"comm", "reg"} /\ iter' = iter
      BY NamesAssumption DEF Typed, TypeOK, Procs, StartClient, AfterIter
    <2>2. One(pc[c0] = "wait")' = 0 /\ One(pc[c0] = "wait") = 0
      BY <2>1 DEF One
    <2> QED
      BY <1>0, <2>1, <2>2 DEF StillSending
  <1> QED
    BY <1>0, <1>1, <1>2, <1>3, QuietClientOrder

\* StartClientFails keeps it.
LEMMA Order_StartClientFails ==
    ASSUME Typed, Typed', CountInv, PhaseInv, PhaseInv', EndpointInv, CreditInv, OddInv,
       QuietInv, OrderInv,
           NEW c0 \in Clients, StartClientFails(c0)
    PROVE  OrderInv'
  <1>0. StepOf(c0) /\ opt' = opt
    BY Step_StartClientFails DEF StepOf
  <1>1. /\ conn_request' = conn_request /\ unexp'[Server] = unexp[Server] /\ rcvd' = rcvd
       /\ ep'[Server] = ep[Server]
       /\ \A d \in Clients : net'[d][Server] = net[d][Server]
    BY <1>0, NamesAssumption DEF Typed, TypeOK, Procs, Peer, StartClientFails
  <1>2. \A d \in Clients \ {c0} : req'[d] = req[d]
    BY <1>0, NamesAssumption DEF Typed, TypeOK, Procs, StartClientFails
  <1>3. StillSending(c0)' =>
         /\ StillSending(c0)
         /\ iter'[c0] + One(pc[c0] = "wait")' = iter[c0] + One(pc[c0] = "wait")
         /\ opt.rndv /\ (pc'[c0] # "wait" \/ req'[c0] # "send") =>
              pc[c0] # "wait" \/ req[c0] # "send"
    <2>1. ~StillSending(c0)'
      BY <1>0, NamesAssumption DEF Typed, TypeOK, Procs, StillSending, StartClientFails
    <2> QED
      BY <2>1
  <1> QED
    BY <1>0, <1>1, <1>2, <1>3, QuietClientOrder

\* RegisterFinHandler keeps it.
LEMMA Order_RegisterFinHandler ==
    ASSUME Typed, Typed', CountInv, PhaseInv, PhaseInv', EndpointInv, CreditInv, OddInv,
       QuietInv, OrderInv,
           NEW c0 \in Clients, RegisterFinHandler(c0)
    PROVE  OrderInv'
  <1>0. StepOf(c0) /\ opt' = opt
    BY Step_RegisterFinHandler DEF StepOf
  <1>1. /\ conn_request' = conn_request /\ unexp'[Server] = unexp[Server] /\ rcvd' = rcvd
       /\ ep'[Server] = ep[Server]
       /\ \A d \in Clients : net'[d][Server] = net[d][Server]
    BY <1>0, NamesAssumption DEF Typed, TypeOK, Procs, Peer, RegisterFinHandler,
       Registered
  <1>2. \A d \in Clients \ {c0} : req'[d] = req[d]
    BY <1>0, NamesAssumption DEF Typed, TypeOK, Procs, RegisterFinHandler
  <1>3. StillSending(c0)' =>
         /\ StillSending(c0)
         /\ iter'[c0] + One(pc[c0] = "wait")' = iter[c0] + One(pc[c0] = "wait")
         /\ opt.rndv /\ (pc'[c0] # "wait" \/ req'[c0] # "send") =>
              pc[c0] # "wait" \/ req[c0] # "send"
    <2>1. ~StillSending(c0)'
      BY <1>0, NamesAssumption DEF Typed, TypeOK, Procs, StillSending,
         RegisterFinHandler, PhaseInv, ClientPhase
    <2> QED
      BY <2>1
  <1> QED
    BY <1>0, <1>1, <1>2, <1>3, QuietClientOrder

\* CloseClient keeps it.
LEMMA Order_CloseClient ==
    ASSUME Typed, Typed', CountInv, PhaseInv, PhaseInv', EndpointInv, CreditInv, OddInv,
       QuietInv, OrderInv,
           NEW c0 \in Clients, CloseClient(c0)
    PROVE  OrderInv'
  <1>0. StepOf(c0) /\ opt' = opt
    BY Step_CloseClient DEF StepOf
  <1>1. /\ conn_request' = conn_request /\ unexp'[Server] = unexp[Server] /\ rcvd' = rcvd
       /\ ep'[Server] = ep[Server]
       /\ \A d \in Clients : net'[d][Server] = net[d][Server]
    BY <1>0, NamesAssumption DEF Typed, TypeOK, Procs, Peer, CloseClient
  <1>2. \A d \in Clients \ {c0} : req'[d] = req[d]
    BY <1>0, NamesAssumption DEF Typed, TypeOK, Procs, CloseClient
  <1>3. StillSending(c0)' =>
         /\ StillSending(c0)
         /\ iter'[c0] + One(pc[c0] = "wait")' = iter[c0] + One(pc[c0] = "wait")
         /\ opt.rndv /\ (pc'[c0] # "wait" \/ req'[c0] # "send") =>
              pc[c0] # "wait" \/ req[c0] # "send"
    <2>1. ~StillSending(c0)'
      BY <1>0, NamesAssumption DEF Typed, TypeOK, Procs, StillSending, CloseClient
    <2> QED
      BY <2>1
  <1> QED
    BY <1>0, <1>1, <1>2, <1>3, QuietClientOrder

\* server_conn_handle_cb keeps it.
LEMMA Order_server_conn_handle_cb ==
    ASSUME Typed, Typed', CountInv, PhaseInv, PhaseInv', EndpointInv, CreditInv, OddInv,
       QuietInv, OrderInv,
           NEW c0 \in Clients, server_conn_handle_cb(c0)
    PROVE  OrderInv'
  <1>0. StepOf(Server) /\ opt' = opt
    BY Step_server_conn_handle_cb DEF StepOf
  <1>1. rcvd' = rcvd /\ Serving' = NoClient
    BY <1>0 DEF Typed, TypeOK, Procs, Serving, SessionPcs, server_conn_handle_cb
  <1>2. \A d \in Clients : ep'[Server][d] = "none" =>
         ep[Server][d] = "none" /\ net'[d][Server] = net[d][Server] /\ req'[d] = req[d]
    <2>1. net' = net /\ req' = req
      BY DEF server_conn_handle_cb
    <2>2. ep' = ep \/ ep' = [ep EXCEPT ![Server][c0] = "rejected"]
      BY DEF server_conn_handle_cb
    <2>3. ep \in [Procs -> [Procs -> EpStates]]
      BY DEF Typed, TypeOK
    <2>4. \A d \in Clients : ep'[Server][d] = "none" => ep[Server][d] = "none"
      BY <2>2, <2>3 DEF Procs
    <2> QED
      BY <2>1, <2>4
  <1> QED
    BY <1>0, <1>1, <1>2, ServerLeavesOrder

\* StartServer keeps it.
LEMMA Order_StartServer ==
    ASSUME Typed, Typed', CountInv, PhaseInv, PhaseInv', EndpointInv, CreditInv, OddInv,
       QuietInv, OrderInv,
           StartServer
    PROVE  OrderInv'
  <1>0. StepOf(Server) /\ opt' = opt
    BY Step_StartServer DEF StepOf
  <1>1. rcvd' = rcvd /\ Serving' = NoClient
    BY <1>0 DEF Typed, TypeOK, Procs, Serving, SessionPcs, StartServer
  <1>2. \A d \in Clients : ep'[Server][d] = "none" =>
         ep[Server][d] = "none" /\ net'[d][Server] = net[d][Server] /\ req'[d] = req[d]
    BY <1>0, NamesAssumption DEF Typed, TypeOK, SessionHasClient, SessionPcs, Procs,
       StartServer
  <1> QED
    BY <1>0, <1>1, <1>2, ServerLeavesOrder

\* ServerSetupFails keeps it.
LEMMA Order_ServerSetupFails ==
    ASSUME Typed, Typed', CountInv, PhaseInv, PhaseInv', EndpointInv, CreditInv, OddInv,
       QuietInv, OrderInv,
           ServerSetupFails
    PROVE  OrderInv'
  <1>0. StepOf(Server) /\ opt' = opt
    BY Step_ServerSetupFails DEF StepOf
  <1>1. rcvd' = rcvd /\ Serving' = NoClient
    BY <1>0 DEF Typed, TypeOK, Procs, Serving, SessionPcs, ServerSetupFails, LoopDone
  <1>2. \A d \in Clients : ep'[Server][d] = "none" =>
         ep[Server][d] = "none" /\ net'[d][Server] = net[d][Server] /\ req'[d] = req[d]
    BY <1>0, NamesAssumption DEF Typed, TypeOK, SessionHasClient, SessionPcs, Procs,
       ServerSetupFails, LoopDone
  <1> QED
    BY <1>0, <1>1, <1>2, ServerLeavesOrder

\* CreateEp keeps it.
LEMMA Order_CreateEp ==
    ASSUME Typed, Typed', CountInv, PhaseInv, PhaseInv', EndpointInv, CreditInv, OddInv,
       QuietInv, OrderInv,
           CreateEp
    PROVE  OrderInv'
  <1>0. StepOf(Server) /\ opt' = opt
    BY Step_CreateEp DEF StepOf
  <1>1. /\ conn_request \in Clients /\ pc[Server] = "accept" /\ conn_request' = conn_request
        /\ pc'[Server] = "comm" /\ rcvd' = rcvd /\ net' = net /\ req' = req /\ unexp' = unexp
        /\ am_data_desc' = am_data_desc
        /\ ep' = [ep EXCEPT ![Server][conn_request] = "open"]
    BY DEF Typed, TypeOK, Procs, CreateEp, LoopDone, AfterIter
  <1>2. PICK c \in Clients : c = conn_request
    BY <1>1
  <1>3. /\ Serving = NoClient /\ Serving' = c /\ ep[Server][c] = "none" /\ c # NoClient
        /\ ep'[Server][c] = "open" /\ unexp[Server] = <<>> /\ ~am_data_desc[Server].complete
    BY <1>1, <1>2, NamesAssumption DEF Serving, SessionPcs, EndpointInv, WaitingNoEp, CreditInv,
       CleanStart, Typed, TypeOK, Procs
  <1>4. \A d \in Clients \ {c} :
          /\ d # Serving /\ rcvd'[d] = rcvd[d] /\ net'[d][Server] = net[d][Server]
          /\ ep'[Server][d] = ep[Server][d] /\ req'[d] = req[d]
    BY <1>1, <1>2, <1>3, NamesAssumption DEF Typed, TypeOK, Procs
  <1>5. ~HasMsg' /\ ~Fetching' /\ Holds' = 0 /\ Len(rcvd[c]) \in Nat
    <2>1. ~HasMsg' /\ ~Fetching'
      BY <1>1 DEF HasMsg, Fetching
    <2>2. /\ One(HasMsg)' = 0 /\ One(am_data_desc[Server].complete)' = 0
          /\ Len(unexp'[Server]) = 0
      BY <1>1, <1>3, <2>1 DEF One
    <2>3. Holds' = 0
      BY <2>2 DEF Holds
    <2> QED
      BY <2>1, <2>3, CountTypes
  <1>6. ASSUME Ordered, OrderOf(c)
        PROVE  OrderOf(c)'
    <2>1. Received(c)'
      BY <1>1, <1>6 DEF OrderOf, Received, Run
    <2>2. HeldInOrder(c)'
      <3>1. Run(unexp'[Server], c, Len(rcvd'[c]) + One(HasMsg)')
        BY <1>1, <1>3, RunEmpty
      <3> QED
        BY <1>1, <1>3, <1>5, <3>1 DEF HeldInOrder
    <2>3. ASSUME c \notin opt.odd
          PROVE  NextInLine(c)' /\ OneAtATime(c)' /\ FlightInOrder(c)'
      <3>1. NextInLine(c) /\ FlightInOrder(c) /\ OneAtATime(c)
        BY <1>6, <2>3 DEF OrderOf
      <3>2. ChannelUp(c) /\ Arrived(c)' = Arrived(c)
        BY <1>1, <1>3, <1>5 DEF ChannelUp, Arrived, Held
      <3>3. NextInLine(c)' /\ FlightInOrder(c)'
        BY <1>0, <1>1, <3>1, <3>2, SameCount
      <3>4. SameLocal(c)
        BY <1>0, NamesAssumption DEF StepOf, Procs
      <3>5. /\ pc'[c] = pc[c] /\ (StillSending(c)' <=> StillSending(c))
        BY <1>0, <1>1, <3>4 DEF SameLocal, StillSending
      <3>6. OneAtATime(c)'
        BY <1>0, <1>1, <1>3, <1>5, <3>1, <3>2, <3>5 DEF OneAtATime, Clear
      <3> QED
        BY <3>3, <3>6
    <2> QED
      BY <1>0, <2>1, <2>2, <2>3 DEF OrderOf
  <1> QED
    BY <1>0, <1>3, <1>4, <1>6, SessionOrder

\* Drained keeps it.
LEMMA Order_Drained ==
    ASSUME Typed, Typed', CountInv, PhaseInv, PhaseInv', EndpointInv, CreditInv, OddInv,
       QuietInv, OrderInv,
           Drained
    PROVE  OrderInv'
  <1>0. StepOf(Server) /\ opt' = opt
    BY Step_Drained DEF StepOf
  <1>1. /\ conn_request \in Clients /\ conn_request' = conn_request /\ Serving = conn_request
       /\ Serving' = conn_request /\ rcvd' = rcvd
    BY <1>0 DEF Typed, TypeOK, SessionHasClient, Serving, SessionPcs, Procs, Drained,
       LoopDone
  <1>2. \A d \in Clients \ {conn_request} :
         net'[d][Server] = net[d][Server] /\ ep'[Server][d] = ep[Server][d]
    BY <1>0, <1>1, NamesAssumption DEF Typed, TypeOK, Procs, Peer, Drained
  <1>3. \A d \in Clients : req'[d] = req[d]
    BY <1>0, NamesAssumption DEF Typed, TypeOK, Procs, Drained
  <1>4. ep[Server][conn_request] \in {"open", "failed"} /\ ep'[Server][conn_request] # "none"
    BY <1>0, <1>1 DEF EndpointInv, SessionEp, Typed, TypeOK, SessionPcs, Procs, Peer,
       Drained, LoopDone
  <1>5. Receiving' => Receiving /\ (HasMsg' <=> HasMsg) /\ (Fetching' <=> Fetching)
    BY <1>0 DEF Typed, TypeOK, Procs, Receiving, HasMsg, Fetching, Receiver, InFin,
       Drained, LoopDone
  <1>6. /\ am_data_desc'[Server].complete = am_data_desc[Server].complete
       /\ am_data_desc'[Server].desc = am_data_desc[Server].desc
       /\ unexp'[Server] \in {unexp[Server], <<>>}
    BY <1>0 DEF Typed, TypeOK, AmDesc, Procs, Drained
  <1>7. Receiving' /\ (HasMsg \/ (am_data_desc[Server].complete /\ ~opt.rndv)) =>
         buf'[Server] = buf[Server]
    BY <1>0 DEF Typed, TypeOK, Procs, Receiving, Drained
  <1>8. ep'[Server][conn_request] = "open" =>
         /\ ep[Server][conn_request] = "open" /\ unexp'[Server] = unexp[Server]
         /\ net'[conn_request][Server] = net[conn_request][Server]
    BY <1>0, <1>1, NamesAssumption DEF Typed, TypeOK, Procs, Peer, Drained
  <1> QED
    BY <1>0, <1>1, <1>2, <1>3, <1>4, <1>5, <1>6, <1>7, <1>8, QuietSessionOrder

\* NextClient keeps it.
LEMMA Order_NextClient ==
    ASSUME Typed, Typed', CountInv, PhaseInv, PhaseInv', EndpointInv, CreditInv, OddInv,
       QuietInv, OrderInv,
           NextClient
    PROVE  OrderInv'
  <1>0. StepOf(Server) /\ opt' = opt
    BY Step_NextClient DEF StepOf
  <1>1. rcvd' = rcvd /\ Serving' = NoClient
    BY <1>0 DEF Typed, TypeOK, Procs, Serving, SessionPcs, NextClient, CloseServerEp
  <1>2. \A d \in Clients : ep'[Server][d] = "none" =>
         ep[Server][d] = "none" /\ net'[d][Server] = net[d][Server] /\ req'[d] = req[d]
    BY <1>0, NamesAssumption DEF Typed, TypeOK, SessionHasClient, SessionPcs, Procs,
       NextClient, CloseServerEp
  <1> QED
    BY <1>0, <1>1, <1>2, ServerLeavesOrder

\* ServerExit keeps it.
LEMMA Order_ServerExit ==
    ASSUME Typed, Typed', CountInv, PhaseInv, PhaseInv', EndpointInv, CreditInv, OddInv,
       QuietInv, OrderInv,
           ServerExit
    PROVE  OrderInv'
  <1>0. StepOf(Server) /\ opt' = opt
    BY Step_ServerExit DEF StepOf
  <1>1. rcvd' = rcvd /\ Serving' = NoClient
    BY <1>0 DEF Typed, TypeOK, Procs, Serving, SessionPcs, ServerExit, CloseServerEp
  <1>2. \A d \in Clients : ep'[Server][d] = "none" =>
         ep[Server][d] = "none" /\ net'[d][Server] = net[d][Server] /\ req'[d] = req[d]
    BY <1>0, NamesAssumption DEF Typed, TypeOK, SessionHasClient, SessionPcs, Procs,
       ServerExit, CloseServerEp
  <1> QED
    BY <1>0, <1>1, <1>2, ServerLeavesOrder

\* Every step keeps it.
LEMMA OrderNext ==
    ASSUME Typed, Typed', CountInv, PhaseInv, PhaseInv', EndpointInv, CreditInv, OddInv, QuietInv, OrderInv, [Next]_vars
    PROVE  OrderInv'
  <1>1. ASSUME NEW p \in Procs, Communicate(p)
        PROVE  OrderInv'
    BY <1>1, Order_AllocFails, Order_Send, Order_Recv, Order_AmRecv, Order_AmArrived,
       Order_FinalizeError, Order_FinalizeData, Order_FinalizeFin DEF Communicate
  <1>2. ASSUME NEW p \in Procs, Callback(p)
        PROVE  OrderInv'
    BY <1>2, Order_SendCb, Order_FetchCb, Order_RecvCb, Order_AmDropped,
       Order_ucp_am_data_cb, Order_err_cb, Order_Die DEF Callback, AmCopyFaults
  <1>3. CASE ServerStep
    BY <1>1, <1>2, <1>3, Order_StartServer, Order_ServerSetupFails, Order_CreateEp,
       Order_Drained, Order_NextClient, Order_ServerExit, Order_server_conn_handle_cb,
       Order_Progress DEF ServerStep, Procs
  <1>4. ASSUME NEW c \in Clients, ClientStep(c)
        PROVE  OrderInv'
    BY <1>1, <1>2, <1>4, Order_StartClient, Order_StartClientFails,
       Order_RegisterFinHandler, Order_CloseClient, Order_Progress DEF ClientStep, Procs
  <1>5. CASE UNCHANGED vars
    <2>1. /\ opt' = opt /\ rcvd' = rcvd /\ buf' = buf /\ unexp' = unexp /\ net' = net
          /\ am_data_desc' = am_data_desc /\ pc' = pc /\ req' = req /\ iter' = iter
          /\ ep' = ep /\ conn_request' = conn_request
      BY <1>5 DEF vars
    <2>2. /\ Serving' = Serving /\ (Receiving' <=> Receiving) /\ (HasMsg' <=> HasMsg)
          /\ (Fetching' <=> Fetching)
      BY <2>1 DEF Serving, Receiving, HasMsg, Fetching
    <2>3. One(HasMsg)' = One(HasMsg)
      BY <2>2 DEF One
    <2>4. \A c \in Clients :
            /\ (ChannelUp(c)' <=> ChannelUp(c)) /\ (StillSending(c)' <=> StillSending(c))
            /\ One(pc[c] = "wait")' = One(pc[c] = "wait")
            /\ Arrived(c)' = Arrived(c)
      BY <2>1, <2>2, <2>3 DEF ChannelUp, StillSending, Arrived, Held, Holds, One
    <2>5. \A c \in Clients :
            /\ (Received(c)' <=> Received(c)) /\ (HeldInOrder(c)' <=> HeldInOrder(c))
      BY <2>1, <2>2, <2>3 DEF Received, HeldInOrder, Run
    <2>6. \A c \in Clients :
            /\ (NextInLine(c)' <=> NextInLine(c)) /\ (FlightInOrder(c)' <=> FlightInOrder(c))
            /\ (OneAtATime(c)' <=> OneAtATime(c))
      BY <2>1, <2>2, <2>4 DEF NextInLine, FlightInOrder, OneAtATime, Clear, Run
    <2> QED
      BY <2>1, <2>5, <2>6 DEF OrderInv, Ordered, OrderOf
  <1> QED
    BY <1>3, <1>4, <1>5, Order_Die DEF Next, Idle, Crash

\* It holds initially: no client has sent anything.
LEMMA OrderInit == Init => OrderInv
  <1> SUFFICES ASSUME Init, NEW c \in Clients PROVE OrderOf(c)
    BY DEF OrderInv
  <1>1. Typed
    BY TypedInit
  <1>2. /\ c \in Procs /\ Server \in Procs /\ c # NoClient /\ Serving = NoClient
        /\ rcvd[c] = <<>> /\ net[c][Server] = <<>> /\ ep[Server][c] = "none"
        /\ pc[c] = "start" /\ iter[c] = 0
    BY NamesAssumption DEF Init, Serving, SessionPcs, Procs
  <1>3. Arrived(c) = 0
    BY <1>2 DEF Arrived, Held
  <1>4. Run(<<>>, c, 0)
    BY RunEmpty
  <1>5. Received(c) /\ HeldInOrder(c) /\ FlightInOrder(c)
    BY <1>2, <1>3, <1>4 DEF Received, HeldInOrder, FlightInOrder
  <1>6. NextInLine(c)
    BY <1>2, <1>3 DEF NextInLine, One
  <1>7. OneAtATime(c)
    BY <1>2 DEF OneAtATime, Clear
  <1> QED
    BY <1>5, <1>6, <1>7 DEF OrderOf

--------------------------------------------------------------------------------
ReceptionInv == DeliveryInv /\ QuietInv /\ OrderInv

\* What the server holds, what is in flight and what a client sends next follow each
\* other without a gap in every reachable state.
THEOREM Reception == Spec => []ReceptionInv
  <1>1. Init => ReceptionInv
    BY TypedInit, CountsInit, PhaseInit, EndsInit, CreditInit, OddInit, QuietInit, OrderInit
       DEF ReceptionInv, DeliveryInv, SessionInv
  <1>2. ReceptionInv /\ [Next]_vars => ReceptionInv'
    <2> SUFFICES ASSUME ReceptionInv, [Next]_vars
                 PROVE  ReceptionInv'
      OBVIOUS
    <2>1. /\ Typed /\ CountInv /\ PhaseInv /\ EndpointInv /\ CreditInv /\ OddInv
          /\ QuietInv /\ OrderInv
      BY DEF ReceptionInv, DeliveryInv, SessionInv
    <2>2. Typed' /\ CountInv' /\ PhaseInv' /\ EndpointInv'
      BY <2>1, TypedNext, CountsNext, PhaseNext, EndsNext
    <2>3. CreditInv' /\ OddInv'
      BY <2>1, <2>2, CreditNext, OddNext
    <2>4. QuietInv'
      BY <2>1, <2>2, QuietNext
    <2>5. OrderInv'
      BY <2>1, <2>2, <2>3, <2>4, OrderNext
    <2> QED
      BY <2>2, <2>3, <2>4, <2>5 DEF ReceptionInv, DeliveryInv, SessionInv
  <1> QED
    BY <1>1, <1>2, PTL DEF Spec

\* The k-th receive of client_server_do_work in a session yields the k-th message of
\* that session's client, for tag and stream transfers, for rendezvous active messages
\* and for a single eager one: nothing is lost, overwritten, repeated or taken from
\* another session, whatever fails meanwhile.
THEOREM InOrder == Spec => []ReceivesInOrder
  <1>1. ReceptionInv => ReceivesInOrder
    <2> SUFFICES ASSUME ReceptionInv, Ordered, NEW c \in Clients, NEW k \in DOMAIN rcvd[c]
                 PROVE  rcvd[c][k] = [from |-> c, id |-> k - 1]
      BY DEF ReceivesInOrder, Ordered
    <2>1. Received(c) /\ Typed
      BY DEF ReceptionInv, DeliveryInv, SessionInv, OrderInv, OrderOf
    <2>2. rcvd[c] \in Seq(Message)
      BY <2>1 DEF Typed, TypeOK
    <2>3. k \in 1..Len(rcvd[c]) /\ k \in Nat
      BY <2>2
    <2>4. rcvd[c][k] = Msg(c, 0 + k - 1)
      BY <2>1, <2>3 DEF Received, Run
    <2>5. 0 + k - 1 = k - 1
      BY <2>3
    <2> QED
      BY <2>4, <2>5 DEF Msg
  <1> QED
    BY Reception, <1>1, PTL

================================================================================
