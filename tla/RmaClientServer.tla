---------------------------- MODULE RmaClientServer ----------------------------
(***************************************************************************)
(* The RMA demo (src/04_ucp_rma_client_server: server.cpp, client.cpp and  *)
(* the helpers of ucx_util.cpp they call).                                 *)
(*                                                                         *)
(* The server registers one buffer, hands its address and rkey to every    *)
(* client over TCP and runs an event loop; each client is a process that   *)
(* either overwrites the whole buffer (put, then flush) or reads it (get). *)
(* The bytes of a put or a get move one by one, in any order, and the put  *)
(* request may complete before they have moved.  A handshake is one step   *)
(* here; module Handshake has its bytes.                                   *)
(***************************************************************************)
EXTENDS Integers, Sequences, FiniteSets

CONSTANTS
    Clients,     \* the client processes
    NoClient,    \* no connection is being served
    Size,        \* <size_bytes> of the server
    Base,        \* number of values of a byte
    HeadLen,     \* how many bytes the server prints (16)
    Backlog,     \* the argument of listen() (16)
    Faults       \* what may go wrong outside the demo

FaultKinds == {"setup", "post", "link", "crash"}

ASSUME NamesAssumption == NoClient \notin Clients
ASSUME SizesAssumption == Size \in Nat /\ HeadLen \in Nat
ASSUME BaseAssumption == Base \in Nat \ {0}
ASSUME BacklogAssumption == Backlog \in Nat \ {0}
ASSUME FaultsAssumption == Faults \subseteq FaultKinds

VARIABLES
    mode,      \* mode[c]: the client's third argument
    emulated,  \* the transport emulates RMA in the target's progress calls
    spc,       \* where the server is
    buf,       \* the server's registered buffer
    head,      \* what the server printed last
    backlog,   \* connections that wait to be accepted
    serving,   \* the client behind cfd
    cpc,       \* where each client is
    conn,      \* what became of each client's TCP connection
    lbuf,      \* each client's local buffer
    todo,      \* the bytes of a client's put or get that have not moved yet
    afterPut   \* history: clients that issued their get after a put was reported

server == <<spc, head, backlog, serving>>
vars == <<mode, emulated, spc, buf, head, backlog, serving,
          cpc, conn, lbuf, todo, afterPut>>

Bytes == 0 .. Base - 1
Offsets == 0 .. Size - 1

\* The two fill loops.
ServerPattern == [i \in Offsets |-> i % Base]
\* (Mutant: without the mask.)
PutPatternUnmasked == [i \in Offsets |-> i * 3]
PutPattern == [i \in Offsets |-> (i * 3) % Base]

\* The first min(16, size) bytes.
HeadOffsets == {i \in Offsets : i < HeadLen}
Head16(b) == [i \in HeadOffsets |-> b[i]]

ServerPcs == {"init", "progress", "accept", "send", "print", "dead", "killed"}
ClientPcs == {"start", "hs", "setup", "post", "put", "flush", "get", "done", "failed", "dead"}

\* Every variable has its type.
RmaTypeOK ==
    /\ mode \in [Clients -> {"put", "get"}]
    /\ emulated \in BOOLEAN
    /\ spc \in ServerPcs
    /\ buf \in [Offsets -> Bytes]
    /\ head \in [HeadOffsets -> Bytes]
    /\ backlog \in Seq(Clients) /\ Len(backlog) <= Backlog
    /\ serving \in Clients \cup {NoClient}
    /\ cpc \in [Clients -> ClientPcs]
    /\ conn \in [Clients -> {"none", "open", "sent", "broken", "reset"}]
    /\ lbuf \in [Clients -> [Offsets -> Bytes]]
    /\ todo \in [Clients -> SUBSET Offsets]
    /\ afterPut \in SUBSET Clients

Init ==
    /\ mode \in [Clients -> {"put", "get"}]
    /\ emulated \in BOOLEAN
    /\ spc = "init"
    /\ buf = ServerPattern
    /\ head = Head16(ServerPattern)
    /\ backlog = <<>>
    /\ serving = NoClient
    /\ cpc = [c \in Clients |-> "start"]
    /\ conn = [c \in Clients |-> "none"]
    /\ lbuf = [c \in Clients |-> [i \in Offsets |-> 0]]
    /\ todo = [c \in Clients |-> {}]
    /\ afterPut = {}

Down == spc \in {"dead", "killed"}
ServerUp == spc # "init" /\ ~Down
Ended == {"done", "failed", "dead"}

--------------------------------------------------------------------------------
(***************************************************************************)
(* The server's main().                                                    *)
(***************************************************************************)

\* A round of the event loop starts with env.progress() (mutant: it does not).
RoundStartAccept == "accept"
RoundStart == "progress"

\* UcxEnv, UcxMem, pack_rkey and tcp::listen; each throws when it fails and
\* nothing catches it.
StartServer ==
    /\ spc = "init"
    /\ \/ spc' = RoundStart
       \/ "setup" \in Faults /\ spc' = "dead"
    /\ UNCHANGED <<mode, emulated, buf, head, backlog, serving,
                   cpc, conn, lbuf, todo, afterPut>>

\* env.progress() returns.
Progressed ==
    /\ spc = "progress"
    /\ spc' = "accept"
    /\ UNCHANGED <<mode, emulated, buf, head, backlog, serving,
                   cpc, conn, lbuf, todo, afterPut>>

\* accept_nonblock: the poll finds nothing, or the next connection is taken.
accept_nonblock ==
    /\ spc = "accept"
    /\ IF backlog = <<>>
         THEN spc' = "print" /\ UNCHANGED <<backlog, serving>>
         ELSE /\ serving' = Head(backlog)
              /\ backlog' = Tail(backlog)
              /\ spc' = "send"
    /\ UNCHANGED <<mode, emulated, buf, head, cpc, conn, lbuf, todo, afterPut>>

\* The process ends: the connections it had not finished are reset.
ServerEnds(how) ==
    /\ spc' = how
    /\ backlog' = <<>>
    /\ serving' = NoClient
    /\ conn' = [c \in Clients |-> IF conn[c] = "open" THEN "reset" ELSE conn[c]]

\* Mutant: the buffer is filled for each connection instead of once.
send_fdFills ==
    /\ spc = "send"
    /\ conn' = [conn EXCEPT ![serving] = "sent"]
    /\ serving' = NoClient
    /\ spc' = "print"
    /\ buf' = ServerPattern
    /\ UNCHANGED <<mode, emulated, head, backlog, cpc, lbuf, todo, afterPut>>

\* Mutant: a short send() is taken for an error.
send_fdShort ==
    /\ spc = "send"
    /\ \/ /\ conn' = [conn EXCEPT ![serving] = "sent"]
          /\ serving' = NoClient
          /\ spc' = "print"
          /\ UNCHANGED backlog
       \/ ServerEnds("dead")
    /\ UNCHANGED <<mode, emulated, buf, head, cpc, lbuf, todo, afterPut>>

\* Handshake::send_fd and close(cfd).  A send to a client that is gone may
\* still be accepted by the kernel; if it fails, send_all throws and the
\* server ends.
send_fd ==
    /\ spc = "send"
    /\ \/ /\ conn' = [conn EXCEPT ![serving] = IF @ = "open" THEN "sent" ELSE @]
          /\ serving' = NoClient
          /\ spc' = "print"
          /\ UNCHANGED backlog
       \/ /\ conn[serving] = "broken"
          /\ ServerEnds("dead")
    /\ UNCHANGED <<mode, emulated, buf, head, cpc, lbuf, todo, afterPut>>

\* Mutant: last_print is set in every round.
PrintHeadNever ==
    /\ spc = "print"
    /\ spc' = RoundStart
    /\ UNCHANGED <<mode, emulated, buf, head, backlog, serving,
                   cpc, conn, lbuf, todo, afterPut>>

\* The end of a round in which a second has passed since last_print: the head
\* of the buffer is printed.
PrintHead ==
    /\ spc = "print"
    /\ head' = Head16(buf)
    /\ spc' = RoundStart
    /\ UNCHANGED <<mode, emulated, buf, backlog, serving, cpc, conn, lbuf, todo, afterPut>>

\* The end of any other round.
NoPrint ==
    /\ spc = "print"
    /\ spc' = RoundStart
    /\ UNCHANGED <<mode, emulated, buf, head, backlog, serving,
                   cpc, conn, lbuf, todo, afterPut>>

--------------------------------------------------------------------------------
(***************************************************************************)
(* The client's main().  An exception is not caught and die() exits: both  *)
(* end the process ("failed") without undoing anything at the server.      *)
(***************************************************************************)

\* tcp::connect: refused without a listener, else queued; a full backlog makes
\* the kernel retry.
Connect(c) ==
    /\ cpc[c] = "start"
    /\ IF ServerUp
         THEN /\ Len(backlog) < Backlog
              /\ backlog' = Append(backlog, c)
              /\ conn' = [conn EXCEPT ![c] = "open"]
              /\ cpc' = [cpc EXCEPT ![c] = "hs"]
         ELSE /\ cpc' = [cpc EXCEPT ![c] = "failed"]
              /\ UNCHANGED <<backlog, conn>>
    /\ UNCHANGED <<mode, emulated, spc, buf, head, serving, lbuf, todo, afterPut>>

\* Handshake::recv_fd: the whole handshake, or recv_all throws.
recv_fd(c) ==
    /\ cpc[c] = "hs"
    /\ \/ conn[c] = "sent" /\ cpc' = [cpc EXCEPT ![c] = "setup"]
       \/ conn[c] \in {"broken", "reset"} /\ cpc' = [cpc EXCEPT ![c] = "failed"]
    /\ UNCHANGED <<mode, emulated, spc, buf, head, backlog, serving,
                   conn, lbuf, todo, afterPut>>

\* UcxEnv, UcxEndpoint, import_rkey, the local buffer (filled for a put) and
\* its registration.
SetUp(c) ==
    /\ cpc[c] = "setup"
    /\ \/ /\ cpc' = [cpc EXCEPT ![c] = "post"]
          /\ lbuf' = IF mode[c] = "put" THEN [lbuf EXCEPT ![c] = PutPattern] ELSE lbuf
       \/ /\ "setup" \in Faults
          /\ cpc' = [cpc EXCEPT ![c] = "failed"]
          /\ UNCHANGED lbuf
    /\ UNCHANGED <<mode, emulated, spc, buf, head, backlog, serving,
                   conn, todo, afterPut>>

\* Some client has printed "PUT done".
PutReported == \E p \in Clients : mode[p] = "put" /\ cpc[p] = "done"

\* put_nbx and get_nbx: the operation is issued, or refused and the client throws.
Post(c) ==
    /\ cpc[c] = "post"
    /\ \/ /\ todo' = [todo EXCEPT ![c] = Offsets]
          /\ cpc' = [cpc EXCEPT ![c] = mode[c]]
          /\ afterPut' = IF mode[c] = "get" /\ PutReported THEN afterPut \cup {c} ELSE afterPut
       \/ /\ "post" \in Faults
          /\ cpc' = [cpc EXCEPT ![c] = "failed"]
          /\ UNCHANGED <<todo, afterPut>>
    /\ UNCHANGED <<mode, emulated, spc, buf, head, backlog, serving, conn, lbuf>>

\* Mutant: no flush after the put.
PutDoneNoFlush(c) ==
    /\ cpc[c] = "put"
    /\ cpc' = [cpc EXCEPT ![c] = "done"]
    /\ UNCHANGED <<mode, emulated, server, buf, conn, lbuf, todo, afterPut>>

\* wait() on the put: it may complete as soon as the local buffer has been
\* copied.  flush_nbx follows.
PutDone(c) ==
    /\ cpc[c] = "put"
    /\ \/ cpc' = [cpc EXCEPT ![c] = "flush"]
       \/ "post" \in Faults /\ cpc' = [cpc EXCEPT ![c] = "failed"]
    /\ UNCHANGED <<mode, emulated, server, buf, conn, lbuf, todo, afterPut>>

\* wait() on the flush or on the get: complete when every byte has moved.
\* "PUT done" or "GET done" is printed and the client ends.
WaitDone(c) ==
    /\ cpc[c] \in {"flush", "get"}
    /\ todo[c] = {}
    /\ cpc' = [cpc EXCEPT ![c] = "done"]
    /\ UNCHANGED <<mode, emulated, server, buf, conn, lbuf, todo, afterPut>>

\* wait() returns an error: the path to the server broke, or the server is gone.
WaitFails(c) ==
    /\ cpc[c] \in {"put", "flush", "get"}
    /\ Down \/ "link" \in Faults
    /\ cpc' = [cpc EXCEPT ![c] = "failed"]
    /\ UNCHANGED <<mode, emulated, server, buf, conn, lbuf, todo, afterPut>>

--------------------------------------------------------------------------------
(***************************************************************************)
(* The transport.                                                          *)
(***************************************************************************)

\* One byte of c's put or get moves: by the NIC at any time, or by the target
\* inside its progress call.  The bytes of a put are under way on their own:
\* they may still arrive when the client is gone.
MoveByte(c) ==
    /\ ServerUp
    /\ emulated => spc = "progress"
    /\ \E i \in todo[c] :
         /\ todo' = [todo EXCEPT ![c] = @ \ {i}]
         /\ IF mode[c] = "put"
              THEN buf' = [buf EXCEPT ![i] = lbuf[c][i]] /\ UNCHANGED lbuf
              ELSE /\ cpc[c] = "get"
                   /\ lbuf' = [lbuf EXCEPT ![c][i] = buf[i]]
                   /\ UNCHANGED buf
    /\ UNCHANGED <<mode, emulated, server, cpc, conn, afterPut>>

\* A client is killed.
ClientDies(c) ==
    /\ "crash" \in Faults
    /\ cpc[c] \notin Ended
    /\ cpc' = [cpc EXCEPT ![c] = "dead"]
    /\ conn' = [conn EXCEPT ![c] = IF @ = "open" THEN "broken" ELSE @]
    /\ UNCHANGED <<mode, emulated, server, buf, lbuf, todo, afterPut>>

\* A TCP connection breaks before the handshake is through.
ConnectionBreaks(c) ==
    /\ "link" \in Faults
    /\ conn[c] = "open"
    /\ conn' = [conn EXCEPT ![c] = "broken"]
    /\ UNCHANGED <<mode, emulated, server, buf, cpc, lbuf, todo, afterPut>>

ServerKilled ==
    /\ "crash" \in Faults
    /\ ServerUp
    /\ ServerEnds("killed")
    /\ UNCHANGED <<mode, emulated, buf, head, cpc, lbuf, todo, afterPut>>

--------------------------------------------------------------------------------
ServerStep == StartServer \/ Progressed \/ accept_nonblock \/ send_fd \/ PrintHead \/ NoPrint

ClientStep(c) ==
    \/ Connect(c) \/ recv_fd(c) \/ SetUp(c) \/ Post(c)
    \/ PutDone(c) \/ WaitDone(c)

Next ==
    \/ ServerStep \/ ServerKilled
    \/ \E c \in Clients : ClientStep(c) \/ WaitFails(c) \/ MoveByte(c) \/ ClientDies(c) \/ ConnectionBreaks(c)

(***************************************************************************)
(* Each process runs, seconds pass, and a transfer advances if the target  *)
(* calls progress again and again.  Nothing makes a fault happen, and a    *)
(* client that died or gave up has no claim on its transfer.               *)
(***************************************************************************)
Fairness ==
    /\ WF_vars(ServerStep)
    /\ SF_vars(PrintHead)
    /\ \A c \in Clients :
         /\ WF_vars(ClientStep(c))
         /\ SF_vars(MoveByte(c) /\ cpc[c] \in {"put", "flush", "get"})

Spec == Init /\ [][Next]_vars
FairSpec == Spec /\ Fairness

--------------------------------------------------------------------------------
(***************************************************************************)
(* Properties.                                                             *)
(***************************************************************************)

\* A GET that is issued after some client printed "PUT done" returns the PUT
\* pattern in every byte, whatever other puts, failed ones included, are under
\* way (client.cpp's flush, README's "GET again (should reflect the PUT
\* pattern)"); one that overlaps the first PUT may return a mix, but each byte
\* is one the server's buffer held.
GetReflectsPut ==
    \A c \in Clients : mode[c] = "get" /\ cpc[c] = "done" =>
      IF c \in afterPut THEN lbuf[c] = PutPattern
      ELSE \A i \in Offsets : lbuf[c][i] \in {ServerPattern[i], PutPattern[i]}

\* What the server prints never goes back: a byte of the head that has shown
\* the PUT pattern keeps it for all later clients.
HeadNeverReverts ==
    [][\A i \in HeadOffsets : head[i] # ServerPattern[i] => head'[i] = head[i]]_vars

\* While the server runs, no client waits forever: not for its handshake
\* behind other clients, and not for a put, a flush or a get, although an
\* emulated transfer moves only between two accepts of the server.
ClientsEnd ==
    \A c \in Clients : cpc[c] = "hs" ~> (cpc[c] \in Ended \/ Down)

\* Every client that connected gets its handshake, unless the server is killed
\* or the connection of some client, any client, broke in its handshake: that
\* one takes the server from all of them.
HandshakeServed ==
    \A c \in Clients : cpc[c] = "hs" ~>
      (conn[c] = "sent" \/ spc = "killed" \/ \E d \in Clients : conn[d] = "broken")

\* A reported PUT is eventually visible in the head the server prints.
PutIsShown ==
    PutReported ~> (head = Head16(PutPattern) \/ Down)

--------------------------------------------------------------------------------
(***************************************************************************)
(* The inductive invariant behind GetReflectsPut and HeadNeverReverts.     *)
(***************************************************************************)

\* The operation of a client is the one of its mode, and not issued before Post.
OpOfMode ==
    \A c \in Clients :
      /\ cpc[c] \in {"put", "flush"} => mode[c] = "put"
      /\ cpc[c] = "get" => mode[c] = "get"
      /\ cpc[c] \in {"start", "hs", "setup", "post", "done"} => todo[c] = {}

\* What a put may still move is the PUT pattern.
PutSource ==
    \A c \in Clients :
      mode[c] = "put" /\ (cpc[c] = "post" \/ todo[c] # {}) => lbuf[c] = PutPattern

\* Every byte holds one of the two patterns; a put's bytes that have moved are
\* in place, and stay.
BufHolds ==
    /\ \A i \in Offsets : buf[i] \in {ServerPattern[i], PutPattern[i]}
    /\ \A c \in Clients : mode[c] = "put" /\ cpc[c] \in {"put", "flush", "done"} =>
         \A i \in Offsets \ todo[c] : buf[i] = PutPattern[i]

\* A get issued after a reported put finds the PUT pattern wherever it looks.
GetHolds ==
    /\ afterPut # {} => buf = PutPattern
    /\ \A c \in Clients : mode[c] = "get" /\ cpc[c] \in {"get", "done"} =>
         \A i \in Offsets \ todo[c] :
           /\ lbuf[c][i] \in {ServerPattern[i], PutPattern[i]}
           /\ c \in afterPut => lbuf[c][i] = PutPattern[i]

\* A byte of the head that differs from the start is in the buffer.
HeadHolds ==
    \A i \in HeadOffsets : head[i] # ServerPattern[i] =>
      head[i] = PutPattern[i] /\ buf[i] = PutPattern[i]

RmaInv == RmaTypeOK /\ OpOfMode /\ PutSource /\ BufHolds /\ GetHolds /\ HeadHolds

================================================================================
