------------------------- MODULE RmaClientServerProofs -------------------------
(***************************************************************************)
(* Proofs about RmaClientServer, for every set of clients, every buffer    *)
(* size and every set of faults.                                           *)
(***************************************************************************)
EXTENDS RmaClientServer, TLAPS

\* The two fill loops of server.cpp and client.cpp store bytes.
LEMMA PatternsTyped ==
    /\ ServerPattern \in [Offsets -> Bytes]
    /\ PutPattern \in [Offsets -> Bytes]
<1>1. \A i \in Offsets : i \in Int /\ i >= 0
  BY SizesAssumption DEF Offsets
<1>2. \A n \in Nat : n % Base \in Bytes
  BY BaseAssumption DEF Bytes
<1>3. \A i \in Offsets : i \in Nat /\ i * 3 \in Nat
  BY <1>1
<1>4. \A i \in Offsets : i % Base \in Bytes /\ (i * 3) % Base \in Bytes
  BY <1>2, <1>3
<1>. QED
  BY <1>4 DEF ServerPattern, PutPattern

\* Head16 prints bytes of the buffer.
LEMMA HeadTyped ==
    ASSUME NEW b \in [Offsets -> Bytes]
    PROVE  Head16(b) \in [HeadOffsets -> Bytes]
<1>1. \A i \in HeadOffsets : i \in Offsets
  BY DEF HeadOffsets
<1>. QED
  BY <1>1 DEF Head16

--------------------------------------------------------------------------------
(***************************************************************************)
(* Types.                                                                  *)
(***************************************************************************)

\* The server's steps keep the types.
LEMMA TypedServer ==
    ASSUME RmaTypeOK, ServerStep \/ ServerKilled
    PROVE  RmaTypeOK'
<1>. USE DEF RmaTypeOK, ServerPcs
<1>1. CASE StartServer
  BY <1>1 DEF StartServer, RoundStart
<1>2. CASE Progressed
  BY <1>2 DEF Progressed
<1>3. CASE accept_nonblock
  <2>1. CASE backlog = <<>>
    BY <1>3, <2>1 DEF accept_nonblock
  <2>2. CASE backlog # <<>>
    <3>1. Head(backlog) \in Clients /\ Tail(backlog) \in Seq(Clients)
      BY <2>2
    <3>2. Len(Tail(backlog)) <= Backlog
      BY <2>2, BacklogAssumption
    <3>. QED
      BY <1>3, <2>2, <3>1, <3>2 DEF accept_nonblock
  <2>. QED
    BY <2>1, <2>2
<1>4. CASE send_fd
  <2>1. conn' \in [Clients -> {"none", "open", "sent", "broken", "reset"}]
    BY <1>4 DEF send_fd, ServerEnds
  <2>2. backlog' \in Seq(Clients) /\ Len(backlog') <= Backlog
    <3>1. backlog' = backlog \/ backlog' = <<>>
      BY <1>4 DEF send_fd, ServerEnds
    <3>2. CASE backlog' = backlog
      BY <3>2
    <3>3. CASE backlog' = <<>>
      BY <3>3, BacklogAssumption
    <3>. QED
      BY <3>1, <3>2, <3>3
  <2>3. spc' \in ServerPcs /\ serving' \in Clients \cup {NoClient}
    BY <1>4 DEF send_fd, ServerEnds
  <2>. QED
    BY <1>4, <2>1, <2>2, <2>3 DEF send_fd
<1>5. CASE PrintHead
  <2>1. head' \in [HeadOffsets -> Bytes]
    BY <1>5, HeadTyped DEF PrintHead
  <2>. QED
    BY <1>5, <2>1 DEF PrintHead, RoundStart
<1>6. CASE NoPrint
  BY <1>6 DEF NoPrint, RoundStart
<1>7. CASE ServerKilled
  <2>1. backlog' \in Seq(Clients) /\ Len(backlog') <= Backlog
    BY <1>7, BacklogAssumption DEF ServerKilled, ServerEnds
  <2>. QED
    BY <1>7, <2>1 DEF ServerKilled, ServerEnds
<1>. QED
  BY <1>1, <1>2, <1>3, <1>4, <1>5, <1>6, <1>7 DEF ServerStep

\* So do the clients', the transport's and the faults.
LEMMA TypedClient ==
    ASSUME RmaTypeOK, NEW c \in Clients,
           ClientStep(c) \/ WaitFails(c) \/ MoveByte(c) \/ ClientDies(c) \/ ConnectionBreaks(c)
    PROVE  RmaTypeOK'
<1>. USE DEF RmaTypeOK, ClientPcs
<1>1. CASE Connect(c)
  <2>1. CASE ServerUp
    <3>1. backlog' = Append(backlog, c) /\ Len(backlog) < Backlog
      BY <1>1, <2>1 DEF Connect
    <3>2. backlog' \in Seq(Clients) /\ Len(backlog') <= Backlog
      BY <3>1, BacklogAssumption
    <3>. QED
      BY <1>1, <2>1, <3>2 DEF Connect
  <2>2. CASE ~ServerUp
    BY <1>1, <2>2 DEF Connect
  <2>. QED
    BY <2>1, <2>2
<1>2. CASE recv_fd(c)
  BY <1>2 DEF recv_fd
<1>3. CASE SetUp(c)
  BY <1>3, PatternsTyped DEF SetUp
<1>4. CASE Post(c)
  <2>1. todo' \in [Clients -> SUBSET Offsets] /\ afterPut' \in SUBSET Clients
    BY <1>4 DEF Post
  <2>2. cpc' \in [Clients -> ClientPcs]
    BY <1>4 DEF Post
  <2>. QED
    BY <1>4, <2>1, <2>2 DEF Post
<1>5. CASE PutDone(c)
  BY <1>5 DEF PutDone, server
<1>6. CASE WaitDone(c)
  BY <1>6 DEF WaitDone, server
<1>7. CASE WaitFails(c)
  BY <1>7 DEF WaitFails, server
<1>8. CASE MoveByte(c)
  <2>1. PICK i \in todo[c] :
          /\ todo' = [todo EXCEPT ![c] = @ \ {i}]
          /\ IF mode[c] = "put"
               THEN buf' = [buf EXCEPT ![i] = lbuf[c][i]] /\ UNCHANGED lbuf
               ELSE /\ cpc[c] = "get"
                    /\ lbuf' = [lbuf EXCEPT ![c][i] = buf[i]]
                    /\ UNCHANGED buf
    BY <1>8 DEF MoveByte
  <2>2. i \in Offsets
    BY <2>1
  <2>3. todo' \in [Clients -> SUBSET Offsets]
    BY <2>1
  <2>4. buf' \in [Offsets -> Bytes] /\ lbuf' \in [Clients -> [Offsets -> Bytes]]
    <3>1. lbuf[c] \in [Offsets -> Bytes] /\ buf[i] \in Bytes /\ lbuf[c][i] \in Bytes
      BY <2>2
    <3>2. [lbuf[c] EXCEPT ![i] = buf[i]] \in [Offsets -> Bytes]
      BY <3>1, <2>2
    <3>3. CASE mode[c] = "put"
      BY <2>1, <2>2, <3>1, <3>3
    <3>4. CASE mode[c] # "put"
      <4>1. lbuf' = [lbuf EXCEPT ![c] = [lbuf[c] EXCEPT ![i] = buf[i]]]
        BY <2>1, <3>4
      <4>. QED
        BY <2>1, <3>2, <3>4, <4>1
    <3>. QED
      BY <3>3, <3>4
  <2>. QED
    BY <1>8, <2>3, <2>4 DEF MoveByte, server
<1>9. CASE ClientDies(c)
  BY <1>9 DEF ClientDies, server
<1>10. CASE ConnectionBreaks(c)
  BY <1>10 DEF ConnectionBreaks, server
<1>. QED
  BY <1>1, <1>2, <1>3, <1>4, <1>5, <1>6, <1>7, <1>8, <1>9, <1>10 DEF ClientStep

\* Every initial state has the types.
LEMMA TypedInit == Init => RmaTypeOK
<1>. SUFFICES ASSUME Init PROVE RmaTypeOK
  OBVIOUS
<1>1. buf \in [Offsets -> Bytes] /\ head \in [HeadOffsets -> Bytes]
  BY PatternsTyped, HeadTyped DEF Init
<1>2. lbuf \in [Clients -> [Offsets -> Bytes]]
  BY BaseAssumption DEF Init, Bytes
<1>3. backlog \in Seq(Clients) /\ Len(backlog) <= Backlog
  BY BacklogAssumption DEF Init
<1>. QED
  BY <1>1, <1>2, <1>3 DEF Init, RmaTypeOK, ServerPcs, ClientPcs

\* Every step keeps the types.
LEMMA TypedNext == RmaTypeOK /\ [Next]_vars => RmaTypeOK'
<1>. SUFFICES ASSUME RmaTypeOK, [Next]_vars PROVE RmaTypeOK'
  OBVIOUS
<1>1. CASE ServerStep \/ ServerKilled
  BY <1>1, TypedServer
<1>2. CASE \E c \in Clients : \/ ClientStep(c) \/ WaitFails(c) \/ MoveByte(c)
                              \/ ClientDies(c) \/ ConnectionBreaks(c)
  BY <1>2, TypedClient
<1>3. CASE UNCHANGED vars
  BY <1>3 DEF vars, RmaTypeOK
<1>. QED
  BY <1>1, <1>2, <1>3 DEF Next

\* Type correctness of the RMA demo's model.
THEOREM RmaTypeCorrect == Spec => []RmaTypeOK
BY TypedInit, TypedNext, PTL DEF Spec

--------------------------------------------------------------------------------
(***************************************************************************)
(* The inductive invariant.                                                *)
(***************************************************************************)

\* Every initial state satisfies it: nothing has moved.
LEMMA InvInit == Init => RmaInv
<1>. SUFFICES ASSUME Init PROVE RmaInv
  OBVIOUS
<1>1. \A i \in HeadOffsets : head[i] = ServerPattern[i]
  BY DEF Init, Head16
<1>2. \A c \in Clients : cpc[c] = "start" /\ todo[c] = {}
  BY DEF Init
<1>3. OpOfMode /\ PutSource
  BY <1>2 DEF OpOfMode, PutSource
<1>4. BufHolds /\ GetHolds
  BY <1>2 DEF BufHolds, GetHolds, Init
<1>. QED
  BY TypedInit, <1>1, <1>3, <1>4 DEF RmaInv, HeadHolds

\* A step that touches neither the transfers nor the clients' progress keeps it:
\* all that the server's loop does, and broken connections.
LEMMA InvServer ==
    ASSUME RmaInv, UNCHANGED <<mode, buf, cpc, lbuf, todo, afterPut>>,
           UNCHANGED head \/ head' = Head16(buf)
    PROVE  (OpOfMode /\ PutSource /\ BufHolds /\ GetHolds /\ HeadHolds)'
<1>1. (OpOfMode /\ PutSource /\ BufHolds /\ GetHolds)'
  BY DEF RmaInv, OpOfMode, PutSource, BufHolds, GetHolds
<1>2. HeadHolds'
  <2>1. \A i \in HeadOffsets : i \in Offsets
    BY DEF HeadOffsets
  <2>2. CASE UNCHANGED head
    BY <2>2 DEF RmaInv, HeadHolds
  <2>3. CASE head' = Head16(buf)
    BY <2>1, <2>3 DEF RmaInv, HeadHolds, BufHolds, Head16
  <2>. QED
    BY <2>2, <2>3
<1>. QED
  BY <1>1, <1>2

\* A step of client c that moves no byte keeps it if the client only advances
\* without claiming more than its transfer did.
LEMMA InvClient ==
    ASSUME RmaInv, NEW c \in Clients,
           UNCHANGED <<mode, buf, head, todo, lbuf, afterPut>>,
           NEW x \in ClientPcs,
           cpc' = [cpc EXCEPT ![c] = x],
           \/ x \in {"failed", "dead"}
           \/ x \in {"hs", "setup"} /\ cpc[c] \in {"start", "hs"}
           \/ x = "flush" /\ cpc[c] = "put"
           \/ x = "done" /\ cpc[c] \in {"flush", "get"} /\ todo[c] = {}
    PROVE  (OpOfMode /\ PutSource /\ BufHolds /\ GetHolds /\ HeadHolds)'
<1>1. cpc \in [Clients -> ClientPcs]
  BY DEF RmaInv, RmaTypeOK
<1>2. \A d \in Clients : cpc'[d] = IF d = c THEN x ELSE cpc[d]
  BY <1>1
<1>3. OpOfMode'
  BY <1>2 DEF RmaInv, OpOfMode
<1>4. PutSource'
  BY <1>2 DEF RmaInv, PutSource
<1>5. BufHolds'
  BY <1>2 DEF RmaInv, BufHolds, OpOfMode
<1>6. GetHolds'
  BY <1>2 DEF RmaInv, GetHolds, OpOfMode
<1>7. HeadHolds'
  BY DEF RmaInv, HeadHolds
<1>. QED
  BY <1>3, <1>4, <1>5, <1>6, <1>7

\* The local buffer of a put is filled before it is posted.
LEMMA InvSetUp ==
    ASSUME RmaInv, NEW c \in Clients, SetUp(c)
    PROVE  (OpOfMode /\ PutSource /\ BufHolds /\ GetHolds /\ HeadHolds)'
<1>0. cpc \in [Clients -> ClientPcs] /\ lbuf \in [Clients -> [Offsets -> Bytes]]
  BY DEF RmaInv, RmaTypeOK
<1>1. UNCHANGED <<mode, buf, head, todo, afterPut>> /\ cpc[c] = "setup"
  BY DEF SetUp
<1>2. PICK x \in {"post", "failed"} : cpc' = [cpc EXCEPT ![c] = x]
  BY DEF SetUp
<1>3. \A d \in Clients : cpc'[d] = IF d = c THEN x ELSE cpc[d]
  BY <1>0, <1>2
<1>4. \A d \in Clients \ {c} : lbuf'[d] = lbuf[d]
  BY <1>0 DEF SetUp
<1>5. x = "post" /\ mode[c] = "put" => lbuf'[c] = PutPattern
  BY <1>0, <1>2, <1>3 DEF SetUp
<1>6. todo[c] = {}
  BY <1>1 DEF RmaInv, OpOfMode
<1>7. OpOfMode'
  BY <1>1, <1>3, <1>6 DEF RmaInv, OpOfMode
<1>8. PutSource'
  BY <1>1, <1>3, <1>4, <1>5, <1>6 DEF RmaInv, PutSource
<1>9. BufHolds'
  BY <1>1, <1>3 DEF RmaInv, BufHolds
<1>10. GetHolds'
  BY <1>1, <1>3, <1>4 DEF RmaInv, GetHolds
<1>11. HeadHolds'
  BY <1>1 DEF RmaInv, HeadHolds
<1>. QED
  BY <1>7, <1>8, <1>9, <1>10, <1>11

\* A reported put is in the buffer, in every byte: this is what the flush is for.
LEMMA ReportedPutIsThere == RmaInv /\ PutReported => buf = PutPattern
<1>. SUFFICES ASSUME RmaInv, PutReported PROVE buf = PutPattern
  OBVIOUS
<1>1. PICK p \in Clients : mode[p] = "put" /\ cpc[p] = "done"
  BY DEF PutReported
<1>2. todo[p] = {}
  BY <1>1 DEF RmaInv, OpOfMode
<1>3. \A i \in Offsets : buf[i] = PutPattern[i]
  BY <1>1, <1>2 DEF RmaInv, BufHolds
<1>4. buf \in [Offsets -> Bytes] /\ PutPattern \in [Offsets -> Bytes]
  BY PatternsTyped DEF RmaInv, RmaTypeOK
<1>. QED
  BY <1>3, <1>4

\* Issuing the operation: none of its bytes has moved.
LEMMA InvPost ==
    ASSUME RmaInv, NEW c \in Clients, Post(c)
    PROVE  (OpOfMode /\ PutSource /\ BufHolds /\ GetHolds /\ HeadHolds)'
<1>0. /\ cpc \in [Clients -> ClientPcs]
      /\ todo \in [Clients -> SUBSET Offsets]
      /\ mode \in [Clients -> {"put", "get"}]
  BY DEF RmaInv, RmaTypeOK
<1>1. UNCHANGED <<mode, buf, head, lbuf>> /\ cpc[c] = "post"
  BY DEF Post
<1>2. CASE cpc' = [cpc EXCEPT ![c] = "failed"] /\ UNCHANGED <<todo, afterPut>>
  BY <1>1, <1>2, InvClient DEF ClientPcs
<1>3. CASE /\ todo' = [todo EXCEPT ![c] = Offsets]
           /\ cpc' = [cpc EXCEPT ![c] = mode[c]]
           /\ afterPut' = IF mode[c] = "get" /\ PutReported THEN afterPut \cup {c} ELSE afterPut
  <2>1. \A d \in Clients : /\ cpc'[d] = IF d = c THEN mode[c] ELSE cpc[d]
                           /\ todo'[d] = IF d = c THEN Offsets ELSE todo[d]
    BY <1>0, <1>3
  <2>2. OpOfMode'
    BY <1>0, <1>1, <2>1 DEF RmaInv, OpOfMode
  <2>3. PutSource'
    BY <1>1, <2>1 DEF RmaInv, PutSource
  <2>4. BufHolds'
    BY <1>1, <2>1 DEF RmaInv, BufHolds
  <2>5. afterPut' # {} => buf = PutPattern
    BY <1>3, ReportedPutIsThere DEF RmaInv, GetHolds
  <2>6. \A d \in Clients \ {c} : d \in afterPut' <=> d \in afterPut
    BY <1>3
  <2>7. GetHolds'
    BY <1>1, <2>1, <2>5, <2>6 DEF RmaInv, GetHolds
  <2>8. HeadHolds'
    BY <1>1 DEF RmaInv, HeadHolds
  <2>. QED
    BY <2>2, <2>3, <2>4, <2>7, <2>8
<1>. QED
  BY <1>2, <1>3 DEF Post

\* One byte moves: a put can only write the PUT pattern, a get can only read
\* what the buffer holds.
LEMMA InvMove ==
    ASSUME RmaInv, NEW c \in Clients, MoveByte(c)
    PROVE  (OpOfMode /\ PutSource /\ BufHolds /\ GetHolds /\ HeadHolds)'
<1>0. /\ todo \in [Clients -> SUBSET Offsets]
      /\ buf \in [Offsets -> Bytes]
      /\ lbuf \in [Clients -> [Offsets -> Bytes]]
      /\ PutPattern \in [Offsets -> Bytes]
  BY PatternsTyped DEF RmaInv, RmaTypeOK
<1>1. UNCHANGED <<mode, head, cpc, afterPut>>
  BY DEF MoveByte, server
<1>2. PICK i \in todo[c] :
        /\ todo' = [todo EXCEPT ![c] = @ \ {i}]
        /\ IF mode[c] = "put"
             THEN buf' = [buf EXCEPT ![i] = lbuf[c][i]] /\ UNCHANGED lbuf
             ELSE /\ cpc[c] = "get"
                  /\ lbuf' = [lbuf EXCEPT ![c][i] = buf[i]]
                  /\ UNCHANGED buf
  BY DEF MoveByte
<1>3. i \in Offsets
  BY <1>0, <1>2
<1>4. \A d \in Clients : todo'[d] = IF d = c THEN todo[c] \ {i} ELSE todo[d]
  BY <1>0, <1>2
<1>5. OpOfMode'
  BY <1>1, <1>4 DEF RmaInv, OpOfMode
<1>6. CASE mode[c] = "put"
  <2>1. lbuf[c] = PutPattern
    BY <1>2, <1>6 DEF RmaInv, PutSource
  <2>2. \A j \in Offsets : buf'[j] = IF j = i THEN PutPattern[j] ELSE buf[j]
    BY <1>0, <1>2, <1>3, <1>6, <2>1
  <2>3. buf' \in [Offsets -> Bytes]
    BY <1>0, <1>2, <1>3, <1>6, <2>1
  <2>4. UNCHANGED lbuf
    BY <1>2, <1>6
  <2>5. PutSource'
    BY <1>1, <1>4, <2>4 DEF RmaInv, PutSource
  <2>6. BufHolds'
    BY <1>1, <1>4, <2>2 DEF RmaInv, BufHolds
  <2>7. afterPut # {} => buf' = PutPattern
    BY <1>0, <2>2, <2>3 DEF RmaInv, GetHolds
  <2>8. GetHolds'
    BY <1>1, <1>4, <1>6, <2>4, <2>7 DEF RmaInv, GetHolds
  <2>9. HeadHolds'
    <3>1. \A j \in HeadOffsets : j \in Offsets
      BY DEF HeadOffsets
    <3>. QED
      BY <1>1, <2>2, <3>1 DEF RmaInv, HeadHolds
  <2>. QED
    BY <1>5, <2>5, <2>6, <2>8, <2>9
<1>7. CASE mode[c] # "put"
  <2>1. UNCHANGED buf /\ lbuf' = [lbuf EXCEPT ![c][i] = buf[i]]
    BY <1>2, <1>7
  <2>2. \A d \in Clients \ {c} : lbuf'[d] = lbuf[d]
    BY <1>0, <2>1
  <2>3. \A j \in Offsets : lbuf'[c][j] = IF j = i THEN buf[j] ELSE lbuf[c][j]
    BY <1>0, <1>3, <2>1
  <2>4. PutSource'
    BY <1>1, <1>4, <1>7, <2>2 DEF RmaInv, PutSource
  <2>5. BufHolds'
    BY <1>1, <1>4, <1>7, <2>1 DEF RmaInv, BufHolds
  <2>6. \A j \in Offsets : /\ buf[j] \in {ServerPattern[j], PutPattern[j]}
                           /\ c \in afterPut => buf[j] = PutPattern[j]
    BY DEF RmaInv, BufHolds, GetHolds
  <2>7. GetHolds'
    <3>1. (afterPut # {} => buf = PutPattern)'
      BY <1>1, <2>1 DEF RmaInv, GetHolds
    <3>2. ASSUME NEW d \in Clients, mode[d] = "get", cpc[d] \in {"get", "done"},
                 NEW j \in Offsets \ todo'[d]
          PROVE  /\ lbuf'[d][j] \in {ServerPattern[j], PutPattern[j]}
                 /\ d \in afterPut => lbuf'[d][j] = PutPattern[j]
      <4>1. CASE d # c
        BY <3>2, <4>1, <1>4, <2>2 DEF RmaInv, GetHolds
      <4>2. CASE d = c
        BY <3>2, <4>2, <1>4, <2>3, <2>6 DEF RmaInv, GetHolds
      <4>. QED
        BY <4>1, <4>2
    <3>. QED
      BY <1>1, <3>1, <3>2 DEF GetHolds
  <2>8. HeadHolds'
    BY <1>1, <2>1 DEF RmaInv, HeadHolds
  <2>. QED
    BY <1>5, <2>4, <2>5, <2>7, <2>8
<1>. QED
  BY <1>6, <1>7

\* Every step keeps the invariant.
LEMMA InvNext == RmaInv /\ [Next]_vars => RmaInv'
<1>. SUFFICES ASSUME RmaInv, [Next]_vars
              PROVE  (OpOfMode /\ PutSource /\ BufHolds /\ GetHolds /\ HeadHolds)'
  BY TypedNext DEF RmaInv
<1>1. CASE ServerStep \/ ServerKilled \/ UNCHANGED vars
  <2>1. /\ UNCHANGED <<mode, buf, cpc, lbuf, todo, afterPut>>
        /\ UNCHANGED head \/ head' = Head16(buf)
    BY <1>1 DEF ServerStep, StartServer, Progressed, accept_nonblock, send_fd, PrintHead,
                NoPrint, ServerKilled, vars
  <2>. QED
    BY <2>1, InvServer
<1>2. ASSUME NEW c \in Clients,
             ClientStep(c) \/ WaitFails(c) \/ MoveByte(c) \/ ClientDies(c) \/ ConnectionBreaks(c)
      PROVE  (OpOfMode /\ PutSource /\ BufHolds /\ GetHolds /\ HeadHolds)'
  <2>1. CASE Connect(c)
    <3>1. PICK x \in {"hs", "failed"} : cpc' = [cpc EXCEPT ![c] = x]
      BY <2>1 DEF Connect
    <3>. QED
      BY <2>1, <3>1, InvClient DEF Connect, ClientPcs
  <2>2. CASE recv_fd(c)
    <3>1. PICK x \in {"setup", "failed"} : cpc' = [cpc EXCEPT ![c] = x]
      BY <2>2 DEF recv_fd
    <3>. QED
      BY <2>2, <3>1, InvClient DEF recv_fd, ClientPcs
  <2>3. CASE SetUp(c)
    BY <2>3, InvSetUp
  <2>4. CASE Post(c)
    BY <2>4, InvPost
  <2>5. CASE PutDone(c)
    <3>1. PICK x \in {"flush", "failed"} : cpc' = [cpc EXCEPT ![c] = x]
      BY <2>5 DEF PutDone
    <3>. QED
      BY <2>5, <3>1, InvClient DEF PutDone, server, ClientPcs
  <2>6. CASE WaitDone(c)
    BY <2>6, InvClient DEF WaitDone, server, ClientPcs
  <2>7. CASE WaitFails(c)
    BY <2>7, InvClient DEF WaitFails, server, ClientPcs
  <2>8. CASE MoveByte(c)
    BY <2>8, InvMove
  <2>9. CASE ClientDies(c)
    BY <2>9, InvClient DEF ClientDies, server, ClientPcs
  <2>10. CASE ConnectionBreaks(c)
    BY <2>10, InvServer DEF ConnectionBreaks, server
  <2>. QED
    BY <1>2, <2>1, <2>2, <2>3, <2>4, <2>5, <2>6, <2>7, <2>8, <2>9, <2>10 DEF ClientStep
<1>. QED
  BY <1>1, <1>2 DEF Next

--------------------------------------------------------------------------------
(***************************************************************************)
(* The theorems.                                                           *)
(***************************************************************************)

\* The invariant holds in every reachable state.
THEOREM RmaInductive == Spec => []RmaInv
BY InvInit, InvNext, PTL DEF Spec

\* A GET issued after a reported PUT returns the PUT pattern (client.cpp's put,
\* wait, flush, wait), for any number of clients, bytes and faults.
THEOREM GetAfterPut == Spec => []GetReflectsPut
<1>1. RmaInv => GetReflectsPut
  <2>. SUFFICES ASSUME RmaInv, NEW c \in Clients, mode[c] = "get", cpc[c] = "done"
                PROVE  IF c \in afterPut THEN lbuf[c] = PutPattern
                       ELSE \A i \in Offsets : lbuf[c][i] \in {ServerPattern[i], PutPattern[i]}
    BY DEF GetReflectsPut
  <2>1. todo[c] = {}
    BY DEF RmaInv, OpOfMode
  <2>2. \A i \in Offsets : /\ lbuf[c][i] \in {ServerPattern[i], PutPattern[i]}
                           /\ c \in afterPut => lbuf[c][i] = PutPattern[i]
    BY <2>1 DEF RmaInv, GetHolds
  <2>3. lbuf[c] \in [Offsets -> Bytes] /\ PutPattern \in [Offsets -> Bytes]
    BY PatternsTyped DEF RmaInv, RmaTypeOK
  <2>. QED
    BY <2>2, <2>3
<1>. QED
  BY <1>1, RmaInductive, PTL

\* The head the server prints never goes back to the pattern it started with.
THEOREM HeadKeepsPut == Spec => HeadNeverReverts
<1>1. RmaInv /\ RmaInv' /\ [Next]_vars =>
        [\A i \in HeadOffsets : head[i] # ServerPattern[i] => head'[i] = head[i]]_vars
  <2>. SUFFICES ASSUME RmaInv, [Next]_vars, NEW i \in HeadOffsets, head[i] # ServerPattern[i]
                PROVE  head'[i] = head[i]
    OBVIOUS
  <2>1. UNCHANGED head \/ head' = Head16(buf)
    BY DEF Next, ServerStep, ClientStep, StartServer, Progressed, accept_nonblock, send_fd,
           PrintHead, NoPrint, ServerKilled, Connect, recv_fd, SetUp, Post, PutDone, WaitDone,
           WaitFails, MoveByte, ClientDies, ConnectionBreaks, server, vars
  <2>2. head[i] = PutPattern[i] /\ buf[i] = PutPattern[i]
    BY DEF RmaInv, HeadHolds
  <2>. QED
    BY <2>1, <2>2 DEF Head16
<1>. QED
  BY <1>1, RmaInductive, PTL DEF Spec, HeadNeverReverts

================================================================================
