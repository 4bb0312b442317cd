-------------------------- MODULE UcpHelloWorldProofs --------------------------
(***************************************************************************)
(* Theorems about the UCP hello world, for every set of faults.            *)
(***************************************************************************)
EXTENDS UcpHelloWorld, TLAPS

(***************************************************************************)
(* Type correctness.                                                       *)
(***************************************************************************)

\* What a send() on the socket does to the two sides of it: the item is put on the
\* socket and p goes on, or p ends in one of the ways of a failing send().
LEMMA SendOobEffect ==
    ASSUME HelloTypeOK, NEW p \in Procs, NEW item \in {"len", "addr", "bar"},
           NEW next \in Pcs, SendOob(p, item, next)
    PROVE  /\ oob' \in [Procs -> Seq({"len", "addr", "bar"})]
           /\ net' \in [Procs -> Seq(Texts)]
           /\ \/ /\ oob' = [oob EXCEPT ![Other(p)] = Append(@, item)]
                 /\ Len(oob'[Other(p)]) = Len(oob[Other(p)]) + 1
                 /\ oob'[p] = oob[p]
                 /\ pc'[p] = next /\ pc'[Other(p)] = pc[Other(p)]
                 /\ ret' = ret /\ shown' = shown
              \/ /\ oob' = oob /\ shown' = shown
                 /\ PeerClosed(p) /\ pc'[Other(p)] = pc[Other(p)]
                 /\ pc'[p] \in {next, "close", "dead"}
                 /\ ret' = ret \/ ret' = [ret EXCEPT ![p] = "nonzero"]
  <1>1. /\ Other(p) \in Procs /\ Other(p) # p
        /\ oob \in [Procs -> Seq({"len", "addr", "bar"})]
        /\ oob[Other(p)] \in Seq({"len", "addr", "bar"})
        /\ net \in [Procs -> Seq(Texts)]
        /\ pc \in [Procs -> Pcs]
    BY DEF HelloTypeOK, Other, Procs
  <1>2. CASE /\ ~PeerClosed(p)
             /\ oob' = [oob EXCEPT ![Other(p)] = Append(@, item)]
             /\ Goto(p, next)
             /\ UNCHANGED <<ret, sock, ucx>>
    <2>1. Append(oob[Other(p)], item) \in Seq({"len", "addr", "bar"})
      BY <1>1
    <2>2. oob'[Other(p)] = Append(oob[Other(p)], item) /\ oob'[p] = oob[p]
      BY <1>1, <1>2
    <2>3. oob' \in [Procs -> Seq({"len", "addr", "bar"})]
      BY <1>1, <1>2, <2>1
    <2>4. Len(oob'[Other(p)]) = Len(oob[Other(p)]) + 1
      BY <1>1, <2>2
    <2>5. /\ pc'[p] = next /\ pc'[Other(p)] = pc[Other(p)]
          /\ ret' = ret /\ shown' = shown /\ net' = net
      BY <1>1, <1>2 DEF Goto, ucx
    <2> QED
      BY <1>1, <1>2, <2>2, <2>3, <2>4, <2>5
  <1>3. CASE /\ PeerClosed(p) /\ oob' = oob
             /\ Goto(p, next)
             /\ UNCHANGED <<ret, sock, ucx>>
    <2>1. pc'[p] = next /\ pc'[Other(p)] = pc[Other(p)]
      BY <1>1, <1>3 DEF Goto
    <2> QED
      BY <1>1, <1>3, <2>1 DEF ucx
  <1>4. CASE /\ PeerClosed(p)
             /\ Leave(p, "nonzero")
             /\ UNCHANGED <<oob, sock, ucx>>
    <2>1. pc'[p] = "close" /\ pc'[Other(p)] = pc[Other(p)]
      BY <1>1, <1>4 DEF Leave, Goto
    <2> QED
      BY <1>1, <1>4, <2>1 DEF ucx, Leave
  <1>5. CASE PeerClosed(p) /\ EndProcess(p, "dead")
    <2>1. pc'[p] = "dead" /\ pc'[Other(p)] = pc[Other(p)]
      BY <1>1, <1>5 DEF EndProcess, Goto
    <2>2. net' \in [Procs -> Seq(Texts)]
      BY <1>1, <1>5 DEF EndProcess
    <2> QED
      BY <1>1, <1>5, <2>1, <2>2 DEF EndProcess
  <1> QED
    BY <1>2, <1>3, <1>4, <1>5 DEF SendOob

\* InitUcp keeps it.
LEMMA Type_InitUcp ==
    ASSUME HelloTypeOK, NEW p \in Procs, InitUcp(p)
    PROVE  HelloTypeOK'
  <1> USE DEF HelloTypeOK, Procs, InitUcp, Goto, Leave
  <1>1. (rndv \in [Procs -> BOOLEAN])'
    OBVIOUS
  <1>2. (pc \in [Procs -> Pcs])'
    BY DEF Pcs
  <1>3. (ret \in [Procs -> {"unset", "zero", "nonzero"}])'
    OBVIOUS
  <1>4. (sock \in [Procs -> {"none", "open", "closed"}])'
    OBVIOUS
  <1>5. (oob \in [Procs -> Seq({"len", "addr", "bar"})])'
    BY DEF Other
  <1>6. (net \in [Procs -> Seq(Texts)])'
    BY DEF Other
  <1>7. (arrived \in [Procs -> Seq(Texts)])'
    OBVIOUS
  <1>8. (req \in [Procs -> {"none", "busy", "done"}])'
    OBVIOUS
  <1>9. (msg \in [Procs -> {"null", "host", "cuda", "freed", "misfreed"}])'
    OBVIOUS
  <1>10. (ep \in [Procs -> {"none", "open", "destroyed"}])'
    OBVIOUS
  <1>11. (worker \in [Procs -> {"none", "up", "destroyed"}])'
    OBVIOUS
  <1>12. (text \in [Procs -> Texts \cup {"none"}] /\ shown \in Texts \cup {"none"})'
    OBVIOUS
  <1>13. (spoiled \subseteq Spoilers)'
    OBVIOUS
  <1> QED
    BY <1>1, <1>2, <1>3, <1>4, <1>5, <1>6, <1>7, <1>8, <1>9, <1>10, <1>11, <1>12, <1>13

\* Connect keeps it.
LEMMA Type_Connect ==
    ASSUME HelloTypeOK, Connect
    PROVE  HelloTypeOK'
  <1> USE DEF HelloTypeOK, Procs, Connect, ucx
  <1>1. (rndv \in [Procs -> BOOLEAN])'
    OBVIOUS
  <1>2. (pc \in [Procs -> Pcs])'
    BY DEF Pcs
  <1>3. (ret \in [Procs -> {"unset", "zero", "nonzero"}])'
    OBVIOUS
  <1>4. (sock \in [Procs -> {"none", "open", "closed"}])'
    OBVIOUS
  <1>5. (oob \in [Procs -> Seq({"len", "addr", "bar"})])'
    BY DEF Other
  <1>6. (net \in [Procs -> Seq(Texts)])'
    BY DEF Other
  <1>7. (arrived \in [Procs -> Seq(Texts)])'
    OBVIOUS
  <1>8. (req \in [Procs -> {"none", "busy", "done"}])'
    OBVIOUS
  <1>9. (msg \in [Procs -> {"null", "host", "cuda", "freed", "misfreed"}])'
    OBVIOUS
  <1>10. (ep \in [Procs -> {"none", "open", "destroyed"}])'
    OBVIOUS
  <1>11. (worker \in [Procs -> {"none", "up", "destroyed"}])'
    OBVIOUS
  <1>12. (text \in [Procs -> Texts \cup {"none"}] /\ shown \in Texts \cup {"none"})'
    OBVIOUS
  <1>13. (spoiled \subseteq Spoilers)'
    OBVIOUS
  <1> QED
    BY <1>1, <1>2, <1>3, <1>4, <1>5, <1>6, <1>7, <1>8, <1>9, <1>10, <1>11, <1>12, <1>13

\* ConnectFails keeps it.
LEMMA Type_ConnectFails ==
    ASSUME HelloTypeOK, NEW p \in Procs, ConnectFails(p)
    PROVE  HelloTypeOK'
  <1> USE DEF HelloTypeOK, Procs, ConnectFails, Goto, Leave, ucx
  <1>1. (rndv \in [Procs -> BOOLEAN])'
    OBVIOUS
  <1>2. (pc \in [Procs -> Pcs])'
    BY DEF Pcs
  <1>3. (ret \in [Procs -> {"unset", "zero", "nonzero"}])'
    OBVIOUS
  <1>4. (sock \in [Procs -> {"none", "open", "closed"}])'
    OBVIOUS
  <1>5. (oob \in [Procs -> Seq({"len", "addr", "bar"})])'
    BY DEF Other
  <1>6. (net \in [Procs -> Seq(Texts)])'
    BY DEF Other
  <1>7. (arrived \in [Procs -> Seq(Texts)])'
    OBVIOUS
  <1>8. (req \in [Procs -> {"none", "busy", "done"}])'
    OBVIOUS
  <1>9. (msg \in [Procs -> {"null", "host", "cuda", "freed", "misfreed"}])'
    OBVIOUS
  <1>10. (ep \in [Procs -> {"none", "open", "destroyed"}])'
    OBVIOUS
  <1>11. (worker \in [Procs -> {"none", "up", "destroyed"}])'
    OBVIOUS
  <1>12. (text \in [Procs -> Texts \cup {"none"}] /\ shown \in Texts \cup {"none"})'
    OBVIOUS
  <1>13. (spoiled \subseteq Spoilers)'
    OBVIOUS
  <1> QED
    BY <1>1, <1>2, <1>3, <1>4, <1>5, <1>6, <1>7, <1>8, <1>9, <1>10, <1>11, <1>12, <1>13

\* SendLen keeps it.
LEMMA Type_SendLen ==
    ASSUME HelloTypeOK, SendLen
    PROVE  HelloTypeOK'
  <1> USE DEF HelloTypeOK, Procs, SendLen, SendOob, Goto, Leave, EndProcess, DestroyEp,
     PeerClosed, ucx
  <1>1. (rndv \in [Procs -> BOOLEAN])'
    OBVIOUS
  <1>2. (pc \in [Procs -> Pcs])'
    BY DEF Pcs
  <1>3. (ret \in [Procs -> {"unset", "zero", "nonzero"}])'
    OBVIOUS
  <1>4. (sock \in [Procs -> {"none", "open", "closed"}])'
    OBVIOUS
  <1>5. (oob \in [Procs -> Seq({"len", "addr", "bar"})])'
    BY SendOobEffect DEF Pcs
  <1>6. (net \in [Procs -> Seq(Texts)])'
    BY SendOobEffect DEF Pcs
  <1>7. (arrived \in [Procs -> Seq(Texts)])'
    OBVIOUS
  <1>8. (req \in [Procs -> {"none", "busy", "done"}])'
    OBVIOUS
  <1>9. (msg \in [Procs -> {"null", "host", "cuda", "freed", "misfreed"}])'
    OBVIOUS
  <1>10. (ep \in [Procs -> {"none", "open", "destroyed"}])'
    OBVIOUS
  <1>11. (worker \in [Procs -> {"none", "up", "destroyed"}])'
    OBVIOUS
  <1>12. (text \in [Procs -> Texts \cup {"none"}] /\ shown \in Texts \cup {"none"})'
    OBVIOUS
  <1>13. (spoiled \subseteq Spoilers)'
    OBVIOUS
  <1> QED
    BY <1>1, <1>2, <1>3, <1>4, <1>5, <1>6, <1>7, <1>8, <1>9, <1>10, <1>11, <1>12, <1>13

\* SendAddr keeps it.
LEMMA Type_SendAddr ==
    ASSUME HelloTypeOK, SendAddr
    PROVE  HelloTypeOK'
  <1> USE DEF HelloTypeOK, Procs, SendAddr, SendOob, Goto, Leave, EndProcess, DestroyEp,
     PeerClosed, ucx
  <1>1. (rndv \in [Procs -> BOOLEAN])'
    OBVIOUS
  <1>2. (pc \in [Procs -> Pcs])'
    BY DEF Pcs
  <1>3. (ret \in [Procs -> {"unset", "zero", "nonzero"}])'
    OBVIOUS
  <1>4. (sock \in [Procs -> {"none", "open", "closed"}])'
    OBVIOUS
  <1>5. (oob \in [Procs -> Seq({"len", "addr", "bar"})])'
    BY SendOobEffect DEF Pcs
  <1>6. (net \in [Procs -> Seq(Texts)])'
    BY SendOobEffect DEF Pcs
  <1>7. (arrived \in [Procs -> Seq(Texts)])'
    OBVIOUS
  <1>8. (req \in [Procs -> {"none", "busy", "done"}])'
    OBVIOUS
  <1>9. (msg \in [Procs -> {"null", "host", "cuda", "freed", "misfreed"}])'
    OBVIOUS
  <1>10. (ep \in [Procs -> {"none", "open", "destroyed"}])'
    OBVIOUS
  <1>11. (worker \in [Procs -> {"none", "up", "destroyed"}])'
    OBVIOUS
  <1>12. (text \in [Procs -> Texts \cup {"none"}] /\ shown \in Texts \cup {"none"})'
    OBVIOUS
  <1>13. (spoiled \subseteq Spoilers)'
    OBVIOUS
  <1> QED
    BY <1>1, <1>2, <1>3, <1>4, <1>5, <1>6, <1>7, <1>8, <1>9, <1>10, <1>11, <1>12, <1>13

\* RecvLen keeps it.
LEMMA Type_RecvLen ==
    ASSUME HelloTypeOK, RecvLen
    PROVE  HelloTypeOK'
  <1> USE DEF HelloTypeOK, Procs, RecvLen, RecvOob, Goto, ucx
  <1>1. (rndv \in [Procs -> BOOLEAN])'
    OBVIOUS
  <1>2. (pc \in [Procs -> Pcs])'
    BY DEF Pcs
  <1>3. (ret \in [Procs -> {"unset", "zero", "nonzero"}])'
    OBVIOUS
  <1>4. (sock \in [Procs -> {"none", "open", "closed"}])'
    OBVIOUS
  <1>5. (oob \in [Procs -> Seq({"len", "addr", "bar"})])'
    BY DEF Other
  <1>6. (net \in [Procs -> Seq(Texts)])'
    BY DEF Other
  <1>7. (arrived \in [Procs -> Seq(Texts)])'
    OBVIOUS
  <1>8. (req \in [Procs -> {"none", "busy", "done"}])'
    OBVIOUS
  <1>9. (msg \in [Procs -> {"null", "host", "cuda", "freed", "misfreed"}])'
    OBVIOUS
  <1>10. (ep \in [Procs -> {"none", "open", "destroyed"}])'
    OBVIOUS
  <1>11. (worker \in [Procs -> {"none", "up", "destroyed"}])'
    OBVIOUS
  <1>12. (text \in [Procs -> Texts \cup {"none"}] /\ shown \in Texts \cup {"none"})'
    OBVIOUS
  <1>13. (spoiled \subseteq Spoilers)'
    OBVIOUS
  <1> QED
    BY <1>1, <1>2, <1>3, <1>4, <1>5, <1>6, <1>7, <1>8, <1>9, <1>10, <1>11, <1>12, <1>13

\* RecvAddr keeps it.
LEMMA Type_RecvAddr ==
    ASSUME HelloTypeOK, RecvAddr
    PROVE  HelloTypeOK'
  <1> USE DEF HelloTypeOK, Procs, RecvAddr, RecvOob, Goto, ucx
  <1>1. (rndv \in [Procs -> BOOLEAN])'
    OBVIOUS
  <1>2. (pc \in [Procs -> Pcs])'
    BY DEF Pcs
  <1>3. (ret \in [Procs -> {"unset", "zero", "nonzero"}])'
    OBVIOUS
  <1>4. (sock \in [Procs -> {"none", "open", "closed"}])'
    OBVIOUS
  <1>5. (oob \in [Procs -> Seq({"len", "addr", "bar"})])'
    BY DEF Other
  <1>6. (net \in [Procs -> Seq(Texts)])'
    BY DEF Other
  <1>7. (arrived \in [Procs -> Seq(Texts)])'
    OBVIOUS
  <1>8. (req \in [Procs -> {"none", "busy", "done"}])'
    OBVIOUS
  <1>9. (msg \in [Procs -> {"null", "host", "cuda", "freed", "misfreed"}])'
    OBVIOUS
  <1>10. (ep \in [Procs -> {"none", "open", "destroyed"}])'
    OBVIOUS
  <1>11. (worker \in [Procs -> {"none", "up", "destroyed"}])'
    OBVIOUS
  <1>12. (text \in [Procs -> Texts \cup {"none"}] /\ shown \in Texts \cup {"none"})'
    OBVIOUS
  <1>13. (spoiled \subseteq Spoilers)'
    OBVIOUS
  <1> QED
    BY <1>1, <1>2, <1>3, <1>4, <1>5, <1>6, <1>7, <1>8, <1>9, <1>10, <1>11, <1>12, <1>13

\* AllocPeerAddrFails keeps it.
LEMMA Type_AllocPeerAddrFails ==
    ASSUME HelloTypeOK, AllocPeerAddrFails
    PROVE  HelloTypeOK'
  <1> USE DEF HelloTypeOK, Procs, AllocPeerAddrFails, Goto, Leave, ucx
  <1>1. (rndv \in [Procs -> BOOLEAN])'
    OBVIOUS
  <1>2. (pc \in [Procs -> Pcs])'
    BY DEF Pcs
  <1>3. (ret \in [Procs -> {"unset", "zero", "nonzero"}])'
    OBVIOUS
  <1>4. (sock \in [Procs -> {"none", "open", "closed"}])'
    OBVIOUS
  <1>5. (oob \in [Procs -> Seq({"len", "addr", "bar"})])'
    BY DEF Other
  <1>6. (net \in [Procs -> Seq(Texts)])'
    BY DEF Other
  <1>7. (arrived \in [Procs -> Seq(Texts)])'
    OBVIOUS
  <1>8. (req \in [Procs -> {"none", "busy", "done"}])'
    OBVIOUS
  <1>9. (msg \in [Procs -> {"null", "host", "cuda", "freed", "misfreed"}])'
    OBVIOUS
  <1>10. (ep \in [Procs -> {"none", "open", "destroyed"}])'
    OBVIOUS
  <1>11. (worker \in [Procs -> {"none", "up", "destroyed"}])'
    OBVIOUS
  <1>12. (text \in [Procs -> Texts \cup {"none"}] /\ shown \in Texts \cup {"none"})'
    OBVIOUS
  <1>13. (spoiled \subseteq Spoilers)'
    OBVIOUS
  <1> QED
    BY <1>1, <1>2, <1>3, <1>4, <1>5, <1>6, <1>7, <1>8, <1>9, <1>10, <1>11, <1>12, <1>13

\* RecvOobFails keeps it.
LEMMA Type_RecvOobFails ==
    ASSUME HelloTypeOK, RecvOobFails
    PROVE  HelloTypeOK'
  <1> USE DEF HelloTypeOK, Procs, RecvOobFails, Goto, Leave, PeerClosed, ucx
  <1>1. (rndv \in [Procs -> BOOLEAN])'
    OBVIOUS
  <1>2. (pc \in [Procs -> Pcs])'
    BY DEF Pcs
  <1>3. (ret \in [Procs -> {"unset", "zero", "nonzero"}])'
    OBVIOUS
  <1>4. (sock \in [Procs -> {"none", "open", "closed"}])'
    OBVIOUS
  <1>5. (oob \in [Procs -> Seq({"len", "addr", "bar"})])'
    BY DEF Other
  <1>6. (net \in [Procs -> Seq(Texts)])'
    BY DEF Other
  <1>7. (arrived \in [Procs -> Seq(Texts)])'
    OBVIOUS
  <1>8. (req \in [Procs -> {"none", "busy", "done"}])'
    OBVIOUS
  <1>9. (msg \in [Procs -> {"null", "host", "cuda", "freed", "misfreed"}])'
    OBVIOUS
  <1>10. (ep \in [Procs -> {"none", "open", "destroyed"}])'
    OBVIOUS
  <1>11. (worker \in [Procs -> {"none", "up", "destroyed"}])'
    OBVIOUS
  <1>12. (text \in [Procs -> Texts \cup {"none"}] /\ shown \in Texts \cup {"none"})'
    OBVIOUS
  <1>13. (spoiled \subseteq Spoilers)'
    OBVIOUS
  <1> QED
    BY <1>1, <1>2, <1>3, <1>4, <1>5, <1>6, <1>7, <1>8, <1>9, <1>10, <1>11, <1>12, <1>13

\* PrintString keeps it.
LEMMA Type_PrintString ==
    ASSUME HelloTypeOK, PrintString
    PROVE  HelloTypeOK'
  <1> USE DEF HelloTypeOK, Procs, PrintString, AfterTest, Goto, Leave, Free, DestroyEp,
     SpoilIf
  <1>1. (rndv \in [Procs -> BOOLEAN])'
    OBVIOUS
  <1>2. (pc \in [Procs -> Pcs])'
    BY DEF Pcs
  <1>3. (ret \in [Procs -> {"unset", "zero", "nonzero"}])'
    OBVIOUS
  <1>4. (sock \in [Procs -> {"none", "open", "closed"}])'
    OBVIOUS
  <1>5. (oob \in [Procs -> Seq({"len", "addr", "bar"})])'
    BY DEF Other
  <1>6. (net \in [Procs -> Seq(Texts)])'
    BY DEF Other
  <1>7. (arrived \in [Procs -> Seq(Texts)])'
    OBVIOUS
  <1>8. (req \in [Procs -> {"none", "busy", "done"}])'
    OBVIOUS
  <1>9. (msg \in [Procs -> {"null", "host", "cuda", "freed", "misfreed"}])'
    OBVIOUS
  <1>10. (ep \in [Procs -> {"none", "open", "destroyed"}])'
    OBVIOUS
  <1>11. (worker \in [Procs -> {"none", "up", "destroyed"}])'
    OBVIOUS
  <1>12. (text \in [Procs -> Texts \cup {"none"}] /\ shown \in Texts \cup {"none"})'
    BY DEF Texts
  <1>13. (spoiled \subseteq Spoilers)'
    BY DEF Spoilers
  <1> QED
    BY <1>1, <1>2, <1>3, <1>4, <1>5, <1>6, <1>7, <1>8, <1>9, <1>10, <1>11, <1>12, <1>13

\* flush_ep keeps it.
LEMMA Type_flush_ep ==
    ASSUME HelloTypeOK, flush_ep
    PROVE  HelloTypeOK'
  <1> USE DEF HelloTypeOK, Procs, flush_ep, AfterTest, Goto, Leave, Free, DestroyEp
  <1>1. (rndv \in [Procs -> BOOLEAN])'
    OBVIOUS
  <1>2. (pc \in [Procs -> Pcs])'
    BY DEF Pcs
  <1>3. (ret \in [Procs -> {"unset", "zero", "nonzero"}])'
    OBVIOUS
  <1>4. (sock \in [Procs -> {"none", "open", "closed"}])'
    OBVIOUS
  <1>5. (oob \in [Procs -> Seq({"len", "addr", "bar"})])'
    BY DEF Other
  <1>6. (net \in [Procs -> Seq(Texts)])'
    BY DEF Other
  <1>7. (arrived \in [Procs -> Seq(Texts)])'
    OBVIOUS
  <1>8. (req \in [Procs -> {"none", "busy", "done"}])'
    OBVIOUS
  <1>9. (msg \in [Procs -> {"null", "host", "cuda", "freed", "misfreed"}])'
    OBVIOUS
  <1>10. (ep \in [Procs -> {"none", "open", "destroyed"}])'
    OBVIOUS
  <1>11. (worker \in [Procs -> {"none", "up", "destroyed"}])'
    OBVIOUS
  <1>12. (text \in [Procs -> Texts \cup {"none"}] /\ shown \in Texts \cup {"none"})'
    OBVIOUS
  <1>13. (spoiled \subseteq Spoilers)'
    OBVIOUS
  <1> QED
    BY <1>1, <1>2, <1>3, <1>4, <1>5, <1>6, <1>7, <1>8, <1>9, <1>10, <1>11, <1>12, <1>13

\* CreateEpFails keeps it.
LEMMA Type_CreateEpFails ==
    ASSUME HelloTypeOK, NEW p \in Procs, CreateEpFails(p)
    PROVE  HelloTypeOK'
  <1> USE DEF HelloTypeOK, Procs, CreateEpFails, Goto, Leave, ucx
  <1>1. (rndv \in [Procs -> BOOLEAN])'
    OBVIOUS
  <1>2. (pc \in [Procs -> Pcs])'
    BY DEF Pcs
  <1>3. (ret \in [Procs -> {"unset", "zero", "nonzero"}])'
    OBVIOUS
  <1>4. (sock \in [Procs -> {"none", "open", "closed"}])'
    OBVIOUS
  <1>5. (oob \in [Procs -> Seq({"len", "addr", "bar"})])'
    BY DEF Other
  <1>6. (net \in [Procs -> Seq(Texts)])'
    BY DEF Other
  <1>7. (arrived \in [Procs -> Seq(Texts)])'
    OBVIOUS
  <1>8. (req \in [Procs -> {"none", "busy", "done"}])'
    OBVIOUS
  <1>9. (msg \in [Procs -> {"null", "host", "cuda", "freed", "misfreed"}])'
    OBVIOUS
  <1>10. (ep \in [Procs -> {"none", "open", "destroyed"}])'
    OBVIOUS
  <1>11. (worker \in [Procs -> {"none", "up", "destroyed"}])'
    OBVIOUS
  <1>12. (text \in [Procs -> Texts \cup {"none"}] /\ shown \in Texts \cup {"none"})'
    OBVIOUS
  <1>13. (spoiled \subseteq Spoilers)'
    OBVIOUS
  <1> QED
    BY <1>1, <1>2, <1>3, <1>4, <1>5, <1>6, <1>7, <1>8, <1>9, <1>10, <1>11, <1>12, <1>13

\* SendMsg keeps it.
LEMMA Type_SendMsg ==
    ASSUME HelloTypeOK, NEW p \in Procs, SendMsg(p)
    PROVE  HelloTypeOK'
  <1> USE DEF HelloTypeOK, Procs, SendMsg, Goto, Leave, Alloc, Free, SendKind, SpoilIf
  <1>1. (rndv \in [Procs -> BOOLEAN])'
    OBVIOUS
  <1>2. (pc \in [Procs -> Pcs])'
    BY DEF Pcs
  <1>3. (ret \in [Procs -> {"unset", "zero", "nonzero"}])'
    OBVIOUS
  <1>4. (sock \in [Procs -> {"none", "open", "closed"}])'
    OBVIOUS
  <1>5. (oob \in [Procs -> Seq({"len", "addr", "bar"})])'
    BY DEF Other
  <1>6. (net \in [Procs -> Seq(Texts)])'
    <2>1. Other(p) \in Procs /\ net[Other(p)] \in Seq(Texts)
      BY DEF Other
    <2>2. \A t \in Texts : Append(net[Other(p)], t) \in Seq(Texts)
      BY <2>1
    <2>3. Contents(p) \subseteq Texts
      BY DEF Contents, Texts
    <2>4. \/ net' = net
          \/ \E t \in Texts : net' = [net EXCEPT ![Other(p)] = Append(net[Other(p)], t)]
      BY <2>3
    <2>5. net \in [Procs -> Seq(Texts)]
      OBVIOUS
    <2> HIDE DEF HelloTypeOK, SendMsg
    <2> QED
      BY <2>1, <2>2, <2>4, <2>5
  <1>7. (arrived \in [Procs -> Seq(Texts)])'
    OBVIOUS
  <1>8. (req \in [Procs -> {"none", "busy", "done"}])'
    OBVIOUS
  <1>9. (msg \in [Procs -> {"null", "host", "cuda", "freed", "misfreed"}])'
    OBVIOUS
  <1>10. (ep \in [Procs -> {"none", "open", "destroyed"}])'
    OBVIOUS
  <1>11. (worker \in [Procs -> {"none", "up", "destroyed"}])'
    OBVIOUS
  <1>12. (text \in [Procs -> Texts \cup {"none"}] /\ shown \in Texts \cup {"none"})'
    OBVIOUS
  <1>13. (spoiled \subseteq Spoilers)'
    BY DEF Spoilers
  <1> QED
    BY <1>1, <1>2, <1>3, <1>4, <1>5, <1>6, <1>7, <1>8, <1>9, <1>10, <1>11, <1>12, <1>13

\* send_handler keeps it.
LEMMA Type_send_handler ==
    ASSUME HelloTypeOK, NEW p \in Procs, send_handler(p)
    PROVE  HelloTypeOK'
  <1> USE DEF HelloTypeOK, Procs, send_handler
  <1>1. (rndv \in [Procs -> BOOLEAN])'
    OBVIOUS
  <1>2. (pc \in [Procs -> Pcs])'
    BY DEF Pcs
  <1>3. (ret \in [Procs -> {"unset", "zero", "nonzero"}])'
    OBVIOUS
  <1>4. (sock \in [Procs -> {"none", "open", "closed"}])'
    OBVIOUS
  <1>5. (oob \in [Procs -> Seq({"len", "addr", "bar"})])'
    BY DEF Other
  <1>6. (net \in [Procs -> Seq(Texts)])'
    BY DEF Other
  <1>7. (arrived \in [Procs -> Seq(Texts)])'
    OBVIOUS
  <1>8. (req \in [Procs -> {"none", "busy", "done"}])'
    OBVIOUS
  <1>9. (msg \in [Procs -> {"null", "host", "cuda", "freed", "misfreed"}])'
    OBVIOUS
  <1>10. (ep \in [Procs -> {"none", "open", "destroyed"}])'
    OBVIOUS
  <1>11. (worker \in [Procs -> {"none", "up", "destroyed"}])'
    OBVIOUS
  <1>12. (text \in [Procs -> Texts \cup {"none"}] /\ shown \in Texts \cup {"none"})'
    OBVIOUS
  <1>13. (spoiled \subseteq Spoilers)'
    OBVIOUS
  <1> QED
    BY <1>1, <1>2, <1>3, <1>4, <1>5, <1>6, <1>7, <1>8, <1>9, <1>10, <1>11, <1>12, <1>13

\* SendError keeps it.
LEMMA Type_SendError ==
    ASSUME HelloTypeOK, NEW p \in Procs, SendError(p)
    PROVE  HelloTypeOK'
  <1> USE DEF HelloTypeOK, Procs, SendError
  <1>1. (rndv \in [Procs -> BOOLEAN])'
    OBVIOUS
  <1>2. (pc \in [Procs -> Pcs])'
    BY DEF Pcs
  <1>3. (ret \in [Procs -> {"unset", "zero", "nonzero"}])'
    OBVIOUS
  <1>4. (sock \in [Procs -> {"none", "open", "closed"}])'
    OBVIOUS
  <1>5. (oob \in [Procs -> Seq({"len", "addr", "bar"})])'
    BY DEF Other
  <1>6. (net \in [Procs -> Seq(Texts)])'
    <2>1. <<>> \in Seq(Texts) /\ net \in [Procs -> Seq(Texts)]
      OBVIOUS
    <2>2. net' = net \/ net' = [net EXCEPT ![Other(p)] = <<>>]
      OBVIOUS
    <2> HIDE DEF HelloTypeOK, SendError
    <2> QED
      BY <2>1, <2>2
  <1>7. (arrived \in [Procs -> Seq(Texts)])'
    OBVIOUS
  <1>8. (req \in [Procs -> {"none", "busy", "done"}])'
    OBVIOUS
  <1>9. (msg \in [Procs -> {"null", "host", "cuda", "freed", "misfreed"}])'
    OBVIOUS
  <1>10. (ep \in [Procs -> {"none", "open", "destroyed"}])'
    OBVIOUS
  <1>11. (worker \in [Procs -> {"none", "up", "destroyed"}])'
    OBVIOUS
  <1>12. (text \in [Procs -> Texts \cup {"none"}] /\ shown \in Texts \cup {"none"})'
    OBVIOUS
  <1>13. (spoiled \subseteq Spoilers)'
    BY DEF Spoilers
  <1> QED
    BY <1>1, <1>2, <1>3, <1>4, <1>5, <1>6, <1>7, <1>8, <1>9, <1>10, <1>11, <1>12, <1>13

\* Sent keeps it.
LEMMA Type_Sent ==
    ASSUME HelloTypeOK, NEW p \in Procs, Sent(p)
    PROVE  HelloTypeOK'
  <1> USE DEF HelloTypeOK, Procs, Sent, Goto, Free
  <1>1. (rndv \in [Procs -> BOOLEAN])'
    OBVIOUS
  <1>2. (pc \in [Procs -> Pcs])'
    BY DEF Pcs
  <1>3. (ret \in [Procs -> {"unset", "zero", "nonzero"}])'
    OBVIOUS
  <1>4. (sock \in [Procs -> {"none", "open", "closed"}])'
    OBVIOUS
  <1>5. (oob \in [Procs -> Seq({"len", "addr", "bar"})])'
    BY DEF Other
  <1>6. (net \in [Procs -> Seq(Texts)])'
    BY DEF Other
  <1>7. (arrived \in [Procs -> Seq(Texts)])'
    OBVIOUS
  <1>8. (req \in [Procs -> {"none", "busy", "done"}])'
    OBVIOUS
  <1>9. (msg \in [Procs -> {"null", "host", "cuda", "freed", "misfreed"}])'
    OBVIOUS
  <1>10. (ep \in [Procs -> {"none", "open", "destroyed"}])'
    OBVIOUS
  <1>11. (worker \in [Procs -> {"none", "up", "destroyed"}])'
    OBVIOUS
  <1>12. (text \in [Procs -> Texts \cup {"none"}] /\ shown \in Texts \cup {"none"})'
    OBVIOUS
  <1>13. (spoiled \subseteq Spoilers)'
    OBVIOUS
  <1> QED
    BY <1>1, <1>2, <1>3, <1>4, <1>5, <1>6, <1>7, <1>8, <1>9, <1>10, <1>11, <1>12, <1>13

\* Probe keeps it.
LEMMA Type_Probe ==
    ASSUME HelloTypeOK, NEW p \in Procs, Probe(p)
    PROVE  HelloTypeOK'
  <1> USE DEF HelloTypeOK, Procs, Probe, Goto, Leave, Alloc, Free, RecvKind, DestroyEp,
     SpoilIf
  <1>1. (rndv \in [Procs -> BOOLEAN])'
    OBVIOUS
  <1>2. (pc \in [Procs -> Pcs])'
    BY DEF Pcs
  <1>3. (ret \in [Procs -> {"unset", "zero", "nonzero"}])'
    OBVIOUS
  <1>4. (sock \in [Procs -> {"none", "open", "closed"}])'
    OBVIOUS
  <1>5. (oob \in [Procs -> Seq({"len", "addr", "bar"})])'
    BY DEF Other
  <1>6. (net \in [Procs -> Seq(Texts)])'
    BY DEF Other
  <1>7. (arrived \in [Procs -> Seq(Texts)])'
    OBVIOUS
  <1>8. (req \in [Procs -> {"none", "busy", "done"}])'
    OBVIOUS
  <1>9. (msg \in [Procs -> {"null", "host", "cuda", "freed", "misfreed"}])'
    OBVIOUS
  <1>10. (ep \in [Procs -> {"none", "open", "destroyed"}])'
    OBVIOUS
  <1>11. (worker \in [Procs -> {"none", "up", "destroyed"}])'
    OBVIOUS
  <1>12. (text \in [Procs -> Texts \cup {"none"}] /\ shown \in Texts \cup {"none"})'
    <2>1. arrived[p] \in Seq(Texts) /\ arrived[p] # <<>>
      OBVIOUS
    <2>2. Head(arrived[p]) \in Texts /\ "junk" \in Texts
      BY <2>1 DEF Texts
    <2>3. \/ text' = text
          \/ \E t \in {Head(arrived[p]), "junk"} : text' = [text EXCEPT ![p] = t]
      OBVIOUS
    <2>4. text \in [Procs -> Texts \cup {"none"}] /\ shown' \in Texts \cup {"none"}
      OBVIOUS
    <2> HIDE DEF HelloTypeOK, Probe
    <2> QED
      BY <2>2, <2>3, <2>4
  <1>13. (spoiled \subseteq Spoilers)'
    BY DEF Spoilers
  <1> QED
    BY <1>1, <1>2, <1>3, <1>4, <1>5, <1>6, <1>7, <1>8, <1>9, <1>10, <1>11, <1>12, <1>13

\* recv_handler keeps it.
LEMMA Type_recv_handler ==
    ASSUME HelloTypeOK, NEW p \in Procs, recv_handler(p)
    PROVE  HelloTypeOK'
  <1> USE DEF HelloTypeOK, Procs, recv_handler
  <1>1. (rndv \in [Procs -> BOOLEAN])'
    OBVIOUS
  <1>2. (pc \in [Procs -> Pcs])'
    BY DEF Pcs
  <1>3. (ret \in [Procs -> {"unset", "zero", "nonzero"}])'
    OBVIOUS
  <1>4. (sock \in [Procs -> {"none", "open", "closed"}])'
    OBVIOUS
  <1>5. (oob \in [Procs -> Seq({"len", "addr", "bar"})])'
    BY DEF Other
  <1>6. (net \in [Procs -> Seq(Texts)])'
    BY DEF Other
  <1>7. (arrived \in [Procs -> Seq(Texts)])'
    OBVIOUS
  <1>8. (req \in [Procs -> {"none", "busy", "done"}])'
    OBVIOUS
  <1>9. (msg \in [Procs -> {"null", "host", "cuda", "freed", "misfreed"}])'
    OBVIOUS
  <1>10. (ep \in [Procs -> {"none", "open", "destroyed"}])'
    OBVIOUS
  <1>11. (worker \in [Procs -> {"none", "up", "destroyed"}])'
    OBVIOUS
  <1>12. (text \in [Procs -> Texts \cup {"none"}] /\ shown \in Texts \cup {"none"})'
    OBVIOUS
  <1>13. (spoiled \subseteq Spoilers)'
    OBVIOUS
  <1> QED
    BY <1>1, <1>2, <1>3, <1>4, <1>5, <1>6, <1>7, <1>8, <1>9, <1>10, <1>11, <1>12, <1>13

\* RecvError keeps it.
LEMMA Type_RecvError ==
    ASSUME HelloTypeOK, NEW p \in Procs, RecvError(p)
    PROVE  HelloTypeOK'
  <1> USE DEF HelloTypeOK, Procs, RecvError
  <1>1. (rndv \in [Procs -> BOOLEAN])'
    OBVIOUS
  <1>2. (pc \in [Procs -> Pcs])'
    BY DEF Pcs
  <1>3. (ret \in [Procs -> {"unset", "zero", "nonzero"}])'
    OBVIOUS
  <1>4. (sock \in [Procs -> {"none", "open", "closed"}])'
    OBVIOUS
  <1>5. (oob \in [Procs -> Seq({"len", "addr", "bar"})])'
    BY DEF Other
  <1>6. (net \in [Procs -> Seq(Texts)])'
    BY DEF Other
  <1>7. (arrived \in [Procs -> Seq(Texts)])'
    OBVIOUS
  <1>8. (req \in [Procs -> {"none", "busy", "done"}])'
    OBVIOUS
  <1>9. (msg \in [Procs -> {"null", "host", "cuda", "freed", "misfreed"}])'
    OBVIOUS
  <1>10. (ep \in [Procs -> {"none", "open", "destroyed"}])'
    OBVIOUS
  <1>11. (worker \in [Procs -> {"none", "up", "destroyed"}])'
    OBVIOUS
  <1>12. (text \in [Procs -> Texts \cup {"none"}] /\ shown \in Texts \cup {"none"})'
    BY DEF Texts
  <1>13. (spoiled \subseteq Spoilers)'
    BY DEF Spoilers
  <1> QED
    BY <1>1, <1>2, <1>3, <1>4, <1>5, <1>6, <1>7, <1>8, <1>9, <1>10, <1>11, <1>12, <1>13

\* Received keeps it.
LEMMA Type_Received ==
    ASSUME HelloTypeOK, NEW p \in Procs, Received(p)
    PROVE  HelloTypeOK'
  <1> USE DEF HelloTypeOK, Procs, Received, Goto, Leave, Free
  <1>1. (rndv \in [Procs -> BOOLEAN])'
    OBVIOUS
  <1>2. (pc \in [Procs -> Pcs])'
    BY DEF Pcs
  <1>3. (ret \in [Procs -> {"unset", "zero", "nonzero"}])'
    OBVIOUS
  <1>4. (sock \in [Procs -> {"none", "open", "closed"}])'
    OBVIOUS
  <1>5. (oob \in [Procs -> Seq({"len", "addr", "bar"})])'
    BY DEF Other
  <1>6. (net \in [Procs -> Seq(Texts)])'
    BY DEF Other
  <1>7. (arrived \in [Procs -> Seq(Texts)])'
    OBVIOUS
  <1>8. (req \in [Procs -> {"none", "busy", "done"}])'
    OBVIOUS
  <1>9. (msg \in [Procs -> {"null", "host", "cuda", "freed", "misfreed"}])'
    OBVIOUS
  <1>10. (ep \in [Procs -> {"none", "open", "destroyed"}])'
    OBVIOUS
  <1>11. (worker \in [Procs -> {"none", "up", "destroyed"}])'
    OBVIOUS
  <1>12. (text \in [Procs -> Texts \cup {"none"}] /\ shown \in Texts \cup {"none"})'
    OBVIOUS
  <1>13. (spoiled \subseteq Spoilers)'
    OBVIOUS
  <1> QED
    BY <1>1, <1>2, <1>3, <1>4, <1>5, <1>6, <1>7, <1>8, <1>9, <1>10, <1>11, <1>12, <1>13

\* Deliver keeps it.
LEMMA Type_Deliver ==
    ASSUME HelloTypeOK, NEW p \in Procs, Deliver(p)
    PROVE  HelloTypeOK'
  <1> USE DEF HelloTypeOK, Procs, Deliver, ProgressPcs
  <1>1. (rndv \in [Procs -> BOOLEAN])'
    OBVIOUS
  <1>2. (pc \in [Procs -> Pcs])'
    BY DEF Pcs
  <1>3. (ret \in [Procs -> {"unset", "zero", "nonzero"}])'
    OBVIOUS
  <1>4. (sock \in [Procs -> {"none", "open", "closed"}])'
    OBVIOUS
  <1>5. (oob \in [Procs -> Seq({"len", "addr", "bar"})])'
    BY DEF Other
  <1>6. (net \in [Procs -> Seq(Texts)])'
    BY DEF Other
  <1>7. (arrived \in [Procs -> Seq(Texts)])'
    OBVIOUS
  <1>8. (req \in [Procs -> {"none", "busy", "done"}])'
    OBVIOUS
  <1>9. (msg \in [Procs -> {"null", "host", "cuda", "freed", "misfreed"}])'
    OBVIOUS
  <1>10. (ep \in [Procs -> {"none", "open", "destroyed"}])'
    OBVIOUS
  <1>11. (worker \in [Procs -> {"none", "up", "destroyed"}])'
    OBVIOUS
  <1>12. (text \in [Procs -> Texts \cup {"none"}] /\ shown \in Texts \cup {"none"})'
    OBVIOUS
  <1>13. (spoiled \subseteq Spoilers)'
    OBVIOUS
  <1> QED
    BY <1>1, <1>2, <1>3, <1>4, <1>5, <1>6, <1>7, <1>8, <1>9, <1>10, <1>11, <1>12, <1>13

\* BarrierSend keeps it.
LEMMA Type_BarrierSend ==
    ASSUME HelloTypeOK, NEW p \in Procs, BarrierSend(p)
    PROVE  HelloTypeOK'
  <1> USE DEF HelloTypeOK, Procs, BarrierSend, SendOob, Goto, Leave, EndProcess,
     DestroyEp, PeerClosed, ucx
  <1>1. (rndv \in [Procs -> BOOLEAN])'
    OBVIOUS
  <1>2. (pc \in [Procs -> Pcs])'
    BY DEF Pcs
  <1>3. (ret \in [Procs -> {"unset", "zero", "nonzero"}])'
    OBVIOUS
  <1>4. (sock \in [Procs -> {"none", "open", "closed"}])'
    OBVIOUS
  <1>5. (oob \in [Procs -> Seq({"len", "addr", "bar"})])'
    BY SendOobEffect DEF Pcs
  <1>6. (net \in [Procs -> Seq(Texts)])'
    BY SendOobEffect DEF Pcs
  <1>7. (arrived \in [Procs -> Seq(Texts)])'
    OBVIOUS
  <1>8. (req \in [Procs -> {"none", "busy", "done"}])'
    OBVIOUS
  <1>9. (msg \in [Procs -> {"null", "host", "cuda", "freed", "misfreed"}])'
    OBVIOUS
  <1>10. (ep \in [Procs -> {"none", "open", "destroyed"}])'
    OBVIOUS
  <1>11. (worker \in [Procs -> {"none", "up", "destroyed"}])'
    OBVIOUS
  <1>12. (text \in [Procs -> Texts \cup {"none"}] /\ shown \in Texts \cup {"none"})'
    OBVIOUS
  <1>13. (spoiled \subseteq Spoilers)'
    OBVIOUS
  <1> QED
    BY <1>1, <1>2, <1>3, <1>4, <1>5, <1>6, <1>7, <1>8, <1>9, <1>10, <1>11, <1>12, <1>13

\* BarrierRecv keeps it.
LEMMA Type_BarrierRecv ==
    ASSUME HelloTypeOK, NEW p \in Procs, BarrierRecv(p)
    PROVE  HelloTypeOK'
  <1> USE DEF HelloTypeOK, Procs, BarrierRecv, Goto, Leave, PeerClosed, ucx
  <1>1. (rndv \in [Procs -> BOOLEAN])'
    OBVIOUS
  <1>2. (pc \in [Procs -> Pcs])'
    BY DEF Pcs
  <1>3. (ret \in [Procs -> {"unset", "zero", "nonzero"}])'
    OBVIOUS
  <1>4. (sock \in [Procs -> {"none", "open", "closed"}])'
    OBVIOUS
  <1>5. (oob \in [Procs -> Seq({"len", "addr", "bar"})])'
    <2>1. oob[p] # <<>> => Tail(oob[p]) \in Seq({"len", "addr", "bar"})
      OBVIOUS
    <2>2. oob' = oob \/ (oob[p] # <<>> /\ oob' = [oob EXCEPT ![p] = Tail(oob[p])])
      OBVIOUS
    <2>3. oob \in [Procs -> Seq({"len", "addr", "bar"})]
      OBVIOUS
    <2> HIDE DEF HelloTypeOK, BarrierRecv
    <2> QED
      BY <2>1, <2>2, <2>3
  <1>6. (net \in [Procs -> Seq(Texts)])'
    BY DEF Other
  <1>7. (arrived \in [Procs -> Seq(Texts)])'
    OBVIOUS
  <1>8. (req \in [Procs -> {"none", "busy", "done"}])'
    OBVIOUS
  <1>9. (msg \in [Procs -> {"null", "host", "cuda", "freed", "misfreed"}])'
    OBVIOUS
  <1>10. (ep \in [Procs -> {"none", "open", "destroyed"}])'
    OBVIOUS
  <1>11. (worker \in [Procs -> {"none", "up", "destroyed"}])'
    OBVIOUS
  <1>12. (text \in [Procs -> Texts \cup {"none"}] /\ shown \in Texts \cup {"none"})'
    OBVIOUS
  <1>13. (spoiled \subseteq Spoilers)'
    OBVIOUS
  <1> QED
    BY <1>1, <1>2, <1>3, <1>4, <1>5, <1>6, <1>7, <1>8, <1>9, <1>10, <1>11, <1>12, <1>13

\* CleanUp keeps it.
LEMMA Type_CleanUp ==
    ASSUME HelloTypeOK, NEW p \in Procs, CleanUp(p)
    PROVE  HelloTypeOK'
  <1> USE DEF HelloTypeOK, Procs, CleanUp, EndProcess, Goto
  <1>1. (rndv \in [Procs -> BOOLEAN])'
    OBVIOUS
  <1>2. (pc \in [Procs -> Pcs])'
    BY DEF Pcs
  <1>3. (ret \in [Procs -> {"unset", "zero", "nonzero"}])'
    OBVIOUS
  <1>4. (sock \in [Procs -> {"none", "open", "closed"}])'
    OBVIOUS
  <1>5. (oob \in [Procs -> Seq({"len", "addr", "bar"})])'
    BY DEF Other
  <1>6. (net \in [Procs -> Seq(Texts)])'
    BY DEF Other
  <1>7. (arrived \in [Procs -> Seq(Texts)])'
    OBVIOUS
  <1>8. (req \in [Procs -> {"none", "busy", "done"}])'
    OBVIOUS
  <1>9. (msg \in [Procs -> {"null", "host", "cuda", "freed", "misfreed"}])'
    OBVIOUS
  <1>10. (ep \in [Procs -> {"none", "open", "destroyed"}])'
    OBVIOUS
  <1>11. (worker \in [Procs -> {"none", "up", "destroyed"}])'
    OBVIOUS
  <1>12. (text \in [Procs -> Texts \cup {"none"}] /\ shown \in Texts \cup {"none"})'
    OBVIOUS
  <1>13. (spoiled \subseteq Spoilers)'
    OBVIOUS
  <1> QED
    BY <1>1, <1>2, <1>3, <1>4, <1>5, <1>6, <1>7, <1>8, <1>9, <1>10, <1>11, <1>12, <1>13

\* Crash keeps it.
LEMMA Type_Crash ==
    ASSUME HelloTypeOK, NEW p \in Procs, Crash(p)
    PROVE  HelloTypeOK'
  <1> USE DEF HelloTypeOK, Procs, Crash, EndProcess, Goto, DestroyEp
  <1>1. (rndv \in [Procs -> BOOLEAN])'
    OBVIOUS
  <1>2. (pc \in [Procs -> Pcs])'
    BY DEF Pcs
  <1>3. (ret \in [Procs -> {"unset", "zero", "nonzero"}])'
    OBVIOUS
  <1>4. (sock \in [Procs -> {"none", "open", "closed"}])'
    OBVIOUS
  <1>5. (oob \in [Procs -> Seq({"len", "addr", "bar"})])'
    BY DEF Other
  <1>6. (net \in [Procs -> Seq(Texts)])'
    BY DEF Other
  <1>7. (arrived \in [Procs -> Seq(Texts)])'
    OBVIOUS
  <1>8. (req \in [Procs -> {"none", "busy", "done"}])'
    OBVIOUS
  <1>9. (msg \in [Procs -> {"null", "host", "cuda", "freed", "misfreed"}])'
    OBVIOUS
  <1>10. (ep \in [Procs -> {"none", "open", "destroyed"}])'
    OBVIOUS
  <1>11. (worker \in [Procs -> {"none", "up", "destroyed"}])'
    OBVIOUS
  <1>12. (text \in [Procs -> Texts \cup {"none"}] /\ shown \in Texts \cup {"none"})'
    OBVIOUS
  <1>13. (spoiled \subseteq Spoilers)'
    OBVIOUS
  <1> QED
    BY <1>1, <1>2, <1>3, <1>4, <1>5, <1>6, <1>7, <1>8, <1>9, <1>10, <1>11, <1>12, <1>13

\* Dies keeps it.
LEMMA Type_Dies ==
    ASSUME HelloTypeOK, NEW p \in Procs, Dies(p)
    PROVE  HelloTypeOK'
  <1> USE DEF HelloTypeOK, Procs, Dies, EndProcess, Goto, DestroyEp
  <1>1. (rndv \in [Procs -> BOOLEAN])'
    OBVIOUS
  <1>2. (pc \in [Procs -> Pcs])'
    BY DEF Pcs
  <1>3. (ret \in [Procs -> {"unset", "zero", "nonzero"}])'
    OBVIOUS
  <1>4. (sock \in [Procs -> {"none", "open", "closed"}])'
    OBVIOUS
  <1>5. (oob \in [Procs -> Seq({"len", "addr", "bar"})])'
    BY DEF Other
  <1>6. (net \in [Procs -> Seq(Texts)])'
    BY DEF Other
  <1>7. (arrived \in [Procs -> Seq(Texts)])'
    OBVIOUS
  <1>8. (req \in [Procs -> {"none", "busy", "done"}])'
    OBVIOUS
  <1>9. (msg \in [Procs -> {"null", "host", "cuda", "freed", "misfreed"}])'
    OBVIOUS
  <1>10. (ep \in [Procs -> {"none", "open", "destroyed"}])'
    OBVIOUS
  <1>11. (worker \in [Procs -> {"none", "up", "destroyed"}])'
    OBVIOUS
  <1>12. (text \in [Procs -> Texts \cup {"none"}] /\ shown \in Texts \cup {"none"})'
    OBVIOUS
  <1>13. (spoiled \subseteq Spoilers)'
    OBVIOUS
  <1> QED
    BY <1>1, <1>2, <1>3, <1>4, <1>5, <1>6, <1>7, <1>8, <1>9, <1>10, <1>11, <1>12, <1>13

\* Every step keeps it.
LEMMA TypeNext ==
    ASSUME HelloTypeOK, [Next]_vars
    PROVE  HelloTypeOK'
  <1>1. CASE \E p \in Procs : Step(p) \/ Dies(p) \/ Crash(p)
    BY <1>1, Type_InitUcp, Type_ConnectFails, Type_CreateEpFails, Type_SendMsg,
       Type_send_handler, Type_SendError, Type_Sent, Type_Probe, Type_recv_handler,
       Type_RecvError, Type_Received, Type_Deliver, Type_BarrierSend, Type_BarrierRecv,
       Type_CleanUp, Type_Dies, Type_Crash DEF Step
  <1>2. CASE ClientOnly \/ ServerOnly
    BY <1>2, Type_RecvLen, Type_RecvAddr, Type_AllocPeerAddrFails, Type_RecvOobFails,
       Type_PrintString, Type_SendLen, Type_SendAddr, Type_flush_ep DEF ClientOnly,
       ServerOnly
  <1>3. CASE UNCHANGED vars
    BY <1>3 DEF vars, HelloTypeOK
  <1> QED
    BY <1>1, <1>2, <1>3, Type_Connect DEF Next

--------------------------------------------------------------------------------
(***************************************************************************)
(* What one side's progress says of the other's.                           *)
(***************************************************************************)

\* An endpoint is open from ucp_ep_create to the end of run_ucx_client or
\* run_ucx_server, on every path out of them.
OpenOnlyInTest ==
    /\ ep["client"] = "open" => pc["client"] \in {"sendwait", "probe", "recvwait", "print"}
    /\ ep["server"] = "open" => pc["server"] \in {"sendwait", "flush"}

ClosedAtTheEnd == \A p \in Procs : sock[p] = "closed" => pc[p] \in {"end", "dead"}

BarrierAfterPrint == pc["client"] \in {"barsend", "barrecv"} => shown # "none"

\* What the client waits for or prints has been found by its probe.
TextThere == pc["client"] \in {"recvwait", "print"} => text["client"] # "none"

\* p has sent its int in the barrier, or will not send anything any more.
Past(p) == pc[p] \in {"barrecv", "close", "end", "dead"}

\* The only thing the client ever sends over the socket is its int of the barrier.
ServerHearsBarrier ==
    oob["server"] # <<>> \/ ret["server"] = "zero" => shown # "none" /\ Past("client")

\* p is still before the end of main.
Live(p) == pc[p] \notin {"close", "end", "dead"}

\* What the client has taken from the socket, what the server has put on it.
Taken == CASE pc["client"] \in {"init", "socket", "len"} -> 0
           [] pc["client"] = "addr" -> 1
           [] OTHER -> 2
Given == CASE pc["server"] \in {"init", "socket", "len"} -> 0
           [] pc["server"] = "addr" -> 1
           [] pc["server"] = "barrecv" -> 3
           [] OTHER -> 2

\* So the third item, which the client's barrier takes, is the server's int.
SocketCount == Live("client") /\ Live("server") => Len(oob["client"]) + Taken <= Given

\* The client leaves with 0 because of the barrier, or because recv() returned 0.
ClientZero == ret["client"] = "zero" => Past("server")

EndInv ==
    /\ OpenOnlyInTest /\ ClosedAtTheEnd /\ BarrierAfterPrint
    /\ ServerHearsBarrier /\ SocketCount /\ ClientZero /\ TextThere

\* Connect keeps it.
LEMMA End_Connect ==
    ASSUME HelloTypeOK, EndInv, Connect
    PROVE  EndInv'
  <1> USE DEF HelloTypeOK, Procs, Other, EndInv, Connect, ucx
  <1>1. OpenOnlyInTest'
    BY DEF OpenOnlyInTest
  <1>2. ClosedAtTheEnd'
    BY DEF ClosedAtTheEnd
  <1>3. BarrierAfterPrint'
    BY DEF BarrierAfterPrint
  <1>4. ServerHearsBarrier'
    BY DEF ServerHearsBarrier, Past
  <1>5. SocketCount'
    BY DEF SocketCount, Live, Taken, Given
  <1>6. ClientZero'
    BY DEF ClientZero, Past
  <1>7. TextThere'
    BY DEF TextThere
  <1> QED
    BY <1>1, <1>2, <1>3, <1>4, <1>5, <1>6, <1>7

\* RecvLen keeps it.
LEMMA End_RecvLen ==
    ASSUME HelloTypeOK, EndInv, RecvLen
    PROVE  EndInv'
  <1> USE DEF HelloTypeOK, Procs, Other, EndInv, RecvLen, RecvOob, Goto, ucx
  <1>1. OpenOnlyInTest'
    BY DEF OpenOnlyInTest
  <1>2. ClosedAtTheEnd'
    BY DEF ClosedAtTheEnd
  <1>3. BarrierAfterPrint'
    BY DEF BarrierAfterPrint
  <1>4. ServerHearsBarrier'
    BY DEF ServerHearsBarrier, Past
  <1>5. SocketCount'
    BY DEF SocketCount, Live, Taken, Given
  <1>6. ClientZero'
    BY DEF ClientZero, Past
  <1>7. TextThere'
    BY DEF TextThere
  <1> QED
    BY <1>1, <1>2, <1>3, <1>4, <1>5, <1>6, <1>7

\* RecvAddr keeps it.
LEMMA End_RecvAddr ==
    ASSUME HelloTypeOK, EndInv, RecvAddr
    PROVE  EndInv'
  <1> USE DEF HelloTypeOK, Procs, Other, EndInv, RecvAddr, RecvOob, Goto, ucx
  <1>1. OpenOnlyInTest'
    BY DEF OpenOnlyInTest
  <1>2. ClosedAtTheEnd'
    BY DEF ClosedAtTheEnd
  <1>3. BarrierAfterPrint'
    BY DEF BarrierAfterPrint
  <1>4. ServerHearsBarrier'
    BY DEF ServerHearsBarrier, Past
  <1>5. SocketCount'
    BY DEF SocketCount, Live, Taken, Given
  <1>6. ClientZero'
    BY DEF ClientZero, Past
  <1>7. TextThere'
    BY DEF TextThere
  <1> QED
    BY <1>1, <1>2, <1>3, <1>4, <1>5, <1>6, <1>7

\* AllocPeerAddrFails keeps it.
LEMMA End_AllocPeerAddrFails ==
    ASSUME HelloTypeOK, EndInv, AllocPeerAddrFails
    PROVE  EndInv'
  <1> USE DEF HelloTypeOK, Procs, Other, EndInv, AllocPeerAddrFails, Goto, Leave, ucx
  <1>1. OpenOnlyInTest'
    BY DEF OpenOnlyInTest
  <1>2. ClosedAtTheEnd'
    BY DEF ClosedAtTheEnd
  <1>3. BarrierAfterPrint'
    BY DEF BarrierAfterPrint
  <1>4. ServerHearsBarrier'
    BY DEF ServerHearsBarrier, Past
  <1>5. SocketCount'
    BY DEF SocketCount, Live, Taken, Given
  <1>6. ClientZero'
    BY DEF ClientZero, Past
  <1>7. TextThere'
    BY DEF TextThere
  <1> QED
    BY <1>1, <1>2, <1>3, <1>4, <1>5, <1>6, <1>7

\* RecvOobFails keeps it.
LEMMA End_RecvOobFails ==
    ASSUME HelloTypeOK, EndInv, RecvOobFails
    PROVE  EndInv'
  <1> USE DEF HelloTypeOK, Procs, Other, EndInv, RecvOobFails, Goto, Leave, PeerClosed,
     ucx
  <1>1. OpenOnlyInTest'
    BY DEF OpenOnlyInTest
  <1>2. ClosedAtTheEnd'
    BY DEF ClosedAtTheEnd
  <1>3. BarrierAfterPrint'
    BY DEF BarrierAfterPrint
  <1>4. ServerHearsBarrier'
    BY DEF ServerHearsBarrier, Past
  <1>5. SocketCount'
    BY DEF SocketCount, Live, Taken, Given
  <1>6. ClientZero'
    <2>1. sock["server"] = "closed" /\ ClosedAtTheEnd /\ pc'["server"] = pc["server"]
      OBVIOUS
    <2> QED
      BY <2>1 DEF ClosedAtTheEnd, ClientZero, Past
  <1>7. TextThere'
    BY DEF TextThere
  <1> QED
    BY <1>1, <1>2, <1>3, <1>4, <1>5, <1>6, <1>7

\* PrintString keeps it.
LEMMA End_PrintString ==
    ASSUME HelloTypeOK, EndInv, PrintString
    PROVE  EndInv'
  <1> USE DEF HelloTypeOK, Procs, Other, EndInv, PrintString, AfterTest, Goto, Leave,
     Free, DestroyEp, SpoilIf
  <1>1. OpenOnlyInTest'
    BY DEF OpenOnlyInTest
  <1>2. ClosedAtTheEnd'
    BY DEF ClosedAtTheEnd
  <1>3. BarrierAfterPrint'
    BY DEF BarrierAfterPrint, TextThere
  <1>4. ServerHearsBarrier'
    BY DEF ServerHearsBarrier, Past
  <1>5. SocketCount'
    BY DEF SocketCount, Live, Taken, Given
  <1>6. ClientZero'
    BY DEF ClientZero, Past
  <1>7. TextThere'
    BY DEF TextThere
  <1> QED
    BY <1>1, <1>2, <1>3, <1>4, <1>5, <1>6, <1>7

\* SendLen keeps it.
LEMMA End_SendLen ==
    ASSUME HelloTypeOK, EndInv, SendLen
    PROVE  EndInv'
  <1> USE DEF HelloTypeOK, Procs, Other, EndInv, SendLen, SendOob, Goto, Leave,
     EndProcess, DestroyEp, PeerClosed, ucx
  <1>1. OpenOnlyInTest'
    BY DEF OpenOnlyInTest
  <1>2. ClosedAtTheEnd'
    BY DEF ClosedAtTheEnd
  <1>3. BarrierAfterPrint'
    BY DEF BarrierAfterPrint
  <1>4. ServerHearsBarrier'
    BY DEF ServerHearsBarrier, Past
  <1>5. SocketCount'
    <2>1. oob \in [Procs -> Seq({"len", "addr", "bar"})] /\ pc \in [Procs -> Pcs]
      OBVIOUS
    <2>2. Len(oob["client"]) \in Nat
      BY <2>1
    <2> HIDE DEF HelloTypeOK, SendLen, SendOob, EndProcess, Leave, Goto, ucx, PeerClosed
    <2>3. pc["server"] = "len" /\ SendOob("server", "len", "addr")
      BY DEF SendLen
    <2>4. ClosedAtTheEnd /\ SocketCount
      OBVIOUS
    <2>5. \/ /\ Len(oob'["client"]) = Len(oob["client"]) + 1
             /\ pc'["client"] = pc["client"] /\ pc'["server"] = "addr"
          \/ ~Live("client") /\ pc'["client"] = pc["client"]
      <3>1. Other("server") = "client" /\ "server" \in Procs /\ "addr" \in Pcs
        BY DEF Pcs
      <3> QED
        BY <2>3, <2>4, <3>1, SendOobEffect DEF PeerClosed, ClosedAtTheEnd, Live
    <2>6. pc["server"] = "len" /\ (pc'["server"] = "addr" \/ ~Live("client"))
      BY <2>3, <2>5
    <2>7. CASE ~Live("client") /\ pc'["client"] = pc["client"]
      BY <2>7 DEF SocketCount, Live
    <2>8. CASE /\ Len(oob'["client"]) = Len(oob["client"]) + 1
               /\ pc'["client"] = pc["client"] /\ pc'["server"] = "addr"
      <3>1. Taken' = Taken /\ Taken \in Nat /\ Given' = Given + 1 /\ Given \in Nat
        BY <2>8, <2>6 DEF Taken, Given
      <3>2. Live("client")' => Live("client") /\ Live("server")
        BY <2>8, <2>6 DEF Live
      <3> QED
        BY <2>2, <2>4, <2>8, <3>1, <3>2 DEF SocketCount
    <2> QED
      BY <2>5, <2>7, <2>8
  <1>6. ClientZero'
    BY DEF ClientZero, Past
  <1>7. TextThere'
    BY DEF TextThere
  <1> QED
    BY <1>1, <1>2, <1>3, <1>4, <1>5, <1>6, <1>7

\* SendAddr keeps it.
LEMMA End_SendAddr ==
    ASSUME HelloTypeOK, EndInv, SendAddr
    PROVE  EndInv'
  <1> USE DEF HelloTypeOK, Procs, Other, EndInv, SendAddr, SendOob, Goto, Leave,
     EndProcess, DestroyEp, PeerClosed, ucx
  <1>1. OpenOnlyInTest'
    BY DEF OpenOnlyInTest
  <1>2. ClosedAtTheEnd'
    BY DEF ClosedAtTheEnd
  <1>3. BarrierAfterPrint'
    BY DEF BarrierAfterPrint
  <1>4. ServerHearsBarrier'
    BY DEF ServerHearsBarrier, Past
  <1>5. SocketCount'
    <2>1. oob \in [Procs -> Seq({"len", "addr", "bar"})] /\ pc \in [Procs -> Pcs]
      OBVIOUS
    <2>2. Len(oob["client"]) \in Nat
      BY <2>1
    <2> HIDE DEF HelloTypeOK, SendAddr, SendOob, EndProcess, Leave, Goto, ucx, PeerClosed
    <2>3. pc["server"] = "addr" /\ SendOob("server", "addr", "probe")
      BY DEF SendAddr
    <2>4. ClosedAtTheEnd /\ SocketCount
      OBVIOUS
    <2>5. \/ /\ Len(oob'["client"]) = Len(oob["client"]) + 1
             /\ pc'["client"] = pc["client"] /\ pc'["server"] = "probe"
          \/ ~Live("client") /\ pc'["client"] = pc["client"]
      <3>1. Other("server") = "client" /\ "server" \in Procs /\ "probe" \in Pcs
        BY DEF Pcs
      <3> QED
        BY <2>3, <2>4, <3>1, SendOobEffect DEF PeerClosed, ClosedAtTheEnd, Live
    <2>6. pc["server"] = "addr" /\ (pc'["server"] = "probe" \/ ~Live("client"))
      BY <2>3, <2>5
    <2>7. CASE ~Live("client") /\ pc'["client"] = pc["client"]
      BY <2>7 DEF SocketCount, Live
    <2>8. CASE /\ Len(oob'["client"]) = Len(oob["client"]) + 1
               /\ pc'["client"] = pc["client"] /\ pc'["server"] = "probe"
      <3>1. Taken' = Taken /\ Taken \in Nat /\ Given' = Given + 1 /\ Given \in Nat
        BY <2>8, <2>6 DEF Taken, Given
      <3>2. Live("client")' => Live("client") /\ Live("server")
        BY <2>8, <2>6 DEF Live
      <3> QED
        BY <2>2, <2>4, <2>8, <3>1, <3>2 DEF SocketCount
    <2> QED
      BY <2>5, <2>7, <2>8
  <1>6. ClientZero'
    BY DEF ClientZero, Past
  <1>7. TextThere'
    BY DEF TextThere
  <1> QED
    BY <1>1, <1>2, <1>3, <1>4, <1>5, <1>6, <1>7

\* flush_ep keeps it.
LEMMA End_flush_ep ==
    ASSUME HelloTypeOK, EndInv, flush_ep
    PROVE  EndInv'
  <1> USE DEF HelloTypeOK, Procs, Other, EndInv, flush_ep, AfterTest, Goto, Leave, Free,
     DestroyEp
  <1>1. OpenOnlyInTest'
    BY DEF OpenOnlyInTest
  <1>2. ClosedAtTheEnd'
    BY DEF ClosedAtTheEnd
  <1>3. BarrierAfterPrint'
    BY DEF BarrierAfterPrint
  <1>4. ServerHearsBarrier'
    BY DEF ServerHearsBarrier, Past
  <1>5. SocketCount'
    BY DEF SocketCount, Live, Taken, Given
  <1>6. ClientZero'
    BY DEF ClientZero, Past
  <1>7. TextThere'
    BY DEF TextThere
  <1> QED
    BY <1>1, <1>2, <1>3, <1>4, <1>5, <1>6, <1>7

\* InitUcp keeps it.
LEMMA End_InitUcp ==
    ASSUME HelloTypeOK, EndInv, NEW p \in Procs, InitUcp(p)
    PROVE  EndInv'
  <1> USE DEF HelloTypeOK, Procs, Other, EndInv, InitUcp, Goto, Leave
  <1>1. OpenOnlyInTest'
    BY DEF OpenOnlyInTest
  <1>2. ClosedAtTheEnd'
    BY DEF ClosedAtTheEnd
  <1>3. BarrierAfterPrint'
    BY DEF BarrierAfterPrint
  <1>4. ServerHearsBarrier'
    BY DEF ServerHearsBarrier, Past
  <1>5. SocketCount'
    BY DEF SocketCount, Live, Taken, Given
  <1>6. ClientZero'
    BY DEF ClientZero, Past
  <1>7. TextThere'
    BY DEF TextThere
  <1> QED
    BY <1>1, <1>2, <1>3, <1>4, <1>5, <1>6, <1>7

\* ConnectFails keeps it.
LEMMA End_ConnectFails ==
    ASSUME HelloTypeOK, EndInv, NEW p \in Procs, ConnectFails(p)
    PROVE  EndInv'
  <1> USE DEF HelloTypeOK, Procs, Other, EndInv, ConnectFails, Goto, Leave, ucx
  <1>1. OpenOnlyInTest'
    BY DEF OpenOnlyInTest
  <1>2. ClosedAtTheEnd'
    BY DEF ClosedAtTheEnd
  <1>3. BarrierAfterPrint'
    BY DEF BarrierAfterPrint
  <1>4. ServerHearsBarrier'
    BY DEF ServerHearsBarrier, Past
  <1>5. SocketCount'
    BY DEF SocketCount, Live, Taken, Given
  <1>6. ClientZero'
    BY DEF ClientZero, Past
  <1>7. TextThere'
    BY DEF TextThere
  <1> QED
    BY <1>1, <1>2, <1>3, <1>4, <1>5, <1>6, <1>7

\* CreateEpFails keeps it.
LEMMA End_CreateEpFails ==
    ASSUME HelloTypeOK, EndInv, NEW p \in Procs, CreateEpFails(p)
    PROVE  EndInv'
  <1> USE DEF HelloTypeOK, Procs, Other, EndInv, CreateEpFails, Goto, Leave, ucx
  <1>1. OpenOnlyInTest'
    BY DEF OpenOnlyInTest
  <1>2. ClosedAtTheEnd'
    BY DEF ClosedAtTheEnd
  <1>3. BarrierAfterPrint'
    BY DEF BarrierAfterPrint
  <1>4. ServerHearsBarrier'
    BY DEF ServerHearsBarrier, Past
  <1>5. SocketCount'
    BY DEF SocketCount, Live, Taken, Given
  <1>6. ClientZero'
    BY DEF ClientZero, Past
  <1>7. TextThere'
    BY DEF TextThere
  <1> QED
    BY <1>1, <1>2, <1>3, <1>4, <1>5, <1>6, <1>7

\* SendMsg keeps it.
LEMMA End_SendMsg ==
    ASSUME HelloTypeOK, EndInv, NEW p \in Procs, SendMsg(p)
    PROVE  EndInv'
  <1> USE DEF HelloTypeOK, Procs, Other, EndInv, SendMsg, Goto, Leave, Alloc, Free,
     SendKind, SpoilIf
  <1>1. OpenOnlyInTest'
    BY DEF OpenOnlyInTest
  <1>2. ClosedAtTheEnd'
    BY DEF ClosedAtTheEnd
  <1>3. BarrierAfterPrint'
    BY DEF BarrierAfterPrint
  <1>4. ServerHearsBarrier'
    BY DEF ServerHearsBarrier, Past
  <1>5. SocketCount'
    BY DEF SocketCount, Live, Taken, Given
  <1>6. ClientZero'
    BY DEF ClientZero, Past
  <1>7. TextThere'
    BY DEF TextThere
  <1> QED
    BY <1>1, <1>2, <1>3, <1>4, <1>5, <1>6, <1>7

\* send_handler keeps it.
LEMMA End_send_handler ==
    ASSUME HelloTypeOK, EndInv, NEW p \in Procs, send_handler(p)
    PROVE  EndInv'
  <1> USE DEF HelloTypeOK, Procs, Other, EndInv, send_handler
  <1>1. OpenOnlyInTest'
    BY DEF OpenOnlyInTest
  <1>2. ClosedAtTheEnd'
    BY DEF ClosedAtTheEnd
  <1>3. BarrierAfterPrint'
    BY DEF BarrierAfterPrint
  <1>4. ServerHearsBarrier'
    BY DEF ServerHearsBarrier, Past
  <1>5. SocketCount'
    BY DEF SocketCount, Live, Taken, Given
  <1>6. ClientZero'
    BY DEF ClientZero, Past
  <1>7. TextThere'
    BY DEF TextThere
  <1> QED
    BY <1>1, <1>2, <1>3, <1>4, <1>5, <1>6, <1>7

\* SendError keeps it.
LEMMA End_SendError ==
    ASSUME HelloTypeOK, EndInv, NEW p \in Procs, SendError(p)
    PROVE  EndInv'
  <1> USE DEF HelloTypeOK, Procs, Other, EndInv, SendError
  <1>1. OpenOnlyInTest'
    BY DEF OpenOnlyInTest
  <1>2. ClosedAtTheEnd'
    BY DEF ClosedAtTheEnd
  <1>3. BarrierAfterPrint'
    BY DEF BarrierAfterPrint
  <1>4. ServerHearsBarrier'
    BY DEF ServerHearsBarrier, Past
  <1>5. SocketCount'
    BY DEF SocketCount, Live, Taken, Given
  <1>6. ClientZero'
    BY DEF ClientZero, Past
  <1>7. TextThere'
    BY DEF TextThere
  <1> QED
    BY <1>1, <1>2, <1>3, <1>4, <1>5, <1>6, <1>7

\* Sent keeps it.
LEMMA End_Sent ==
    ASSUME HelloTypeOK, EndInv, NEW p \in Procs, Sent(p)
    PROVE  EndInv'
  <1> USE DEF HelloTypeOK, Procs, Other, EndInv, Sent, Goto, Free
  <1>1. OpenOnlyInTest'
    BY DEF OpenOnlyInTest
  <1>2. ClosedAtTheEnd'
    BY DEF ClosedAtTheEnd
  <1>3. BarrierAfterPrint'
    BY DEF BarrierAfterPrint
  <1>4. ServerHearsBarrier'
    BY DEF ServerHearsBarrier, Past
  <1>5. SocketCount'
    BY DEF SocketCount, Live, Taken, Given
  <1>6. ClientZero'
    BY DEF ClientZero, Past
  <1>7. TextThere'
    BY DEF TextThere
  <1> QED
    BY <1>1, <1>2, <1>3, <1>4, <1>5, <1>6, <1>7

\* Probe keeps it.
LEMMA End_Probe ==
    ASSUME HelloTypeOK, EndInv, NEW p \in Procs, Probe(p)
    PROVE  EndInv'
  <1> USE DEF HelloTypeOK, Procs, Other, EndInv, Probe, Goto, Leave, Alloc, Free,
     RecvKind, DestroyEp, SpoilIf
  <1>1. OpenOnlyInTest'
    BY DEF OpenOnlyInTest
  <1>2. ClosedAtTheEnd'
    BY DEF ClosedAtTheEnd
  <1>3. BarrierAfterPrint'
    BY DEF BarrierAfterPrint
  <1>4. ServerHearsBarrier'
    BY DEF ServerHearsBarrier, Past
  <1>5. SocketCount'
    BY DEF SocketCount, Live, Taken, Given
  <1>6. ClientZero'
    BY DEF ClientZero, Past
  <1>7. TextThere'
    <2>1. CASE p = "server"
      BY <2>1 DEF TextThere
    <2>2. CASE p = "client"
      <3>1. arrived["client"] \in Seq(Texts) /\ arrived["client"] # <<>>
        BY <2>2
      <3>2. Head(arrived["client"]) \in Texts
        BY <3>1
      <3>3. Head(arrived["client"]) # "none" /\ "junk" # "none"
        BY <3>2 DEF Texts
      <3>4. \/ pc'["client"] = "close"
            \/ \E t \in {Head(arrived["client"]), "junk"} : text'["client"] = t
        BY <2>2
      <3> HIDE DEF HelloTypeOK, Probe
      <3> QED
        BY <3>3, <3>4 DEF TextThere
    <2> QED
      BY <2>1, <2>2
  <1> QED
    BY <1>1, <1>2, <1>3, <1>4, <1>5, <1>6, <1>7

\* recv_handler keeps it.
LEMMA End_recv_handler ==
    ASSUME HelloTypeOK, EndInv, NEW p \in Procs, recv_handler(p)
    PROVE  EndInv'
  <1> USE DEF HelloTypeOK, Procs, Other, EndInv, recv_handler
  <1>1. OpenOnlyInTest'
    BY DEF OpenOnlyInTest
  <1>2. ClosedAtTheEnd'
    BY DEF ClosedAtTheEnd
  <1>3. BarrierAfterPrint'
    BY DEF BarrierAfterPrint
  <1>4. ServerHearsBarrier'
    BY DEF ServerHearsBarrier, Past
  <1>5. SocketCount'
    BY DEF SocketCount, Live, Taken, Given
  <1>6. ClientZero'
    BY DEF ClientZero, Past
  <1>7. TextThere'
    BY DEF TextThere
  <1> QED
    BY <1>1, <1>2, <1>3, <1>4, <1>5, <1>6, <1>7

\* RecvError keeps it.
LEMMA End_RecvError ==
    ASSUME HelloTypeOK, EndInv, NEW p \in Procs, RecvError(p)
    PROVE  EndInv'
  <1> USE DEF HelloTypeOK, Procs, Other, EndInv, RecvError
  <1>1. OpenOnlyInTest'
    BY DEF OpenOnlyInTest
  <1>2. ClosedAtTheEnd'
    BY DEF ClosedAtTheEnd
  <1>3. BarrierAfterPrint'
    BY DEF BarrierAfterPrint
  <1>4. ServerHearsBarrier'
    BY DEF ServerHearsBarrier, Past
  <1>5. SocketCount'
    BY DEF SocketCount, Live, Taken, Given
  <1>6. ClientZero'
    BY DEF ClientZero, Past
  <1>7. TextThere'
    BY DEF TextThere
  <1> QED
    BY <1>1, <1>2, <1>3, <1>4, <1>5, <1>6, <1>7

\* Received keeps it.
LEMMA End_Received ==
    ASSUME HelloTypeOK, EndInv, NEW p \in Procs, Received(p)
    PROVE  EndInv'
  <1> USE DEF HelloTypeOK, Procs, Other, EndInv, Received, Goto, Leave, Free
  <1>1. OpenOnlyInTest'
    BY DEF OpenOnlyInTest
  <1>2. ClosedAtTheEnd'
    BY DEF ClosedAtTheEnd
  <1>3. BarrierAfterPrint'
    BY DEF BarrierAfterPrint
  <1>4. ServerHearsBarrier'
    BY DEF ServerHearsBarrier, Past
  <1>5. SocketCount'
    BY DEF SocketCount, Live, Taken, Given
  <1>6. ClientZero'
    BY DEF ClientZero, Past
  <1>7. TextThere'
    BY DEF TextThere
  <1> QED
    BY <1>1, <1>2, <1>3, <1>4, <1>5, <1>6, <1>7

\* Deliver keeps it.
LEMMA End_Deliver ==
    ASSUME HelloTypeOK, EndInv, NEW p \in Procs, Deliver(p)
    PROVE  EndInv'
  <1> USE DEF HelloTypeOK, Procs, Other, EndInv, Deliver, ProgressPcs
  <1>1. OpenOnlyInTest'
    BY DEF OpenOnlyInTest
  <1>2. ClosedAtTheEnd'
    BY DEF ClosedAtTheEnd
  <1>3. BarrierAfterPrint'
    BY DEF BarrierAfterPrint
  <1>4. ServerHearsBarrier'
    BY DEF ServerHearsBarrier, Past
  <1>5. SocketCount'
    BY DEF SocketCount, Live, Taken, Given
  <1>6. ClientZero'
    BY DEF ClientZero, Past
  <1>7. TextThere'
    BY DEF TextThere
  <1> QED
    BY <1>1, <1>2, <1>3, <1>4, <1>5, <1>6, <1>7

\* BarrierSend keeps it.
LEMMA End_BarrierSend ==
    ASSUME HelloTypeOK, EndInv, NEW p \in Procs, BarrierSend(p)
    PROVE  EndInv'
  <1> USE DEF HelloTypeOK, Procs, Other, EndInv, BarrierSend, SendOob, Goto, Leave,
     EndProcess, DestroyEp, PeerClosed, ucx
  <1>1. OpenOnlyInTest'
    BY DEF OpenOnlyInTest
  <1>2. ClosedAtTheEnd'
    BY DEF ClosedAtTheEnd
  <1>3. BarrierAfterPrint'
    BY DEF BarrierAfterPrint
  <1>4. ServerHearsBarrier'
    <2> HIDE DEF HelloTypeOK, BarrierSend, SendOob, EndProcess, Leave, Goto, ucx
    <2>1. pc[p] = "barsend" /\ SendOob(p, "bar", "barrecv")
      BY DEF BarrierSend
    <2>2. BarrierAfterPrint /\ ServerHearsBarrier
      OBVIOUS
    <2>3. ret'["server"] = "zero" => ret["server"] = "zero"
      BY <2>1, SendOobEffect DEF Pcs, HelloTypeOK
    <2> QED
      BY <2>1, <2>2, <2>3, SendOobEffect DEF BarrierAfterPrint,
         ServerHearsBarrier, Past, Pcs
  <1>5. SocketCount'
    <2>1. oob \in [Procs -> Seq({"len", "addr", "bar"})] /\ pc \in [Procs -> Pcs]
      OBVIOUS
    <2>2. Len(oob["client"]) \in Nat
      BY <2>1
    <2> HIDE DEF HelloTypeOK, BarrierSend, SendOob, EndProcess, Leave, Goto, ucx, PeerClosed
    <2>3. pc[p] = "barsend" /\ SendOob(p, "bar", "barrecv")
      BY DEF BarrierSend
    <2>4. ClosedAtTheEnd /\ SocketCount
      OBVIOUS
    <2>5. CASE p = "client"
      <3>1. /\ oob'["client"] = oob["client"] /\ pc'["server"] = pc["server"]
            /\ pc'["client"] \in {"barrecv", "close", "dead"} /\ pc["client"] = "barsend"
        BY <2>3, <2>5, SendOobEffect DEF Pcs
      <3> QED
        BY <2>2, <2>4, <3>1 DEF SocketCount, Live, Taken, Given
    <2>6. CASE p = "server"
      <3>1. pc["server"] = "barsend" /\ SendOob("server", "bar", "barrecv")
        BY <2>3, <2>6
      <3>5. \/ /\ Len(oob'["client"]) = Len(oob["client"]) + 1
               /\ pc'["client"] = pc["client"] /\ pc'["server"] = "barrecv"
            \/ ~Live("client") /\ pc'["client"] = pc["client"]
        <4>1. Other("server") = "client" /\ "server" \in Procs /\ "barrecv" \in Pcs
          BY DEF Pcs
        <4> QED
          BY <3>1, <2>4, <4>1, SendOobEffect DEF PeerClosed, ClosedAtTheEnd, Live
      <3>6. pc["server"] = "barsend" /\ (pc'["server"] = "barrecv" \/ ~Live("client"))
        BY <3>1, <3>5
      <3>7. CASE ~Live("client") /\ pc'["client"] = pc["client"]
        BY <3>7 DEF SocketCount, Live
      <3>8. CASE /\ Len(oob'["client"]) = Len(oob["client"]) + 1
                 /\ pc'["client"] = pc["client"] /\ pc'["server"] = "barrecv"
        <4>1. Taken' = Taken /\ Taken \in Nat /\ Given' = Given + 1 /\ Given \in Nat
          BY <3>8, <3>6 DEF Taken, Given
        <4>2. Live("client")' => Live("client") /\ Live("server")
          BY <3>8, <3>6 DEF Live
        <4> QED
          BY <2>2, <2>4, <3>8, <4>1, <4>2 DEF SocketCount
      <3> QED
        BY <3>5, <3>7, <3>8
    <2> QED
      BY <2>5, <2>6
  <1>6. ClientZero'
    BY DEF ClientZero, Past
  <1>7. TextThere'
    BY DEF TextThere
  <1> QED
    BY <1>1, <1>2, <1>3, <1>4, <1>5, <1>6, <1>7

\* BarrierRecv keeps it.
LEMMA End_BarrierRecv ==
    ASSUME HelloTypeOK, EndInv, NEW p \in Procs, BarrierRecv(p)
    PROVE  EndInv'
  <1> USE DEF HelloTypeOK, Procs, Other, EndInv, BarrierRecv, Goto, Leave, PeerClosed,
     ucx
  <1>1. OpenOnlyInTest'
    BY DEF OpenOnlyInTest
  <1>2. ClosedAtTheEnd'
    BY DEF ClosedAtTheEnd
  <1>3. BarrierAfterPrint'
    BY DEF BarrierAfterPrint
  <1>4. ServerHearsBarrier'
    BY DEF ServerHearsBarrier, Past
  <1>5. SocketCount'
    BY DEF SocketCount, Live, Taken, Given
  <1>6. ClientZero'
    <2>1. CASE p = "server"
      BY <2>1 DEF ClientZero, Past
    <2>2. CASE p = "client" /\ oob["client"] # <<>>
      <3>1. SocketCount /\ Len(oob["client"]) \in Nat /\ Len(oob["client"]) > 0
            /\ pc["client"] = "barrecv" /\ pc["server"] \in Pcs
        BY <2>2
      <3>2. Past("server") /\ pc'["server"] = pc["server"]
        BY <2>2, <3>1 DEF SocketCount, Live, Taken, Given, Past
      <3> QED
        BY <3>2 DEF ClientZero, Past
    <2>3. CASE p = "client" /\ oob["client"] = <<>>
      BY <2>3 DEF ClientZero, Past
    <2> QED
      BY <2>1, <2>2, <2>3
  <1>7. TextThere'
    BY DEF TextThere
  <1> QED
    BY <1>1, <1>2, <1>3, <1>4, <1>5, <1>6, <1>7

\* CleanUp keeps it.
LEMMA End_CleanUp ==
    ASSUME HelloTypeOK, EndInv, NEW p \in Procs, CleanUp(p)
    PROVE  EndInv'
  <1> USE DEF HelloTypeOK, Procs, Other, EndInv, CleanUp, EndProcess, Goto
  <1>1. OpenOnlyInTest'
    BY DEF OpenOnlyInTest
  <1>2. ClosedAtTheEnd'
    BY DEF ClosedAtTheEnd
  <1>3. BarrierAfterPrint'
    BY DEF BarrierAfterPrint
  <1>4. ServerHearsBarrier'
    BY DEF ServerHearsBarrier, Past
  <1>5. SocketCount'
    BY DEF SocketCount, Live, Taken, Given
  <1>6. ClientZero'
    BY DEF ClientZero, Past
  <1>7. TextThere'
    BY DEF TextThere
  <1> QED
    BY <1>1, <1>2, <1>3, <1>4, <1>5, <1>6, <1>7

\* Crash keeps it.
LEMMA End_Crash ==
    ASSUME HelloTypeOK, EndInv, NEW p \in Procs, Crash(p)
    PROVE  EndInv'
  <1> USE DEF HelloTypeOK, Procs, Other, EndInv, Crash, EndProcess, Goto, DestroyEp
  <1>1. OpenOnlyInTest'
    BY DEF OpenOnlyInTest
  <1>2. ClosedAtTheEnd'
    BY DEF ClosedAtTheEnd
  <1>3. BarrierAfterPrint'
    BY DEF BarrierAfterPrint
  <1>4. ServerHearsBarrier'
    BY DEF ServerHearsBarrier, Past
  <1>5. SocketCount'
    BY DEF SocketCount, Live, Taken, Given
  <1>6. ClientZero'
    BY DEF ClientZero, Past
  <1>7. TextThere'
    BY DEF TextThere
  <1> QED
    BY <1>1, <1>2, <1>3, <1>4, <1>5, <1>6, <1>7

\* Dies keeps it.
LEMMA End_Dies ==
    ASSUME HelloTypeOK, EndInv, NEW p \in Procs, Dies(p)
    PROVE  EndInv'
  <1> USE DEF HelloTypeOK, Procs, Other, EndInv, Dies, EndProcess, Goto, DestroyEp
  <1>1. OpenOnlyInTest'
    BY DEF OpenOnlyInTest
  <1>2. ClosedAtTheEnd'
    BY DEF ClosedAtTheEnd
  <1>3. BarrierAfterPrint'
    BY DEF BarrierAfterPrint
  <1>4. ServerHearsBarrier'
    BY DEF ServerHearsBarrier, Past
  <1>5. SocketCount'
    BY DEF SocketCount, Live, Taken, Given
  <1>6. ClientZero'
    BY DEF ClientZero, Past
  <1>7. TextThere'
    BY DEF TextThere
  <1> QED
    BY <1>1, <1>2, <1>3, <1>4, <1>5, <1>6, <1>7

\* Every step keeps it.
LEMMA EndNext ==
    ASSUME HelloTypeOK, EndInv, [Next]_vars
    PROVE  EndInv'
  <1>1. CASE \E p \in Procs : Step(p) \/ Dies(p) \/ Crash(p)
    BY <1>1, End_InitUcp, End_ConnectFails, End_CreateEpFails, End_SendMsg,
       End_send_handler, End_SendError, End_Sent, End_Probe, End_recv_handler,
       End_RecvError, End_Received, End_Deliver, End_BarrierSend, End_BarrierRecv,
       End_CleanUp, End_Dies, End_Crash DEF Step
  <1>2. CASE ClientOnly \/ ServerOnly
    BY <1>2, End_RecvLen, End_RecvAddr, End_AllocPeerAddrFails, End_RecvOobFails,
       End_PrintString, End_SendLen, End_SendAddr, End_flush_ep DEF ClientOnly,
       ServerOnly
  <1>3. CASE UNCHANGED vars
    BY <1>3 DEF vars, EndInv, OpenOnlyInTest, ClosedAtTheEnd, BarrierAfterPrint,
       ServerHearsBarrier, SocketCount, ClientZero, TextThere, Past, Live, Taken, Given
  <1> QED
    BY <1>1, <1>2, <1>3, End_Connect DEF Next

--------------------------------------------------------------------------------
\* The initial states are well typed.
LEMMA TypeInit == Init => HelloTypeOK
  <1> SUFFICES ASSUME Init PROVE HelloTypeOK
    OBVIOUS
  <1>1. /\ oob \in [Procs -> Seq({"len", "addr", "bar"})]
        /\ net \in [Procs -> Seq(Texts)]
        /\ arrived \in [Procs -> Seq(Texts)]
    <2>1. <<>> \in Seq({"len", "addr", "bar"}) /\ <<>> \in Seq(Texts)
      OBVIOUS
    <2> QED
      BY <2>1 DEF Init
  <1>2. /\ rndv \in [Procs -> BOOLEAN] /\ spoiled \subseteq Spoilers
        /\ text \in [Procs -> Texts \cup {"none"}] /\ shown \in Texts \cup {"none"}
        /\ pc \in [Procs -> Pcs]
        /\ ret \in [Procs -> {"unset", "zero", "nonzero"}]
        /\ sock \in [Procs -> {"none", "open", "closed"}]
    BY DEF Init, Pcs
  <1>3. /\ req \in [Procs -> {"none", "busy", "done"}]
        /\ msg \in [Procs -> {"null", "host", "cuda", "freed", "misfreed"}]
        /\ ep \in [Procs -> {"none", "open", "destroyed"}]
        /\ worker \in [Procs -> {"none", "up", "destroyed"}]
    BY DEF Init
  <1> QED
    BY <1>1, <1>2, <1>3 DEF HelloTypeOK

\* Every reachable state is well typed: in particular the pointer msg always holds one
\* of the five kinds of pointer free() and cudaFree() are called with.
THEOREM HelloTypes == Spec => []HelloTypeOK
  <1>1. Init => HelloTypeOK
    BY TypeInit
  <1>2. HelloTypeOK /\ [Next]_vars => HelloTypeOK'
    BY TypeNext
  <1> QED
    BY <1>1, <1>2, PTL DEF Spec

\* The invariant that ties the two sides' progress together holds in every reachable
\* state.
THEOREM HelloEnds == Spec => [](HelloTypeOK /\ EndInv)
  <1>1. Init => HelloTypeOK
    BY TypeInit
  <1>2. Init => EndInv
    BY DEF Init, Procs, EndInv, OpenOnlyInTest, ClosedAtTheEnd, BarrierAfterPrint,
       ServerHearsBarrier, SocketCount, ClientZero, TextThere, Past, Live, Taken, Given
  <1>3. HelloTypeOK /\ EndInv /\ [Next]_vars => (HelloTypeOK /\ EndInv)'
    BY TypeNext, EndNext
  <1> QED
    BY <1>1, <1>2, <1>3, PTL DEF Spec

\* "Make sure remote is disconnected before destroying local worker": the barrier of
\* main achieves it for every process that ends with 0, also for a client that leaves
\* with 0 because recv() returned 0.
THEOREM HelloDisconnects == Spec => []RemoteDisconnectedFirst
  <1>1. HelloTypeOK /\ EndInv => RemoteDisconnectedFirst
    <2> SUFFICES ASSUME HelloTypeOK, EndInv, NEW p \in Procs, ret[p] = "zero"
                 PROVE  ep[Other(p)] # "open"
      BY DEF RemoteDisconnectedFirst
    <2>1. Past(Other(p)) /\ Other(p) \in Procs
      BY DEF EndInv, ServerHearsBarrier, ClientZero, Other, Procs
    <2> QED
      BY <2>1 DEF EndInv, OpenOnlyInTest, Past, Procs
  <1> QED
    BY <1>1, HelloEnds, PTL

--------------------------------------------------------------------------------
(***************************************************************************)
(* What the client prints.                                                 *)
(***************************************************************************)

\* As long as no CUDA call and no completion has failed, only the test string gets
\* to the client.
Clean ==
    spoiled = {} => /\ net["client"] \in Seq({"string"})
                    /\ arrived["client"] \in Seq({"string"})
                    /\ text["client"] \in {"none", "string"}
                    /\ shown \in {"none", "string"}

\* A step that leaves the messages and the client's memory alone keeps it, and so does
\* the end of a process, with which messages are lost.
LEMMA CleanKept ==
    ASSUME HelloTypeOK, Clean, UNCHANGED <<arrived, text, shown, spoiled>>,
           net'["client"] \in {net["client"], <<>>}
    PROVE  Clean'
  <1>1. <<>> \in Seq({"string"})
    OBVIOUS
  <1> QED
    BY <1>1 DEF Clean

\* The end of a process is such a step.
LEMMA CleanEnd ==
    ASSUME HelloTypeOK, Clean, NEW p \in Procs, NEW how, EndProcess(p, how)
    PROVE  Clean'
  <1>1. net'["client"] \in {net["client"], <<>>}
    BY DEF EndProcess, HelloTypeOK, Procs, Other
  <1> QED
    BY <1>1, CleanKept DEF EndProcess

\* So is what happens on the socket.
LEMMA CleanOob ==
    ASSUME HelloTypeOK, Clean, NEW p \in Procs, NEW item, NEW next,
           SendOob(p, item, next)
    PROVE  Clean'
  <1>1. CASE EndProcess(p, "dead")
    BY <1>1, CleanEnd
  <1>2. CASE UNCHANGED ucx
    BY <1>2, CleanKept DEF ucx
  <1> QED
    BY <1>1, <1>2 DEF SendOob

\* The server sends the string, or something has failed.
LEMMA CleanSendMsg ==
    ASSUME HelloTypeOK, Clean, NEW p \in Procs, SendMsg(p)
    PROVE  Clean'
  <1>1. UNCHANGED <<arrived, text, shown>> /\ spoiled \subseteq spoiled'
    BY DEF SendMsg, SpoilIf
  <1>2. SUFFICES ASSUME spoiled' = {} PROVE net'["client"] \in Seq({"string"})
    BY <1>1 DEF Clean
  <1>3. spoiled = {} /\ net["client"] \in Seq({"string"})
    BY <1>1, <1>2 DEF Clean
  <1>4. CASE net' = net
    BY <1>3, <1>4
  <1>5. CASE \E t \in Contents(p) :
               /\ net' = [net EXCEPT ![Other(p)] = Append(@, t)]
               /\ t # "junk"
    <2>1. PICK t \in Contents(p) :
               /\ net' = [net EXCEPT ![Other(p)] = Append(@, t)]
               /\ t # "junk"
      BY <1>5
    <2>2. CASE p = "client"
      BY <2>1, <2>2, <1>3 DEF Other, HelloTypeOK, Procs
    <2>3. CASE p = "server"
      <3>1. t = "string" /\ Other(p) = "client" /\ net \in [Procs -> Seq(Texts)]
        BY <2>1, <2>3 DEF Contents, Other, HelloTypeOK
      <3>2. net'["client"] = Append(net["client"], "string")
        BY <2>1, <3>1 DEF Procs
      <3> QED
        BY <1>3, <3>2
    <2> QED
      BY <2>2, <2>3 DEF Procs
  <1> QED
    BY <1>2, <1>4, <1>5 DEF SendMsg, SpoilIf

\* A message is delivered as it was sent.
LEMMA CleanDeliver ==
    ASSUME HelloTypeOK, Clean, NEW p \in Procs, Deliver(p)
    PROVE  Clean'
  <1>1. UNCHANGED <<text, shown, spoiled>>
    BY DEF Deliver
  <1>2. SUFFICES ASSUME spoiled = {}
                 PROVE  /\ net'["client"] \in Seq({"string"})
                        /\ arrived'["client"] \in Seq({"string"})
    BY <1>1 DEF Clean
  <1>3. net["client"] \in Seq({"string"}) /\ arrived["client"] \in Seq({"string"})
    BY <1>2 DEF Clean
  <1>4. CASE p = "server"
    BY <1>3, <1>4 DEF Deliver, HelloTypeOK, Procs
  <1>5. CASE p = "client"
    <2>1. /\ net["client"] # <<>>
          /\ net'["client"] = Tail(net["client"])
          /\ arrived'["client"] = Append(arrived["client"], Head(net["client"]))
      BY <1>5 DEF Deliver, HelloTypeOK, Procs
    <2> QED
      BY <1>3, <2>1
  <1> QED
    BY <1>4, <1>5 DEF Procs

\* The probe takes the message it has found into msg.
LEMMA CleanProbe ==
    ASSUME HelloTypeOK, Clean, NEW p \in Procs, Probe(p)
    PROVE  Clean'
  <1>1. UNCHANGED <<net, shown>> /\ spoiled \subseteq spoiled'
    BY DEF Probe, SpoilIf
  <1>2. SUFFICES ASSUME spoiled' = {}
                 PROVE  /\ text'["client"] \in {"none", "string"}
                        /\ arrived'["client"] \in Seq({"string"})
    BY <1>1 DEF Clean
  <1>3. arrived["client"] \in Seq({"string"}) /\ text["client"] \in {"none", "string"}
    BY <1>1, <1>2 DEF Clean
  <1>4. \/ text' = text
        \/ text' = [text EXCEPT ![p] = Head(arrived[p])]
    BY <1>2 DEF Probe, SpoilIf
  <1>5. CASE p = "server"
    BY <1>3, <1>4, <1>5 DEF Probe, HelloTypeOK, Procs
  <1>6. CASE p = "client"
    <2>1. arrived["client"] # <<>> /\ arrived'["client"] = Tail(arrived["client"])
      BY <1>6 DEF Probe, HelloTypeOK, Procs
    <2>2. Head(arrived["client"]) = "string"
      BY <1>3, <2>1
    <2> QED
      BY <1>3, <1>4, <1>6, <2>1, <2>2 DEF HelloTypeOK, Procs
  <1> QED
    BY <1>5, <1>6 DEF Procs

\* Every step keeps it.
LEMMA CleanNext ==
    ASSUME HelloTypeOK, Clean, [Next]_vars
    PROVE  Clean'
  <1>1. CASE UNCHANGED vars
    BY <1>1, CleanKept DEF vars
  <1>2. CASE Connect \/ RecvLen \/ RecvAddr \/ AllocPeerAddrFails \/ RecvOobFails
    BY <1>2, CleanKept DEF Connect, RecvLen, RecvAddr, RecvOob, AllocPeerAddrFails,
       RecvOobFails, ucx
  <1>3. CASE SendLen \/ SendAddr
    BY <1>3, CleanOob DEF SendLen, SendAddr, Procs
  <1>4. CASE flush_ep
    BY <1>4, CleanKept DEF flush_ep
  <1>5. CASE PrintString
    BY <1>5 DEF PrintString, SpoilIf, Clean
  <1>6. ASSUME NEW p \in Procs, Dies(p) \/ Crash(p) \/ CleanUp(p) PROVE Clean'
    BY <1>6, CleanEnd DEF Dies, Crash, CleanUp
  <1>7. ASSUME NEW p \in Procs, InitUcp(p) \/ ConnectFails(p) \/ CreateEpFails(p) PROVE Clean'
    BY <1>7, CleanKept DEF InitUcp, ConnectFails, CreateEpFails, ucx
  <1>8. ASSUME NEW p \in Procs, send_handler(p) \/ Sent(p) \/ recv_handler(p) \/ Received(p)
        PROVE  Clean'
    BY <1>8, CleanKept DEF send_handler, Sent, recv_handler, Received
  <1>9. ASSUME NEW p \in Procs, SendError(p) \/ RecvError(p) PROVE Clean'
    BY <1>9 DEF SendError, RecvError, Clean
  <1>10. ASSUME NEW p \in Procs, BarrierSend(p) \/ BarrierRecv(p) PROVE Clean'
    BY <1>10, CleanOob, CleanKept DEF BarrierSend, BarrierRecv, ucx
  <1> QED
    BY <1>1, <1>2, <1>3, <1>4, <1>5, <1>6, <1>7, <1>8, <1>9, <1>10, CleanSendMsg,
       CleanDeliver, CleanProbe DEF Next, ClientOnly, ServerOnly, Step

\* A server that ends with 0 knows that the client has printed a message: it has the
\* client's int of the barrier, which the client sends only after printing.  What the
\* client printed is the test string unless a CUDA call or a completion failed.
THEOREM HelloShown == Spec => []ServerSuccessMeansShown
  <1>1. HelloTypeOK /\ EndInv /\ Clean => ServerSuccessMeansShown
    BY DEF ServerSuccessMeansShown, EndInv, ServerHearsBarrier, Clean
  <1>2. Init => Clean
    <2>1. <<>> \in Seq({"string"})
      OBVIOUS
    <2> QED
      BY <2>1 DEF Init, Clean, Procs
  <1>3. HelloTypeOK /\ Clean /\ [Next]_vars => Clean'
    BY CleanNext
  <1> QED
    BY <1>1, <1>2, <1>3, HelloTypes, HelloEnds, PTL DEF Spec

================================================================================
