------------------------------- MODULE Handshake -------------------------------
(***************************************************************************)
(* The handshake of the RMA demo, byte by byte: Handshake::send_fd and     *)
(* Handshake::recv_fd over tcp::send_all and tcp::recv_all                 *)
(* (src/04_ucp_rma_client_server/ucx_util.cpp), one accepted connection.   *)
(*                                                                         *)
(* The wire format is [u32 wlen][waddr][u32 rlen][rkey][u64 raddr]         *)
(* [u64 size].  TCP keeps the order of the bytes and nothing else: each    *)
(* send() and recv() moves any number of bytes, so that only the lengths   *)
(* the receiver has decoded tell it where a field ends.                    *)
(***************************************************************************)
EXTENDS Integers, Sequences

CONSTANTS
    Base,         \* number of values of a byte
    LenBytes,     \* sizeof(uint32_t)
    WordBytes,    \* sizeof(uint64_t)
    WorkerAddrs,  \* worker addresses, as byte sequences
    RKeys,        \* packed rkeys, as byte sequences
    Words,        \* values of remote_addr and size
    SockBuf,      \* bytes the connection holds
    Faults        \* what may go wrong outside the demo

Bytes == 0 .. Base - 1

ASSUME WidthAssumption ==
    Base \in Nat \ {0, 1} /\ LenBytes \in Nat \ {0} /\ WordBytes \in Nat \ {0}
ASSUME BlobAssumption == WorkerAddrs \subseteq Seq(Bytes) /\ RKeys \subseteq Seq(Bytes)
ASSUME WordAssumption == Words \subseteq 0 .. Base ^ WordBytes - 1
ASSUME SockAssumption == SockBuf \in Nat \ {0}
ASSUME FaultsAssumption == Faults \subseteq {"client", "server"}

VARIABLES
    hs,      \* the server's Handshake
    spc,     \* "send", "closed" (sent, then close(cfd)), "failed" (threw or was killed)
    sfield,  \* the send_all call the server is in
    soff,    \* its off
    wire,    \* bytes sent and not yet received
    rpc,     \* "recv", "done", "failed" (threw), "gone" (was killed)
    got,     \* the fields the client has received
    part     \* the bytes of the field it is receiving

vars == <<hs, spc, sfield, soff, wire, rpc, got, part>>

(***************************************************************************)
(* Fixed-width numbers in native (little-endian) byte order.               *)
(***************************************************************************)
ToBytes(n, width) == [k \in 1 .. width |-> (n \div Base ^ (k - 1)) % Base]

FromBytes(b) ==
    LET value[k \in 0 .. Len(b)] ==
          IF k = 0 THEN 0 ELSE value[k - 1] + b[k] * Base ^ (k - 1)
    IN  value[Len(b)]

\* The lengths fit their width, and a number that fits its width is what its
\* bytes are decoded to: both processes read and write it in native order.
ASSUME LengthAssumption == \A a \in WorkerAddrs \cup RKeys : Len(a) < Base ^ LenBytes
ASSUME NumberAssumption ==
    \A w \in {LenBytes, WordBytes} : \A n \in 0 .. Base ^ w - 1 :
        ToBytes(n, w) \in [1 .. w -> Bytes] /\ FromBytes(ToBytes(n, w)) = n

\* Mutant: the digits of a length are not reduced to bytes.
FieldsUnmasked ==
    LET Digits(n) == [k \in 1 .. LenBytes |-> n \div Base ^ (k - 1)]
    IN  <<Digits(Len(hs.worker_addr)), hs.worker_addr, Digits(Len(hs.rkey)), hs.rkey,
          ToBytes(hs.remote_addr, WordBytes), ToBytes(hs.size, WordBytes)>>

\* Mutant: the size is sent as a u32.
FieldsShortSize ==
    <<ToBytes(Len(hs.worker_addr), LenBytes), hs.worker_addr,
      ToBytes(Len(hs.rkey), LenBytes), hs.rkey,
      ToBytes(hs.remote_addr, WordBytes), ToBytes(hs.size, LenBytes)>>

\* The send_all calls of send_fd, in order; those of an empty vector are skipped.
Fields ==
    <<ToBytes(Len(hs.worker_addr), LenBytes), hs.worker_addr,
      ToBytes(Len(hs.rkey), LenBytes), hs.rkey,
      ToBytes(hs.remote_addr, WordBytes), ToBytes(hs.size, WordBytes)>>

NFields == 6

\* The length recv_fd passes to its next recv_all, given the fields so far.
Need(fields) ==
    CASE Len(fields) + 1 \in {1, 3} -> LenBytes
      [] Len(fields) + 1 \in {2, 4} -> FromBytes(fields[Len(fields)])
      [] OTHER -> WordBytes

\* recv_fd skips the recv_all of an empty vector.
SkipEmpty(fields) ==
    IF Len(fields) < NFields /\ Need(fields) = 0 THEN Append(fields, <<>>) ELSE fields

\* What recv_fd returns.
Received ==
    [worker_addr |-> got[2], rkey |-> got[4],
     remote_addr |-> FromBytes(got[5]), size |-> FromBytes(got[6])]

Prefix(s, n) == SubSeq(s, 1, n)
Suffix(s, n) == SubSeq(s, n + 1, Len(s))

\* Every variable has its type.
HandshakeTypeOK ==
    /\ hs \in [worker_addr : WorkerAddrs, rkey : RKeys, remote_addr : Words, size : Words]
    /\ spc \in {"send", "closed", "failed"}
    /\ sfield \in 1 .. NFields + 1
    /\ soff \in Nat
    /\ wire \in Seq(Bytes) /\ Len(wire) <= SockBuf
    /\ rpc \in {"recv", "done", "failed", "gone"}
    /\ got \in Seq(Seq(Bytes)) /\ Len(got) <= NFields
    /\ part \in Seq(Bytes)

Init ==
    /\ hs \in [worker_addr : WorkerAddrs, rkey : RKeys, remote_addr : Words, size : Words]
    /\ spc = "send"
    /\ sfield = 1
    /\ soff = 0
    /\ wire = <<>>
    /\ rpc = "recv"
    /\ got = <<>>
    /\ part = <<>>

--------------------------------------------------------------------------------
(***************************************************************************)
(* The server: send_fd, then close(cfd).                                   *)
(***************************************************************************)

\* The send_all call that follows field f.
NextCall(f) ==
    IF f < NFields /\ Fields[f + 1] = <<>> THEN f + 2 ELSE f + 1

\* One send() of send_all: as many bytes as the socket takes.  What is sent to
\* a client that is gone may be accepted and is lost.
Send ==
    /\ spc = "send"
    /\ sfield <= NFields
    /\ \E n \in 1 .. Len(Fields[sfield]) - soff :
         /\ Len(wire) + n <= SockBuf
         /\ wire' = IF rpc = "gone" THEN wire
                    ELSE wire \o SubSeq(Fields[sfield], soff + 1, soff + n)
         /\ IF soff + n = Len(Fields[sfield])
              THEN sfield' = NextCall(sfield) /\ soff' = 0
              ELSE soff' = soff + n /\ UNCHANGED sfield
    /\ UNCHANGED <<hs, spc, rpc, got, part>>

\* send() fails: send_all throws.
SendFails ==
    /\ spc = "send"
    /\ rpc = "gone"
    /\ spc' = "failed"
    /\ UNCHANGED <<hs, sfield, soff, wire, rpc, got, part>>

Close ==
    /\ spc = "send"
    /\ sfield = NFields + 1
    /\ spc' = "closed"
    /\ UNCHANGED <<hs, sfield, soff, wire, rpc, got, part>>

--------------------------------------------------------------------------------
(***************************************************************************)
(* The client: recv_fd.                                                    *)
(***************************************************************************)

\* Mutant: recv_all returns after its first recv().
FieldCompleteShort(n) == n > 0

\* off = len: recv_all returns.
FieldComplete(n) == Len(part) + n = Need(got)

\* One recv() of recv_all: any part of what has arrived.
Recv ==
    /\ rpc = "recv"
    /\ \E n \in 1 .. Need(got) - Len(part) :
         /\ n <= Len(wire)
         /\ wire' = Suffix(wire, n)
         /\ IF FieldComplete(n)
              THEN /\ got' = SkipEmpty(Append(got, part \o Prefix(wire, n)))
                   /\ part' = <<>>
                   /\ rpc' = IF Len(got') = NFields THEN "done" ELSE "recv"
              ELSE /\ part' = part \o Prefix(wire, n)
                   /\ UNCHANGED <<got, rpc>>
    /\ UNCHANGED <<hs, spc, sfield, soff>>

\* Mutant: the end of the stream ends the field instead of the program.
RecvEofTaken ==
    /\ rpc = "recv"
    /\ wire = <<>>
    /\ spc # "send"
    /\ got' = Append(got, part)
    /\ part' = <<>>
    /\ rpc' = IF Len(got') = NFields THEN "done" ELSE "recv"
    /\ UNCHANGED <<hs, spc, sfield, soff, wire>>

\* recv() returns 0 or -1: the stream has ended before the handshake.
RecvFails ==
    /\ rpc = "recv"
    /\ wire = <<>>
    /\ spc # "send"
    /\ rpc' = "failed"
    /\ UNCHANGED <<hs, spc, sfield, soff, wire, got, part>>

--------------------------------------------------------------------------------
\* A process is killed; with the server, bytes in the socket may be lost.
ClientGone ==
    /\ "client" \in Faults
    /\ rpc = "recv"
    /\ rpc' = "gone"
    /\ wire' = <<>>
    /\ UNCHANGED <<hs, spc, sfield, soff, got, part>>

ServerGone ==
    /\ "server" \in Faults
    /\ spc = "send"
    /\ spc' = "failed"
    /\ \E n \in 0 .. Len(wire) : wire' = Prefix(wire, n)
    /\ UNCHANGED <<hs, sfield, soff, rpc, got, part>>

ServerStep == Send \/ SendFails \/ Close
ClientStep == Recv \/ RecvFails

Next == ServerStep \/ ClientStep \/ ClientGone \/ ServerGone

\* Both processes run and TCP delivers.
Fairness == WF_vars(ServerStep) /\ WF_vars(ClientStep)

Spec == Init /\ [][Next]_vars
FairSpec == Spec /\ Fairness

--------------------------------------------------------------------------------
(***************************************************************************)
(* Properties.                                                             *)
(***************************************************************************)

\* recv_fd returns the server's handshake or throws: however send() and recv()
\* cut the stream, and wherever it ends early, a client that goes on has every
\* field as the server sent it.
HandshakeIntact == rpc = "done" => Received = hs

\* The two sides agree on where the fields end: when the client has parsed the
\* handshake the server has passed its last send_all and the connection is
\* empty, so that nothing was skipped and nothing is left over.
SidesAgree ==
    rpc = "done" => sfield = NFields + 1 /\ wire = <<>>

\* When neither process is killed the handshake is completed by both, however
\* small the socket's buffer.
HandshakeEnds ==
    <>((rpc = "done" /\ spc = "closed") \/ rpc = "gone" \/ spc = "failed")

================================================================================
