---------------------------- MODULE HandshakeProofs ----------------------------
(***************************************************************************)
(* Proofs about Handshake, for every width of its numbers, every set of    *)
(* worker addresses, rkeys and words, every size of the socket buffer, and *)
(* whichever process may be killed.                                        *)
(***************************************************************************)
EXTENDS Handshake, TLAPS

(***************************************************************************)
(* The inductive invariant.  A byte of the stream is known by its position *)
(* in it: field k begins after Start(k) bytes.                             *)
(***************************************************************************)
Start(k) ==
    CASE k = 1 -> 0
      [] k = 2 -> LenBytes
      [] k = 3 -> LenBytes + Len(hs.worker_addr)
      [] k = 4 -> LenBytes + Len(hs.worker_addr) + LenBytes
      [] k = 5 -> LenBytes + Len(hs.worker_addr) + LenBytes + Len(hs.rkey)
      [] k = 6 -> LenBytes + Len(hs.worker_addr) + LenBytes + Len(hs.rkey) + WordBytes
      [] k = 7 -> LenBytes + Len(hs.worker_addr) + LenBytes + Len(hs.rkey) + WordBytes + WordBytes

\* Bytes the server has sent and the client has received.
SentPos == Start(sfield) + soff
RecvPos == Start(Len(got) + 1) + Len(part)

\* send_all is not entered for an empty field, and is left with the last byte.
SenderAt ==
    /\ sfield <= NFields => soff < Len(Fields[sfield])
    /\ sfield = NFields + 1 => soff = 0

\* The client has the fields as they are and a proper part of the next one.
ReceiverAt ==
    /\ \A i \in 1 .. Len(got) : got[i] = Fields[i]
    /\ rpc = "recv" =>
         /\ Len(got) < NFields
         /\ Len(part) < Len(Fields[Len(got) + 1])
         /\ \A i \in 1 .. Len(part) : part[i] = Fields[Len(got) + 1][i]
    /\ rpc = "done" => Len(got) = NFields /\ part = <<>>

\* Byte b of the stream is at position pos.
IsAt(b, pos) ==
    \A k \in 1 .. NFields : Start(k) < pos /\ pos <= Start(k + 1) => b = Fields[k][pos - Start(k)]

\* What is on the wire is what follows; it ends where the server is, unless the
\* server's death took some of it.
WireAt ==
    /\ \A i \in 1 .. Len(wire) : IsAt(wire[i], RecvPos + i)
    /\ RecvPos + Len(wire) <= SentPos
    /\ spc # "failed" => RecvPos + Len(wire) = SentPos

HandshakeInd ==
    /\ HandshakeTypeOK
    /\ SenderAt
    /\ rpc \in {"recv", "done"} => ReceiverAt /\ WireAt

--------------------------------------------------------------------------------
\* The bytes of a number that fits.
LEMMA NumberBytes ==
    ASSUME NEW w \in {LenBytes, WordBytes}, NEW n \in 0 .. Base ^ w - 1
    PROVE  /\ ToBytes(n, w) \in Seq(Bytes) /\ Len(ToBytes(n, w)) = w
           /\ FromBytes(ToBytes(n, w)) = n
  <1>1. ToBytes(n, w) \in [1 .. w -> Bytes] /\ FromBytes(ToBytes(n, w)) = n
    BY NumberAssumption
  <1>2. w \in Nat
    BY WidthAssumption
  <1> QED
    BY <1>1, <1>2

\* The values of the handshake are in range.
LEMMA ValueFacts ==
    ASSUME HandshakeTypeOK
    PROVE  /\ hs.worker_addr \in Seq(Bytes) /\ hs.rkey \in Seq(Bytes)
           /\ Len(hs.worker_addr) \in 0 .. Base ^ LenBytes - 1
           /\ Len(hs.rkey) \in 0 .. Base ^ LenBytes - 1
           /\ hs.remote_addr \in 0 .. Base ^ WordBytes - 1
           /\ hs.size \in 0 .. Base ^ WordBytes - 1
  <1>1. /\ hs.worker_addr \in WorkerAddrs /\ hs.rkey \in RKeys
        /\ hs.remote_addr \in Words /\ hs.size \in Words
    BY DEF HandshakeTypeOK
  <1>2. hs.worker_addr \in Seq(Bytes) /\ hs.rkey \in Seq(Bytes)
    BY <1>1, BlobAssumption
  <1>3. /\ Len(hs.worker_addr) < Base ^ LenBytes
        /\ Len(hs.rkey) < Base ^ LenBytes
    BY <1>1, LengthAssumption
  <1>4. Len(hs.worker_addr) \in Nat /\ Len(hs.rkey) \in Nat /\ Base ^ LenBytes \in Int
    BY <1>2, WidthAssumption
  <1>5. /\ Len(hs.worker_addr) \in 0 .. Base ^ LenBytes - 1
        /\ Len(hs.rkey) \in 0 .. Base ^ LenBytes - 1
    BY <1>3, <1>4
  <1> QED
    BY <1>1, <1>2, <1>5, WordAssumption

\* The six fields: byte sequences, each beginning where the last one ends; the
\* numbers are not empty.
LEMMA FieldFacts ==
    ASSUME HandshakeTypeOK
    PROVE  /\ \A k \in 1 .. NFields : /\ Fields[k] \in Seq(Bytes) /\ Len(Fields[k]) \in Nat
                                       /\ Start(k + 1) = Start(k) + Len(Fields[k])
           /\ \A k \in 1 .. NFields + 1 : Start(k) \in Nat
           /\ Start(1) = 0
           /\ \A k \in {1, 3, 5, 6} : Len(Fields[k]) > 0
           /\ Len(Fields[2]) = Len(hs.worker_addr) /\ Len(Fields[4]) = Len(hs.rkey)
           /\ \A k \in {1, 3} : Len(Fields[k]) = LenBytes
           /\ \A k \in {5, 6} : Len(Fields[k]) = WordBytes
  <1>1. /\ Fields[1] = ToBytes(Len(hs.worker_addr), LenBytes) /\ Fields[2] = hs.worker_addr
        /\ Fields[3] = ToBytes(Len(hs.rkey), LenBytes) /\ Fields[4] = hs.rkey
        /\ Fields[5] = ToBytes(hs.remote_addr, WordBytes)
        /\ Fields[6] = ToBytes(hs.size, WordBytes)
    BY DEF Fields
  <1>2. /\ Fields[1] \in Seq(Bytes) /\ Len(Fields[1]) = LenBytes
        /\ Fields[3] \in Seq(Bytes) /\ Len(Fields[3]) = LenBytes
        /\ Fields[5] \in Seq(Bytes) /\ Len(Fields[5]) = WordBytes
        /\ Fields[6] \in Seq(Bytes) /\ Len(Fields[6]) = WordBytes
    BY <1>1, ValueFacts, NumberBytes
  <1>3. /\ Fields[2] \in Seq(Bytes) /\ Fields[4] \in Seq(Bytes)
        /\ Len(Fields[2]) = Len(hs.worker_addr) /\ Len(Fields[4]) = Len(hs.rkey)
        /\ Len(hs.worker_addr) \in Nat /\ Len(hs.rkey) \in Nat
    BY <1>1, ValueFacts
  <1>4. LenBytes \in Nat \ {0} /\ WordBytes \in Nat \ {0}
    BY WidthAssumption
  <1>5. /\ Start(1) = 0 /\ Start(2) = LenBytes /\ Start(3) = LenBytes + Len(hs.worker_addr)
        /\ Start(4) = LenBytes + Len(hs.worker_addr) + LenBytes
        /\ Start(5) = LenBytes + Len(hs.worker_addr) + LenBytes + Len(hs.rkey)
        /\ Start(6) = LenBytes + Len(hs.worker_addr) + LenBytes + Len(hs.rkey) + WordBytes
        /\ Start(7) = LenBytes + Len(hs.worker_addr) + LenBytes + Len(hs.rkey) + WordBytes + WordBytes
    BY DEF Start
  <1>6. ASSUME NEW k \in 1 .. 6
        PROVE  /\ Fields[k] \in Seq(Bytes) /\ Len(Fields[k]) \in Nat
               /\ Start(k + 1) = Start(k) + Len(Fields[k])
    <2>1. CASE k = 1
      <3>1. k + 1 = 2
        BY <2>1
      <3>2. Start(k + 1) = Start(k) + Len(Fields[k])
        BY <1>2, <1>3, <1>4, <1>5, <2>1, <3>1
      <3> QED
        BY <1>2, <1>3, <1>4, <2>1, <3>2
    <2>2. CASE k = 2
      <3>1. k + 1 = 3
        BY <2>2
      <3>2. Start(k + 1) = Start(k) + Len(Fields[k])
        BY <1>2, <1>3, <1>4, <1>5, <2>2, <3>1
      <3> QED
        BY <1>2, <1>3, <1>4, <2>2, <3>2
    <2>3. CASE k = 3
      <3>1. k + 1 = 4
        BY <2>3
      <3>2. Start(k + 1) = Start(k) + Len(Fields[k])
        BY <1>2, <1>3, <1>4, <1>5, <2>3, <3>1
      <3> QED
        BY <1>2, <1>3, <1>4, <2>3, <3>2
    <2>4. CASE k = 4
      <3>1. k + 1 = 5
        BY <2>4
      <3>2. Start(k + 1) = Start(k) + Len(Fields[k])
        BY <1>2, <1>3, <1>4, <1>5, <2>4, <3>1
      <3> QED
        BY <1>2, <1>3, <1>4, <2>4, <3>2
    <2>5. CASE k = 5
      <3>1. k + 1 = 6
        BY <2>5
      <3>2. Start(k + 1) = Start(k) + Len(Fields[k])
        BY <1>2, <1>3, <1>4, <1>5, <2>5, <3>1
      <3> QED
        BY <1>2, <1>3, <1>4, <2>5, <3>2
    <2>6. CASE k = 6
      <3>1. k + 1 = 7
        BY <2>6
      <3>2. Start(k + 1) = Start(k) + Len(Fields[k])
        BY <1>2, <1>3, <1>4, <1>5, <2>6, <3>1
      <3> QED
        BY <1>2, <1>3, <1>4, <2>6, <3>2
    <2> QED
      BY <2>1, <2>2, <2>3, <2>4, <2>5, <2>6
  <1>7. /\ Start(1) \in Nat /\ Start(2) \in Nat /\ Start(3) \in Nat /\ Start(4) \in Nat
        /\ Start(5) \in Nat /\ Start(6) \in Nat /\ Start(7) \in Nat
    <2>1. ASSUME NEW k \in 1 .. 6, Start(k) \in Nat
          PROVE  Start(k + 1) \in Nat
      <3>1. Len(Fields[k]) \in Nat /\ Start(k + 1) = Start(k) + Len(Fields[k])
        BY <1>6
      <3>2. Start(k) + Len(Fields[k]) \in Nat
        <4>1. \A x, y \in Nat : x + y \in Nat
          OBVIOUS
        <4> QED
          BY <2>1, <3>1, <4>1
      <3> QED
        BY <3>1, <3>2
    <2>2. Start(1) \in Nat
      BY <1>5
    <2>3. Start(2) \in Nat
      <3>1. Start(1 + 1) \in Nat
        BY <2>1, <2>2
      <3> QED
        BY <3>1
    <2>4. Start(3) \in Nat
      <3>1. Start(2 + 1) \in Nat
        BY <2>1, <2>3
      <3> QED
        BY <3>1
    <2>5. Start(4) \in Nat
      <3>1. Start(3 + 1) \in Nat
        BY <2>1, <2>4
      <3> QED
        BY <3>1
    <2>6. Start(5) \in Nat
      <3>1. Start(4 + 1) \in Nat
        BY <2>1, <2>5
      <3> QED
        BY <3>1
    <2>7. Start(6) \in Nat
      <3>1. Start(5 + 1) \in Nat
        BY <2>1, <2>6
      <3> QED
        BY <3>1
    <2>8. Start(7) \in Nat
      <3>1. Start(6 + 1) \in Nat
        BY <2>1, <2>7
      <3> QED
        BY <3>1
    <2> QED
      BY <2>2, <2>3, <2>4, <2>5, <2>6, <2>7, <2>8
  <1>8. ASSUME NEW k \in 1 .. 7
        PROVE  Start(k) \in Nat
    <2>1. k = 1 \/ k = 2 \/ k = 3 \/ k = 4 \/ k = 5 \/ k = 6 \/ k = 7
      OBVIOUS
    <2> QED
      BY <1>7, <2>1
  <1>9. NFields = 6 /\ NFields + 1 = 7
    BY DEF NFields
  <1>10. /\ \A k \in {1, 3} : Len(Fields[k]) = LenBytes
         /\ \A k \in {5, 6} : Len(Fields[k]) = WordBytes
    BY <1>2
  <1>11. \A k \in {1, 3, 5, 6} : Len(Fields[k]) > 0
    BY <1>2, <1>4
  <1>12. /\ \A k \in 1 .. NFields : /\ Fields[k] \in Seq(Bytes) /\ Len(Fields[k]) \in Nat
                                     /\ Start(k + 1) = Start(k) + Len(Fields[k])
         /\ \A k \in 1 .. NFields + 1 : Start(k) \in Nat
    BY <1>6, <1>8, <1>9
  <1> QED
    BY <1>3, <1>5, <1>10, <1>11, <1>12

\* The positions are numbers.
LEMMA StartNat ==
    ASSUME HandshakeTypeOK, NEW k \in 1 .. NFields
    PROVE  Start(k) \in Nat /\ Start(k + 1) \in Nat
  <1>1. k \in 1 .. NFields + 1 /\ k + 1 \in 1 .. NFields + 1
    BY DEF NFields
  <1> QED
    BY <1>1, FieldFacts

\* Only the two vectors may be empty.
LEMMA NumbersNotEmpty ==
    ASSUME HandshakeTypeOK, NEW k \in {1, 3, 5, 6}
    PROVE  Len(Fields[k]) > 0 /\ Len(Fields[k]) # 0
  <1>1. Len(Fields[k]) > 0
    BY FieldFacts
  <1> QED
    BY <1>1

\* A sequence of no elements.
LEMMA EmptyWhenNone ==
    ASSUME NEW S, NEW q \in Seq(S), Len(q) = 0
    PROVE  q = <<>>
  OBVIOUS

\* The fields are in order.
LEMMA StartOrder ==
    ASSUME HandshakeTypeOK, NEW j \in 1 .. NFields + 1, NEW k \in 1 .. NFields + 1, j <= k
    PROVE  Start(j) <= Start(k)
  <1>1. ASSUME NEW i \in 1 .. 6
        PROVE  Start(i) \in Nat /\ Start(i + 1) \in Nat /\ Start(i) <= Start(i + 1)
    <2>1. i \in 1 .. NFields /\ i \in 1 .. NFields + 1 /\ i + 1 \in 1 .. NFields + 1
      BY DEF NFields
    <2>2. /\ Start(i) \in Nat /\ Start(i + 1) \in Nat /\ Len(Fields[i]) \in Nat
          /\ Start(i + 1) = Start(i) + Len(Fields[i])
      BY <2>1, FieldFacts
    <2> QED
      BY <2>2
  <1>2. /\ Start(1) <= Start(2) /\ Start(2) <= Start(3) /\ Start(3) <= Start(4)
        /\ Start(4) <= Start(5) /\ Start(5) <= Start(6) /\ Start(6) <= Start(7)
        /\ \A i \in 1 .. 7 : Start(i) \in Nat
    BY <1>1, FieldFacts DEF NFields
  <1>3. \A i \in 1 .. 7 : i = 1 \/ i = 2 \/ i = 3 \/ i = 4 \/ i = 5 \/ i = 6 \/ i = 7
    OBVIOUS
  <1> QED
    BY <1>2, <1>3 DEF NFields

\* The numbers below six.
LEMMA UpToFive ==
    ASSUME NEW x \in Nat, x < 6
    PROVE  x = 0 \/ x = 1 \/ x = 2 \/ x = 3 \/ x = 4 \/ x = 5
  OBVIOUS

\* recv_fd asks for as many bytes as the next field has.
LEMMA NeedIsLength ==
    ASSUME HandshakeTypeOK, NEW f \in Seq(Seq(Bytes)), Len(f) < NFields,
           \A i \in 1 .. Len(f) : f[i] = Fields[i]
    PROVE  Need(f) = Len(Fields[Len(f) + 1])
  <1>1. \/ Len(f) = 0 \/ Len(f) = 1 \/ Len(f) = 2
        \/ Len(f) = 3 \/ Len(f) = 4 \/ Len(f) = 5
    <2>1. Len(f) \in Nat /\ Len(f) < 6
      BY DEF NFields
    <2> QED
      BY <2>1, UpToFive
  <1>2. CASE Len(f) = 0
    <2>1. Len(f) + 1 = 1
      BY <1>2
    <2>2. Need(f) = LenBytes
      BY <2>1 DEF Need
    <2>3. Len(Fields[1]) = LenBytes
      BY FieldFacts
    <2> QED
      BY <2>1, <2>2, <2>3
  <1>3. CASE Len(f) = 2
    <2>1. Len(f) + 1 = 3
      BY <1>3
    <2>2. Need(f) = LenBytes
      BY <2>1 DEF Need
    <2>3. Len(Fields[3]) = LenBytes
      BY FieldFacts
    <2> QED
      BY <2>1, <2>2, <2>3
  <1>6. CASE Len(f) = 4
    <2>1. Len(f) + 1 = 5
      BY <1>6
    <2>2. Need(f) = WordBytes
      BY <2>1 DEF Need
    <2>3. Len(Fields[5]) = WordBytes
      BY FieldFacts
    <2> QED
      BY <2>1, <2>2, <2>3
  <1>7. CASE Len(f) = 5
    <2>1. Len(f) + 1 = 6
      BY <1>7
    <2>2. Need(f) = WordBytes
      BY <2>1 DEF Need
    <2>3. Len(Fields[6]) = WordBytes
      BY FieldFacts
    <2> QED
      BY <2>1, <2>2, <2>3
  <1>4. CASE Len(f) = 1
    <2>1. f[1] = ToBytes(Len(hs.worker_addr), LenBytes)
      BY <1>4 DEF Fields
    <2>2. FromBytes(f[1]) = Len(hs.worker_addr)
      BY <2>1, ValueFacts, NumberBytes
    <2>3. Len(f) + 1 = 2
      BY <1>4
    <2>4. Need(f) = FromBytes(f[1])
      BY <1>4, <2>3 DEF Need
    <2>5. Len(Fields[2]) = Len(hs.worker_addr)
      BY FieldFacts
    <2> QED
      BY <2>2, <2>3, <2>4, <2>5
  <1>5. CASE Len(f) = 3
    <2>1. f[3] = ToBytes(Len(hs.rkey), LenBytes)
      BY <1>5 DEF Fields
    <2>2. FromBytes(f[3]) = Len(hs.rkey)
      BY <2>1, ValueFacts, NumberBytes
    <2>3. Len(f) + 1 = 4
      BY <1>5
    <2>4. Need(f) = FromBytes(f[3])
      BY <1>5, <2>3 DEF Need
    <2>5. Len(Fields[4]) = Len(hs.rkey)
      BY FieldFacts
    <2> QED
      BY <2>2, <2>3, <2>4, <2>5
  <1> QED
    BY <1>1, <1>2, <1>3, <1>4, <1>5, <1>6, <1>7

\* SkipEmpty appends the empty field if the next one is empty; the one after it is
\* not.
LEMMA SkipsEmpty ==
    ASSUME HandshakeTypeOK, NEW f \in Seq(Seq(Bytes)), Len(f) \in 1 .. NFields,
           \A i \in 1 .. Len(f) : f[i] = Fields[i]
    PROVE  LET s == SkipEmpty(f)
           IN  /\ s \in Seq(Seq(Bytes)) /\ Len(s) \in 1 .. NFields
               /\ \A i \in 1 .. Len(s) : s[i] = Fields[i]
               /\ Start(Len(s) + 1) = Start(Len(f) + 1)
               /\ Len(s) < NFields => Len(Fields[Len(s) + 1]) > 0
  <1>1. CASE Len(f) = NFields
    BY <1>1 DEF SkipEmpty
  <1>2. CASE Len(f) < NFields
    <2>1. Need(f) = Len(Fields[Len(f) + 1]) /\ Len(f) + 1 \in 1 .. NFields
      BY <1>2, NeedIsLength DEF NFields
    <2>2. Fields[Len(f) + 1] \in Seq(Bytes) /\ Len(Fields[Len(f) + 1]) \in Nat
      BY <2>1, FieldFacts
    <2>3. CASE Need(f) # 0
      <3>1. SkipEmpty(f) = f
        BY <2>3 DEF SkipEmpty
      <3> QED
        BY <2>1, <2>2, <2>3, <3>1
    <2>4. CASE Need(f) = 0
      <3>1. SkipEmpty(f) = Append(f, <<>>)
        BY <1>2, <2>4 DEF SkipEmpty
      <3>2. Fields[Len(f) + 1] = <<>> /\ Len(Fields[Len(f) + 1]) = 0
        <4>1. Len(Fields[Len(f) + 1]) = 0
          BY <2>1, <2>4
        <4> QED
          BY <2>2, <4>1, EmptyWhenNone
      <3>3. Len(f) + 1 \in {2, 4}
        <4>1. Len(f) + 1 \notin {1, 3, 5, 6}
          BY <3>2, NumbersNotEmpty
        <4> QED
          BY <2>1, <4>1 DEF NFields
      <3>4. Len(f) + 2 \in {3, 5} /\ Len(Fields[Len(f) + 2]) > 0
        <4>1. Len(f) + 2 \in {3, 5}
          BY <3>3
        <4> QED
          BY <4>1, NumbersNotEmpty
      <3>5. Start(Len(f) + 2) = Start(Len(f) + 1)
        <4>1. Start(Len(f) + 1) \in Nat
          BY <2>1, StartNat
        <4>2. Start(Len(f) + 1 + 1) = Start(Len(f) + 1) + Len(Fields[Len(f) + 1])
          BY <2>1, FieldFacts
        <4> QED
          BY <2>1, <2>4, <4>1, <4>2
      <3>6. /\ Append(f, <<>>) \in Seq(Seq(Bytes)) /\ Len(Append(f, <<>>)) = Len(f) + 1
            /\ \A i \in 1 .. Len(f) : Append(f, <<>>)[i] = f[i]
            /\ Append(f, <<>>)[Len(f) + 1] = <<>>
        OBVIOUS
      <3>7. \A i \in 1 .. Len(f) + 1 : Append(f, <<>>)[i] = Fields[i]
        BY <3>2, <3>6
      <3> QED
        BY <2>1, <3>1, <3>4, <3>5, <3>6, <3>7
    <2> QED
      BY <2>3, <2>4
  <1>3. Len(f) = NFields \/ Len(f) < NFields
    <2>1. \A x \in 1 .. NFields : x = NFields \/ x < NFields
      BY DEF NFields
    <2> QED
      BY <2>1
  <1> QED
    BY <1>1, <1>2, <1>3

\* So does the sender's next call.
LEMMA NextCallSkips ==
    ASSUME HandshakeTypeOK, sfield <= NFields
    PROVE  /\ NextCall(sfield) \in 1 .. NFields + 1
           /\ Start(NextCall(sfield)) = Start(sfield + 1)
           /\ NextCall(sfield) <= NFields => Len(Fields[NextCall(sfield)]) > 0
  <1>1. sfield \in 1 .. 6
    BY DEF HandshakeTypeOK, NFields
  <1>2. CASE sfield = NFields
    BY <1>2 DEF NextCall, NFields
  <1>3. CASE sfield < NFields
    <2>1. sfield + 1 \in 1 .. NFields
      BY <1>1, <1>3 DEF NFields
    <2>2. Fields[sfield + 1] \in Seq(Bytes) /\ Len(Fields[sfield + 1]) \in Nat
      BY <2>1, FieldFacts
    <2>3. CASE Fields[sfield + 1] # <<>>
      <3>1. NextCall(sfield) = sfield + 1
        BY <2>3 DEF NextCall
      <3>2. Len(Fields[sfield + 1]) > 0
        BY <2>2, <2>3
      <3> QED
        BY <1>1, <2>1, <3>1, <3>2 DEF NFields
    <2>4. CASE Fields[sfield + 1] = <<>>
      <3>1. NextCall(sfield) = sfield + 2 /\ Len(Fields[sfield + 1]) = 0
        BY <1>3, <2>4 DEF NextCall
      <3>2. sfield + 1 \in {2, 4}
        <4>1. sfield + 1 \notin {1, 3, 5, 6}
          BY <3>1, NumbersNotEmpty
        <4> QED
          BY <2>1, <4>1 DEF NFields
      <3>3. sfield + 2 \in {3, 5} /\ Len(Fields[sfield + 2]) > 0
        <4>1. sfield + 2 \in {3, 5}
          BY <1>1, <3>2
        <4> QED
          BY <4>1, NumbersNotEmpty
      <3>4. Start(sfield + 2) = Start(sfield + 1)
        <4>1. Start(sfield + 1) \in Nat
          BY <2>1, StartNat
        <4>2. Start(sfield + 1 + 1) = Start(sfield + 1) + Len(Fields[sfield + 1])
          BY <2>1, FieldFacts
        <4> QED
          BY <1>1, <3>1, <4>1, <4>2
      <3> QED
        BY <3>1, <3>3, <3>4 DEF NFields
    <2> QED
      BY <2>3, <2>4
  <1> QED
    BY <1>1, <1>2, <1>3 DEF NFields

--------------------------------------------------------------------------------
\* The handshake does not change, nor what is defined from it.
LEMMA SameFields ==
    ASSUME hs' = hs
    PROVE  /\ Fields' = Fields /\ \A k : Start(k)' = Start(k)
           /\ \A b, pos : IsAt(b, pos)' <=> IsAt(b, pos)
  <1>1. Fields' = Fields
    BY DEF Fields
  <1>2. \A k : Start(k)' = Start(k)
    BY DEF Start
  <1> QED
    BY <1>1, <1>2 DEF IsAt

\* A byte of field f is at its position, and at no other field's.
LEMMA ByteOfField ==
    ASSUME HandshakeTypeOK, NEW f \in 1 .. NFields, NEW i \in 1 .. Len(Fields[f])
    PROVE  IsAt(Fields[f][i], Start(f) + i)
  <1> DEFINE pos == Start(f) + i
  <1> SUFFICES ASSUME NEW k \in 1 .. NFields, Start(k) < pos, pos <= Start(k + 1)
               PROVE  Fields[f][i] = Fields[k][pos - Start(k)]
    <2> HIDE DEF pos
    <2> SUFFICES IsAt(Fields[f][i], pos)
      BY DEF pos
    <2> QED
      BY DEF IsAt
  <1>1. /\ f \in Nat /\ k \in Nat /\ i \in Nat /\ Start(f) \in Nat /\ Start(k) \in Nat
        /\ Start(f + 1) \in Nat /\ Start(k + 1) \in Nat /\ Len(Fields[f]) \in Nat
        /\ Start(f + 1) = Start(f) + Len(Fields[f])
    <2>1. f \in Nat /\ k \in Nat
      BY DEF NFields
    <2>2. /\ Start(f) \in Nat /\ Start(k) \in Nat /\ Start(f + 1) \in Nat
          /\ Start(k + 1) \in Nat
      BY StartNat
    <2>3. Len(Fields[f]) \in Nat /\ Start(f + 1) = Start(f) + Len(Fields[f])
      BY FieldFacts
    <2> QED
      BY <2>1, <2>2, <2>3
  <1>2. Start(f) + i <= Start(f + 1) /\ Start(f) < Start(f) + i
    BY <1>1
  <1>3. CASE k < f
    <2>1. k + 1 <= f /\ k + 1 \in 1 .. NFields + 1 /\ f \in 1 .. NFields + 1
      BY <1>1, <1>3 DEF NFields
    <2>2. Start(k + 1) <= Start(f)
      BY <2>1, StartOrder
    <2> QED
      BY <1>1, <1>2, <2>2
  <1>4. CASE f < k
    <2>1. f + 1 <= k /\ f + 1 \in 1 .. NFields + 1 /\ k \in 1 .. NFields + 1
      BY <1>1, <1>4 DEF NFields
    <2>2. Start(f + 1) <= Start(k)
      BY <2>1, StartOrder
    <2> QED
      BY <1>1, <1>2, <2>2
  <1>5. CASE k = f
    <2>1. pos - Start(k) = i
      BY <1>1, <1>5
    <2> HIDE DEF pos
    <2> QED
      BY <1>5, <2>1
  <1> QED
    BY <1>1, <1>3, <1>4, <1>5

\* The first n elements of a sequence and the rest.
LEMMA CutSequence ==
    ASSUME NEW S, NEW q \in Seq(S), NEW a \in Nat, NEW n \in Nat, a + n <= Len(q)
    PROVE  /\ SubSeq(q, a + 1, a + n) \in Seq(S) /\ Len(SubSeq(q, a + 1, a + n)) = n
           /\ \A i \in 1 .. n : SubSeq(q, a + 1, a + n)[i] = q[a + i]
  <1>1. SubSeq(q, a + 1, a + n) = [i \in 1 .. n |-> q[a + i]]
    <2>1. (a + n) - (a + 1) + 1 = n /\ \A i \in 1 .. n : i + (a + 1) - 1 = a + i
      OBVIOUS
    <2> QED
      BY <2>1
  <1> QED
    BY <1>1

\* Two sequences one after the other.
LEMMA JoinSequences ==
    ASSUME NEW S, NEW q \in Seq(S), NEW r \in Seq(S)
    PROVE  /\ q \o r \in Seq(S) /\ Len(q \o r) = Len(q) + Len(r)
           /\ \A i \in 1 .. Len(q) : (q \o r)[i] = q[i]
           /\ \A i \in 1 .. Len(r) : (q \o r)[Len(q) + i] = r[i]
  OBVIOUS

\* An index of the whole is one of the first or, shifted, of the second.
LEMMA JoinedIndex ==
    ASSUME NEW S, NEW q \in Seq(S), NEW r \in Seq(S)
    PROVE  \A i \in 1 .. Len(q) + Len(r) :
             i \in 1 .. Len(q) \/ \E j \in 1 .. Len(r) : i = Len(q) + j
  <1>1. Len(q) \in Nat /\ Len(r) \in Nat
    OBVIOUS
  <1>2. ASSUME NEW i \in 1 .. Len(q) + Len(r), i \notin 1 .. Len(q)
        PROVE  \E j \in 1 .. Len(r) : i = Len(q) + j
    <2>1. i - Len(q) \in 1 .. Len(r) /\ i = Len(q) + (i - Len(q))
      BY <1>1, <1>2
    <2> QED
      BY <2>1
  <1> QED
    BY <1>2

\* The receiver's position is a number.
LEMMA RecvNat ==
    ASSUME HandshakeTypeOK, ReceiverAt, rpc \in {"recv", "done"}
    PROVE  RecvPos \in Nat /\ Len(got) + 1 \in 1 .. NFields + 1 /\ Start(Len(got) + 1) \in Nat
  <1>1. Len(got) \in Nat /\ Len(got) <= NFields /\ Len(part) \in Nat
    BY DEF HandshakeTypeOK
  <1>2. Len(got) + 1 \in 1 .. NFields + 1
    BY <1>1 DEF NFields
  <1>3. Start(Len(got) + 1) \in Nat
    BY <1>2, FieldFacts
  <1> QED
    BY <1>1, <1>2, <1>3 DEF RecvPos

\* So is the sender's.
LEMMA SentNat ==
    ASSUME HandshakeTypeOK
    PROVE  SentPos \in Nat
  <1>1. sfield \in 1 .. NFields + 1 /\ soff \in Nat
    BY DEF HandshakeTypeOK
  <1>2. Start(sfield) \in Nat
    BY <1>1, FieldFacts
  <1> QED
    BY <1>1, <1>2 DEF SentPos

--------------------------------------------------------------------------------
\* It holds at the start.
LEMMA InitInd == Init => HandshakeInd
  <1> SUFFICES ASSUME Init PROVE HandshakeInd
    OBVIOUS
  <1>1. HandshakeTypeOK
    <2>1. SockBuf \in Nat /\ NFields = 6
      BY SockAssumption DEF NFields
    <2>2. wire \in Seq(Bytes) /\ Len(wire) = 0 /\ part \in Seq(Bytes)
          /\ got \in Seq(Seq(Bytes)) /\ Len(got) = 0
      BY DEF Init
    <2> QED
      BY <2>1, <2>2 DEF Init, HandshakeTypeOK
  <1>2. sfield = 1 /\ soff = 0 /\ Len(got) = 0 /\ Len(part) = 0 /\ Len(wire) = 0
    BY DEF Init
  <1>3. Start(1) = 0 /\ Len(Fields[1]) > 0 /\ NFields = 6
    BY <1>1, FieldFacts DEF NFields
  <1>4. SenderAt
    BY <1>2, <1>3 DEF SenderAt
  <1>5. ReceiverAt
    <2>1. Len(got) + 1 = 1 /\ rpc = "recv"
      BY <1>2 DEF Init
    <2> QED
      BY <1>2, <1>3, <2>1 DEF ReceiverAt
  <1>6. WireAt
    <2>1. Len(got) + 1 = 1
      BY <1>2
    <2>2. RecvPos = 0 /\ SentPos = 0
      BY <1>2, <1>3, <2>1 DEF RecvPos, SentPos
    <2> QED
      BY <1>2, <2>2 DEF WireAt
  <1> QED
    BY <1>1, <1>4, <1>5, <1>6 DEF HandshakeInd

\* Send keeps it: the bytes it puts on the wire are the ones at the sender's position.
LEMMA Keeps_Send ==
    ASSUME HandshakeInd, Send
    PROVE  HandshakeInd'
  <1>1. HandshakeTypeOK /\ SenderAt /\ (rpc \in {"recv", "done"} => ReceiverAt /\ WireAt)
    BY DEF HandshakeInd
  <1> DEFINE F == Fields[sfield]
  <1>2. PICK n \in 1 .. Len(F) - soff :
          /\ Len(wire) + n <= SockBuf
          /\ wire' = IF rpc = "gone" THEN wire ELSE wire \o SubSeq(F, soff + 1, soff + n)
          /\ IF soff + n = Len(F)
               THEN sfield' = NextCall(sfield) /\ soff' = 0
               ELSE soff' = soff + n /\ sfield' = sfield
    BY DEF Send
  <1> DEFINE new == SubSeq(F, soff + 1, soff + n)
  <1>3. /\ hs' = hs /\ spc' = spc /\ rpc' = rpc /\ got' = got /\ part' = part
        /\ spc = "send" /\ sfield \in 1 .. NFields /\ sfield <= NFields
    BY <1>1 DEF Send, HandshakeTypeOK, NFields
  <1>4. F \in Seq(Bytes) /\ Len(F) \in Nat /\ Start(sfield) \in Nat /\ Start(sfield + 1) \in Nat
        /\ Start(sfield + 1) = Start(sfield) + Len(F) /\ soff < Len(F)
    BY <1>1, <1>3, FieldFacts, StartNat DEF SenderAt
  <1>5. soff \in Nat /\ n \in Nat /\ n >= 1 /\ soff + n <= Len(F) /\ wire \in Seq(Bytes)
        /\ Len(wire) \in Nat /\ Len(wire) <= SockBuf
    <2>1. soff \in Nat /\ wire \in Seq(Bytes) /\ Len(wire) <= SockBuf
      BY <1>1 DEF HandshakeTypeOK
    <2> QED
      BY <1>4, <2>1
  <1>6. /\ new \in Seq(Bytes) /\ Len(new) = n /\ \A i \in 1 .. n : new[i] = F[soff + i]
    BY <1>4, <1>5, CutSequence
  <1>7. /\ wire' = IF rpc = "gone" THEN wire ELSE wire \o new
        /\ wire \o new \in Seq(Bytes) /\ Len(wire \o new) = Len(wire) + n
    BY <1>2, <1>5, <1>6, JoinSequences
  <1>8. /\ sfield' \in 1 .. NFields + 1 /\ soff' \in Nat /\ SenderAt'
        /\ SentPos' = SentPos + n
    <2>1. Fields' = Fields /\ \A k : Start(k)' = Start(k)
      BY <1>3, SameFields
    <2>2. CASE soff + n = Len(F)
      <3>1. sfield' = NextCall(sfield) /\ soff' = 0
        BY <1>2, <2>2
      <3>2. /\ NextCall(sfield) \in 1 .. NFields + 1
            /\ Start(NextCall(sfield)) = Start(sfield + 1)
            /\ NextCall(sfield) <= NFields => Len(Fields[NextCall(sfield)]) > 0
        BY <1>1, <1>3, NextCallSkips
      <3>3. SenderAt'
        BY <2>1, <3>1, <3>2 DEF SenderAt, NFields
      <3>4. SentPos' = Start(sfield + 1)
        <4>1. SentPos' = Start(sfield') + 0
          BY <2>1, <3>1 DEF SentPos
        <4> QED
          BY <1>4, <3>1, <3>2, <4>1
      <3>5. SentPos + n = Start(sfield + 1)
        <4> HIDE DEF F
        <4> QED
          BY <1>4, <1>5, <2>2 DEF SentPos
      <3> QED
        BY <3>1, <3>2, <3>3, <3>4, <3>5
    <2>3. CASE soff + n # Len(F)
      <3>1. sfield' = sfield /\ soff' = soff + n
        BY <1>2, <2>3
      <3>2. soff + n < Len(F)
        BY <1>4, <1>5, <2>3
      <3>3. SenderAt'
        BY <1>3, <2>1, <3>1, <3>2 DEF SenderAt, NFields
      <3>4. SentPos' = Start(sfield) + (soff + n)
        BY <2>1, <3>1 DEF SentPos
      <3>5. SentPos + n = Start(sfield) + (soff + n)
        BY <1>4, <1>5 DEF SentPos
      <3> QED
        BY <1>3, <1>5, <3>1, <3>3, <3>4, <3>5 DEF NFields
    <2> QED
      BY <2>2, <2>3
  <1>9. HandshakeTypeOK'
    <2>1. wire' \in Seq(Bytes) /\ Len(wire') <= SockBuf
      BY <1>2, <1>5, <1>7
    <2> QED
      BY <1>1, <1>3, <1>8, <2>1 DEF HandshakeTypeOK
  <1>10. ASSUME rpc \in {"recv", "done"}
         PROVE  ReceiverAt' /\ WireAt'
    <2>1. ReceiverAt /\ WireAt
      BY <1>1, <1>10
    <2>2. Fields' = Fields /\ RecvPos' = RecvPos
      BY <1>3, SameFields DEF RecvPos
    <2>3. ReceiverAt'
      BY <1>3, <2>1, <2>2 DEF ReceiverAt
    <2>4. wire' = wire \o new
      BY <1>7, <1>10
    <2>5. RecvPos \in Nat /\ SentPos \in Nat /\ RecvPos + Len(wire) = SentPos
      <3>1. SentPos \in Nat
        BY <1>4, <1>5 DEF SentPos
      <3>2. RecvPos \in Nat
        BY <1>1, <1>10, RecvNat
      <3> QED
        BY <1>3, <2>1, <3>1, <3>2 DEF WireAt
    <2>6. ASSUME NEW i \in 1 .. Len(wire)
          PROVE  IsAt(wire'[i], RecvPos + i)
      <3>1. wire'[i] = wire[i]
        BY <1>5, <1>6, <2>4, JoinSequences
      <3> QED
        BY <2>1, <3>1 DEF WireAt
    <2>7. ASSUME NEW i \in 1 .. n
          PROVE  IsAt(wire'[Len(wire) + i], RecvPos + (Len(wire) + i))
      <3>1. wire'[Len(wire) + i] = F[soff + i]
        BY <1>5, <1>6, <2>4, JoinSequences
      <3>2. soff + i \in 1 .. Len(F)
        BY <1>4, <1>5
      <3>3. IsAt(F[soff + i], Start(sfield) + (soff + i))
        BY <1>1, <1>3, <3>2, ByteOfField
      <3>4. RecvPos + (Len(wire) + i) = Start(sfield) + (soff + i)
        <4>1. SentPos = Start(sfield) + soff /\ i \in Nat
          BY <1>5 DEF SentPos
        <4>2. \A r, l, b, o, j \in Nat : r + l = b + o => r + (l + j) = b + (o + j)
          OBVIOUS
        <4>3. RecvPos \in Nat /\ Len(wire) \in Nat /\ Start(sfield) \in Nat /\ soff \in Nat
          BY <1>4, <1>5, <2>5
        <4>4. RecvPos + Len(wire) = Start(sfield) + soff
          BY <2>5, <4>1
        <4> QED
          BY ONLY <4>1, <4>2, <4>3, <4>4
      <3> QED
        BY <3>1, <3>3, <3>4
    <2>8. \A i \in 1 .. Len(wire') : IsAt(wire'[i], RecvPos + i)
      <3>1. \A i \in 1 .. Len(wire') :
              i \in 1 .. Len(wire) \/ \E j \in 1 .. n : i = Len(wire) + j
        <4>1. Len(wire') = Len(wire) + n /\ Len(new) = n
          BY <1>6, <1>7, <2>4
        <4> HIDE DEF new
        <4>2. \A i \in 1 .. Len(wire) + Len(new) :
                i \in 1 .. Len(wire) \/ \E j \in 1 .. Len(new) : i = Len(wire) + j
          <5>1. wire \in Seq(Bytes) /\ new \in Seq(Bytes)
            BY <1>5, <1>6
          <5> QED
            BY <5>1, JoinedIndex
        <4> QED
          BY <4>1, <4>2
      <3> QED
        BY <2>6, <2>7, <3>1
    <2>9. RecvPos + Len(wire') = SentPos + n
      <3>1. \A r, l, m \in Nat : r + (l + m) = (r + l) + m
        OBVIOUS
      <3>2. Len(wire') = Len(wire) + n
        BY <1>7, <2>4
      <3> QED
        BY <1>5, <2>5, <3>1, <3>2
    <2>10. (\A i \in 1 .. Len(wire) : IsAt(wire[i], RecvPos + i))'
      BY <1>3, <2>2, <2>8, SameFields DEF IsAt
    <2>11. RecvPos' + Len(wire') = SentPos' /\ SentPos' \in Nat
      BY <1>5, <1>8, <2>2, <2>5, <2>9
    <2>12. WireAt'
      BY <2>10, <2>11 DEF WireAt
    <2> QED
      BY <2>3, <2>12
  <1> QED
    BY <1>3, <1>8, <1>9, <1>10 DEF HandshakeInd

\* What is left on the wire when n bytes were taken from it.
LEMMA WireTail ==
    ASSUME HandshakeTypeOK, WireAt, RecvPos \in Nat, hs' = hs, spc' = spc, SentPos' = SentPos,
           NEW n \in 1 .. Len(wire), wire' = Suffix(wire, n), RecvPos' = RecvPos + n
    PROVE  WireAt' /\ wire' \in Seq(Bytes) /\ Len(wire') = Len(wire) - n /\ Len(wire') <= SockBuf
  <1>1. wire \in Seq(Bytes) /\ Len(wire) \in Nat /\ n \in Nat /\ SockBuf \in Nat
        /\ Len(wire) <= SockBuf
    BY SockAssumption DEF HandshakeTypeOK
  <1> DEFINE m == Len(wire) - n
  <1>2. m \in Nat /\ n + m = Len(wire)
    BY <1>1
  <1>3. wire' = SubSeq(wire, n + 1, n + m)
    BY <1>2 DEF Suffix
  <1> HIDE DEF m
  <1>4. wire' \in Seq(Bytes) /\ Len(wire') = m /\ \A i \in 1 .. m : wire'[i] = wire[n + i]
    <2>1. n + m <= Len(wire)
      BY <1>1, <1>2
    <2> DEFINE cut == SubSeq(wire, n + 1, n + m)
    <2>2. cut \in Seq(Bytes) /\ Len(cut) = m /\ \A i \in 1 .. m : cut[i] = wire[n + i]
      BY ONLY <1>1, <1>2, <2>1, CutSequence
    <2>3. wire' = cut
      BY <1>3
    <2> HIDE DEF cut
    <2> QED
      BY ONLY <2>2, <2>3
  <1>5. ASSUME NEW i \in 1 .. m
        PROVE  IsAt(wire'[i], RecvPos' + i)
    <2>1. n + i \in 1 .. Len(wire)
      <3>1. i \in Nat /\ 1 <= i /\ i <= m
        BY <1>2
      <3>2. \A a, b, c \in Nat : 1 <= b /\ b <= c => a + b \in 1 .. a + c
        OBVIOUS
      <3> QED
        BY <1>1, <1>2, <3>1, <3>2
    <2>3. RecvPos + (n + i) = RecvPos' + i
      <3>1. \A a, b, c \in Nat : a + (b + c) = (a + b) + c
        OBVIOUS
      <3> QED
        BY <1>1, <1>2, <3>1
    <2>2. IsAt(wire[n + i], RecvPos + (n + i))
      BY <2>1 DEF WireAt
    <2> QED
      BY <1>4, <2>2, <2>3
  <1>6. (\A i \in 1 .. Len(wire) : IsAt(wire[i], RecvPos + i))'
    BY <1>4, <1>5, SameFields DEF IsAt
  <1>7. RecvPos' + Len(wire') = RecvPos + Len(wire)
    BY <1>1, <1>2, <1>4
  <1>8. WireAt'
    BY <1>6, <1>7 DEF WireAt
  <1>9. m = Len(wire) - n
    BY DEF m
  <1>10. m <= SockBuf
    BY <1>1, <1>9
  <1> QED
    BY <1>4, <1>8, <1>9, <1>10

\* Recv keeps it: the length it has decoded ends the field where the server ended it.
LEMMA Keeps_Recv ==
    ASSUME HandshakeInd, Recv
    PROVE  HandshakeInd'
  <1>1. /\ HandshakeTypeOK /\ SenderAt /\ ReceiverAt /\ WireAt /\ rpc = "recv"
        /\ hs' = hs /\ spc' = spc /\ sfield' = sfield /\ soff' = soff
    BY DEF HandshakeInd, Recv
  <1> DEFINE g == Len(got)
             F == Fields[g + 1]
  <1>2. /\ got \in Seq(Seq(Bytes)) /\ g \in Nat /\ g < NFields /\ part \in Seq(Bytes)
        /\ Len(part) \in Nat /\ Len(part) < Len(F) /\ wire \in Seq(Bytes) /\ Len(wire) \in Nat
        /\ \A i \in 1 .. g : got[i] = Fields[i]
        /\ \A i \in 1 .. Len(part) : part[i] = F[i]
    BY <1>1 DEF HandshakeTypeOK, ReceiverAt
  <1>3. Need(got) = Len(F)
    BY <1>1, <1>2, NeedIsLength
  <1>4. /\ g + 1 \in 1 .. NFields /\ F \in Seq(Bytes) /\ Len(F) \in Nat
        /\ Start(g + 1) \in Nat /\ Start(g + 2) \in Nat /\ Start(g + 2) = Start(g + 1) + Len(F)
    <2>1. g + 1 \in 1 .. NFields /\ (g + 1) + 1 = g + 2
      BY <1>2 DEF NFields
    <2> HIDE DEF g
    <2> QED
      BY <1>1, <2>1, FieldFacts, StartNat
  <1>5. RecvPos = Start(g + 1) + Len(part) /\ RecvPos \in Nat
    BY <1>1, RecvNat DEF RecvPos
  <1>6. PICK n \in 1 .. Len(F) - Len(part) :
          /\ n <= Len(wire)
          /\ wire' = Suffix(wire, n)
          /\ IF FieldComplete(n)
               THEN /\ got' = SkipEmpty(Append(got, part \o Prefix(wire, n)))
                    /\ part' = <<>>
                    /\ rpc' = IF Len(got') = NFields THEN "done" ELSE "recv"
               ELSE /\ part' = part \o Prefix(wire, n)
                    /\ UNCHANGED <<got, rpc>>
    BY <1>3 DEF Recv
  <1>7. n \in Nat /\ n \in 1 .. Len(wire) /\ Len(part) + n <= Len(F)
    BY <1>2, <1>4, <1>6
  <1> DEFINE pre == Prefix(wire, n)
             new == part \o pre
  <1> HIDE DEF F, g
  <1>8. pre \in Seq(Bytes) /\ Len(pre) = n /\ \A j \in 1 .. n : pre[j] = wire[j]
    <2>1. pre = [j \in 1 .. n |-> wire[j]]
      BY <1>2, <1>7 DEF Prefix
    <2>2. \A j \in 1 .. n : wire[j] \in Bytes
      BY <1>2, <1>7
    <2> HIDE DEF pre
    <2> QED
      BY <1>7, <2>1, <2>2
  <1>9. /\ new \in Seq(Bytes) /\ Len(new) = Len(part) + n
        /\ \A i \in 1 .. Len(part) : new[i] = part[i]
        /\ \A j \in 1 .. n : new[Len(part) + j] = pre[j]
        /\ \A i \in 1 .. Len(part) + n :
             i \in 1 .. Len(part) \/ \E j \in 1 .. n : i = Len(part) + j
    <2> HIDE DEF pre
    <2>0. part \in Seq(Bytes) /\ pre \in Seq(Bytes)
      BY <1>2, <1>8
    <2>1. /\ new \in Seq(Bytes) /\ Len(new) = Len(part) + Len(pre)
          /\ \A i \in 1 .. Len(part) : new[i] = part[i]
          /\ \A j \in 1 .. Len(pre) : new[Len(part) + j] = pre[j]
      BY <2>0, JoinSequences
    <2>2. \A i \in 1 .. Len(part) + Len(pre) :
            i \in 1 .. Len(part) \/ \E j \in 1 .. Len(pre) : i = Len(part) + j
      BY <2>0, JoinedIndex
    <2>3. Len(pre) = n
      BY <1>8
    <2> HIDE DEF new
    <2> QED
      BY <2>1, <2>2, <2>3
  <1>10. ASSUME NEW j \in 1 .. n
         PROVE  wire[j] = F[Len(part) + j]
    <2> DEFINE pos == RecvPos + j
    <2>1. j \in 1 .. Len(wire) /\ j \in Nat /\ j >= 1 /\ j <= n
      BY <1>7
    <2>2. IsAt(wire[j], pos)
      BY <1>1, <2>1 DEF WireAt
    <2>3. pos = Start(g + 1) + (Len(part) + j) /\ pos \in Nat
      <3>1. \A a, b, c \in Nat : (a + b) + c = a + (b + c) /\ (a + b) + c \in Nat
        OBVIOUS
      <3> QED
        BY <1>2, <1>4, <1>5, <2>1, <3>1
    <2>4. Start(g + 1) < pos /\ pos <= Start(g + 2) /\ pos - Start(g + 1) = Len(part) + j
      <3>1. \A a, b, c \in Nat : b >= 1 /\ b <= c => a < a + b /\ a + b <= a + c /\ (a + b) - a = b
        OBVIOUS
      <3>2. Len(part) + j \in Nat /\ Len(part) + j >= 1 /\ Len(part) + j <= Len(F)
        BY <1>2, <1>4, <1>7, <2>1
      <3> HIDE DEF pos
      <3> QED
        BY <1>4, <2>3, <3>1, <3>2
    <2>5. (g + 1) + 1 = g + 2
      BY <1>2
    <2> HIDE DEF pos
    <2>6. wire[j] = Fields[g + 1][pos - Start(g + 1)]
      BY <1>4, <2>2, <2>4, <2>5 DEF IsAt
    <2> QED
      BY <2>4, <2>6 DEF F
  <1>11. \A i \in 1 .. Len(part) + n : new[i] = F[i]
    <2> HIDE DEF pre, new
    <2>1. \A j \in 1 .. n : new[Len(part) + j] = F[Len(part) + j]
      BY <1>8, <1>9, <1>10
    <2>2. \A i \in 1 .. Len(part) : new[i] = F[i]
      BY <1>2, <1>9
    <2> QED
      BY <1>9, <2>1, <2>2
  <1>12. Fields' = Fields /\ (\A k : Start(k)' = Start(k)) /\ SentPos' = SentPos
    BY <1>1, SameFields DEF SentPos
  <1>13. SenderAt'
    BY <1>1, <1>12 DEF SenderAt
  <1>14. CASE FieldComplete(n)
    <2> DEFINE f == Append(got, new)
               s == SkipEmpty(f)
    <2>1. got' = s /\ part' = <<>> /\ rpc' = IF Len(got') = NFields THEN "done" ELSE "recv"
      BY <1>6, <1>14
    <2> HIDE DEF new
    <2>2. Len(part) + n = Len(F)
      BY <1>3, <1>14 DEF FieldComplete
    <2>3. new = F
      BY <1>4, <1>9, <1>11, <2>2
    <2>4. f \in Seq(Seq(Bytes)) /\ Len(f) = g + 1 /\ \A i \in 1 .. g + 1 : f[i] = Fields[i]
      <3>1. /\ f \in Seq(Seq(Bytes)) /\ Len(f) = g + 1
            /\ \A i \in 1 .. g : f[i] = got[i]
            /\ f[g + 1] = new
        BY <1>2, <1>9 DEF g
      <3>2. \A i \in 1 .. g + 1 : i \in 1 .. g \/ i = g + 1
        BY <1>2
      <3> HIDE DEF f
      <3> QED
        BY <1>2, <2>3, <3>1, <3>2 DEF F
    <2> HIDE DEF f
    <2>5. /\ s \in Seq(Seq(Bytes)) /\ Len(s) \in 1 .. NFields
          /\ \A i \in 1 .. Len(s) : s[i] = Fields[i]
          /\ Start(Len(s) + 1) = Start(Len(f) + 1)
          /\ Len(s) < NFields => Len(Fields[Len(s) + 1]) > 0
      BY <1>1, <1>4, <2>4, SkipsEmpty
    <2> HIDE DEF s
    <2>6. Len(part') = 0 /\ part' \in Seq(Bytes)
      BY <2>1
    <2>7. RecvPos' = RecvPos + n
      <3>1. Len(f) + 1 = g + 2
        BY <1>2, <2>4
      <3>2. RecvPos' = Start(g + 2)
        <4>1. RecvPos' = Start(Len(s) + 1) + 0
          BY <1>12, <2>1, <2>6 DEF RecvPos
        <4> QED
          BY <1>4, <2>5, <3>1, <4>1
      <3>3. \A a, b, c \in Nat : (a + b) + c = a + (b + c)
        OBVIOUS
      <3>4. RecvPos + n = Start(g + 1) + (Len(part) + n)
        BY <1>2, <1>4, <1>5, <1>7, <3>3
      <3>5. RecvPos + n = Start(g + 2)
        BY <1>4, <2>2, <3>4
      <3> QED
        BY <3>2, <3>5
    <2>8. WireAt' /\ wire' \in Seq(Bytes) /\ Len(wire') <= SockBuf
      BY <1>1, <1>5, <1>6, <1>7, <1>12, <2>7, WireTail
    <2>9. rpc' \in {"recv", "done"} /\ (rpc' = "done" => Len(s) = NFields)
          /\ (rpc' = "recv" => Len(s) < NFields)
      <3>1. \A x \in 1 .. NFields : x # NFields => x < NFields
        BY DEF NFields
      <3> QED
        BY <2>1, <2>5, <3>1
    <2>10. HandshakeTypeOK'
      <3>1. \A x \in 1 .. NFields : x <= NFields
        BY DEF NFields
      <3>2. Len(s) <= NFields
        BY <2>5, <3>1
      <3> QED
        BY <1>1, <2>1, <2>5, <2>6, <2>8, <2>9, <3>2 DEF HandshakeTypeOK
    <2>11. ReceiverAt'
      BY <1>12, <2>1, <2>5, <2>6, <2>9 DEF ReceiverAt
    <2> QED
      BY <1>13, <2>8, <2>10, <2>11 DEF HandshakeInd
  <1>15. CASE ~FieldComplete(n)
    <2>1. part' = new /\ got' = got /\ rpc' = rpc
      BY <1>6, <1>15
    <2> HIDE DEF new
    <2>2. Len(part) + n < Len(F)
      BY <1>2, <1>3, <1>4, <1>7, <1>15 DEF FieldComplete
    <2>3. RecvPos' = RecvPos + n
      <3>1. RecvPos' = Start(g + 1) + (Len(part) + n)
        BY <1>9, <1>12, <2>1 DEF RecvPos, g
      <3>2. \A a, b, c \in Nat : (a + b) + c = a + (b + c)
        OBVIOUS
      <3> QED
        BY <1>2, <1>4, <1>5, <1>7, <3>1, <3>2
    <2>4. WireAt' /\ wire' \in Seq(Bytes) /\ Len(wire') <= SockBuf
      BY <1>1, <1>5, <1>6, <1>7, <1>12, <2>3, WireTail
    <2>5. HandshakeTypeOK'
      BY <1>1, <1>9, <2>1, <2>4 DEF HandshakeTypeOK
    <2>6. ReceiverAt'
      <3>1. Len(part') = Len(part) + n /\ \A i \in 1 .. Len(part') : part'[i] = F[i]
        BY <1>9, <1>11, <2>1
      <3>2. Len(got) < NFields /\ \A i \in 1 .. Len(got) : got[i] = Fields[i]
        BY <1>2 DEF g
      <3> QED
        BY <1>1, <1>12, <2>1, <2>2, <3>1, <3>2 DEF ReceiverAt, F, g
    <2> QED
      BY <1>13, <2>4, <2>5, <2>6 DEF HandshakeInd
  <1> QED
    BY <1>14, <1>15

\* The steps that leave the fields and positions alone.
LEMMA SameSides ==
    ASSUME hs' = hs, sfield' = sfield, soff' = soff
    PROVE  /\ SenderAt => SenderAt'
           /\ got' = got /\ part' = part => RecvPos' = RecvPos /\ SentPos' = SentPos
           /\ got' = got /\ part' = part /\ rpc' = rpc /\ ReceiverAt => ReceiverAt'
  <1>1. Fields' = Fields /\ \A k : Start(k)' = Start(k)
    BY SameFields
  <1>2. SenderAt => SenderAt'
    BY <1>1 DEF SenderAt
  <1>3. got' = got /\ part' = part => RecvPos' = RecvPos /\ SentPos' = SentPos
    BY <1>1 DEF RecvPos, SentPos
  <1>4. got' = got /\ part' = part /\ rpc' = rpc /\ ReceiverAt => ReceiverAt'
    BY <1>1 DEF ReceiverAt
  <1> QED
    BY <1>2, <1>3, <1>4

\* Close keeps it.
LEMMA Keeps_Close ==
    ASSUME HandshakeInd, Close
    PROVE  HandshakeInd'
  <1>1. /\ HandshakeTypeOK /\ SenderAt /\ spc = "send" /\ spc' = "closed" /\ hs' = hs
        /\ sfield' = sfield /\ soff' = soff /\ wire' = wire /\ rpc' = rpc /\ got' = got
        /\ part' = part
    BY DEF HandshakeInd, Close
  <1>2. HandshakeTypeOK'
    BY <1>1 DEF HandshakeTypeOK
  <1>3. ASSUME rpc \in {"recv", "done"}
        PROVE  ReceiverAt' /\ WireAt'
    <2>1. ReceiverAt /\ WireAt
      BY <1>3 DEF HandshakeInd
    <2>2. RecvPos' = RecvPos /\ SentPos' = SentPos /\ ReceiverAt'
      BY <1>1, <2>1, SameSides
    <2>3. (\A i \in 1 .. Len(wire) : IsAt(wire[i], RecvPos + i))'
      BY <1>1, <2>1, <2>2, SameFields DEF WireAt, IsAt
    <2> QED
      BY <1>1, <2>1, <2>2, <2>3 DEF WireAt
  <1> QED
    BY <1>1, <1>2, <1>3, SameSides DEF HandshakeInd

\* The end of the client's part keeps it: SendFails comes after it.
LEMMA Keeps_Failures ==
    ASSUME HandshakeInd, SendFails \/ RecvFails \/ ClientGone
    PROVE  HandshakeInd'
  <1>1. /\ HandshakeTypeOK /\ SenderAt /\ hs' = hs /\ sfield' = sfield /\ soff' = soff
        /\ got' = got /\ part' = part /\ rpc' \in {"failed", "gone"}
        /\ spc' \in {"send", "closed", "failed"} /\ wire' \in {wire, <<>>}
    BY DEF HandshakeInd, HandshakeTypeOK, SendFails, RecvFails, ClientGone
  <1>2. wire' \in Seq(Bytes) /\ Len(wire') <= SockBuf
    <2>1. wire \in Seq(Bytes) /\ Len(wire) <= SockBuf
      BY <1>1 DEF HandshakeTypeOK
    <2>2. Len(<<>>) <= SockBuf /\ <<>> \in Seq(Bytes)
      BY SockAssumption
    <2> QED
      BY <1>1, <2>1, <2>2
  <1>3. HandshakeTypeOK'
    BY <1>1, <1>2 DEF HandshakeTypeOK
  <1> QED
    BY <1>1, <1>3, SameSides DEF HandshakeInd

\* ServerGone keeps it: what is lost is lost from the end.
LEMMA Keeps_ServerGone ==
    ASSUME HandshakeInd, ServerGone
    PROVE  HandshakeInd'
  <1>1. /\ HandshakeTypeOK /\ SenderAt /\ spc' = "failed" /\ hs' = hs /\ sfield' = sfield
        /\ soff' = soff /\ rpc' = rpc /\ got' = got /\ part' = part
    BY DEF HandshakeInd, ServerGone
  <1>2. PICK n \in 0 .. Len(wire) : wire' = Prefix(wire, n)
    BY DEF ServerGone
  <1>3. /\ wire \in Seq(Bytes) /\ Len(wire) \in Nat /\ Len(wire) <= SockBuf /\ n \in Nat
        /\ n <= Len(wire) /\ SockBuf \in Nat
    <2>1. wire \in Seq(Bytes) /\ Len(wire) <= SockBuf
      BY <1>1 DEF HandshakeTypeOK
    <2>2. Len(wire) \in Nat
      BY <2>1
    <2> QED
      BY <2>1, <2>2, SockAssumption
  <1>4. wire' \in Seq(Bytes) /\ Len(wire') = n /\ \A j \in 1 .. n : wire'[j] = wire[j]
    <2>1. wire' = [j \in 1 .. n |-> wire[j]]
      BY <1>2, <1>3 DEF Prefix
    <2>2. \A j \in 1 .. n : wire[j] \in Bytes
      BY <1>3
    <2> QED
      BY <1>3, <2>1, <2>2
  <1>5. HandshakeTypeOK'
    <2>1. Len(wire') <= SockBuf
      BY <1>3, <1>4
    <2> QED
      BY <1>1, <1>4, <2>1 DEF HandshakeTypeOK
  <1>6. ASSUME rpc \in {"recv", "done"}
        PROVE  ReceiverAt' /\ WireAt'
    <2>1. ReceiverAt /\ WireAt
      BY <1>6 DEF HandshakeInd
    <2>2. RecvPos' = RecvPos /\ SentPos' = SentPos /\ ReceiverAt'
      BY <1>1, <2>1, SameSides
    <2>3. \A j \in 1 .. n : IsAt(wire'[j], RecvPos + j)
      <3>1. \A j \in 1 .. n : j \in 1 .. Len(wire)
        BY <1>3
      <3> QED
        BY <1>4, <2>1, <3>1 DEF WireAt
    <2>4. (\A i \in 1 .. Len(wire) : IsAt(wire[i], RecvPos + i))'
      BY <1>1, <1>4, <2>2, <2>3, SameFields DEF IsAt
    <2>5. RecvPos \in Nat /\ SentPos \in Nat
      BY <1>1, <1>6, <2>1, RecvNat, SentNat
    <2>6. RecvPos' + Len(wire') <= SentPos'
      <3>1. RecvPos + Len(wire) <= SentPos
        BY <2>1 DEF WireAt
      <3> QED
        BY <1>3, <1>4, <2>2, <2>5, <3>1
    <2> QED
      BY <1>1, <2>2, <2>4, <2>6 DEF WireAt
  <1> QED
    BY <1>1, <1>5, <1>6, SameSides DEF HandshakeInd

\* Every step preserves it.
LEMMA NextInd == HandshakeInd /\ [Next]_vars => HandshakeInd'
  <1> SUFFICES ASSUME HandshakeInd, [Next]_vars PROVE HandshakeInd'
    OBVIOUS
  <1>1. CASE UNCHANGED vars
    <2>1. /\ hs' = hs /\ spc' = spc /\ sfield' = sfield /\ soff' = soff /\ wire' = wire
          /\ rpc' = rpc /\ got' = got /\ part' = part
      BY <1>1 DEF vars
    <2>2. HandshakeTypeOK' /\ SenderAt'
      BY <2>1, SameSides DEF HandshakeInd, HandshakeTypeOK
    <2>3. ASSUME ReceiverAt, WireAt PROVE ReceiverAt' /\ WireAt'
      <3>1. RecvPos' = RecvPos /\ SentPos' = SentPos /\ ReceiverAt'
        BY <2>1, <2>3, SameSides
      <3>2. (\A i \in 1 .. Len(wire) : IsAt(wire[i], RecvPos + i))'
        BY <2>1, <2>3, <3>1, SameFields DEF WireAt, IsAt
      <3> QED
        BY <2>1, <2>3, <3>1, <3>2 DEF WireAt
    <2> QED
      BY <2>1, <2>2, <2>3 DEF HandshakeInd
  <1>2. CASE Next
    BY <1>2, Keeps_Send, Keeps_Recv, Keeps_Close, Keeps_Failures, Keeps_ServerGone
    DEF Next, ServerStep, ClientStep
  <1> QED
    BY <1>1, <1>2

\* In every reachable state the client has read a prefix of the fields the server sends,
\* and the wire holds what follows.
THEOREM HandshakeStream == Spec => []HandshakeInd
  BY InitInd, NextInd, PTL DEF Spec

\* Every variable keeps its type.
THEOREM HandshakeTypes == Spec => []HandshakeTypeOK
  <1>1. HandshakeInd => HandshakeTypeOK
    BY DEF HandshakeInd
  <1> QED
    BY <1>1, HandshakeStream, PTL

\* A client whose recv_fd has returned has every field as the server's send_fd was given
\* it, however send() and recv() cut the stream.
THEOREM HandshakeReceived == Spec => []HandshakeIntact
  <1>1. HandshakeInd => HandshakeIntact
    <2> SUFFICES ASSUME HandshakeInd, rpc = "done" PROVE Received = hs
      BY DEF HandshakeIntact
    <2>1. HandshakeTypeOK /\ ReceiverAt
      BY DEF HandshakeInd
    <2>2. Len(got) = 6 /\ \A i \in 1 .. Len(got) : got[i] = Fields[i]
      BY <2>1 DEF ReceiverAt, NFields
    <2>3. /\ got[2] = Fields[2] /\ got[4] = Fields[4] /\ got[5] = Fields[5]
          /\ got[6] = Fields[6]
      BY <2>2
    <2>4. /\ got[2] = hs.worker_addr /\ got[4] = hs.rkey
          /\ got[5] = ToBytes(hs.remote_addr, WordBytes)
          /\ got[6] = ToBytes(hs.size, WordBytes)
      BY <2>3 DEF Fields
    <2>5. FromBytes(got[5]) = hs.remote_addr /\ FromBytes(got[6]) = hs.size
      BY <2>1, <2>4, ValueFacts, NumberBytes
    <2>6. hs = [worker_addr |-> hs.worker_addr, rkey |-> hs.rkey,
                remote_addr |-> hs.remote_addr, size |-> hs.size]
      BY <2>1 DEF HandshakeTypeOK
    <2> QED
      BY <2>4, <2>5, <2>6 DEF Received
  <1> QED
    BY <1>1, HandshakeStream, PTL

\* When recv_fd has returned the server has passed its last send_all and nothing is left
\* on the connection.
THEOREM HandshakeAgreed == Spec => []SidesAgree
  <1>1. HandshakeInd => SidesAgree
    <2> SUFFICES ASSUME HandshakeInd, rpc = "done"
                 PROVE  sfield = NFields + 1 /\ wire = <<>>
      BY DEF SidesAgree
    <2>1. HandshakeTypeOK /\ SenderAt /\ ReceiverAt /\ WireAt
      BY DEF HandshakeInd
    <2>2. Len(got) + 1 = 7 /\ Len(part) = 0 /\ NFields = 6 /\ NFields + 1 = 7
      <3>1. Len(got) = 6 /\ Len(part) = 0
        BY <2>1 DEF ReceiverAt, NFields
      <3> QED
        BY <3>1 DEF NFields
    <2>3. RecvPos = Start(7) /\ Start(7) \in Nat
      <3>1. Start(7) \in Nat
        BY <2>1, <2>2, FieldFacts
      <3> QED
        BY <2>2, <3>1 DEF RecvPos
    <2>4. /\ wire \in Seq(Bytes) /\ Len(wire) \in Nat /\ sfield \in 1 .. 7 /\ soff \in Nat
          /\ RecvPos + Len(wire) <= SentPos /\ SentPos = Start(sfield) + soff
      BY <2>1 DEF HandshakeTypeOK, WireAt, SentPos, NFields
    <2>5. sfield = 7
      <3> SUFFICES ASSUME sfield # 7 PROVE FALSE
        OBVIOUS
      <3>1. sfield \in 1 .. NFields /\ sfield + 1 \in 1 .. NFields + 1 /\ sfield + 1 <= 7
            /\ 7 \in 1 .. NFields + 1 /\ sfield <= NFields
        BY <2>2, <2>4
      <3>2. /\ soff < Len(Fields[sfield]) /\ Len(Fields[sfield]) \in Nat
            /\ Start(sfield + 1) = Start(sfield) + Len(Fields[sfield])
            /\ Start(sfield) \in Nat /\ Start(sfield + 1) \in Nat
        BY <2>1, <3>1, FieldFacts, StartNat DEF SenderAt
      <3>3. Start(sfield + 1) <= Start(7)
        BY <2>1, <3>1, StartOrder
      <3> QED
        BY <2>3, <2>4, <3>2, <3>3
    <2>6. SentPos = Start(7)
      BY <2>1, <2>2, <2>3, <2>4, <2>5 DEF SenderAt
    <2>7. Len(wire) = 0
      BY <2>3, <2>4, <2>6
    <2> QED
      BY <2>2, <2>4, <2>5, <2>7, EmptyWhenNone
  <1> QED
    BY <1>1, HandshakeStream, PTL
================================================================================
