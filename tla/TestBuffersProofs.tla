--------------------------- MODULE TestBuffersProofs ---------------------------
(***************************************************************************)
(* Proofs about TestBuffers, for every number and length of buffers.       *)
(***************************************************************************)
EXTENDS TestBuffers, FiniteSetTheorems, SequenceTheorems, TLAPS

\* The bound of the loop in generate_test_string is size - 1, except that it
\* wraps around for size = 0.
LEMMA FillBoundInside ==
    ASSUME NEW size \in 1 .. MaxLen
    PROVE  FillBound(size) <= size
<1>. DEFINE n == 2^SizeBits
<1>1. n \in Nat /\ size \in Nat /\ size >= 1 /\ size < n - 1
  BY WidthAssumption, MaxAssumption
<1>. HIDE DEF n
<1>2. \A m \in Nat, r \in Nat : r < m => (r + m) % m = r
  OBVIOUS
<1>3. (size - 1 + n) % n = size - 1
  BY <1>1, <1>2
<1>4. FillBound(size) = (size + n - 1) % n
  BY DEF FillBound, n
<1>5. size + n - 1 = size - 1 + n
  BY <1>1
<1>. QED
  BY <1>1, <1>3, <1>4, <1>5

\* Products of lengths and counts, for the offsets of the copy.
LEMMA NextProduct ==
    ASSUME NEW a \in Nat, NEW b \in Nat, NEW n \in Nat, a + 1 <= b
    PROVE  /\ a * n \in Nat /\ b * n \in Nat
           /\ (a + 1) * n = a * n + n
           /\ a * n + n <= b * n
<1>1. a * n \in Nat /\ b * n \in Nat
  OBVIOUS
<1>2. (a + 1) * n = a * n + n
  OBVIOUS
<1>3. PICK d \in Nat : b = (a + 1) + d
  <2>1. b - (a + 1) \in Nat /\ b = (a + 1) + (b - (a + 1))
    OBVIOUS
  <2>. QED
    BY <2>1
<1>4. b * n = (a + 1) * n + d * n /\ d * n \in Nat
  BY <1>3
<1>. QED
  BY <1>1, <1>2, <1>4

--------------------------------------------------------------------------------
\* Between the allocation of the iov and its release a pointer of the iov is the
\* buffer allocated for it or NULL; buffer_malloc has allocated none ahead of idx.
PointersAt ==
    /\ live \subseteq Iovs
    /\ pc = "start" => live = {}
    /\ failed => opt.mem = "cuda" /\ pc # "start"
    /\ pc \notin {"start", "segv"} /\ ~failed =>
         \A i \in Iovs : ptr[i] = IF i \in live THEN i ELSE Null
    /\ pc = "malloc" => \A k \in live : k <= idx

\* Nothing is freed before buffer_free, which frees what is allocated.
FreesAt ==
    /\ pc # "ret" => \A k \in 1 .. MaxIov : frees[k] = 0
    /\ pc = "ret" => iov = "freed"
    /\ pc = "ret" /\ ~failed =>
         \A k \in 1 .. MaxIov : frees[k] = IF k \in live THEN 1 ELSE 0

\* The first n buffers hold the first n pieces of the message.
Scattered(n) ==
    /\ Len(data) = opt.iov_cnt * opt.len
    /\ \A i \in 1 .. n, j \in 1 .. opt.len : cont[i][j] = data[(i - 1) * opt.len + j]

\* Before the copy there is no message and the loop variable is 0; in its loop
\* the offset belongs to idx.
CopyAt ==
    /\ pc \in {"start", "malloc", "fill", "post"} => data = <<>> /\ offset = 0
    /\ pc \in {"start", "post"} => idx = 0
    /\ pc = "copy" => offset = idx * opt.len /\ Scattered(idx)
    /\ pc = "print" => data = <<>> \/ Scattered(opt.iov_cnt)

\* The inductive invariant.
BufInd == BufTypeOK /\ PointersAt /\ FreesAt /\ CopyAt /\ WritesInBounds

--------------------------------------------------------------------------------
\* What the options give the provers.
LEMMA OptionRange ==
    ASSUME BufTypeOK
    PROVE  /\ opt.iov_cnt \in 1 .. MaxIov /\ opt.iov_cnt \in Nat
           /\ opt.len \in 0 .. MaxLen /\ opt.len \in Nat
           /\ idx \in Nat /\ idx + 1 \in Iovs /\ idx + 1 \in 1 .. MaxIov
           /\ Iovs \subseteq 1 .. MaxIov
BY MaxAssumption DEF BufTypeOK, Options, Iovs

\* Every initial state satisfies the invariant.
LEMMA BufInit == Init => BufInd
<1>. SUFFICES ASSUME Init PROVE BufInd
  OBVIOUS
<1>1. opt.iov_cnt \in 1 .. MaxIov /\ opt \in Options
  BY MaxAssumption DEF Init, Options
<1>2. BufTypeOK
  <2>1. /\ idx \in 0 .. opt.iov_cnt - 1
        /\ ptr \in [1 .. MaxIov -> {Wild, Null} \cup 1 .. MaxIov]
        /\ frees \in [1 .. MaxIov -> Nat]
        /\ cont \in [1 .. MaxIov -> Seq(Nat)]
        /\ data \in Seq(Nat) /\ offset \in Nat
    BY <1>1, MaxAssumption DEF Init
  <2>. QED
    BY <1>1, <2>1 DEF Init, BufTypeOK, Pcs
<1>3. PointersAt
  BY DEF Init, PointersAt
<1>4. FreesAt
  BY DEF Init, FreesAt
<1>5. CopyAt
  BY DEF Init, CopyAt
<1>. QED
  BY <1>2, <1>3, <1>4, <1>5 DEF BufInd, Init, WritesInBounds

\* The allocation of the iov.
LEMMA AllocIovKeeps == BufInd /\ AllocIov => BufInd'
<1>. SUFFICES ASSUME BufInd, AllocIov PROVE BufInd'
  OBVIOUS
<1>. USE DEF BufInd
<1>0. Iovs' = Iovs /\ Iovs \subseteq 1 .. MaxIov
  BY OptionRange DEF AllocIov, Iovs
<1>1. BufTypeOK'
  BY DEF AllocIov, BufTypeOK, Pcs, Cleared, Null, Wild
<1>2. PointersAt'
  BY <1>0 DEF AllocIov, PointersAt, Cleared
<1>3. FreesAt'
  BY DEF AllocIov, FreesAt
<1>4. CopyAt'
  BY DEF AllocIov, CopyAt
<1>5. WritesInBounds'
  BY DEF AllocIov, WritesInBounds
<1>. QED
  BY <1>1, <1>2, <1>3, <1>4, <1>5

\* One turn of the allocation loop.
LEMMA MallocKeeps == BufInd /\ buffer_malloc => BufInd'
<1>. SUFFICES ASSUME BufInd, buffer_malloc PROVE BufInd'
  OBVIOUS
<1>. USE DEF BufInd
<1>0. /\ Iovs' = Iovs /\ Iovs \subseteq 1 .. MaxIov
      /\ idx \in Nat /\ idx + 1 \in Iovs /\ idx + 1 \in 1 .. MaxIov
      /\ opt' = opt
  BY OptionRange DEF buffer_malloc, Iovs
<1>a. pc' \in {"malloc", "fill", "post", "free"}
  BY DEF buffer_malloc, Loop
<1>b. /\ idx' \in 0 .. opt.iov_cnt - 1
      /\ pc' \in {"post", "free"} => idx' = 0
      /\ pc' = "malloc" => idx' = idx + 1
  BY <1>0, OptionRange DEF buffer_malloc, Loop, LastTurn, BufTypeOK, Iovs
<1>c. /\ ptr' \in [1 .. MaxIov -> {Wild, Null} \cup 1 .. MaxIov]
      /\ live' \subseteq 1 .. MaxIov
      /\ live' \subseteq Iovs
      /\ live' \subseteq live \cup {idx + 1}
      /\ failed' \in BOOLEAN
      /\ ret' \in {0, -1}
  BY <1>0 DEF buffer_malloc, BufTypeOK, PointersAt, FailedMalloc
<1>1. BufTypeOK'
  BY <1>0, <1>a, <1>b, <1>c DEF buffer_malloc, BufTypeOK, Pcs
<1>2. PointersAt'
  <2>1. ASSUME ~failed'
        PROVE  \A i \in Iovs : ptr'[i] = IF i \in live' THEN i ELSE Null
    <3>1. idx + 1 \notin live
      BY <1>0 DEF buffer_malloc, PointersAt
    <3>2. ~failed /\ \A i \in Iovs : ptr[i] = IF i \in live THEN i ELSE Null
      BY <2>1 DEF buffer_malloc, PointersAt, BufTypeOK
    <3>3. CASE /\ ptr' = [ptr EXCEPT ![idx + 1] = idx + 1]
               /\ live' = live \cup {idx + 1}
      BY <3>1, <3>2, <3>3, <1>0 DEF BufTypeOK
    <3>4. CASE /\ \E q \in FailedMalloc : ptr' = [ptr EXCEPT ![idx + 1] = q]
               /\ failed' = (opt.mem = "cuda")
               /\ live' = live
      <4>1. FailedMalloc = {Null}
        BY <2>1, <3>4 DEF FailedMalloc, BufTypeOK, Options
      <4>2. ptr' = [ptr EXCEPT ![idx + 1] = Null]
        BY <3>4, <4>1
      <4>. QED
        BY <3>1, <3>2, <3>4, <4>2, <1>0 DEF BufTypeOK
    <3>. QED
      BY <3>3, <3>4 DEF buffer_malloc
  <2>2. pc' = "malloc" => \A k \in live' : k <= idx'
    BY <1>0, <1>b, <1>c DEF PointersAt, buffer_malloc, BufTypeOK
  <2>. QED
    <3>1. failed' => opt'.mem = "cuda"
      BY <1>0 DEF buffer_malloc, PointersAt
    <3>. QED
      BY <2>1, <2>2, <3>1, <1>0, <1>a, <1>c DEF PointersAt
<1>3. FreesAt'
  BY <1>a DEF buffer_malloc, FreesAt
<1>4. CopyAt'
  BY <1>a, <1>b DEF buffer_malloc, CopyAt
<1>5. WritesInBounds'
  BY <1>a DEF WritesInBounds
<1>. QED
  BY <1>1, <1>2, <1>3, <1>4, <1>5

\* One turn of the fill loop.
LEMMA FillKeeps == BufInd /\ fill_buffer => BufInd'
<1>. SUFFICES ASSUME BufInd, fill_buffer PROVE BufInd'
  OBVIOUS
<1>. USE DEF BufInd
<1>0. Iovs' = Iovs /\ opt' = opt
  BY DEF fill_buffer, Iovs
<1>a. /\ pc' \in {"fill", "post", "free", "overrun"}
      /\ idx' \in 0 .. opt.iov_cnt - 1
      /\ pc' = "post" => idx' = 0
  BY OptionRange DEF fill_buffer, Loop, LastTurn, BufTypeOK, Iovs
<1>1. BufTypeOK'
  BY <1>0, <1>a DEF fill_buffer, BufTypeOK, Pcs
<1>2. PointersAt'
  BY <1>0, <1>a DEF fill_buffer, PointersAt
<1>3. FreesAt'
  BY <1>a DEF fill_buffer, FreesAt
<1>4. CopyAt'
  BY <1>a DEF fill_buffer, CopyAt
<1>5. WritesInBounds'
  <2>. SUFFICES ASSUME pc' = "overrun", opt.len # 0 PROVE FALSE
    BY <1>0 DEF WritesInBounds
  <2>1. opt.len \in 1 .. MaxLen
    BY OptionRange
  <2>2. FillBound(opt.len) <= opt.len
    BY <2>1, FillBoundInside
  <2>3. FillBound(opt.len) > opt.len
    BY DEF fill_buffer, Loop
  <2>4. FillBound(opt.len) \in Int /\ opt.len \in Int
    <3>1. 2^SizeBits \in Nat /\ 2^SizeBits > 0
      BY WidthAssumption, MaxAssumption
    <3>. DEFINE w == 2^SizeBits
    <3>. HIDE DEF w
    <3>2. w \in Nat /\ w > 0
      BY <3>1 DEF w
    <3>3. (opt.len + w - 1) % w \in Int
      BY <3>2, OptionRange
    <3>. QED
      BY <3>3, OptionRange DEF FillBound, w
  <2>. QED
    BY <2>2, <2>3, <2>4
<1>. QED
  BY <1>1, <1>2, <1>3, <1>4, <1>5

\* The completion of the request, and the printing.
LEMMA CompleteKeeps == BufInd /\ (Complete \/ print_iov) => BufInd'
<1>. SUFFICES ASSUME BufInd, Complete \/ print_iov PROVE BufInd'
  OBVIOUS
<1>. USE DEF BufInd
<1>0. /\ Iovs' = Iovs
      /\ UNCHANGED <<opt, iov, idx, ptr, live, frees, data, offset, cont, failed>>
      /\ pc \in {"post", "print"}
      /\ pc' \in {"print", "free", "segv"}
      /\ pc' = "print" => pc = "post"
  BY DEF Complete, print_iov, Iovs
<1>1. BufTypeOK'
  BY <1>0 DEF Complete, print_iov, BufTypeOK, Pcs
<1>2. PointersAt'
  BY <1>0 DEF PointersAt
<1>3. FreesAt'
  BY <1>0 DEF FreesAt
<1>4. CopyAt'
  BY <1>0 DEF CopyAt
<1>5. WritesInBounds'
  BY <1>0 DEF WritesInBounds
<1>. QED
  BY <1>1, <1>2, <1>3, <1>4, <1>5

\* The message has the length of the buffers, and the first offset is 0.
LEMMA DataKeeps == BufInd /\ ucp_am_data_cb => BufInd'
<1>. SUFFICES ASSUME BufInd, ucp_am_data_cb PROVE BufInd'
  OBVIOUS
<1>. USE DEF BufInd
<1>. DEFINE n == opt.iov_cnt * opt.len
<1>0. /\ Iovs' = Iovs /\ pc' = "copy" /\ pc = "post"
      /\ UNCHANGED <<opt, iov, idx, ptr, live, frees, offset, cont, failed, ret>>
      /\ data' = [k \in 1 .. n |-> k]
  BY DEF ucp_am_data_cb, Iovs
<1>a. n \in Nat
  BY OptionRange
<1>. HIDE DEF n
<1>b. data' \in Seq(Nat) /\ Len(data') = n
  BY <1>0, <1>a
<1>1. BufTypeOK'
  BY <1>0, <1>b DEF BufTypeOK, Pcs
<1>2. PointersAt'
  BY <1>0 DEF PointersAt
<1>3. FreesAt'
  BY <1>0 DEF FreesAt
<1>4. CopyAt'
  <2>1. idx = 0 /\ offset = 0
    BY <1>0 DEF CopyAt
  <2>2. 0 * opt.len = 0
    BY OptionRange
  <2>. QED
    <3>1. offset' = idx' * opt'.len
      BY <1>0, <2>1, <2>2
    <3>2. Len(data') = opt'.iov_cnt * opt'.len
      BY <1>0, <1>b DEF n
    <3>3. 1 .. idx' = {}
      BY <1>0, <2>1
    <3>4. Scattered(idx)'
      BY <3>2, <3>3 DEF Scattered
    <3>. QED
      BY <1>0, <3>1, <3>4 DEF CopyAt
<1>5. WritesInBounds'
  BY <1>0 DEF WritesInBounds
<1>. QED
  BY <1>1, <1>2, <1>3, <1>4, <1>5

\* One turn of the copy: the piece lies inside the message.
LEMMA CopyKeeps == BufInd /\ CopyOut => BufInd'
<1>. SUFFICES ASSUME BufInd, CopyOut PROVE BufInd'
  OBVIOUS
<1>. USE DEF BufInd
<1>. DEFINE piece == SubSeq(data, offset + 1, offset + opt.len)
<1>0. /\ Iovs' = Iovs /\ pc = "copy"
      /\ UNCHANGED <<opt, iov, ptr, live, frees, data, failed, ret>>
      /\ cont' = [cont EXCEPT ![idx + 1] = piece]
      /\ offset' = offset + opt.len
  BY DEF CopyOut, NextOffset, Iovs
<1>a. /\ pc' \in {"copy", "print"}
      /\ idx' \in 0 .. opt.iov_cnt - 1
      /\ pc' = "copy" => idx' = idx + 1
      /\ pc' = "print" => idx + 1 = opt.iov_cnt
  <2>1. idx \in 0 .. opt.iov_cnt - 1 /\ opt.iov_cnt \in Nat
    BY OptionRange DEF BufTypeOK
  <2>2. Loop("print")
    BY DEF CopyOut
  <2>. QED
    BY <2>1, <2>2, <1>0 DEF Loop, LastTurn
<1>b. /\ opt.len \in Nat /\ opt.iov_cnt \in Nat /\ idx \in Nat /\ idx + 1 <= opt.iov_cnt
      /\ idx + 1 \in 1 .. MaxIov
  BY OptionRange DEF Iovs
<1>c. /\ offset = idx * opt.len /\ offset \in Nat
      /\ offset + opt.len = (idx + 1) * opt.len
      /\ offset + opt.len <= Len(data)
  <2>1. /\ idx * opt.len \in Nat
        /\ (idx + 1) * opt.len = idx * opt.len + opt.len
        /\ idx * opt.len + opt.len <= opt.iov_cnt * opt.len
    BY <1>b, NextProduct
  <2>2. offset = idx * opt.len /\ Len(data) = opt.iov_cnt * opt.len
    BY <1>0 DEF CopyAt, Scattered
  <2>. QED
    BY <2>1, <2>2
<1>d. data \in Seq(Nat)
  BY DEF BufTypeOK
<1>e. \A i \in offset + 1 .. offset + opt.len : data[i] \in Nat
  <2>1. \A i \in offset + 1 .. offset + opt.len : i \in 1 .. Len(data)
    BY <1>b, <1>c, <1>d, LenProperties
  <2>2. \A i \in 1 .. Len(data) : data[i] \in Nat
    BY <1>d, ElementOfSeq
  <2>. QED
    BY <2>1, <2>2
<1>f. /\ piece \in Seq(Nat)
      /\ \A j \in 1 .. opt.len : piece[j] = data[offset + j]
  <2>1. /\ piece \in Seq(Nat)
        /\ \A j \in 1 .. (offset + opt.len) - (offset + 1) + 1 :
              piece[j] = data[(offset + 1) + j - 1]
    <3>1. offset + 1 \in Int /\ offset + opt.len \in Int
      BY <1>b, <1>c
    <3>. QED
      BY <3>1, <1>e, SubSeqProperties
  <2>. HIDE DEF piece
  <2>2. (offset + opt.len) - (offset + 1) + 1 = opt.len
    BY <1>b, <1>c
  <2>3. \A j \in 1 .. opt.len : (offset + 1) + j - 1 = offset + j
    BY <1>b, <1>c
  <2>. QED
    BY <2>1, <2>2, <2>3
<1>. HIDE DEF piece
<1>g. cont' \in [1 .. MaxIov -> Seq(Nat)]
  BY <1>0, <1>f DEF BufTypeOK
<1>1. BufTypeOK'
  <2>1. offset' \in Nat
    BY <1>0, <1>b, <1>c
  <2>. QED
    BY <1>0, <1>a, <1>g, <2>1 DEF BufTypeOK, Pcs
<1>2. PointersAt'
  BY <1>0, <1>a DEF PointersAt
<1>3. FreesAt'
  BY <1>0, <1>a DEF FreesAt
<1>4. CopyAt'
  <2>1. \A i \in 1 .. idx, j \in 1 .. opt.len :
           cont'[i][j] = data[(i - 1) * opt.len + j]
    <3>1. \A i \in 1 .. idx : cont'[i] = cont[i]
      BY <1>0, <1>b DEF BufTypeOK
    <3>. QED
      BY <3>1, <1>0 DEF CopyAt, Scattered
  <2>2. \A j \in 1 .. opt.len : cont'[idx + 1][j] = data[((idx + 1) - 1) * opt.len + j]
    <3>1. cont'[idx + 1] = piece
      BY <1>0, <1>b DEF BufTypeOK
    <3>2. (idx + 1) - 1 = idx
      BY <1>b
    <3>. QED
      BY <3>1, <3>2, <1>c, <1>f
  <2>3. \A i \in 1 .. idx + 1, j \in 1 .. opt.len :
           cont'[i][j] = data[(i - 1) * opt.len + j]
    <3>1. \A i \in 1 .. idx + 1 : i \in 1 .. idx \/ i = idx + 1
      BY <1>b
    <3>. QED
      BY <3>1, <2>1, <2>2
  <2>4. Len(data) = opt.iov_cnt * opt.len
    BY <1>0 DEF CopyAt, Scattered
  <2>5. CASE pc' = "copy"
    <3>1. idx' = idx + 1
      BY <1>a, <2>5
    <3>2. Scattered(idx)'
      BY <2>3, <2>4, <3>1, <1>0 DEF Scattered
    <3>3. offset' = idx' * opt'.len
      BY <3>1, <1>0, <1>c
    <3>. QED
      BY <2>5, <3>2, <3>3 DEF CopyAt
  <2>6. CASE pc' = "print"
    <3>1. idx + 1 = opt.iov_cnt
      BY <1>a, <2>6
    <3>2. Scattered(opt.iov_cnt)'
      BY <2>3, <2>4, <3>1, <1>0 DEF Scattered
    <3>. QED
      BY <2>6, <3>2 DEF CopyAt
  <2>. QED
    BY <2>5, <2>6, <1>a
<1>5. WritesInBounds'
  BY <1>a DEF WritesInBounds
<1>. QED
  BY <1>1, <1>2, <1>3, <1>4, <1>5

\* buffer_free passes every live buffer to free once and nothing else.
LEMMA FreeKeeps == BufInd /\ buffer_free => BufInd'
<1>. SUFFICES ASSUME BufInd, buffer_free PROVE BufInd'
  OBVIOUS
<1>. USE DEF BufInd
<1>. DEFINE Holders(k) == {i \in Iovs : ptr[i] = k}
<1>0. /\ Iovs' = Iovs /\ pc = "free" /\ pc' = "ret" /\ iov' = "freed"
      /\ UNCHANGED <<opt, idx, ptr, live, data, offset, cont, failed, ret>>
      /\ frees' = [k \in 1 .. MaxIov |-> frees[k] + Cardinality(Holders(k))]
  BY DEF buffer_free, Iovs
<1>a. \A k \in 1 .. MaxIov : Cardinality(Holders(k)) \in Nat
  <2>. TAKE k \in 1 .. MaxIov
  <2>1. IsFiniteSet(Iovs)
    <3>1. opt.iov_cnt \in Int /\ 1 \in Int
      BY OptionRange
    <3>. QED
      BY <3>1, FS_Interval DEF Iovs
  <2>2. Holders(k) \in SUBSET Iovs
    OBVIOUS
  <2>. HIDE DEF Holders
  <2>3. IsFiniteSet(Holders(k))
    BY <2>1, <2>2, FS_Subset
  <2>. QED
    BY <2>3, FS_CardinalityType
<1>b. ASSUME ~failed, NEW k \in 1 .. MaxIov
      PROVE  Cardinality(Holders(k)) = IF k \in live THEN 1 ELSE 0
  <2>1. \A i \in Iovs : ptr[i] = IF i \in live THEN i ELSE Null
    BY <1>0, <1>b DEF PointersAt
  <2>2. live \subseteq Iovs /\ k # Null /\ k \in Nat
    BY MaxAssumption DEF PointersAt, Null
  <2>3. CASE k \in live
    <3>1. Holders(k) = {k}
      BY <2>1, <2>2, <2>3
    <3>. QED
      BY <2>3, <3>1, FS_Singleton
  <2>4. CASE k \notin live
    <3>1. Holders(k) = {}
      BY <2>1, <2>2, <2>4
    <3>. QED
      BY <2>4, <3>1, FS_EmptySet
  <2>. QED
    BY <2>3, <2>4
<1>. HIDE DEF Holders
<1>c. \A k \in 1 .. MaxIov : frees[k] = 0
  BY <1>0 DEF FreesAt
<1>d. \A k \in 1 .. MaxIov : frees'[k] = Cardinality(Holders(k))
  BY <1>0, <1>a, <1>c
<1>1. BufTypeOK'
  <2>1. frees' \in [1 .. MaxIov -> Nat]
    BY <1>0, <1>a, <1>d
  <2>. QED
    BY <1>0, <2>1 DEF BufTypeOK, Pcs
<1>2. PointersAt'
  BY <1>0 DEF PointersAt
<1>3. FreesAt'
  BY <1>0, <1>b, <1>d DEF FreesAt
<1>4. CopyAt'
  BY <1>0 DEF CopyAt
<1>5. WritesInBounds'
  BY <1>0 DEF WritesInBounds
<1>. QED
  BY <1>1, <1>2, <1>3, <1>4, <1>5

\* A stuttering step keeps the invariant.
LEMMA BufStutter == BufInd /\ UNCHANGED vars => BufInd'
<1>. SUFFICES ASSUME BufInd, UNCHANGED vars PROVE BufInd'
  OBVIOUS
<1>1. Iovs' = Iovs
  BY DEF vars, Iovs
<1>2. BufTypeOK' /\ PointersAt'
  BY <1>1 DEF vars, BufInd, BufTypeOK, PointersAt
<1>3. FreesAt' /\ WritesInBounds'
  BY DEF vars, BufInd, FreesAt, WritesInBounds
<1>4. CopyAt'
  BY DEF vars, BufInd, CopyAt, Scattered
<1>. QED
  BY <1>2, <1>3, <1>4 DEF BufInd

--------------------------------------------------------------------------------
\* BufInd is an invariant of client_server_communication's buffer handling, for
\* every number and length of buffers and every width of size_t.
THEOREM BufInductive == Spec => []BufInd
<1>1. BufInd /\ [Next]_vars => BufInd'
  BY AllocIovKeeps, MallocKeeps, FillKeeps, CompleteKeeps, DataKeeps, CopyKeeps,
     FreeKeeps, BufStutter DEF Next
<1>. QED
  BY BufInit, <1>1, PTL DEF Spec

\* No loop over the iov leaves its array: BufTypeOK bounds idx by iov_cnt.
THEOREM BufTypeCorrect == Spec => []BufTypeOK
<1>1. BufInd => BufTypeOK
  BY DEF BufInd
<1>. QED
  BY BufInductive, <1>1, PTL

\* When buffer_free has run, after a complete exchange or after the failure of
\* any allocation, every buffer was freed exactly once.
THEOREM BuffersFreed == Spec => []FreedExactlyOnce
<1>1. BufInd => FreedExactlyOnce
  <2>. SUFFICES ASSUME BufInd, pc = "ret", ~failed
                PROVE  /\ iov = "freed"
                       /\ \A k \in 1 .. MaxIov : frees[k] = IF k \in live THEN 1 ELSE 0
                       /\ \A i \in Iovs : ptr[i] # Wild
    BY DEF FreedExactlyOnce
  <2>1. /\ iov = "freed"
        /\ \A k \in 1 .. MaxIov : frees[k] = IF k \in live THEN 1 ELSE 0
    BY DEF BufInd, FreesAt
  <2>2. \A i \in Iovs : ptr[i] = IF i \in live THEN i ELSE Null
    BY DEF BufInd, PointersAt
  <2>3. \A i \in Iovs : i # Wild /\ Null # Wild
    BY OptionRange, MaxAssumption DEF Wild, Null, BufInd
  <2>. QED
    BY <2>1, <2>2, <2>3
<1>. QED
  BY BufInductive, <1>1, PTL

\* generate_test_string stays inside its buffer for every length but 0.
THEOREM BufWritesInBounds == Spec => []WritesInBounds
<1>1. BufInd => WritesInBounds
  BY DEF BufInd
<1>. QED
  BY BufInductive, <1>1, PTL

\* The copy of an eager message keeps all of its bytes in order.
THEOREM BufScatter == Spec => []ScatterKeepsData
<1>1. BufInd => ScatterKeepsData
  BY DEF BufInd, CopyAt, Scattered, ScatterKeepsData, Iovs
<1>. QED
  BY BufInductive, <1>1, PTL
================================================================================
