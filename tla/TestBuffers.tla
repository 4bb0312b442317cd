------------------------------ MODULE TestBuffers ------------------------------
(***************************************************************************)
(* The buffers of one message of the client/server demo: buffer_malloc,    *)
(* fill_buffer, the copy of an eager active message, print_iov and         *)
(* buffer_free (src/03_ucp_am_stream_tag_client_server/ucp_client_server.c)*)
(* with mem_type_malloc and generate_test_string (hello_world_util.h).     *)
(*                                                                         *)
(* A pointer is the number of the allocation it came from, NULL, or Wild.  *)
(* The bytes of a message are told apart by their position.                *)
(***************************************************************************)
EXTENDS Integers, Sequences, FiniteSets

CONSTANTS
    MaxIov,    \* largest iov_cnt (-v)
    MaxLen,    \* largest test_string_length (-s)
    SizeBits   \* width of size_t

ASSUME MaxAssumption == MaxIov \in Nat \ {0} /\ MaxLen \in Nat
ASSUME WidthAssumption == SizeBits \in Nat /\ 2^SizeBits \in Nat /\ MaxLen < 2^SizeBits - 1

Null == 0
Wild == -1

\* What parse_cmd accepts: iov_cnt > 0, test_string_length >= 0.
Options == [client : BOOLEAN, iov_cnt : 1 .. MaxIov, len : 0 .. MaxLen,
            mem : {"host", "cuda"}]

VARIABLES
    opt,     \* the command line
    pc,      \* where client_server_communication is
    iov,     \* the array: none, live or freed
    idx,     \* the loop variable of the function pc is in
    ptr,     \* iov[i].buffer
    live,    \* allocations made so far
    frees,   \* how often each of them was passed to mem_type_free
    data,    \* the message, and how much of it was copied
    offset,
    cont,    \* what the buffers hold
    failed,  \* a CUDA allocation has failed
    ret      \* the return value

vars == <<opt, pc, iov, idx, ptr, live, frees, data, offset, cont, failed, ret>>

Iovs == 1 .. opt.iov_cnt
Pcs == {"start", "malloc", "fill", "post", "copy", "print", "free", "ret", "segv", "overrun"}

\* Every variable has its type; no loop leaves its array.
BufTypeOK ==
    /\ opt \in Options
    /\ pc \in Pcs
    /\ iov \in {"none", "live", "freed"}
    /\ idx \in 0 .. opt.iov_cnt - 1
    /\ ptr \in [1 .. MaxIov -> {Wild, Null} \cup 1 .. MaxIov]
    /\ live \subseteq 1 .. MaxIov
    /\ frees \in [1 .. MaxIov -> Nat]
    /\ data \in Seq(Nat)
    /\ offset \in Nat
    /\ cont \in [1 .. MaxIov -> Seq(Nat)]
    /\ failed \in BOOLEAN
    /\ ret \in {0, -1}

Init ==
    /\ opt \in Options
    /\ pc = "start"
    /\ iov = "none"
    /\ idx = 0
    /\ ptr = [i \in 1 .. MaxIov |-> Wild]
    /\ live = {}
    /\ frees = [i \in 1 .. MaxIov |-> 0]
    /\ data = <<>>
    /\ offset = 0
    /\ cont = [i \in 1 .. MaxIov |-> <<>>]
    /\ failed = FALSE
    /\ ret = 0

\* Mutant: idx <= iov_cnt.
LastTurnLate == idx = opt.iov_cnt
LastTurn == idx + 1 = opt.iov_cnt

\* The last turn of a loop goes on to next with idx = 0.
Loop(next) ==
    IF LastTurn THEN idx' = 0 /\ pc' = next
                ELSE idx' = idx + 1 /\ UNCHANGED pc

--------------------------------------------------------------------------------
\* Mutant: the iov is not cleared.
ClearedNot == Wild
Cleared == Null

\* send_recv_stream, send_recv_tag, send_recv_am: malloc of the iov, which is
\* not checked, and memset.
AllocIov ==
    /\ pc = "start"
    /\ \/ iov' = "live" /\ ptr' = [i \in 1 .. MaxIov |-> Cleared] /\ pc' = "malloc"
       \/ pc' = "segv" /\ UNCHANGED <<iov, ptr>>
    /\ UNCHANGED <<opt, idx, live, frees, data, offset, cont, failed, ret>>

\* What mem_type_malloc returns when the allocation fails: ptr is not
\* initialized and CUDA_FUNC only prints, so what the stack held, which may be
\* the pointer of an earlier call.
FailedMalloc == IF opt.mem = "host" THEN {Null} ELSE {Null, Wild} \cup live

\* One turn of the loop in buffer_malloc; NULL ends it with buffer_free.
buffer_malloc ==
    /\ pc = "malloc"
    /\ \/ /\ ptr' = [ptr EXCEPT ![idx + 1] = idx + 1]
          /\ live' = live \cup {idx + 1}
          /\ UNCHANGED failed
       \/ /\ \E q \in FailedMalloc : ptr' = [ptr EXCEPT ![idx + 1] = q]
          /\ failed' = (opt.mem = "cuda")
          /\ UNCHANGED live
    /\ IF ptr'[idx + 1] = Null
         THEN pc' = "free" /\ idx' = 0 /\ ret' = -1
         ELSE Loop(IF opt.client THEN "fill" ELSE "post") /\ UNCHANGED ret
    /\ UNCHANGED <<opt, iov, frees, data, offset, cont>>

\* Mutant: i < size + 1.
FillBoundOver(size) == size + 1

\* generate_test_string writes while i < (size - 1), in size_t.
FillBound(size) == (size + 2^SizeBits - 1) % 2^SizeBits

\* One turn of the loop in fill_buffer with generate_test_string, whose own
\* buffer has size bytes.
fill_buffer ==
    /\ pc = "fill"
    /\ \/ FillBound(opt.len) <= opt.len /\ Loop("post") /\ UNCHANGED ret
       \/ FillBound(opt.len) > opt.len /\ pc' = "overrun" /\ UNCHANGED <<idx, ret>>
       \/ pc' = "free" /\ idx' = 0 /\ ret' = -1
    /\ UNCHANGED <<opt, iov, ptr, live, frees, data, offset, cont, failed>>

\* The request completes, or fails (request_finalize).
Complete ==
    /\ pc = "post"
    /\ \/ pc' = "print" /\ UNCHANGED ret
       \/ pc' = "free" /\ ret' = -1
    /\ UNCHANGED <<opt, iov, idx, ptr, live, frees, data, offset, cont, failed>>

\* ucp_am_data_cb with the eager message of a peer that has its own options: a
\* message of another length is ignored.
ucp_am_data_cb ==
    /\ pc = "post"
    /\ ~opt.client
    /\ \E o \in Options :
         /\ o.iov_cnt * o.len = opt.iov_cnt * opt.len
         /\ data' = [k \in 1 .. o.iov_cnt * o.len |-> k]
    /\ pc' = "copy"
    /\ UNCHANGED <<opt, iov, idx, ptr, live, frees, offset, cont, failed, ret>>

\* Mutant: the offset stays.
NextOffsetSame == offset
NextOffset == offset + opt.len

\* One turn of its loop.
CopyOut ==
    /\ pc = "copy"
    /\ cont' = [cont EXCEPT ![idx + 1] = SubSeq(data, offset + 1, offset + opt.len)]
    /\ offset' = NextOffset
    /\ Loop("print")
    /\ UNCHANGED <<opt, iov, ptr, live, frees, data, failed, ret>>

\* request_finalize: print_result in some iterations, with print_iov, whose
\* malloc is not checked.
print_iov ==
    /\ pc = "print"
    /\ pc' \in {"free", "segv"}
    /\ UNCHANGED <<opt, iov, idx, ptr, live, frees, data, offset, cont, failed, ret>>

\* buffer_free: free(NULL) does nothing.
buffer_free ==
    /\ pc = "free"
    /\ frees' = [k \in 1 .. MaxIov |-> frees[k] + Cardinality({i \in Iovs : ptr[i] = k})]
    /\ iov' = "freed"
    /\ pc' = "ret"
    /\ UNCHANGED <<opt, idx, ptr, live, data, offset, cont, failed, ret>>

Next ==
    \/ AllocIov \/ buffer_malloc \/ fill_buffer \/ Complete
    \/ ucp_am_data_cb \/ CopyOut \/ print_iov \/ buffer_free

Spec == Init /\ [][Next]_vars

--------------------------------------------------------------------------------
\* Wherever the function fails, every buffer that was allocated has been freed
\* exactly once when it returns, no other pointer was passed to free, and the
\* iov is gone; unless a CUDA allocation failed, which mem_type_malloc hides.
FreedExactlyOnce ==
    pc = "ret" /\ ~failed =>
        /\ iov = "freed"
        /\ \A k \in 1 .. MaxIov : frees[k] = IF k \in live THEN 1 ELSE 0
        /\ \A i \in Iovs : ptr[i] # Wild

\* The loop of generate_test_string leaves its buffer only for a string of
\* length 0, where size - 1 wraps around.
WritesInBounds == pc = "overrun" => opt.len = 0

\* After the copy of an eager message the buffers hold all of its bytes, in
\* order, also when the peer cut the same length into other pieces.
ScatterKeepsData ==
    pc = "print" /\ data # <<>> =>
        /\ Len(data) = opt.iov_cnt * opt.len
        /\ \A i \in Iovs, j \in 1 .. opt.len : cont[i][j] = data[(i - 1) * opt.len + j]
================================================================================
