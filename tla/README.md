# A TLA+ verification of ucx-demo

`ucx-demo` is a set of small programs that show how to use the UCX communication
library: two "hello world" programs (on the UCT and on the UCP layer), a UCP
client/server that moves messages with three different APIs, and an RMA
client/server. This directory holds TLA+ models of these programs, the TLC
configurations that check them, and TLAPS proofs of all their safety properties.
Paths such as `03/ucp_client_server.c` abbreviate
`src/03_ucp_am_stream_tag_client_server/ucp_client_server.c`.

## 1. The system

### 1.1 Components

| Component | State it keeps | Operations | Modelled in |
|---|---|---|---|
| **03 client/server**, `ucp_client_server.c` | globals `connection_closed`, `am_data_desc`; server `context.conn_request`; workers, endpoints, one request at a time | `run_server`, `run_client`, `client_server_do_work`, `send_recv_stream/tag/am`, `request_wait`, `request_finalize`, callbacks `ucp_am_data_cb`, `err_cb`, `server_conn_handle_cb`, `*_recv_cb`, `send_cb` | `UcpClientServer` |
| **04 RMA server and client**, `server.cpp`, `client.cpp` | the registered buffer, the printed head, the accept queue; a client's local buffer and request | event loop, `accept_nonblock`, `send_fd`; connect, `recv_fd`, set-up, put + flush, get, `wait` | `RmaClientServer` |
| **04 handshake**, `ucx_util.cpp` | a byte stream, offsets of `send_all`/`recv_all` | `send_fd`, `recv_fd` | `Handshake` |
| **02 UCP hello world**, `ucp_hello_world.c`, `hello_world_util.h` | OOB socket, worker, endpoint, the pointer `msg`, `ret` | `main`, `run_ucx_client`, `run_ucx_server`, `server_connect`, `client_connect`, `barrier` | `UcpHelloWorld` |
| **03 test buffers**, `ucp_client_server.c`, `hello_world_util.h` | `iov` arrays, memory types, test string | `buffer_malloc`, `fill_buffer`, `generate_test_string`, copy of an eager message, `print_iov`, `buffer_free` | `TestBuffers` (in `UcpClientServer` only the lifetime of the receive buffer) |
| **01 UCT hello world**, `uct_hello_world.c`, `hello_world_util.h` | handles of interface, memory domain, worker and endpoint, address buffers, `desc_holder`, OOB socket, `status` | `dev_tl_lookup`, `init_iface`, `sendrecv`, `do_am_short/bcopy/zcopy`, `hello_world`, `zcopy_completion_cb`, `barrier`, the labels of `main` | `UctHelloWorld` |
| **04 RAII wrappers**, `UcxEnv`, `UcxMem`, `UcxEndpoint` | one handle each | constructors, moves, destructors | single steps of `RmaClientServer`; the moves are used by no program |
| **00 perftest notes** | - | command lines only, no code | - |
| **UCX, TCP, CUDA** | external | see 2.1 | marked external in the map |

### 1.2 How the parts interact

*03.* The server has a listener and one data worker. A client's connection
request is handed to `server_conn_handle_cb`, which stores it or rejects it; the
accept loop creates an endpoint, runs `client_server_do_work`, force-closes the
endpoint and goes back to the accept loop, or ends if the session failed. A
session is `num_iterations` messages from the client, one FIN from the server, and
the server's wait for the client to close. Everything is single-threaded, but
callbacks run inside `ucp_worker_progress`, any number of them per call, and the
loops test their flags only between two calls.

*04.* The server fills and registers a buffer and runs a loop: progress, poll the
listener, send the handshake (worker address, rkey, address, size) on an accepted
connection and close it, print the buffer's head once a second. A client receives
the handshake, builds an endpoint and puts or gets the whole buffer without the
server's program taking part.

*02.* The server sends its UCX address over TCP, the client sends its own as a
tagged UCX message, the server answers with a string from CUDA memory, and a
barrier over the TCP socket ends the run.

*01.* Each process looks for the device and transport it was told to use among all
memory domains of all components, then exchanges device and interface addresses (and
endpoint addresses, where the transport connects endpoints) with the peer over TCP,
in four socket calls per address. The client sends one active message; the server
spins until its callback has stored it. One barrier follows the connection of the
endpoints, another one ends the run. Every step of `main` may fail and then jumps
into a chain of labels that release what has been acquired.

### 1.3 What is hard, and what correctness means

`PROJECT.json` lists the hazards with their lines. In short:

- **03**: several callbacks per progress call over global flags; a FIN that arrives
  before its handler is registered; globals and a worker that outlive a session;
  a forced close that discards what is in flight, and whose loop still runs callbacks;
  requests that are, or are not,
  bound to a failing endpoint; a client's failure that ends the server. Correct
  means: a client that returns 0 had all its messages received; each receive gets
  its message; no session sees anything of another; nobody hangs where the code has
  the means to prevent it.
- **04**: a put completes before its data is in place; puts and gets of several
  clients overlap; emulated RMA moves only in the server's progress calls; one
  connection that breaks in its handshake ends the server. Correct means: a GET
  after a reported PUT reads it (`04/README.md:54`: "then GET again (should
  reflect the PUT pattern)"), clients end, and every client gets its handshake.
- **Handshake**: TCP may cut the stream anywhere, fields may be empty, the stream
  may end early. Correct means: the client has the server's values or throws.
- **02**: the barrier must keep each worker until the peer has disconnected, and
  must not be a place to wait forever; one pointer serves two allocations; failed
  CUDA calls and failed completions are only printed; the return value of a socket
  call becomes the return value of `main`.
- **01**: some thirty error exits into one chain of labels; a nested search that opens
  and closes what does not match; two peers that decide separately what to exchange;
  a zero-copy send that reads the string after the call has returned; two barriers
  that order connecting, sending and ending. Correct means: nothing is destroyed that
  is not there, nothing is used after its owner is gone, what leaks is known, and a
  client that succeeds was heard.
- **03 buffers**: the k-th of several allocations fails; size arithmetic at length 0;
  a running offset over pieces cut by the peer. Correct means: freed exactly once,
  no write outside a buffer, no byte lost.

## 2. The models

### 2.1 Assumptions about the environment

UCX, TCP and CUDA are not part of the repository. Their part is modelled from how
the code uses them, and is chosen as permissive as the use allows:

- callbacks run only inside `ucp_worker_progress`; a call runs any number of them.
  This includes the loop of `ep_close` (`03/ucp_util.h:31`), which goes on until UCX
  has completed the close: until then a message that is under way may still be
  dispatched;
- messages of one connection arrive in order; a connection is usable before the
  server has created its endpoint, in that what is sent waits;
- a send may complete at once, later when it is eager and the connection is up, or
  (rendezvous) when the receiver has fetched the data; UCX picks the protocol;
- a message that the peer has taken completes with success at its sender, even if
  the connection breaks next; a failed or force-closed endpoint loses whatever was
  in flight to it, and completes the requests bound to it with an error; a posted
  tag receive belongs to the worker and stays posted;
- an active message without a handler is dropped; whether a dropped rendezvous
  completes its sender with success or an error is left open;
- a put may complete as soon as the local buffer is copied; a flush completes when
  every byte is in place; bytes move one by one in any order, and a put's bytes may
  still arrive after the client is gone; RMA is done by the NIC or emulated in the
  target's progress calls;
- an endpoint without an error handler may never report that its peer died;
- TCP keeps the byte order, `send()` and `recv()` move any part; data sent to a
  peer that is gone may be accepted by the kernel and lost; a send to a closed socket
  succeeds, fails or kills the process (SIGPIPE, which 01 does not ignore); a socket
  closed with unread data may take what the peer has not read with it;
- `uct_iface_is_reachable` refuses a peer with an interface of another kind (01); an
  active message of UCT is delivered in the receiver's progress calls while its
  interface is open, and may be lost with the sender's endpoint;
- a failed CUDA allocation leaves the pointer argument as it was; a failed CUDA copy
  leaves anything in its target; a program that reads or writes through a pointer to
  memory it does not own goes on with anything there, or dies.

Faults are a constant, so that a run says which ones it allows: `alloc` (memory),
`setup` (a UCX or socket call that creates something), `post` (an operation is
refused), `status` (a request completes with an error), `cuda`, `link` (a connection breaks with both ends alive), `crash` (a
process is killed at any step).

### 2.2 `UcpClientServer` (and `AckedTransfer`)

Each process has a `pc` for the place in `client_server_do_work` and its callers,
`iter` is the loop variable `i`, and `prog` says that the process is inside
`ucp_worker_progress`. `req` is the one outstanding request with its `ctx.complete`,
`am_data_desc` and `connection_closed` are the globals of the C file, `net` and
`unexp` the messages under way and those that arrived before a receive was posted.
A message is its sender and the `current_iter` argument, which is all the payload
says. `rcvd` is a history variable: the messages of the server's completed receives
per session.

`ep_close` begins when `pc` becomes `"close"` and ends with `CloseClient`, `NextClient`
or `ServerExit`; in between its loop gives UCX the chance to run any callback
(`InDataLoop`). So an eager message can be dispatched inside the close, also after the
allocation for its receive failed, when `am_data_desc.recv_buf` is NULL or freed:
`AmCopyFaults` is the copy that kills the process, and through a freed pointer the copy
may also return. Clients with another `-s` than the server are modelled for active
messages, the only receive that looks at the length.

| Code | Actions |
|---|---|
| `client_server_communication`, `send_recv_*` | `AllocFails`, `Send`, `Recv`, `AmRecv`, `AmArrived` |
| `request_wait`, `request_finalize` | `Progress`, `FinalizeError`, `FinalizeData`, `FinalizeFin` |
| callbacks in `ucp_worker_progress` | `SendCb`, `FetchCb`, `RecvCb`, `ucp_am_data_cb`, `AmCopyFaults`, `err_cb`, `server_conn_handle_cb`, and the library's `AmDropped` |
| `run_client`, `start_client` | `StartClient`, `StartClientFails`, `RegisterFinHandler`, `CloseClient` |
| `run_server`, `start_server`, `server_create_ep` | `StartServer`, `ServerSetupFails`, `CreateEp`, `Drained`, `NextClient`, `ServerExit` |

`AckedTransfer` is the abstract specification: one session at a time, a session is
left only when complete or with the end of the server, success is reported only for
a complete session. `UcpClientServer` implements it with the refinement mapping
`Serving`, `Served`, `Delivered`, `Verdict`.

### 2.3 `RmaClientServer` and `Handshake`

`RmaClientServer` has one server and any number of clients, each with its mode.
`buf` is the registered buffer byte by byte, `todo[c]` the bytes of c's operation
that have not moved, `head` what the server printed last, `backlog` the kernel's
accept queue. `afterPut` is a history variable: the clients whose get was issued
when some client had already reported its PUT. The patterns `i & 0xFF` and
`(i*3) & 0xFF` become `i % Base` and `(i*3) % Base`.

A handshake is one step there. `Handshake` has its bytes: `sfield` and `soff` are
the server's place in the sequence of `send_all` calls, `got` and `part` the
client's in its `recv_all` calls; the lengths are encoded and decoded in base
`Base`, so that the receiver's next length really depends on what it parsed.

### 2.4 `UcpHelloWorld`

Two processes. `oob` is the TCP stream, `net` and `arrived` the UCX messages under
way and those a probe can find, `msg` says what the pointer points to (nothing,
host or CUDA memory, freed memory, memory released with the wrong function), `ret`
the value `main` returns. `text` is what the message a process receives holds: the
address, the string, or anything else (`"junk"`), after a CUDA call or a completion
that failed; `shown` is what the client printed. `send_handler` and `recv_handler` set
`completed` for every status and `CUDA_FUNC` only prints, so the programs go on; the
history variable `spoiled` records which of these failures happened. `Dies` is the
process that dies in undefined behaviour, which `Undefined` lists.

### 2.5 `UctHelloWorld`

Two processes. A label of `main` is a value of `pc`; `held[p]` is the set of what p
has acquired and not released, `Frees` and `NextLabel` are the chain of labels.
`cmpt` and `mds` are the indexes of `dev_tl_lookup`, `found` its test of `tl_index`,
`attr` the interface that was found: whether it has a device and an interface address and how it connects. `oob`
is the socket, item by item (a length, an address, the barrier's int), and `step` the
one of the four socket calls of `sendrecv` a process is in; `peer` says what really
is in the buffer for each of the peer's addresses. `op` is the zero-copy operation,
`desc` is `desc_holder`.

| Code | Actions |
|---|---|
| start of `main` | `CreateWorker`, `SetUp` |
| `dev_tl_lookup` | `uct_query_components`, `QueryComponent`, `OpenMd`, `ScanTls`, `ReleaseTls`, `CloseMd`, `ReleaseComponents` |
| `init_iface` | `OpenIface`, `QueryIface`, `ErrorIface` |
| `connect_common`, `sendrecv` and its callers | `Connect`, `ConnectFails`, `GetAddressFails`, `SendItem`, `RecvItem` |
| the endpoint, `barrier` | `uct_iface_is_reachable`, `CreateEp`, `CreateConnectedEp`, `ConnectToEp`, `BarrierSend`, `BarrierRecv` |
| the message | `CheckLength`, `MakeString`, `WildPointer`, `Register`, `SendAm`, `SendAmFails`, `zcopy_completion_cb`, `ZcopyReturns`, `hello_world`, `ShowMessage` |
| the labels | `CleanUp`, `Return` |

The lookup goes call by call: a memory domain is open from `OpenMd` on, also when the
queries after it fail (`close_md`); `init_iface` opens the interface and then may find
that it cannot do the kind of message asked for (`error_iface`); `ReleaseTls` makes the
test of lines 398-399. `out_destroy_iface` is two labels, because the order of its two
calls matters. `own_dev` and `own_iface` have no initial value, so that they count as
handles that must not be freed before they are allocated. With CUDA memory a failed
allocation leaves `str` uninitialised and the NULL check need not notice: `"wild"` in
`held` stands for that pointer. The history variable `failed` keeps which of the two
failures happened that leak something. The constant `Faults` says what can go wrong; the variable `faults` is
either nothing or all of it, so that the same run checks what holds without faults.

### 2.6 `TestBuffers`

One call of `send_recv_stream`, `send_recv_tag` or `send_recv_am`, seen from its
buffers. A pointer is the number of the allocation it came from, `Null`, or `Wild`.
`live` are the allocations made, `frees` how often each was passed to
`mem_type_free`. Each loop turn is a step. The bytes of a message are told apart by
their position, so that a copy to the wrong place shows. `size - 1` is computed modulo
`2^SizeBits`.

## 3. The runs

All passing runs together fire every action. Deadlock is checked in
`ucs_fault_free`; elsewhere the programs end, or (with faults) really may wait
forever, and `CHECK_DEADLOCK FALSE` is set.

| Run | Bounds | Shows |
|---|---|---|
| `ucs_fault_free` | 2 clients, stream and tag, eager and rendezvous, 1-2 iterations, no faults, fairness | `TypeOK`; `ForceCloseAfterClient`: the server never force-closes an endpoint whose client still waits; `AcceptedIsAcked`, `ServerComesBack` (liveness); no deadlock |
| `ucs_faults` | 2 clients (interchangeable), all three APIs, eager and rendezvous, 0-2 iterations, with active messages any client possibly with another `-s`, allocation, set-up and link faults | `FinAcksDelivery`, `ReceivesInOrder`, `NoLeftovers`, `EagerCopyTarget` (the callback copies only into allocated buffers, inside `ep_close` too, except after the allocation for that receive failed), `WrongSizeNeverAcked`, refinement of `AckedTransfer` |
| `ucs_stream_ends` | 2 clients, stream API, eager and rendezvous, 1 iteration, posting, set-up, link and crash faults, fairness | `StreamClientEnds`: no client hangs whatever fails |
| `ucs_am_eager_overwrite` | 1 client, eager AM, 2 iterations | violated, finding 1 |
| `ucs_am_fin_dropped` | 1 client, eager AM, 1 iteration, fairness | violated, finding 2 |
| `rma` | 2 clients with any modes, 3 bytes of base 5, head of 2, backlog 1, every fault, fairness | `RmaTypeOK`, `GetReflectsPut`, `HeadNeverReverts`, `ClientsEnd`, `HandshakeServed`, `PutIsShown` |
| `handshake` | base 2, lengths of 2 bytes, words of 3, addresses of 1 and 3 bytes, rkeys of 0 and 2, socket of 4 bytes, either side may die, fairness | `HandshakeTypeOK`, `HandshakeIntact`, `SidesAgree`, `HandshakeEnds` |
| `hello` | both processes, every fault, fairness | `HelloTypeOK`, `RemoteDisconnectedFirst`, `ServerSuccessMeansShown`, `BarrierEnds`, `HelloSucceeds` |
| `uct` | both processes, 4 transports, 2 components of 0-2 memory domains, socket of 2 items, every fault or none, fairness | `UctTypeOK`; `CleanUpOwned`, `AllReleased`, `DependencyOrder` (the clean-up of `main`, `dev_tl_lookup` and `init_iface`); `PeerAddressesRight`; `ConnectedBeforeSend`, `ClientSuccessMeansShown` (the barriers); `BufferHeldUntilSent`; `SocketWaitEnds`, `UctEnds` (liveness) |
| `buffers` | 1-4 buffers of length 0-4, `size_t` of 4 bits, host and CUDA memory, any allocation may fail | `BufTypeOK`, `FreedExactlyOnce`, `WritesInBounds`, `ScatterKeepsData` |
| `hello_exit_code` | a crash | violated, finding 3 |
| `hello_msg_buffer` | a CUDA failure | violated, finding 4 |

**Why the bounds are enough to be of use.** Two clients give every pair of
sessions: accepted and rejected, accepted and waiting, first and next session with
what the first left behind. Two iterations give a first and a last message, and two
messages in one progress call; no iteration gives the session that is only a FIN.
`ucs_faults` leaves out crashes and posting failures for their size (3.6 million states
with crashes): to the safety of the others a crashed process is one that takes no
further step behind a broken link, and a request that cannot be posted ends its
iteration as a failed allocation does. Both are in `ucs_stream_ends`, where an
allocation failure adds no state to those of a posting failure, and the theorems cover
every set of faults. With
three bytes an RMA transfer can be cut before, in and after the head; with base 5
and three bytes the two patterns differ in every byte but the first, and the mask of
the fill loop has an effect. Backlog 1 makes the queue fill. The handshake's message
is longer than the socket buffer, every field but the empty one can be cut, and the
value 6 needs all three digits of a word, one more than a length has. The four
transports of `uct` differ in every way the code asks about: with and without each
address, and all three modes. A socket of two items is the least that holds what
`sendrecv` sends before it receives: with less, both peers would block for ever, and
that the kernel's buffers hold two short items is an assumption (`SockBufAssumption`).
With four buffers of up to four bytes there are lengths that can be cut in several
ways (2 x 2, 4 x 1, 1 x 4), and length 0 wraps around. The safety properties are also proved for all
constants (section 5).

**Fairness.** Weak fairness of each process: the operating system schedules it, and
`ucp_worker_progress` dispatches events that have happened. No fault is ever forced
by fairness: link failures, crashes and `WaitFails` are outside the fair actions,
while a set-up or posting failure is only one of the outcomes of a fair step.
In `RmaClientServer`, `PrintHead` is strongly fair because a round in which a second
has passed comes again and again, and so is the movement of a live client's bytes
because the event loop calls progress again and again; the byte movement is enabled
only there when RMA is emulated. A client that died has no claim on its transfer.
In `UctHelloWorld` each process's own steps, the connection, the completion of a
zero-copy operation and the delivery of a message to a process that makes progress
are weakly fair; failures that are not an outcome of such a step (a broken
`connect_common`, a failing address query, a crash) are outside.

## 4. Findings

1. `ucs_am_eager_overwrite`. With eager active messages and `-i 2`, one
   `ucp_worker_progress` call can run `ucp_am_data_cb` twice; the single
   `am_data_desc` keeps the second message and counts one, and the server then
   waits for a message that never comes. The comment at `03/ucp_client_server.c:534`
   describes one message per call. `ReceivesInOrder` therefore excludes this case.
2. `ucs_am_fin_dropped`. The client registers its handler after the data loop
   (line 954). The FIN may be dispatched before, while the client waits for its last
   send; it is dropped and both processes wait forever. For this reason
   `AcceptedIsAcked` and `ServerComesBack` are stated for stream and tag.
3. `hello_exit_code`. `main` of 02 returns what `recv()` returned, 0 when the server
   went away: the client reports a failure and exits with 0.
4. `hello_msg_buffer`. After a failed `cudaMallocManaged`, `msg` still holds the
   pointer freed before, so the NULL check passes.

Further behaviours of the code that no comment contradicts are recorded as hazards
without a property: a tag or AM receive never ends when the peer dies (03), `wait()`
has no time limit (04), a connection that breaks in its handshake ends the server
(04), the probe loops do not look at the socket (02), the server's loop on
`desc_holder` does not either (01). The properties are stated around the following ones, so that they say
exactly how far the code goes:

- after a failed allocation for a receive of an eager active message
  (`03/ucp_client_server.c:552`), the `ep_close` that follows can still dispatch the
  message: `ucp_am_data_cb` copies it through a `recv_buf` that is NULL (first
  iteration) or freed (later ones). This is the exception in `EagerCopyTarget`;
- both programs of 02 can end with 0 although what was printed is not the test string,
  when a CUDA call or a completion failed, since these are only printed; the exception
  in `ServerSuccessMeansShown`. After a failed completion the peer may also wait for
  ever, the exception in `BarrierEnds` and `HelloSucceeds`;
- an unreachable peer (01, line 658) and a failed `calloc` of an address buffer (lines
  621, 625) leave `status` at `UCS_OK`, and `UCS_ERR_UNSUPPORTED` is returned as
  `UCS_OK` (line 770): these failures exit with 0. `ClientSuccessMeansShown` therefore
  speaks of clients that had a connected endpoint;
- `AllReleased` lists what 01 may leave behind: the socket when
  `uct_iface_get_device_address` fails (line 637 jumps past `out_close_oob_sock`), the
  string when `generate_test_string` fails (line 712), the registration when
  `uct_ep_am_zcopy` completes at once or fails (only the completion callback releases
  it), and a message that arrived in the first barrier when the server fails after it;
- `UctEnds` and `SocketWaitEnds` leave out a server in `accept()` or in the loop on
  `desc_holder` whose client has given up: it looks at nothing else;
- `WritesInBounds` leaves out length 0: `-s 0` is accepted, `size - 1` wraps around and
  `generate_test_string` of 03 writes past its buffer (that of 01 takes an `int` and
  does not);
- `FreedExactlyOnce` leaves out a failed CUDA allocation, after which `mem_type_malloc`
  returns an uninitialised pointer.

## 5. Proofs

`tlapm` checks every proof; nothing is assumed but the named `ASSUME`s on constants.
Every invariant and every action property that a passing run checks, and the
refinement, is also a theorem, for every value of the constants. Each inductive
invariant was checked by TLC before it was proved.

| Theorem | Module | States |
|---|---|---|
| `TypeCorrect`, `FinAcks` | `UcpClientServerProofs` | `TypeOK`, `FinAcksDelivery` |
| `ForceClose`, `Refinement`, `Closing` | `UcpSessionProofs` | `ForceCloseAfterClient`, `ImplementsAckedTransfer`; the invariant `ClosingInv` |
| `Leftovers`, `CopyTarget`, `WrongSize`, `InOrder` | `UcpDeliveryProofs` | `NoLeftovers`, `EagerCopyTarget`, `WrongSizeNeverAcked`, `ReceivesInOrder` |
| `RmaTypeCorrect`, `GetAfterPut`, `HeadKeepsPut` | `RmaClientServerProofs` | `RmaTypeOK`, `GetReflectsPut`, `HeadNeverReverts` |
| `HandshakeTypes`, `HandshakeReceived`, `HandshakeAgreed` | `HandshakeProofs` | `HandshakeTypeOK`, `HandshakeIntact`, `SidesAgree` |
| `HelloTypes`, `HelloDisconnects`, `HelloShown` | `UcpHelloWorldProofs` | `HelloTypeOK`, `RemoteDisconnectedFirst`, `ServerSuccessMeansShown` |
| `UctTypeCorrect`, `UctCleanUp`, `UctOrder`, `UctReleased`, `UctBufferHeld`, `UctPeerAddresses`, `UctConnectedFirst`, `UctSuccess` | `UctHelloWorldProofs` | `UctTypeOK`, `CleanUpOwned`, `DependencyOrder`, `AllReleased`, `BufferHeldUntilSent`, `PeerAddressesRight`, `ConnectedBeforeSend`, `ClientSuccessMeansShown` |
| `BufTypeCorrect`, `BuffersFreed`, `BufWritesInBounds`, `BufScatter` | `TestBuffersProofs` | `BufTypeOK`, `FreedExactlyOnce`, `WritesInBounds`, `ScatterKeepsData` |

### 5.1 The client/server demo (03)

Any set of clients, number of iterations, API, protocol and set of faults. The three
modules extend each other; each layer's invariant is proved from the ones below, with
one lemma per action.

**`UcpClientServerProofs`.** `FinAcksDelivery` alone is not inductive: that a client
returns 0 is decided by a FIN that may be in flight, unexpected, in the AM descriptor,
or in a request. `IndInv` adds that the FIN exists in none of these places before the
server's last receive (`FinMeansComplete`); this needs that the server, in iteration
i, has completed i receives for its current client (`SessionCount`,
`SessionHasClient`), that a client which still waits to be accepted was never served
(`WaitingIsFresh`), and that a client in its FIN phase has a receive, not an old send,
outstanding (`FinWaitReceives`).

**`UcpSessionProofs`.** `PhaseInv` says what a program counter tells about the request,
the AM descriptor and the handler of a process (`RequestPhase`, `AmPhase`,
`ClientPhase`, `ServerPhase`). `EndpointInv` is the life of the server's endpoints:
none before a client is accepted (`WaitingNoEp`, `FreshEp`), one in a session
(`SessionEp`), closed only when the session is complete or the server gives up
(`ClosedComplete`), and `connection_closed` speaks of this session's endpoint
(`ClosedFlag`). `FailedForReason` is what `ForceCloseAfterClient` needs: without broken
links the server's endpoint fails only after its client ended, so that the wait for
`connection_closed` is a wait for the client.

`ClosingInv` is `SessionInv` with what is known of a process in `ep_close`. `CloseInv`:
the server closes with as many receives as iterations, a client registers its handler
once, and a process that waits for an eager active message fails only when it cannot
allocate. `FinInv`: the server sends one FIN in a session, and while it is in flight
the client has none. It is what `EagerCopyTarget` needs inside the close.

The refinement: the initial states map to the initial states of `AckedTransfer`, and
every step is an abstract step or a stutter. Creating the endpoint begins an abstract
session, the server's finalized receive delivers, the return to the accept loop ends
the session; a client's verdict comes from its FIN or from a failure; the server stops
when it exits, fails in its set-up or crashes. That the abstract guards hold is
`SessionInv`: in particular a client with a FIN under way has been served
(`FinServed`).

**`UcpDeliveryProofs`.** `CreditInv` counts: what was received of a client, what has
arrived and waits, what is in flight and what it may still post are at most
`num_iterations`, and outside of a session the server holds nothing (`CleanStart`).
Therefore nothing can be left when the last message has been received: `NoLeftovers`.
With `ClosingInv` the same count gives `EagerCopyTarget`: a close finds an eager message
under way only if its receive had not come so far as to point `recv_buf` to buffers,
and that is a failed allocation.
`OddInv` says that a session with a client of another size never gets beyond its first
receive. For `ReceivesInOrder`, `OrderInv` says that the received messages, the ones
that are held, the ones in flight and the next one to be posted are consecutive
(`Received`, `HeldInOrder`, `FlightInOrder`, `NextInLine`), as long as the channel is
up; a rendezvous send completes only after the fetch, so that there is one active
message at a time and `am_data_desc` is not overwritten (`OneAtATime`); `QuietInv` ties
the flag of an eager message to the progress call that set it. The eager AM case with
two iterations is excluded in the property, because there it is false (finding 1).

### 5.2 The RMA demo (04)

**`RmaClientServerProofs`** (any buffer size, byte base, number of clients, backlog,
faults). `RmaInv` says that a put's bytes that have moved are in the buffer and stay
(`BufHolds`), because whatever may still arrive is the PUT pattern (`PutSource`); once
a PUT is reported the buffer is the pattern, and a get issued later has it in every
byte it moved (`GetHolds`). `HeadKeepsPut` is an action property from the same
invariant (`HeadHolds`).

**`HandshakeProofs`** (any byte base and widths, any addresses, rkeys and words, any
socket size, either process killed or not). A byte is known by its position in the
stream: field k begins after `Start(k)` bytes. `HandshakeInd` says that the fields the
client has are the server's and that the field under way is a proper prefix of the
next one (`ReceiverAt`), that the byte at each place of the wire is the one of its
position (`WireAt`, `IsAt`), and that the wire ends where the server is, unless its
death took some of it. The heart is `NeedIsLength`: the length the client decodes from
what it has is the length of the field the server sends next, also where it is 0 and
both sides skip the call (`SkipsEmpty`, `NextCallSkips`).
Two of the assumptions are facts about numbers: `LengthAssumption` (a worker address
and an rkey have fewer than 2^32 bytes; `send_fd` casts their size to `uint32_t`) and
`NumberAssumption`, that decoding the bytes of a number that fits its width gives the
number back. The second one is true for all values, but its proof is an induction over
the digits, which is out of this prover's reach; TLC evaluates it for the widths of
the run.

### 5.3 The hello worlds (01, 02)

**`UcpHelloWorldProofs`** (every fault). `EndInv` says what one side's place tells
about the other's: an endpoint is open only inside `run_ucx_client` or
`run_ucx_server` (`OpenOnlyInTest`); the only thing the client ever sends over the
socket is its int of the barrier, after it has printed (`ServerHearsBarrier`,
`BarrierAfterPrint`); what it prints is what it received (`TextThere`), and that is the
string as long as nothing is in `spoiled` (`Clean`, an invariant beside `EndInv`); and what the client's barrier reads is the server's third item,
not a piece of the address (`SocketCount`), or the end of the stream (`ClientZero`).

**`UctHelloWorldProofs`** (any set of transports, number of components and memory
domains, socket size, faults). That a label finds its handle depends on all the ways
there, so that `CleanUpOwned`, `DependencyOrder`, `AllReleased` and
`BufferHeldUntilSent` are not inductive. `UctInd` says for each handle at exactly which
places of `main` it is held (`HandlesAt`), where inside the lookup the place is not
enough and the status says whether the interface and the memory domain are open
(`IfaceOpen`, `MdOpen`), and for the buffers, the string, the
descriptor and the operation where they may be held at all and with which status
(`BuffersAt`, `StringAt`, `DescAt`, `MessageAt`; `RolesAt` keeps the client's and the
server's places apart).

What depends on the socket needs `StreamInv` in addition. Each side sends and expects
what its own interface asks for; `Script(p, i)` is the i-th item p sends. While both
talk, what p has read and what is on the way to p are what the other side has sent
(`Counted`, `Scripted`). From an item p learns where its sender was: past
`uct_ep_connect_to_ep`, or past the printing of the message (`Barriers`). The scripts
of two different interfaces do not fit, and the buffers may then hold anything; but
`uct_iface_is_reachable` refuses before an endpoint is made, and where the interfaces
are alike the buffers are right (`Addresses`). `Finished` carries what the second
barrier told the client to the end of `main`, for `ClientSuccessMeansShown`.

### 5.4 The test buffers (03)

**`TestBuffersProofs`** (any number and length of buffers, any width of `size_t`).
`BufInd` adds that a pointer is its own allocation or NULL and that `buffer_malloc` has
allocated nothing ahead of its index (`PointersAt`), that nothing is freed before
(`FreesAt`), and that in the copy loop the offset is `idx * len` and the first `idx`
buffers hold the first `idx` pieces (`CopyAt`). `FillBoundInside` is the fact about the
wrapping subtraction.

### 5.5 Only model-checked

Liveness under fairness, which is outside this prover: `AcceptedIsAcked`,
`ServerComesBack`, `StreamClientEnds` (03), `ClientsEnd`, `HandshakeServed`,
`PutIsShown`, `HandshakeEnds` (04), `BarrierEnds`, `HelloSucceeds` (02),
`SocketWaitEnds`, `UctEnds` (01); and that `FromBytes` inverts `ToBytes`
(`NumberAssumption`), which needs induction over data.

## 6. What is not modelled

- printing, address formatting and the command line beyond the options that change
  behaviour; in `UcpClientServer` a message is its sender and iteration, its bytes are
  in `TestBuffers`;
- that `print_iov` prints with `%.16s` a string that has no terminator when it is
  shorter than 16 bytes: it may read past its buffer, and no state tells what it finds;
- the arithmetic of UCX's protocols, which are a nondeterministic choice;
- `mem_type_memset` and the other helpers that no program calls;
- the move operations of the RAII wrappers of 04, which no program uses; construction
  and destruction follow the scope of `main` and are part of its steps;
- `exit` codes and messages where no property is about them;
- 00, which has no code.

## 7. Plan

Done: 03 with its abstract specification and its buffers, 04 with its handshake, 02
and 01, and the theorems of section 5, which state all safety properties of the runs.
Next:

1. `Handshake` shown to implement the atomic handshake of `RmaClientServer`, or an
   abstract specification of it (nothing, then the whole handshake, or a failure).
2. The error exits of finding 3 and 4 as theorems about what the code does guarantee
   there.
