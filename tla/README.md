# A verification of uv_wrapper

uv_wrapper is a small message pass-through middleware in C: wrappers that make
libuv's UDP sockets, TCP servers, TCP clients and serial ports usable from any
thread, a System V message queue between modules, and a program (`main.c`,
`components/component.c`) that connects the two. This directory holds TLA+
models of its parts, the TLC runs that check them and the TLAPS proofs about
them. Paths of C files below are relative to `src/src/`, as `PROJECT.json`
gives them in full.

## 1. The system

| Component | Files | State | Operations |
|---|---|---|---|
| UDP socket | `communication/net/udp.c`, `defines.h` | one `udp_socket_t`: mutex, semaphore, `async_send_flag`, `data1`/`data2`/`send_addr`, two async handles, requests in libuv | `udp_handle_run`, `udp_send_data`, `udp_send_data_ip`, `udp_handle_close`, callbacks for the async handles, sending, reading |
| TCP server | `communication/net/tcp_server.c` | one `tcp_server_t`: queue and count of connections, `is_closing`, mutex, semaphore, async handles; a `tcp_connection_t` per client | `tcp_server_run`, `tcp_server_send_data`, `..._send_data_2_all`, `tcp_server_print_all_conn`, `tcp_server_close`, callbacks for accepting, reading, writing, closing |
| TCP client | `communication/net/tcp_client.c` | one `tcp_client_t` with one connection | `tcp_client_run`, `..._send_data`, `..._close`, callbacks |
| Message queue | `utils/msg_queue.c` | the kernel's queue, `msg_queue_t`, a receiving thread, the buffers under way | `msg_queue_create`, `msg_send`, `msg_queue_destroy`, `msg_thread` |
| Event loop thread | `utils/event_loop_thread.c`, `utils/uv_wrapper.c` | a thread, its loop | `event_thread_create`, `event_thread_destroy`, `uv_tear_down` |
| Component, main | `components/component.c`, `main.c` | the socket, the queue, `init_peer`, `peer_addr`, `stop` | `component_init`, `component_uninit`, `on_data`, `on_msg`, the signal handler |
| Serial port | `communication/serial/serial.c` | file descriptor, poller, async handle, the settings of the device | `serial_run`, `serial_set_opt`, `serial_send`, `serial_close`, the poll callback |
| Intrusive queue | `utils/queue.h` | a ring of next and previous pointers with a head | `QUEUE_INIT`, `_EMPTY`, `_HEAD`, `_FOREACH`, `_INSERT_TAIL`, `_REMOVE`; `_ADD`, `_SPLIT`, `_MOVE`, `_INSERT_HEAD` have no caller |
| Others | `utils/utils.c`, `samples/`, `include/`, `lib/` | | a hex dump, sample programs, vendored libuv and zlog |

**How they interact.** Every socket belongs to one libuv loop, and the thread
that ran `..._run` is the loop's thread. libuv may be called on that thread
only, so a *foreign* thread sends by a handshake: it takes the handle's mutex,
stores a pointer to a `uv_buf_t` on its own stack in the handle, wakes the loop
with `uv_async_send` and waits on the handle's semaphore. The loop's
`async_send_cb` reads the stored pointers and starts the libuv request; the
request's completion callback posts the semaphore if `async_send_flag` is set.
A callback that sends on the loop thread uses *the same fields*, without mutex
or semaphore. Closing goes the same way through a second async handle. The
component connects a UDP socket to a message queue: what the loop thread
receives goes into the queue, what the queue's thread receives goes to the peer.

**What is hard about it.** Foreign threads and the loop thread share plain
fields; whether a waiter is let go depends on a flag that both write; the data
lives on the stack of the waiter; results of libuv calls are dropped; handles
are freed by callbacks while foreign threads may hold pointers to them; a
server is freed by the last of several callbacks; the kernel's queue outlives
the process whose pointers it holds. No test of the repository exercises any
interleaving: the samples are programs to run by hand. `PROJECT.json` lists the
hazards one by one, each at its line.

**What makes each part correct.**
UDP socket: every call sends its own data to its own destination and returns
after libuv has reported on it; tokens of the semaphore never leak from one call
to the next; the handle is not freed under anybody.
TCP server: the queue of connections is exactly the set of connections alive;
the server is freed after its last connection and its handles, and then really
freed; plus the same promises about sends.
TCP client: as UDP, for a connection that may end at any time.
Message queue: bounded, first in first out, once each; every buffer is freed by
exactly one side; nothing of a dead process is received; destroying returns.
Component: the threads outlive what they use, answers go to the first peer,
messages move on, and `component_uninit` ends, also when the threads wait for
each other.
Serial port: the descriptor is polled, written to and closed only while it is
the device's, and given back exactly once.

## 2. Modules

| Module | What it is |
|---|---|
| `SendService` | abstract: a blocking send that serves one call at a time |
| `UdpSocket` | the UDP socket; shown to implement `SendService` |
| `UdpSocketProofs` | theorems about `UdpSocket`, for all constants |
| `TcpServer` | the TCP server and its connections, on a `Ring`; shown to implement `SendService` |
| `TcpServerProofs` | theorems about `TcpServer` |
| `Ring` | the macros of `queue.h`, as operators on two pointer functions |
| `RingProofs` | theorems about `Ring`: what the macros do to the queue a ring stands for |
| `TcpClient` | the TCP client; shown to implement `SendService` |
| `TcpClientProofs` | theorems about `TcpClient` |
| `FifoChannel` | abstract: a bounded first-in first-out channel that may be emptied |
| `MsgQueue` | the message queue; shown to implement `FifoChannel` |
| `MsgQueueProofs` | theorems about `MsgQueue` |
| `Component` | the program: `UdpSocket` and `MsgQueue` composed with the main thread, the event-loop thread, `on_data` and `on_msg` |
| `ComponentProofs` | theorems about `Component`, from those about its parts |
| `SerialPort` | the serial port and the descriptor numbers of the process |
| `SerialPortProofs` | theorems about `SerialPort` |
| `MCUdpSocket`, `MCTcpServer`, `MCTcpClient`, `MCMsgQueue`, `MCComponent`, `MCSerialPort` | what TLC runs, with one `.cfg` per question |

Definitions marked *Mutant* in the modules are plausible bugs; each is an
alternative to the definition after it, and some property fails when it takes
that definition's place (`PROJECT.json`, "mutants").

### UdpSocket

State. Each field of `udp_socket_t` that the handshake uses is a variable
(`asyncSendFlag`, `data1`, `data2`, `sendAddr`, `mutex`, `sem`). Since `data1`
points to a `uv_buf_t` on a sender's stack, its value is the *thread*; what is
behind the pointer is `frame[t]`, the arguments of that thread's last call, and
it may be read only while the call runs. Reading it afterwards is the fault
`dead_frame`. `data2` is a thread's own address or the shared
`&udp_handle->send_addr`. `reqs` are libuv's accepted requests; `sendPending`
and `closePending` the signalled async handles, one bit each, since libuv merges
signals. `outcome` and `closeAsked` are history.

Actions. A foreign send is one action per shared access, in the order of the
code: `Call`, `Lock`, `SetFlag`, `SetBuf`, `SetAddr`, `Wake`, `Wait`, `Unlock`.
A send on the loop thread is cut the same way (`LoopCall` ... `LoopSubmit`),
since foreign threads may run in between. `AsyncSendCb` and `LoopSubmit` contain
`send_data`: no memory, a refused request, a dead frame, or a request accepted.
`OnSendCb` is the completion. `CloseFromThread`, `CloseFromLoop`,
`AsyncCloseCb` are the ways to `close_handle`. Reading contributes the calls that
a read callback makes on the loop thread.

Constants choose the use: entries in use, loop sends, whether memory may run
out, which destinations libuv refuses, and `CloseWhenIdle`: the handle is closed
only when no thread is inside a send and none calls afterwards. The samples do
so (`samples/test_udp_sender.c:14-16` stops its threads and sleeps before
closing), and so does `component_uninit`, which joins the sending thread first.

### TcpServer

State. `use` is the way a program uses the server, chosen once per behaviour: the
clients that come and those that leave, who sends and how, what the loop thread
sends, where the server is closed and whether the senders have stopped by then
(`orderly`). `ring` is `sessions` with the nodes inside the connections, a ring
of module `Ring`; `connCount` is its counter; `conn[c]`,
`flag[c]`, `data2[c]`, `writes[c]` are the connection's life, its fields and
libuv's requests for it; `listener` stands for the server's own libuv handles,
`server` for its memory. `callback` is the user callback the loop is in the
middle of: `on_conn_error` inside `on_conn_read` and `on_conn_close` inside
`on_close_connection`, because the user may close the server or send there, and
the code goes on afterwards. All other callbacks are one step. That holds for
`send_data` without memory, too, which calls `on_conn_error` and then reads the
flag: its connection is in the queue and keeps the server, so closing inside the
callback comes to the same as closing just after it.

Actions. As for UDP for a foreign send; the walks of
`tcp_server_send_data_2_all` and `tcp_server_print_all_conn` are `Call`,
`Lock`...`Unlock` or `PrintConn`, then `NextConn` or `WalkEnds`, one connection
at a time, since the loop removes and frees connections in between. Closing on a
foreign thread is two steps, `CloseFlag` and `CloseSignal`. A sender names only
a connection that is still in the queue when its call begins. `OnConnWrite`
reads the flag of the connection and posts the semaphore only if it is set
(`TouchFlag`): a cancelled write may be reported after `close_handle` has
destroyed the semaphore.

Some properties are about *undisturbed* use (`Undisturbed`): the server is
closed after the senders have stopped (`orderly`), and the loop does nothing
that a foreign thread does not expect (`Disciplined`): no client leaves where
foreign threads send or where one of them closes, and the loop thread does not
send where they do. What happens without it is in the model: faults that end the
behaviour, refused writes and lost flags.

Seen as a `SendService`, the payload of a call is the connection it asks for, and
a walk is a call for each connection it visits. All connections share one mutex,
semaphore and async handle, so the whole server is *one* service: its transport
is the write of the one connection that has any, and a state in which two have
is none of the service (`Transport`).

### Ring

A record of two functions, `next` and `prev`, on the nodes and the head.
`InsertTail` and `Remove` change the same four and two pointers as the macros;
a removed node keeps its own. `Elements` is what `QUEUE_FOREACH` visits until
it is back at the head; `IsRing` says that the two directions agree.

### TcpClient

State. `session` is the `uv_tcp_t` as libuv sees it, `connect` the attempt to
connect (its result is dropped by `tcp_client_run`, so a client may have a
session that never had a socket), `handles` the async handles with the mutex
and the semaphore, `client` the memory. `freesAll` tells which callback the close of the
session was given: `on_close_connection`, which frees, or the `NULL` that
`on_read` gives at the end of the stream. `ending` is the middle of that end,
while the user's `on_conn_close` runs and may send or close. `errors` counts the
calls of `send_data` that have run out of memory and are in the user's
`on_conn_error`, where it may send or close, too: they still have to read the
flag. `use` chooses, once per behaviour, who sends.

Actions. The handshake as for UDP; `OnConnect` for success, failure and
cancellation; `OnReadError` and `OnReadErrorReturns` for the end of the stream;
`SendDataNoMemory` and `SendDataErrorReturns` around `on_conn_error`;
`CloseFromThread`, `CloseFromLoop` and `AsyncCloseCb` for the ways to
`close_handle`; `OnCloseConnection` for the moment libuv is done with the
session. The constant `CloseMeetsEnd` says whether a close may run in the very
turn of the loop in which the stream ended; without it the close comes a turn
later, when libuv has finished. From then on `close_handle` frees the client at
once (`tcp_client.c:147`), so that a close in the `on_conn_error` of a send
leaves `send_data` with a freed client (line 174). `CloseMeetsError` says whether
the user closes there; the runs and the theorems are about users that do not.

### MsgQueue

State. `queue` and `exists` are the kernel's; `heap` is the set of buffers this
incarnation of the process has allocated; a message *is* its buffer, named by
sender, call number and incarnation. Actions are the system calls and what runs
between them; `Restart` stops the process at any point (also after it has ended)
and starts the next one on what the kernel has kept. `msgsnd` gives up
(`GiveUp`) when the queue was removed (`MsgsndFails`), and also while it is
there (`MsgsndErrs`): a signal that is handled on the thread ends a blocked
`msgsnd`, which is never restarted, and the kernel may have no memory. A signal
takes a blocked `msgrcv` round the loop (`MsgrcvInterrupted`). Under `IPC_PRIVATE`, which
`COMPONENT` is in `include/common.h`, nothing is found again: those behaviours
are among the module's, the ones that die without a queue. `Contents` is what
`FifoChannel` sees: what the kernel holds, and before it the message that the
receiver has taken and not handled. A message names its sender, call and
incarnation, so that `EachHandledOnceInOrder` can compare what was handled with
the order of the calls, across restarts.

### Component

Three threads. The main thread is `mainAt`: `component_init` in two steps
(`CreateQueue`, `CreateThread`), the wait for `stop`, and `component_uninit` in
the order of the code: `StopQueue`, `RemoveQueue`, `FreeQueue`, `CloseHandle`,
`JoinLoop`. The event-loop thread is `loopAt`: it initialises its loop, opens
the socket, assigns `udp_handle` (two steps, since `component_uninit` may read
it in between), runs, and tears down. The message thread is the receiver of
`MsgQueue`.

The socket and the queue are instances of their modules (`Udp`, `Queue`) on this
module's variables, so that every step of theirs is theirs; this module says
when a thread takes it. `on_data` is cut at every access that another thread can
see: the peer's address, `init_peer`, the pointer to the queue, the copy, and
`msgsnd`, which blocks the loop thread on a full queue. Signals are blocked on no
thread: one may reach main or a thread that it does not disturb (`Signal`), end
the loop thread's `msgsnd` (`SendMsgErrs`, which is also want of memory in the
kernel), or end `msgrcv` (`ReceiveInterrupted`); the handler sets `stop` in each
case. `on_msg` is `OnMsg`, the
steps of the sender `Msg` of the socket, and `HandleMsg`. `OrderlyUdp` is the
socket with users that close it only when nobody sends, to state that the
component is such a user; `PartsKeepTheirPromises` puts together that it is, that
the queue in it implements `FifoChannel`, and the socket `SendService`.

Faults of the component itself: no memory for the loop is overlooked
(`LoopInitFails`), a queue that was never made is destroyed (`DestroyNothing`),
`component_uninit` leaves the pointer to the freed queue for `on_data`
(`GetMsgId`), the hex dump of a long datagram writes one zero past its buffer
(`HexDump`), and a thread that was never made is joined (`JoinLoop`). They end
the behaviour.

### SerialPort

State. `table` says what each descriptor number of the process stands for: the
device, some other file, or nothing; the next `open` gets the lowest free one.
`held[w]` is the number a writer has read from the `serial_t` and not yet
written to. `poller` stands for the poll handle and for the async handle, which
are opened and closed together. `settings` is the termios of the device.
Received bytes are counted.

Actions. `SerialRun` and its two failures; `SetOpt` and `SetOptFails` (the flush
comes before `tcsetattr`); `SerialPollEv` and `PollError`; a send of a foreign
thread is `Call` and `Write`, since the number may be closed and given away
between them; `LoopSend`; the ways to `close_handle`. `orderly` chooses, once per
behaviour, whether the port is closed once and after its writers.

## 3. Runs

| Run | Bounds | What it shows |
|---|---|---|
| `udp_send` | 3 senders, 2 calls each, 2 addresses, one refused by libuv, malloc may fail | the handshake: own token, own data, own destination, no lost wakeup (`SendsAreServedInTurn`), no freed memory; everyone returns unless a request was refused, and then the handle takes nothing any more; closing drains; `SendService` is implemented |
| `udp_race` | 2 senders, both entries, a loop send, close at any time | the handle is never freed under the owner of its mutex: the process is aborted instead |
| `tcps` | 5 kinds of use: 3 clients that come and go with 2 loop sends; 2 clients that stay and 2 senders in all three kinds of call; 1 client that leaves while 2 senders send to it and walk; 1 client that leaves while a thread closes; 2 clients, 1 sender and a loop send, closed at any moment from both sides | ring, counter and memory agree in all of them; in the undisturbed ones, the first two, the server goes last and nothing freed is touched (`UsesStayWithinLives`), sends are served in turn and `SendService` is implemented; in all of them every sender returns and everything is freed, unless a race cut the program short, and for the senders unless libuv refused a write or the loop thread sent as well |
| `tcpc_send` | 3 senders with 2 calls each, or 2 loop sends; connecting may fail, the stream may end, malloc may fail | everyone returns unless a write was refused, also through an `on_conn_error` in which the user sends or closes; the session is closed once and the client freed last (`UsesStayWithinLives`); tokens are for the waiting sender and no wakeup is lost; closing ends in every state of the connection; `SendService` is implemented |
| `msgq` | 2 senders, 2 calls each, capacity 1, 2 incarnations, signals and want of memory at any moment | one owner per buffer, no dangling pointer, each thread's messages once and in the order of its calls, FIFO, senders and destroy return, what was accepted is handled |
| `component` | 2 peers of which one cannot be answered, 4 datagrams of 2 lengths, capacity 1, a signal at any moment on any thread, malloc may fail | answers go to the first peer; what is taken down has no users; the socket is used in order, and the parts keep what `FifoChannel` and `SendService` promise; the two threads may wait for each other, which costs the datagram that the loop thread holds or ends with the queue (`JamEndsInLoss`); messages move and uninit returns, but for the cases named |
| `serial` | 2 writers, numbers 0, 3 and 4, 4 requests of settings, buffers of 2 bytes and 3 bytes of input, one close after the writers or two at any moment | in orderly use nothing outlives the close; in any use the polled number is the device's and is given back but for two cases; input is read, closing completes |

Five runs find what the code does against its documentation:

| Run | Violated | What happens |
|---|---|---|
| `udp_ip_misaddressed` | `AddressedAsAsked` | `udp_send_data_ip` stores the destination in the handle before it takes the mutex: a second caller redirects the first one's datagram |
| `udp_mixed` | `SendReturns` | a send in the read callback clears the flag of a waiting sender, who is then never woken and keeps the mutex |
| `tcps_close_race` | `ServerOutlivesConnections` | `tcp_server_close` sets `is_closing` on the caller's thread; the close callback of the last client frees the server before its handles are closed, under the caller |
| `tcps_walk_race` | `ListStandsStillForWalks` | a client leaves while a thread walks over the connections, against the warning in `queue.h:33` |
| `tcpc_end` | `ClientOutlivesSession` | `tcp_client_close` in the turn of the loop in which the stream has ended frees the session while libuv is still closing it |

**Why the bounds suffice.** Interference needs two foreign threads for one
mutex-protected handshake; the third of `udp_send` and the second call give a
stray token a later victim. One loop send is enough to disturb a handshake. Two
addresses tell a right destination from a wrong one. Three connections give the
queue a head, a middle and a tail. Capacity 1 makes the queue full with one
message and lets a second sender block; two incarnations give a crash something
to leave behind. In the component, the jam needs a message in the message
thread's hands, one in the queue and one in the loop thread's; a fourth datagram
comes after it. Numbers 0, 3 and 4 of the serial port are the one that is
mistaken for none, the device's, and one that other files leave free. Where a
property is proved (section 4), the bounds do not matter.

**Deadlock** is checked except in `udp_send`, `udp_mixed`, `tcpc_send` and
`component`, where a thread may hang for good (a refused request, a cleared
flag, a loop that is never closed): the properties of these runs say so more
precisely. `Finished` steps mark the states in which the program has ended.

**Fairness.** Threads inside a call keep running (`WF` on their next step),
and the loop serves each event source that stays ready: libuv's loop visits every
ready async handle, every finished request and every closing handle in each
iteration. Nobody is obliged to call, connect, leave or close. `uv_mutex` is not
fair; weak fairness of each sender's steps still suffices, as each thread makes
a bounded number of calls and the mutex therefore ends up free for the last.

An attempt to connect ends, and a TCP peer takes what is written to it or leaves.
In the component the main thread, the message thread and the loop thread each
keep running while they can; a thread that is blocked in `msgsnd`, in
`uv_sem_wait` or in a join has no step to take, and nothing forces another to
free it. No datagram and no signal has to come, neither one that main waits for
nor one that ends a blocked `msgsnd`. A serial writer leaves `write`.

**Assumptions about libuv**, stated in the modules where they are used: a request
that was accepted gets exactly one callback, cancelled ones before the close
callback of their handle; `uv_write` on a closing stream returns an error
without a callback; `uv_async_send` coalesces; `uv_mutex_destroy` aborts on a
locked mutex; callbacks of one loop never overlap. About the system:
`pthread_create` at `msg_queue.c:101`, whose result is dropped, starts the
thread (without it nothing would be received, and `msg_queue_destroy` would join
what is no thread); the thread of the loop may fail to start.

**Assumptions about the users.** `on_send` and `on_error` of a UDP socket do not
call back into it. A TCP client is closed once, although `on_conn_close` is
called for the end of the stream and again for the close, and not in the
`on_conn_error` of a send after the stream has ended (`CloseMeetsError`), nor in
the turn of the loop in which it ended (`CloseMeetsEnd`; `tcpc_end` is the run
without this). In the other callbacks of the client and the server that are one
step, a close or a send comes to the same as one just after, and is modelled
there. A handle is closed by one call. The reads of `async_send_cb` are one step.

**Exempted rather than caught.** Some hazards of `PROJECT.json` are in the
models, but the properties say openly that they do not speak of them, since the
code does not handle them and nothing says that it should:
a request or write that libuv refuses hangs its sender with the mutex held
(`udp.c:118`, `tcp_server.c:254`, `tcp_client.c:182`: `SendReturns`; for the UDP
socket `RefusalSilencesTheHandle` says what follows);
sends of the loop thread beside foreign ones (`tcp_server.c:445`,
`tcp_client.c:300`; `udp_mixed` shows the hang for the UDP socket);
clients that leave where foreign threads send (`tcp_server.c:259`;
`tcps_walk_race` shows it for the walks);
`component_uninit` before `udp_handle` is set (`component.c:35`: `Stranded`) or
without a loop (`event_loop_thread.c:49`: `Sound`);
a close of the serial port under a writer, or a second one (`serial.c:261`,
`serial.c:285`: `orderly`); a device in error, which is not polled any more
(`serial.c:56`: `poller`); and settings that are not in the lists
(`serial.c:208`), about which there is no property at all.

A step that is undefined in C sets `fault`, and the behaviour ends there, since
what follows is not this program.

## 4. Proofs

All theorems hold for any values of the constants that the modules' `ASSUME`s
admit; TLC evaluates those on every run.

### UdpSocketProofs

| Theorem | Under | Says |
|---|---|---|
| `TypeCorrect` | nothing | `Spec => []TypeOK` |
| `TokensBelongToOwners` | `Discipline` | `Spec => []TokenBelongsToOwner` |
| `NoWakeupIsEverLost` | `Discipline` | `Spec => []NoWakeupIsLost` |
| `SendersAreServedInTurn` | `Discipline`, `Direct` | `Spec => []SendsAreServedInTurn`: the two above, and each datagram goes where its blocked caller asked |
| `DisciplinedUseIsSafe` | `Discipline` | `Spec => []NoFault` |
| `RefusalIsForGood` | `Discipline` | `Spec => RefusalSilencesTheHandle` |
| `DisciplinedSendsImplementSendService` | `Discipline`, `Direct` | `Spec => ImplementsSendService` |
| `FreedOnlyWhenUnlocked` | nothing | `Spec => NeverFreedUnderASender`: also when closes race with sends |
| `AnswersAreSafeUntilClosed` | no foreign sender | `Spec => [](sem = 0) /\ FaultsAreLateReports` |

`Discipline` is the use under which the handshake is meant to work: no send on
the loop thread, and a close only when no sender is inside a call. `Direct` adds
that nobody calls `udp_send_data_ip`; only what says where a datagram goes needs
it. The runs `udp_mixed` and `udp_ip_misaddressed` show that the first and the
last are needed; without the second, `udp_race` may end in the abort.

The other half of the uses has its own theorem: when only callbacks send,
through either entry and with a close from any side, the handshake stays
untouched (`LoopAlone`), and the one thing that can go wrong is `on_send_cb` of a
datagram that libuv still had when `close_handle` freed the `udp_socket_t`
(`FaultsAreLateReports`). That it can go wrong is in the model (`OnSendCb`,
`Touch`): `udp.c:86` frees at once, and `udp.c:53` reads the freed handle.

The argument. None of the safety properties is inductive: that a token
belongs to the owner of the mutex depends on where its datagram is. `Protocol`
says, for each place the owner can be in, exactly what the rest of the handle
looks like: before `wake` nothing is pending anywhere and no token exists
(`Nothing`); while it waits, *exactly one* of four holds: the async handle is
signalled, libuv has its request, a token is there, or its request was refused;
nobody else is in a critical section, and `data1`, `data2` and the flag are what
the owner has stored so far. `Closing` ties the close to idle senders. Together
with `NoFault` this is `Inv`, and it is preserved by each action
(`SenderStepInv`, `ServeInv`, `CloseInv`, `NextInv`). `FreedOnlyWhenUnlocked`
needs only `Exclusion`: a thread is in its critical section iff it owns the
mutex. `NoWakeupIsLost` is the safety half of `SendReturns`: a sender that waits has
its signal, its request or its token on the way to it, so that only the loop's
fairness is missing; it is read off the four cases of `Waiting`. The
refinement maps a sender's step inside the critical section to a
stutter, `AsyncSendCb` to `Carry`, `GiveUp` or `Refuse`, and `OnSendCb` to
`Report`.

### TcpClientProofs

| Theorem | Under | Says |
|---|---|---|
| `ClientTypesHold` | nothing | `Spec => []TypeOK` |
| `OneKindOfSenderIsSafe` | `Discipline` | `Spec => []NoFault` |
| `SessionGoesFirst` | `Discipline` | `Spec => []ClientOutlivesSession` |
| `ClientUsesStayWithinLives` | `Discipline` | `Spec => []UsesStayWithinLives`, the two above |
| `ClientServesSendersInTurn` | `Discipline` | `Spec => []SendsAreServedInTurn`: tokens and wakeups |
| `ClientSendsImplementSendService` | `Discipline` | `Spec => ImplementsSendService` |

`Discipline`: in one behaviour either foreign threads send or the loop thread
does, the close comes after the senders, not in the turn of the loop in which
the stream has ended (`tcpc_end` shows that this is needed), and not in the
`on_conn_error` of a send after that, where `send_data` would go on with a freed
client.

The argument. `Protocol` is as for UDP, but that it holds the fields free for the
loop thread when no thread sends. `Lifecycle` is about the order in which the
parts go: the session may be closed by the end of the stream or by
`close_handle`, so `freesAll` is tied to the closed handles, and a client that is
freed to both and to a session libuv has finished; a finished session has no
write and no attempt to connect. A write of a session that has ended is refused,
and never enters the queue of a finished one. While the loop is in the
`on_conn_error` of a send the client is not freed: only the close that the
discipline leaves out would free it there. A sender that waits may have its
token still to come from such a call (`sem + errors = 1`).

### RingProofs

| Theorem | Says |
|---|---|
| `InsertTailAppends` | `QUEUE_INSERT_TAIL` of a node that is not in the queue appends it |
| `RemoveTakesOut` | `QUEUE_REMOVE` takes its node out and keeps the order of the others |
| `WalkVisitsQueue` | `QUEUE_FOREACH` visits the nodes of the queue, each once and in order |

`Represents(r, q)` says that the links of the ring `r` go through the sequence
`q` forwards and backwards and that no node is in `q` twice; all theorems are
about rings of that kind, over a finite set of nodes without the head. The walk
is a recursive function: it is shown to have a solution, `q` followed by the head
for ever, and no other, since the smallest step at which two solutions differ
would follow one at which they agree (`LeastMember`).

### TcpServerProofs

| Theorem | Under | Says |
|---|---|---|
| `ServerTypesHold` | nothing | `Spec => []TypeOK` |
| `QueueHoldsTheLiving` | nothing | `Spec => []SessionsAreTheLiving`: also when calls race with callbacks |
| `UndisturbedUseHasNoFault` | nothing | `Spec => []NoFault` |
| `UndisturbedServerGoesLast` | nothing | `Spec => []ServerGoesLast` |
| `ServerUsesStayWithinLives` | nothing | `Spec => []UsesStayWithinLives`, the two above |
| `SendersAreServedInTurn` | nothing | `Spec => []SendsAreServedInTurn`: tokens, connections and wakeups |
| `UndisturbedSendsImplementSendService` | nothing | `Spec => ImplementsSendService` |

No theorem has a hypothesis; the properties of the last five speak of undisturbed
use themselves (`Undisturbed`, section 2), so that a run or a theorem over mixed
uses says of each only what holds. `tcps_walk_race` and `tcps_close_race` show
that clients must not leave where foreign threads walk or close.

The argument. `QueueOK` says that the ring represents a queue, that the nodes in
it are the living connections and that `conn_count` is its length; with
`Targets` (the connection whose callback the loop is in the middle of is alive
and, when it is being closed, has no write left) it is inductive, by the
theorems about `Ring`. `Protocol` is as for UDP, with the connection that the
owner of the mutex is at: `async_send->data` names it from the moment the loop
is woken. `Lifecycle` says why the order of the end is right: the handles are
closed only after the user asked; while they are open, only a client that left
is being closed, and none is after another thread has set `is_closing`. That a walk goes on to a living connection follows from `IsRing`.

The refinement needs that the writes of all connections together are those of
the service's one call: while the owner's write is with libuv no other
connection has any (`OwnWriteOnly`), so that `Transport` is that write
(`TransportHoldsOwn`), and otherwise none has (`TransportIsFree`). A walk's
step to the next connection is a stutter while the thread is outside a call, and
the `Ask` of the next one when it visits it (`VisitAsks`). Steps of the loop that
have nothing to do with a send change neither `writes` nor a sender
(`TransportKept`, `SenderKept`).

### MsgQueueProofs

| Theorem | Says |
|---|---|
| `QueueInvariant` | `Spec => []Inv` |
| `QueueTypesHold` | `Spec => []TypeOK` |
| `BuffersAlwaysHaveOneOwner` | `Spec => []BuffersHaveOneOwner` |
| `MessagesAreHandledInOrder` | `Spec => []EachHandledOnceInOrder` |
| `QueueImplementsFifoChannel` | `Spec => ImplementsFifoChannel` |

None has an assumption. `BuffersHaveOneOwner` is not inductive: that the buffer
a sender frees after a failed `msgsnd` is its own rests on call numbers
(`Numbered`: a buffer that was accepted has a smaller number than the one being
sent), that the receiver's is on the shares of the heap (`Sharing`: the queue's,
the senders' and the receiver's do not overlap, and are all there is until the
removal), and that a restart finds no pointer of a dead process on the life of
the queue (`Lifecycle`). `EachHandledOnceInOrder` needs the same
order of what is queued and in hand (`Ordered`), which `msgsnd` keeps since all
that was ever accepted is earlier than what is being sent (`TakenIsEarlier`, by
`Numbered`). The refinement needs that the queue never exceeds its
capacity (`Bounded`), and that what the receiver has in hand comes before what
the kernel holds (`InFront`, `HeadThenTail`).

### ComponentProofs

| Theorem | Says |
|---|---|
| `ComponentInvariant` | `Spec => []Inv` |
| `ComponentTypesHold` | `Spec => []TypeOK` |
| `AnswersAlwaysGoToFirstPeer` | `Spec => []AnswersGoToFirstPeer` |
| `PartsAlwaysOutliveTheirUsers` | `Spec => []PartsOutliveTheirUsers` |
| `SocketIsUsedInOrder` | `Spec => UsesSocketInOrder` |
| `DatagramsPassInOrder` | `Spec => Queue!ImplementsFifoChannel` |
| `AnswersAreBlockingSends` | `Spec => Udp!ImplementsSendService` |
| `PartsAlwaysKeepTheirPromises` | `Spec => PartsKeepTheirPromises`, the three above |
| `JamsEndInLoss` | `Spec => JamEndsInLoss`: once the two threads wait for each other, the queue is removed or a datagram dropped |

The proof is compositional. Every step of the component is a step of the queue
or leaves it alone (`StepsOfQueue`), and a step of the socket *under its
discipline* or leaves it alone (`StepsOfSocket`): `component_uninit` closes the
socket only after it has joined the message thread, the one that sends. So the
proved invariants of `MsgQueue` and `UdpSocket` hold in the composition, by
their own lemmas, and what is left to prove is the component's own part: where
the main thread is determines what is left of queue and socket, `peer_addr` is
that of the first datagram from the moment `init_peer` may be seen, and
nobody is inside the socket once the loop has ended. The refinements are
inherited in the same way: `InitImplements` and `StepImplements` of
`MsgQueueProofs` and of `UdpSocketProofs` are about single steps, and every step
of the component is one of theirs.

### SerialPortProofs

| Theorem | Says |
|---|---|
| `PortInvariant` | `Spec => []Inv` |
| `PortTypesHold` | `Spec => []TypeOK` |
| `OrderlyUseIsSafe` | `Spec => []NothingOutlivesClose` |
| `DescriptorsHaveOneLife` | `Spec => []DescriptorHasOneLife` |

`Ownership` says what the life of the `serial_t` tells about descriptor and
poller; it holds in any use. `Order` adds that in orderly use a writer inside a
call holds the number of an open port.

### Only model-checked

All liveness (`SendReturns`, `CloseDrains`, `CloseFreesAll`, `CallsReturn`,
`AcceptedAreHandled`, `MessagesMove`, `UninitReturns`, `InputIsRead`,
`CloseCompletes`): it rests on fairness, whose `ENABLED` the prover does not
reason about. What is proved of it is its safety half, that no wakeup is
lost. Every invariant and every action property or refinement that a passing
run checks is proved, under the hypotheses given above.

## 5. Not modelled

- Socket option setters (`udp.c:306-333`, `tcp_server.c:498-524`), which forward
  one call each; the result of `uv_udp_bind` (`udp.c:203`), which is ignored; the
  size of the address for IPv6 (`udp.c:194`).
- The second half of `uv_tear_down`, which walks over handles left open: in this
  program none is when `uv_run` returns.
- `QUEUE_ADD`, `QUEUE_SPLIT`, `QUEUE_MOVE`, `QUEUE_INSERT_HEAD`, without callers.
- The backlog of clients behind a listener that has stopped accepting
  (`tcp_server.c:118`); the model has the stalled listener.
- Other programs on the key of the message queue, and messages of another size
  than `msg_t`; what the removal leaks (`msg_queue.c:109`).
- The bytes of messages (`on_msg` sends those of its own parameter,
  `component.c:67`), address parsing, the text of the hex dump, logging.
- `samples/`, read for how the wrappers are meant to be used, and `include/` and
  `lib/`, vendored.

## 6. Plan

1. Laws of `SendService` and `FifoChannel` themselves, so that what each implies
   is proved once for the parts that implement it.
2. The disorderly uses of the TCP server: which faults are left when clients
   leave while other threads send, as done for the UDP socket without foreign
   senders.
