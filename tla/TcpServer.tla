----------------------------- MODULE TcpServer -----------------------------
(***************************************************************************)
(* One tcp_server_t of src/communication/net/tcp_server.c, with the        *)
(* tcp_connection_t of every client it accepts.                            *)
(*                                                                         *)
(* The memory of the server and of its connections is given back by        *)
(* callbacks of the loop: a connection by on_close_connection, the server  *)
(* by whichever comes last, close_handle or the on_close_connection of its *)
(* last connection.  Foreign threads hold pointers to both: a sender waits *)
(* on the server's semaphore for the write of one connection, walks the    *)
(* queue of connections (tcp_server_send_data_2_all and                    *)
(* tcp_server_print_all_conn), or closes the server.                       *)
(*                                                                         *)
(* Callbacks of the loop are single steps, but for the two that call the   *)
(* user in the middle and go on afterwards: the user may call back into    *)
(* the server there.  send_data without memory is one step, too: its       *)
(* connection is in the queue and keeps the server, so that closing in its *)
(* on_conn_error comes to the same as closing just after.  Foreign threads *)
(* move one shared access at a time.  A step that touches freed memory     *)
(* sets "fault" and ends the behaviour.                                    *)
(***************************************************************************)
EXTENDS Integers, Sequences, SequencesExt, FiniteSets

CONSTANTS
  Conns,          \* the connections that may ever be accepted
  Senders,        \* foreign threads that send or walk the connections
  Loop,           \* the event-loop thread
  NULL,
  Anchor,         \* the queue of connections, in the tcp_server_t
  Uses,           \* the ways a program may use the server, see UseType
  MaxCalls,       \* bound: calls made by each sender
  AllocFails      \* TRUE: malloc and calloc may fail

Threads == Senders \cup {Loop}

Modes == {"one", "all", "print"}

UseType ==
  [ conns     : SUBSET Conns,    \* the clients that come
    leavers   : SUBSET Conns,    \* those that may disconnect
    senders   : SUBSET Senders,
    modes     : SUBSET Modes,    \* tcp_server_send_data, _2_all, print_all
    loopConns : SUBSET Conns,    \* connections the loop thread sends on
    loopSends : Nat,             \* bound: sends made on the loop thread
    closer    : SUBSET {"loop", "thread"},  \* where it is closed
    orderly   : BOOLEAN ]        \* it is closed once no sender is inside a
                                 \* call, and none calls afterwards

ASSUME ConstantsOK ==
  /\ Loop \notin Senders
  /\ NULL \notin Threads \cup Conns
  /\ Anchor \notin Conns
  /\ IsFiniteSet(Conns)
  /\ Uses \subseteq UseType
  /\ MaxCalls \in Nat
  /\ AllocFails \in BOOLEAN

VARIABLES
  use,           \* how this program uses the server
  server,        \* the tcp_server_t: unborn, open, freed, or failed to start
  listener,      \* its handles: open, stalled (it accepts no more), closed
  isClosing,     \* is_closing
  ring,          \* sessions, the queue, and the nodes of the connections
  connCount,     \* conn_count
  mutex,         \* its owner, or NULL
  sem,           \* the value of the semaphore
  sendTarget,    \* async_send->data once a sender has set it
  sendPending,   \* async_send has been signalled
  closePending,  \* async_close has been signalled
  conn,          \* the life of each tcp_connection_t
  flag,          \* async_send_flag of each connection
  data2,         \* data2 of each: the thread whose stack holds the uv_buf_t
  writes,        \* the requests libuv has accepted for each, oldest first
  callback,      \* the user callback the loop is in, and its connection
  pc, frame,     \* where each sender is, and the frame of its last call
  outcome,       \* history: what became of each sender's last write
  loopSends,     \* sends made on the loop thread
  closer,        \* how far the call of tcp_server_close has got
  fault

serverVars == <<use, server, listener, isClosing, ring, connCount>>
lockVars == <<mutex, sem>>
asyncVars == <<sendTarget, sendPending, closePending>>
connVars == <<conn, flag, data2, writes>>
threadVars == <<pc, frame, outcome>>
vars == <<serverVars, lockVars, asyncVars, connVars, threadVars, callback,
          loopSends, closer, fault>>

NoCallback == [in |-> "none", conn |-> NULL]

Critical == {"flag", "buf", "target", "wake", "wait", "unlock"}
InCall(t) == pc[t] # "idle"
Quiet == \A s \in Senders : ~InCall(s)
Asked == closer # "idle"
Stopped == Asked /\ use.orderly

Queue == INSTANCE Ring WITH Nodes <- Conns

\* The connections a walk from the head of the queue visits.
Sessions == Queue!Elements(ring)

LoopIdle == fault = "none" /\ callback = NoCallback

Goto(s, from, to) ==
  /\ fault = "none"
  /\ pc[s] = from
  /\ pc' = [pc EXCEPT ![s] = to]

\* The tcp_server_t is read or written; or a connection, and through its data
\* pointer the server.
TouchServer == fault' = IF server = "freed" THEN "use_after_free" ELSE fault
Touch(c) == fault' = IF "freed" \in {server, conn[c]} THEN "use_after_free"
                                                      ELSE fault

-----------------------------------------------------------------------------
(* Starting and accepting                                                  *)

Init ==
  /\ use \in Uses
  /\ server = "unborn"
  /\ listener = "open"
  /\ isClosing = FALSE
  /\ ring = Queue!EmptyRing
  /\ connCount = 0
  /\ mutex = NULL
  /\ sem = 0
  /\ sendTarget = NULL
  /\ sendPending = FALSE
  /\ closePending = FALSE
  /\ conn = [c \in Conns |-> "none"]
  /\ flag = [c \in Conns |-> FALSE]
  /\ data2 = [c \in Conns |-> NULL]
  /\ writes = [c \in Conns |-> << >>]
  /\ callback = NoCallback
  /\ pc = [s \in Senders |-> "idle"]
  /\ frame = [s \in Senders |-> [n |-> 0, conn |-> NULL, mode |-> "one"]]
  /\ outcome = [s \in Senders |-> "none"]
  /\ loopSends = 0
  /\ closer = "idle"
  /\ fault = "none"

\* When bind or listen fails, tcp_server_close frees what was allocated.
TcpServerRun ==
  /\ server = "unborn"
  /\ server' \in {"open", "failed"}
  /\ UNCHANGED <<use, listener, isClosing, ring, connCount, lockVars,
                 asyncVars, connVars, threadVars, callback, loopSends, closer,
                 fault>>

\* on_new_connection.  What the user calls in on_conn_open comes after the
\* connection is in the queue, and nothing that matters follows it.
OnNewConnection(c) ==
  /\ LoopIdle
  /\ server \in {"open", "freed"}
  /\ listener = "open"
  /\ conn[c] = "none"
  /\ c \in use.conns
  /\ conn' = [conn EXCEPT ![c] = "open"]
  /\ ring' = Queue!InsertTail(ring, c)
  /\ connCount' = connCount + 1
  /\ TouchServer
  /\ UNCHANGED <<use, server, listener, isClosing, lockVars, asyncVars, flag,
                 data2, writes, threadVars, callback, loopSends, closer>>

\* No memory for the tcp_connection_t: the accepted socket is closed again.
\* No memory for the uv_tcp_t: uv_accept is not called, and libuv stops
\* watching the listening socket until it is.
OnNewConnectionFails(c) ==
  /\ AllocFails
  /\ LoopIdle
  /\ server \in {"open", "freed"}
  /\ listener = "open"
  /\ conn[c] = "none"
  /\ c \in use.conns
  /\ \/ /\ conn' = [conn EXCEPT ![c] = "refused"]
        /\ UNCHANGED listener
     \/ /\ listener' = "stalled"
        /\ UNCHANGED conn
  /\ TouchServer
  /\ UNCHANGED <<use, server, isClosing, ring, connCount, lockVars, asyncVars,
                 flag, data2, writes, threadVars, callback, loopSends, closer>>

-----------------------------------------------------------------------------
(* Writing                                                                 *)

\* Mutant: the flag is read the wrong way round.
PostIfSync(c) == IF flag[c] THEN sem ELSE sem + 1

PostIfAsync(c) == IF flag[c] THEN sem + 1 ELSE sem

Report(t, what) == outcome' = [outcome EXCEPT ![t] = what]

SendDataNoMemory(c) ==
  /\ AllocFails
  /\ sem' = PostIfAsync(c)
  /\ Report(data2[c], "reported")
  /\ UNCHANGED <<writes, fault>>

\* Mutant: the waiter is let go once libuv has taken the write.
SendDataSubmitPosting(c) ==
  LET s == data2[c] IN
    /\ sem' = PostIfAsync(c)
    /\ IF InCall(s)
       THEN /\ writes' = [writes EXCEPT ![c] =
                            Append(@, [from |-> s, n |-> frame[s].n])]
            /\ UNCHANGED <<outcome, fault>>
       ELSE fault' = "dead_frame" /\ UNCHANGED <<writes, outcome>>

\* uv_write refuses a connection that is being closed, and the result is
\* ignored.  A uv_buf_t of a call that has returned is garbage.
SendDataSubmit(c) ==
  LET s == data2[c] IN
    /\ UNCHANGED sem
    /\ \/ /\ ~InCall(s)
          /\ fault' = "dead_frame"
          /\ UNCHANGED <<writes, outcome>>
       \/ /\ InCall(s)
          /\ conn[c] = "closing"
          /\ Report(s, "refused")
          /\ UNCHANGED <<writes, fault>>
       \/ /\ InCall(s)
          /\ conn[c] = "open"
          /\ writes' = [writes EXCEPT ![c] =
                          Append(@, [from |-> s, n |-> frame[s].n])]
          /\ Report(s, "carried")
          /\ UNCHANGED fault

\* async_send_cb.  The connection is the one the last sender has stored.  The
\* uv_buf_t may be one of the loop's own, whose frame is long gone.
AsyncSendCb ==
  /\ LoopIdle
  /\ listener # "closed"
  /\ sendPending
  /\ sendPending' = FALSE
  /\ LET c == sendTarget IN
       \/ /\ "freed" \in {server, conn[c]}
          /\ Touch(c)
          /\ UNCHANGED <<sem, writes, outcome>>
       \/ /\ "freed" \notin {server, conn[c]}
          /\ data2[c] = Loop
          /\ fault' = "dead_frame"
          /\ UNCHANGED <<sem, writes, outcome>>
       \/ /\ "freed" \notin {server, conn[c]}
          /\ data2[c] \in Senders
          /\ SendDataNoMemory(c) \/ SendDataSubmit(c)
  /\ UNCHANGED <<serverVars, mutex, sendTarget, closePending, conn, flag,
                 data2, pc, frame, callback, loopSends, closer>>

\* tcp_server_send_data on the loop thread, from a callback of the user: no
\* mutex, no semaphore, the same fields of the connection.  It is one step: a
\* foreign thread may set the flag in the middle of it, but only where both
\* send, and then the sender is lost all the same.
LoopSend(c) ==
  /\ fault = "none"
  /\ server = "open"
  /\ c \in use.loopConns \cap ToSet(Sessions)
  /\ loopSends < use.loopSends
  /\ loopSends' = loopSends + 1
  /\ flag' = [flag EXCEPT ![c] = FALSE]
  /\ data2' = [data2 EXCEPT ![c] = Loop]
  /\ \/ /\ AllocFails \/ conn[c] = "closing"
        /\ UNCHANGED writes
     \/ /\ conn[c] = "open"
        /\ writes' = [writes EXCEPT ![c] =
                        Append(@, [from |-> Loop, n |-> loopSends'])]
  /\ UNCHANGED <<serverVars, lockVars, asyncVars, conn, threadVars, callback,
                 closer, fault>>

\* The flag of c is read, and the semaphore posted if it is set.
TouchFlag(c) ==
  fault' = IF \/ "freed" \in {server, conn[c]}
              \/ flag[c] /\ listener = "closed"
           THEN "use_after_free" ELSE fault

\* on_conn_write: the oldest write of c is done, or failed, or is cancelled
\* because c is being closed.
OnConnWrite(c) ==
  /\ LoopIdle
  /\ writes[c] # << >>
  /\ writes' = [writes EXCEPT ![c] = Tail(@)]
  /\ LET r == Head(writes[c]) IN
       IF r.from \in Senders /\ frame[r.from].n = r.n
       THEN Report(r.from, "reported") ELSE UNCHANGED outcome
  /\ sem' = PostIfAsync(c)
  /\ TouchFlag(c)
  /\ UNCHANGED <<serverVars, mutex, asyncVars, conn, flag, data2, pc, frame,
                 callback, loopSends, closer>>

-----------------------------------------------------------------------------
(* Foreign threads                                                         *)

\* The mutex, the semaphore and the async handles are gone after close_handle,
\* before the memory that holds them is.
TouchLock == fault' = IF server = "freed" \/ listener = "closed"
                      THEN "use_after_free" ELSE fault

Visit(s, c, m) ==
  /\ frame' = [frame EXCEPT ![s] = [n |-> @.n + 1, conn |-> c, mode |-> m]]
  /\ outcome' = [outcome EXCEPT ![s] = "none"]

\* Where the visit of a connection begins.
VisitAt(m) == IF m = "print" THEN "print" ELSE "lock"

\* A walk starts at the head of the queue; a plain send names a connection
\* whose on_conn_close the user has not been told of.
Call(s, m) ==
  /\ s \in use.senders
  /\ m \in use.modes
  /\ server = "open"
  /\ ~Stopped
  /\ frame[s].n < MaxCalls
  /\ Goto(s, "idle", VisitAt(m))
  /\ ~Queue!IsEmpty(ring)
  /\ \E c \in ToSet(Sessions) :
       /\ m # "one" => c = Queue!First(ring)
       /\ Visit(s, c, m)
  /\ UNCHANGED <<serverVars, lockVars, asyncVars, connVars, callback,
                 loopSends, closer, fault>>

Lock(s) ==
  /\ Goto(s, "lock", "flag")
  /\ mutex = NULL
  /\ mutex' = s
  /\ TouchLock
  /\ UNCHANGED <<serverVars, sem, asyncVars, connVars, frame, outcome,
                 callback, loopSends, closer>>

SetFlag(s) ==
  /\ Goto(s, "flag", "buf")
  /\ flag' = [flag EXCEPT ![frame[s].conn] = TRUE]
  /\ Touch(frame[s].conn)
  /\ UNCHANGED <<serverVars, lockVars, asyncVars, conn, data2, writes, frame,
                 outcome, callback, loopSends, closer>>

SetBuf(s) ==
  /\ Goto(s, "buf", "target")
  /\ data2' = [data2 EXCEPT ![frame[s].conn] = s]
  /\ Touch(frame[s].conn)
  /\ UNCHANGED <<serverVars, lockVars, asyncVars, conn, flag, writes, frame,
                 outcome, callback, loopSends, closer>>

\* Mutant: async_send->data keeps the first connection it was given.
SetTargetNever(s) ==
  /\ Goto(s, "target", "wake")
  /\ sendTarget' = IF sendTarget = NULL THEN frame[s].conn ELSE sendTarget
  /\ TouchLock
  /\ UNCHANGED <<serverVars, lockVars, sendPending, closePending, connVars,
                 frame, outcome, callback, loopSends, closer>>

SetTarget(s) ==
  /\ Goto(s, "target", "wake")
  /\ sendTarget' = frame[s].conn
  /\ TouchLock
  /\ UNCHANGED <<serverVars, lockVars, sendPending, closePending, connVars,
                 frame, outcome, callback, loopSends, closer>>

Wake(s) ==
  /\ Goto(s, "wake", "wait")
  /\ sendPending' = TRUE
  /\ TouchLock
  /\ UNCHANGED <<serverVars, lockVars, sendTarget, closePending, connVars,
                 frame, outcome, callback, loopSends, closer>>

WaitLeaves == <<serverVars, mutex, asyncVars, connVars, frame, outcome,
                callback, loopSends, closer>>

\* Mutant: uv_sem_trywait in place of uv_sem_wait.
WaitTry(s) ==
  /\ Goto(s, "wait", "unlock")
  /\ sem' = IF sem > 0 THEN sem - 1 ELSE sem
  /\ TouchLock
  /\ UNCHANGED WaitLeaves

Wait(s) ==
  /\ Goto(s, "wait", "unlock")
  /\ sem > 0
  /\ sem' = sem - 1
  /\ TouchLock
  /\ UNCHANGED WaitLeaves

Unlock(s) ==
  /\ Goto(s, "unlock", IF frame[s].mode = "all" THEN "next" ELSE "idle")
  /\ mutex' = NULL
  /\ TouchLock
  /\ UNCHANGED <<serverVars, sem, asyncVars, connVars, frame, outcome,
                 callback, loopSends, closer>>

\* tcp_server_get_client_addr asks the socket of the connection.
PrintConn(s) ==
  /\ Goto(s, "print", "next")
  /\ Touch(frame[s].conn)
  /\ UNCHANGED <<serverVars, lockVars, asyncVars, connVars, frame, outcome,
                 callback, loopSends, closer>>

Onward(s) == Queue!Following(ring, frame[s].conn)

\* The walk reads the link of the connection it has just visited, while the
\* loop may have removed and freed it.
NextConn(s) ==
  /\ pc[s] = "next"
  /\ Touch(frame[s].conn)
  /\ Onward(s) # Anchor
  /\ Goto(s, "next", VisitAt(frame[s].mode))
  /\ Visit(s, Onward(s), frame[s].mode)
  /\ UNCHANGED <<serverVars, lockVars, asyncVars, connVars, callback,
                 loopSends, closer>>

WalkEnds(s) ==
  /\ Goto(s, "next", "idle")
  /\ Touch(frame[s].conn)
  /\ Onward(s) = Anchor
  /\ UNCHANGED <<serverVars, lockVars, asyncVars, connVars, frame, outcome,
                 callback, loopSends, closer>>

-----------------------------------------------------------------------------
(* Closing                                                                 *)

\* tcp_server_conn_close for the connections in C.
ConnsClose(C) ==
  conn' = [c \in Conns |-> IF c \in C /\ conn[c] = "open" THEN "closing"
                                                          ELSE conn[c]]

\* Mutant: the server is freed without waiting for its connections.
CloseHandleFrees ==
  /\ listener' = "closed"
  /\ sendPending' = FALSE
  /\ closePending' = FALSE
  /\ server' = "freed"
  /\ ConnsClose(ToSet(Sessions))
  /\ UNCHANGED fault

\* A locked mutex makes uv_mutex_destroy abort the process.
CloseHandle ==
  \/ /\ mutex # NULL
     /\ fault' = "abort"
     /\ UNCHANGED <<server, listener, sendPending, closePending, conn>>
  \/ /\ mutex = NULL
     /\ listener' = "closed"
     /\ sendPending' = FALSE
     /\ closePending' = FALSE
     /\ server' = IF Queue!IsEmpty(ring) THEN "freed" ELSE server
     /\ ConnsClose(ToSet(Sessions))
     /\ UNCHANGED fault

MayClose ==
  /\ fault = "none"
  /\ server = "open"
  /\ closer = "idle"
  /\ use.orderly => Quiet

\* tcp_server_close on the loop thread, between two callbacks or in one.
CloseFromLoop ==
  /\ "loop" \in use.closer
  /\ MayClose
  /\ closer' = "done"
  /\ isClosing' = TRUE
  /\ CloseHandle
  /\ UNCHANGED <<use, ring, connCount, lockVars, sendTarget, flag, data2,
                 writes, threadVars, callback, loopSends>>

\* tcp_server_close on a foreign thread sets is_closing itself ...
CloseFlag ==
  /\ "thread" \in use.closer
  /\ MayClose
  /\ closer' = "flagged"
  /\ isClosing' = TRUE
  /\ UNCHANGED <<use, server, listener, ring, connCount, lockVars, asyncVars,
                 connVars, threadVars, callback, loopSends, fault>>

\* ... and then wakes the loop, through the server's async_close.
CloseSignal ==
  /\ fault = "none"
  /\ closer = "flagged"
  /\ closer' = "done"
  /\ closePending' = TRUE
  /\ TouchServer
  /\ UNCHANGED <<serverVars, lockVars, sendTarget, sendPending, connVars,
                 threadVars, callback, loopSends>>

AsyncCloseCb ==
  /\ LoopIdle
  /\ listener # "closed"
  /\ closePending
  /\ \/ /\ server = "freed"
        /\ TouchServer
        /\ UNCHANGED <<server, listener, sendPending, closePending, conn>>
     \/ /\ server # "freed"
        /\ CloseHandle
  /\ UNCHANGED <<use, isClosing, ring, connCount, lockVars, sendTarget, flag,
                 data2, writes, threadVars, callback, loopSends, closer>>

-----------------------------------------------------------------------------
(* Callbacks that go on after the user's                                   *)

\* The peer of c is gone: on_conn_error is called ...
OnConnReadError(c) ==
  /\ LoopIdle
  /\ c \in use.leavers
  /\ conn[c] = "open"
  /\ callback' = [in |-> "error", conn |-> c]
  /\ Touch(c)
  /\ UNCHANGED <<serverVars, lockVars, asyncVars, connVars, threadVars,
                 loopSends, closer>>

\* Mutant: the connection is freed here, and not when libuv is done with it.
OnConnReadErrorFrees ==
  /\ fault = "none"
  /\ callback.in = "error"
  /\ callback' = NoCallback
  /\ conn' = [conn EXCEPT ![callback.conn] = "freed"]
  /\ UNCHANGED <<serverVars, lockVars, asyncVars, flag, data2, writes,
                 threadVars, loopSends, closer, fault>>

\* ... and then the connection is closed, unless the user has done so by
\* closing the server.
OnConnReadErrorReturns ==
  /\ fault = "none"
  /\ callback.in = "error"
  /\ callback' = NoCallback
  /\ ConnsClose({callback.conn})
  /\ Touch(callback.conn)
  /\ UNCHANGED <<serverVars, lockVars, asyncVars, flag, data2, writes,
                 threadVars, loopSends, closer>>

\* libuv has reported every write of c: on_conn_close is called ...
OnCloseConnection(c) ==
  /\ LoopIdle
  /\ conn[c] = "closing"
  /\ writes[c] = << >>
  /\ callback' = [in |-> "close", conn |-> c]
  /\ Touch(c)
  /\ UNCHANGED <<serverVars, lockVars, asyncVars, connVars, threadVars,
                 loopSends, closer>>

\* Mutant: the counter is decremented in both places.
OnCloseConnectionCountsTwice ==
  LET c == callback.conn IN
    /\ fault = "none"
    /\ callback.in = "close"
    /\ callback' = NoCallback
    /\ ring' = Queue!Remove(ring, c)
    /\ connCount' = connCount - 2
    /\ conn' = [conn EXCEPT ![c] = "freed"]
    /\ UNCHANGED <<use, server, listener, isClosing, lockVars, asyncVars, flag,
                   data2, writes, threadVars, loopSends, closer, fault>>

\* Mutant: the emptiness of the queue is looked at before the removal.
OnCloseConnectionLooksEarly ==
  LET c == callback.conn IN
    /\ fault = "none"
    /\ callback.in = "close"
    /\ callback' = NoCallback
    /\ ring' = Queue!Remove(ring, c)
    /\ connCount' = connCount - 1
    /\ conn' = [conn EXCEPT ![c] = "freed"]
    /\ server' = IF isClosing /\ Queue!IsEmpty(ring) THEN "freed" ELSE server
    /\ Touch(c)
    /\ UNCHANGED <<use, listener, isClosing, lockVars, asyncVars, flag, data2,
                   writes, threadVars, loopSends, closer>>

\* Mutant: the connection is not taken out of the queue.
OnCloseConnectionKeeps ==
  LET c == callback.conn IN
    /\ fault = "none"
    /\ callback.in = "close"
    /\ callback' = NoCallback
    /\ connCount' = connCount - 1
    /\ conn' = [conn EXCEPT ![c] = "freed"]
    /\ UNCHANGED <<use, server, listener, isClosing, ring, lockVars, asyncVars,
                   flag, data2, writes, threadVars, loopSends, closer, fault>>

\* ... and the connection is freed, and with the last one a server that is
\* being closed.
OnCloseConnectionReturns ==
  LET c == callback.conn IN
    /\ fault = "none"
    /\ callback.in = "close"
    /\ callback' = NoCallback
    /\ ring' = Queue!Remove(ring, c)
    /\ connCount' = connCount - 1
    /\ conn' = [conn EXCEPT ![c] = "freed"]
    /\ server' = IF isClosing /\ Queue!IsEmpty(ring') THEN "freed" ELSE server
    /\ Touch(c)
    /\ UNCHANGED <<use, listener, isClosing, lockVars, asyncVars, flag, data2,
                   writes, threadVars, loopSends, closer>>

-----------------------------------------------------------------------------

\* The process has been aborted or is undefined; or the server is gone, or
\* never came to be, and nobody is inside a call; or a sender whose write was
\* refused waits for good, and the others for the mutex it holds.
Finished ==
  /\ \/ fault # "none"
     \/ server \in {"freed", "failed"} /\ Quiet
     \/ \E s \in Senders : pc[s] = "wait" /\ outcome[s] = "refused"
  /\ UNCHANGED vars

SenderStep(s) ==
  \/ Lock(s)
  \/ SetFlag(s)
  \/ SetBuf(s)
  \/ SetTarget(s)
  \/ Wake(s)
  \/ Wait(s)
  \/ Unlock(s)
  \/ PrintConn(s)
  \/ NextConn(s)
  \/ WalkEnds(s)

Next ==
  \/ TcpServerRun
  \/ \E c \in Conns :
       \/ OnNewConnection(c)
       \/ OnNewConnectionFails(c)
       \/ OnConnReadError(c)
       \/ OnCloseConnection(c)
       \/ OnConnWrite(c)
       \/ LoopSend(c)
  \/ OnConnReadErrorReturns
  \/ OnCloseConnectionReturns
  \/ \E s \in Senders, m \in Modes : Call(s, m)
  \/ \E s \in Senders : SenderStep(s)
  \/ AsyncSendCb
  \/ CloseFromLoop
  \/ CloseFlag
  \/ CloseSignal
  \/ AsyncCloseCb
  \/ Finished

\* A thread inside a call keeps running, and the loop serves what is due.
\* Nobody has to connect, to leave, to send or to close.
Fairness ==
  /\ \A s \in Senders : WF_vars(SenderStep(s))
  /\ \A c \in Conns : WF_vars(OnConnWrite(c)) /\ WF_vars(OnCloseConnection(c))
  /\ WF_vars(OnConnReadErrorReturns)
  /\ WF_vars(OnCloseConnectionReturns)
  /\ WF_vars(AsyncSendCb)
  /\ WF_vars(CloseSignal)
  /\ WF_vars(AsyncCloseCb)

Spec == Init /\ [][Next]_vars /\ Fairness

-----------------------------------------------------------------------------
(* Properties                                                              *)

Lives == {"none", "refused", "open", "closing", "freed"}
Places == {"idle", "lock", "print", "next"} \cup Critical
Outcomes == {"none", "carried", "reported", "refused"}
Faults == {"none", "use_after_free", "dead_frame", "abort"}
Requests == [from : Threads, n : Nat]
Frames == [n : Nat, conn : Conns \cup {NULL}, mode : Modes]

\* Every variable has its type.
TypeOK ==
  /\ use \in UseType
  /\ server \in {"unborn", "open", "freed", "failed"}
  /\ listener \in {"open", "stalled", "closed"}
  /\ isClosing \in BOOLEAN
  /\ ring \in Queue!Rings
  /\ connCount \in Nat
  /\ mutex \in Senders \cup {NULL}
  /\ sem \in Nat
  /\ sendTarget \in Conns \cup {NULL}
  /\ sendPending \in BOOLEAN
  /\ closePending \in BOOLEAN
  /\ conn \in [Conns -> Lives]
  /\ flag \in [Conns -> BOOLEAN]
  /\ data2 \in [Conns -> Threads \cup {NULL}]
  /\ writes \in [Conns -> Seq(Requests)]
  /\ callback \in [in : {"none", "error", "close"}, conn : Conns \cup {NULL}]
  /\ pc \in [Senders -> Places]
  /\ frame \in [Senders -> Frames]
  /\ outcome \in [Senders -> Outcomes]
  /\ loopSends \in Nat
  /\ closer \in {"idle", "flagged", "done"}
  /\ fault \in Faults

Alive == {c \in Conns : conn[c] \in {"open", "closing"}}

\* The queue holds exactly the connections whose memory is in use, each once,
\* its two directions agree, and conn_count counts them, through every order
\* of accepts, disconnections and a close that arrives in the middle of any
\* callback.
SessionsAreTheLiving ==
  /\ Queue!IsRing(ring, Alive)
  /\ ToSet(Sessions) = Alive
  /\ connCount = Len(Sessions)
  /\ connCount = Cardinality(Alive)

\* When the server is freed its handles are closed, and no connection is left
\* whose callbacks would look for it.
FreedLast ==
  server = "freed" => /\ listener = "closed"
                      /\ Alive = {}
                      /\ \A c \in Conns : writes[c] = << >>

\* The server is freed last, when tcp_server_close is called after the senders
\* have stopped.
ServerOutlivesConnections == use.orderly => FreedLast

\* The loop does nothing that a foreign thread does not expect: no client
\* leaves, and the loop thread does not send, where foreign threads send, and
\* no client leaves where one of them closes.
Disciplined(u) ==
  /\ u.senders # {} => u.leavers = {} /\ u.loopConns = {}
  /\ "thread" \in u.closer => u.leavers = {}

Undisturbed == use.orderly /\ Disciplined(use)

\* In undisturbed use nothing touches a tcp_server_t or a tcp_connection_t
\* after it was freed, a uv_buf_t of a finished call, or a mutex that is locked
\* or destroyed in the wrong order.
NoFault == Undisturbed => fault = "none"

\* In undisturbed use the server is freed last.
ServerGoesLast == Undisturbed => FreedLast

\* The server and its connections are used while they live, and the server
\* lives while they use it, however clients come and go and the loop thread
\* sends and closes, or other threads send and one closes.
UsesStayWithinLives == NoFault /\ ServerGoesLast

\* In undisturbed use a token of the semaphore is there only for the sender
\* that waits for it, after its own write was reported on.
TokenBelongsToOwner ==
  Undisturbed /\ sem > 0 => /\ sem = 1
                            /\ mutex # NULL
                            /\ pc[mutex] = "wait"
                            /\ outcome[mutex] = "reported"

\* In undisturbed use a write of a foreign sender that libuv holds is on the
\* connection which that sender asked for and is still blocked on, although
\* the server has one async_send->data for all of them.
WritesGoWhereAsked ==
  Undisturbed =>
    \A c \in Conns : \A i \in DOMAIN writes[c] :
      LET r == writes[c][i] IN
        r.from \in Senders => /\ pc[r.from] = "wait"
                              /\ frame[r.from].n = r.n
                              /\ frame[r.from].conn = c

\* In undisturbed use a sender that waits will be let go: the loop has been
\* signalled for it and finds its uv_buf_t under its connection, or its own
\* write is in libuv's hands, or the token is there.
NoWakeupIsLost ==
  Undisturbed =>
    \A s \in Senders : pc[s] = "wait" =>
      LET c == frame[s].conn IN
        \/ sendPending /\ sendTarget = c /\ data2[c] = s
        \/ \E i \in DOMAIN writes[c] :
             writes[c][i] = [from |-> s, n |-> frame[s].n]
        \/ sem > 0

\* Sends are served one at a time, each with its own data, on its own
\* connection, and its sender is let go, by its own report.
SendsAreServedInTurn ==
  TokenBelongsToOwner /\ WritesGoWhereAsked /\ NoWakeupIsLost

\* queue.h:33: "mutating the list while QUEUE_FOREACH is iterating over its
\* elements results in undefined behavior".  The walk of
\* tcp_server_send_data_2_all or tcp_server_print_all_conn is at a connection.
Walking(s) == InCall(s) /\ frame[s].mode # "one"

ListStandsStillForWalks ==
  [][ring' # ring => \A s \in Senders : ~Walking(s)]_vars

\* Every sender returns, and every walk over the connections ends, in whatever
\* use, unless a race has cut the program short; or libuv refused a write, on a
\* connection whose client left, and nobody posts the semaphore for it; or the
\* loop thread has sent, and may have cleared the flag of a waiting sender.
SendReturns ==
  \A s \in Senders :
    InCall(s) ~> \/ ~InCall(s)
                 \/ fault # "none" /\ ~Undisturbed
                 \/ \E r \in Senders : outcome[r] = "refused"
                 \/ loopSends > 0

\* A server that was asked to close is freed, with every connection, unless
\* a race has cut the program short.
CloseFreesAll ==
  Asked ~> \/ server = "freed" /\ Alive = {}
           \/ fault # "none" /\ ~Undisturbed

-----------------------------------------------------------------------------
(* The blocking send                                                       *)

\* What the service tells apart, when foreign threads send in undisturbed use:
\* how far the send to a connection has got.  A walk is a send to each
\* connection it visits, and between two of them the thread is outside a call.
Serving == Undisturbed /\ use.senders # {}

Asking(s) == Serving /\ pc[s] \in {"lock"} \cup Critical

StatusOf(s) == IF ~Asking(s) THEN "idle"
               ELSE IF outcome[s] = "none" THEN "asked" ELSE outcome[s]

PayloadOf(s) == IF Asking(s) THEN frame[s].conn ELSE NULL

Busy == {c \in Conns : writes[c] # << >>}

LettersOn(c) == [i \in DOMAIN writes[c] |->
                   [client |-> writes[c][i].from, payload |-> c]]

\* The writes of the one connection that has any.  Writes on several at a time
\* are no state of the service.
Transport ==
  IF ~Serving \/ Busy = {} THEN << >>
  ELSE IF \E c \in Conns : Busy = {c} THEN LettersOn(CHOOSE c \in Busy : TRUE)
  ELSE << NULL, NULL >>

Service == INSTANCE SendService WITH
  Clients   <- Senders,
  Payloads  <- Conns,
  None      <- NULL,
  status    <- [s \in Senders |-> StatusOf(s)],
  payload   <- [s \in Senders |-> PayloadOf(s)],
  transport <- Transport

\* In undisturbed use a send to a connection is a blocking send, although all
\* connections share one async handle and one semaphore: one write at a time
\* on the whole server, that of a blocked caller on the connection it asked
\* for, reported before the caller goes on.
ImplementsSendService == Service!Spec

=============================================================================
