----------------------------- MODULE TcpClient -----------------------------
(***************************************************************************)
(* One tcp_client_t of src/communication/net/tcp_client.c.                 *)
(*                                                                         *)
(* The client has one connection, whose uv_tcp_t libuv holds from the      *)
(* attempt to connect until its close callback.  It may be closed twice    *)
(* over: by the client itself at the end of the stream, without a callback *)
(* that would free anything, and by tcp_client_close, which frees all.     *)
(* Sending is the handshake of UdpSocket on the fields of the connection.  *)
(*                                                                         *)
(* Callbacks of the loop are single steps, but for the two that call the   *)
(* user and then go on with the client whatever the user has done to it:   *)
(* the end of the stream, around on_conn_close, and send_data without      *)
(* memory, around on_conn_error.  After on_conn_open, on_write and the     *)
(* on_conn_error of a failed attempt, closing or sending there comes to    *)
(* the same as doing it just after: libuv still has the session, so that   *)
(* its close callback frees the client, later, unless the stream ended in  *)
(* the same turn, where a close frees too early anyway (CloseMeetsEnd).    *)
(* Foreign threads move one shared access at a time.  A step that C leaves *)
(* undefined sets "fault" and ends the behaviour.                          *)
(***************************************************************************)
EXTENDS Integers, Sequences

CONSTANTS
  Senders,        \* the foreign threads that send
  Loop,           \* the event-loop thread
  NULL,
  Uses,           \* who sends: each a subset of {"threads", "loop"}
  PeerLeaves,     \* TRUE: the stream may end, or fail
  CloseMeetsEnd,  \* TRUE: tcp_client_close may run in the turn of the loop in
                  \* which the stream has ended
  CloseMeetsError,\* TRUE: it may run in the on_conn_error of send_data once
                  \* the stream has ended and libuv has finished the session
  MaxCalls,       \* bound: calls made by each sender
  MaxLoopSends,   \* bound: sends made on the loop thread
  AllocFails,     \* TRUE: malloc may fail in send_data
  CloseWhenIdle   \* TRUE: the client is closed only once no sender is inside
                  \* a call, and none calls afterwards

Threads == Senders \cup {Loop}

ASSUME ConstantsOK ==
  /\ Loop \notin Senders
  /\ NULL \notin Threads
  /\ Uses \subseteq SUBSET {"threads", "loop"}
  /\ PeerLeaves \in BOOLEAN
  /\ CloseMeetsEnd \in BOOLEAN
  /\ CloseMeetsError \in BOOLEAN
  /\ MaxCalls \in Nat
  /\ MaxLoopSends \in Nat
  /\ AllocFails \in BOOLEAN
  /\ CloseWhenIdle \in BOOLEAN

VARIABLES
  use,           \* who sends in this behaviour
  client,        \* the tcp_client_t: unborn, open, freed, or failed to start
  session,       \* the uv_tcp_t: active, closing, or closed, for libuv
  freesAll,      \* its close callback is on_close_connection, and not NULL
  connect,       \* connecting: never begun, pending, up or failed
  handles,       \* the async handles, the mutex and the semaphore: open, closed
  mutex,         \* its owner, or NULL
  sem,           \* the value of the semaphore
  flag,          \* async_send_flag
  data2,         \* data2: the thread whose stack holds the uv_buf_t
  sendPending,   \* async_send has been signalled
  closePending,  \* async_close has been signalled
  writes,        \* the requests libuv has accepted, oldest first
  ending,        \* the loop is in the on_conn_close of the end of the stream
  errors,        \* how many on_conn_error of send_data it is in: a send made
                 \* in one of them may fail, too
  pc, calls,     \* where each thread is, and the sends it has made
  outcome,       \* history: what became of each thread's last send
  closeAsked,    \* tcp_client_close has been called
  fault          \* "none", or the undefined behaviour the program ran into

connVars == <<client, session, freesAll, connect, handles>>
sendVars == <<sem, flag, data2, sendPending, writes>>
threadVars == <<pc, calls, outcome>>
userVars == <<ending, errors>>
vars == <<use, connVars, mutex, sendVars, closePending, userVars, threadVars,
          closeAsked, fault>>

InCall(t) == pc[t] # "idle"
Quiet == \A s \in Senders : ~InCall(s)
Stopped == closeAsked /\ CloseWhenIdle

\* The loop thread is between two callbacks.
LoopIdle ==
  fault = "none" /\ ~ending /\ errors = 0 /\ pc[Loop] = "idle"

Goto(s, from, to) ==
  /\ fault = "none"
  /\ pc[s] = from
  /\ pc' = [pc EXCEPT ![s] = to]

\* The tcp_client_t is read or written; or the mutex, the semaphore or the
\* async handles, which go before it; or the flag, and if it says so the
\* semaphore.
Touch == fault' = IF client = "freed" THEN "use_after_free" ELSE fault
TouchLock == fault' = IF handles = "closed" THEN "use_after_free" ELSE fault
TouchFlag == fault' = IF client = "freed" \/ (flag /\ handles = "closed")
                      THEN "use_after_free" ELSE fault

-----------------------------------------------------------------------------
(* Connecting                                                              *)

Init ==
  /\ use \in Uses
  /\ client = "unborn"
  /\ session = "active"
  /\ freesAll = FALSE
  /\ connect = "never"
  /\ handles = "open"
  /\ mutex = NULL
  /\ sem = 0
  /\ flag = FALSE
  /\ data2 = NULL
  /\ sendPending = FALSE
  /\ closePending = FALSE
  /\ writes = << >>
  /\ ending = FALSE
  /\ errors = 0
  /\ pc = [t \in Threads |-> "idle"]
  /\ calls = [t \in Threads |-> 0]
  /\ outcome = [t \in Threads |-> "none"]
  /\ closeAsked = FALSE
  /\ fault = "none"

\* The result of uv_tcp_connect is ignored: when it fails, there is a client
\* whose socket was never made.
TcpClientRun ==
  /\ client = "unborn"
  /\ \/ client' = "failed" /\ UNCHANGED connect
     \/ client' = "open" /\ connect' \in {"pending", "never"}
  /\ UNCHANGED <<use, session, freesAll, handles, mutex, sendVars,
                 closePending, userVars, threadVars, closeAsked, fault>>

\* Closing the session cancels the attempt.
OnConnect ==
  /\ LoopIdle
  /\ connect = "pending"
  /\ connect' \in IF session = "active" THEN {"up", "failed"} ELSE {"failed"}
  /\ Touch
  /\ UNCHANGED <<use, client, session, freesAll, handles, mutex, sendVars,
                 closePending, userVars, threadVars, closeAsked>>

-----------------------------------------------------------------------------
(* Sending: what both sides share                                          *)

\* Mutant: the flag is read the wrong way round.
PostIfSync == IF flag THEN sem ELSE sem + 1

PostIfAsync == IF flag THEN sem + 1 ELSE sem

\* What a thread's send leaves behind.
Report(t, what) == outcome' = [outcome EXCEPT ![t] = what]

\* libuv has a socket it can write to, now or once it is connected.
Writable == session = "active" /\ connect # "never"

\* Mutant: without memory send_data returns at once, and nobody is let go.
SendDataNoMemorySilent(t) ==
  /\ AllocFails
  /\ Report(t, "reported")
  /\ UNCHANGED <<sem, writes, errors, fault>>

\* on_conn_error is called ...
SendDataNoMemory(t) ==
  /\ AllocFails
  /\ errors' = errors + 1
  /\ Report(t, "reported")
  /\ UNCHANGED <<sem, writes, fault>>

\* The result of uv_write is ignored: a refused request is forgotten.
SendDataSubmit(t) ==
  /\ UNCHANGED <<sem, errors>>
  /\ \/ /\ ~InCall(t)
        /\ fault' = "dead_frame"
        /\ UNCHANGED <<writes, outcome>>
     \/ /\ InCall(t)
        /\ ~Writable
        /\ Report(t, "refused")
        /\ UNCHANGED <<writes, fault>>
     \/ /\ InCall(t)
        /\ Writable
        /\ writes' = Append(writes, [from |-> t, n |-> calls[t]])
        /\ Report(t, "carried")
        /\ UNCHANGED fault

\* Mutant: the waiter is let go once libuv has taken the write.
SendDataPostingEarly(t) ==
  /\ sem' = PostIfAsync
  /\ UNCHANGED errors
  /\ IF InCall(t)
     THEN /\ writes' = Append(writes, [from |-> t, n |-> calls[t]])
          /\ Report(t, "carried")
          /\ UNCHANGED fault
     ELSE fault' = "dead_frame" /\ UNCHANGED <<writes, outcome>>

SendData(t) == SendDataNoMemory(t) \/ SendDataSubmit(t)

\* A send begins.
Enter(t, to) ==
  /\ Goto(t, "idle", to)
  /\ calls' = [calls EXCEPT ![t] = @ + 1]
  /\ Report(t, "none")

-----------------------------------------------------------------------------
(* tcp_client_send_data on a foreign thread                                *)

Call(s) ==
  /\ "threads" \in use
  /\ client \in {"open", "freed"}
  /\ ~Stopped
  /\ calls[s] < MaxCalls
  /\ Enter(s, "lock")
  /\ Touch
  /\ UNCHANGED <<use, connVars, mutex, sendVars, closePending, userVars,
                 closeAsked>>

\* Mutant: the mutex is not taken.
LockNotTaken(s) ==
  /\ Goto(s, "lock", "flag")
  /\ mutex' = s
  /\ TouchLock
  /\ UNCHANGED <<use, connVars, sendVars, closePending, userVars, calls,
                 outcome, closeAsked>>

Lock(s) ==
  /\ Goto(s, "lock", "flag")
  /\ mutex = NULL
  /\ mutex' = s
  /\ TouchLock
  /\ UNCHANGED <<use, connVars, sendVars, closePending, userVars, calls,
                 outcome, closeAsked>>

SetFlag(s) ==
  /\ Goto(s, "flag", "buf")
  /\ flag' = TRUE
  /\ Touch
  /\ UNCHANGED <<use, connVars, mutex, sem, data2, sendPending, writes,
                 closePending, userVars, calls, outcome, closeAsked>>

SetBuf(s) ==
  /\ Goto(s, "buf", "wake")
  /\ data2' = s
  /\ Touch
  /\ UNCHANGED <<use, connVars, mutex, sem, flag, sendPending, writes,
                 closePending, userVars, calls, outcome, closeAsked>>

\* async_send->data is always the one connection.
Wake(s) ==
  /\ Goto(s, "wake", "wait")
  /\ sendPending' = TRUE
  /\ TouchLock
  /\ UNCHANGED <<use, connVars, mutex, sem, flag, data2, writes,
                 closePending, userVars, calls, outcome, closeAsked>>

WaitLeaves == <<use, connVars, mutex, flag, data2, sendPending, writes,
                closePending, userVars, calls, outcome, closeAsked>>

\* Mutant: uv_sem_trywait in place of uv_sem_wait.
WaitTry(s) ==
  /\ Goto(s, "wait", "unlock")
  /\ sem' = IF sem > 0 THEN sem - 1 ELSE sem
  /\ TouchLock
  /\ UNCHANGED WaitLeaves

Wait(s) ==
  /\ Goto(s, "wait", "unlock")
  /\ sem > 0
  /\ sem' = sem - 1
  /\ TouchLock
  /\ UNCHANGED WaitLeaves

Unlock(s) ==
  /\ Goto(s, "unlock", "idle")
  /\ mutex' = NULL
  /\ TouchLock
  /\ UNCHANGED <<use, connVars, sendVars, closePending, userVars, calls,
                 outcome, closeAsked>>

-----------------------------------------------------------------------------
(* The event-loop thread                                                   *)

AsyncSendCb ==
  /\ LoopIdle
  /\ handles = "open"
  /\ sendPending
  /\ sendPending' = FALSE
  /\ SendData(data2)
  /\ UNCHANGED <<use, connVars, mutex, flag, data2, closePending, ending, pc,
                 calls, closeAsked>>

\* ... and then the waiting sender is let go.  The client may be gone.
SendDataErrorReturns ==
  /\ fault = "none"
  /\ errors > 0
  /\ pc[Loop] = "idle"
  /\ errors' = errors - 1
  /\ sem' = PostIfAsync
  /\ TouchFlag
  /\ UNCHANGED <<use, connVars, mutex, flag, data2, sendPending, writes,
                 closePending, ending, threadVars, closeAsked>>

\* on_client_write, once libuv has connected, failed to, or given up.
OnClientWrite ==
  /\ LoopIdle
  /\ writes # << >>
  /\ connect # "pending"
  /\ writes' = Tail(writes)
  /\ LET r == Head(writes) IN
       IF calls[r.from] = r.n THEN Report(r.from, "reported")
                              ELSE UNCHANGED outcome
  /\ sem' = PostIfAsync
  /\ TouchFlag
  /\ UNCHANGED <<use, connVars, mutex, flag, data2, sendPending,
                 closePending, userVars, pc, calls, closeAsked>>

\* tcp_client_send_data in a callback, also in the on_conn_close of the end of
\* the stream and in on_conn_error: the same fields, no mutex.
LoopCall ==
  /\ "loop" \in use
  /\ client = "open"
  /\ calls[Loop] < MaxLoopSends
  /\ Enter(Loop, "flag")
  /\ UNCHANGED <<use, connVars, mutex, sendVars, closePending, userVars,
                 closeAsked, fault>>

\* Mutant: the loop thread takes the mutex as well.
LoopSetFlagLocked ==
  /\ Goto(Loop, "flag", "buf")
  /\ mutex = NULL
  /\ mutex' = Loop
  /\ flag' = FALSE
  /\ UNCHANGED <<use, connVars, sem, data2, sendPending, writes,
                 closePending, userVars, calls, outcome, closeAsked, fault>>

LoopSetFlag ==
  /\ Goto(Loop, "flag", "buf")
  /\ flag' = FALSE
  /\ UNCHANGED <<use, connVars, mutex, sem, data2, sendPending, writes,
                 closePending, userVars, calls, outcome, closeAsked, fault>>

LoopSetBuf ==
  /\ Goto(Loop, "buf", "submit")
  /\ data2' = Loop
  /\ UNCHANGED <<use, connVars, mutex, sem, flag, sendPending, writes,
                 closePending, userVars, calls, outcome, closeAsked, fault>>

LoopSubmit ==
  /\ Goto(Loop, "submit", "idle")
  /\ SendData(Loop)
  /\ UNCHANGED <<use, connVars, mutex, flag, data2, sendPending,
                 closePending, ending, calls, closeAsked>>

-----------------------------------------------------------------------------
(* Closing                                                                 *)

\* uv_close, which aborts the process for a handle that is closing already.
UvClose(all) ==
  IF session = "active"
  THEN session' = "closing" /\ freesAll' = all /\ UNCHANGED fault
  ELSE fault' = "abort" /\ UNCHANGED <<session, freesAll>>

\* The stream has ended or failed: on_conn_close is called ...
OnReadError ==
  /\ PeerLeaves
  /\ LoopIdle
  /\ session = "active"
  /\ connect = "up"
  /\ ending' = TRUE
  /\ Touch
  /\ UNCHANGED <<use, connVars, mutex, sendVars, closePending, errors,
                 threadVars, closeAsked>>

\* Mutant: uv_is_closing is not asked.
OnReadErrorReturnsUnguarded ==
  /\ fault = "none"
  /\ ending
  /\ errors = 0
  /\ pc[Loop] = "idle"
  /\ ending' = FALSE
  /\ UvClose(FALSE)
  /\ UNCHANGED <<use, client, connect, handles, mutex, sendVars,
                 closePending, errors, threadVars, closeAsked>>

\* ... and then the session is closed, unless the user has closed the client.
OnReadErrorReturns ==
  /\ fault = "none"
  /\ ending
  /\ errors = 0
  /\ pc[Loop] = "idle"
  /\ ending' = FALSE
  /\ IF session = "active" THEN UvClose(FALSE)
     ELSE UNCHANGED <<session, freesAll, fault>>
  /\ UNCHANGED <<use, client, connect, handles, mutex, sendVars,
                 closePending, errors, threadVars, closeAsked>>

\* Mutant: everything is freed at once.
CloseHandleFrees ==
  /\ handles' = "closed"
  /\ sendPending' = FALSE
  /\ closePending' = FALSE
  /\ UvClose(TRUE)
  /\ client' = "freed"

\* uv_mutex_destroy aborts the process when the mutex is locked.  A session
\* that the end of the stream has closed is freed at once, with the rest.
CloseHandle ==
  \/ /\ mutex # NULL
     /\ fault' = "abort"
     /\ UNCHANGED <<client, session, freesAll, handles, sendPending,
                    closePending>>
  \/ /\ mutex = NULL
     /\ handles' = "closed"
     /\ sendPending' = FALSE
     /\ closePending' = FALSE
     /\ IF session = "active"
        THEN UvClose(TRUE) /\ UNCHANGED client
        ELSE client' = "freed" /\ UNCHANGED <<session, freesAll, fault>>

\* libuv still has to finish the close that the end of the stream began.
InTurnOfEnd == session = "closing" /\ ~freesAll

\* It has, and send_data will go on with the client after on_conn_error.
InErrorAfterEnd == session = "closed" /\ errors > 0

MayClose ==
  /\ fault = "none"
  /\ client = "open"
  /\ ~closeAsked
  /\ CloseWhenIdle => Quiet

CloseFromThread ==
  /\ MayClose
  /\ closeAsked' = TRUE
  /\ closePending' = TRUE
  /\ UNCHANGED <<use, connVars, mutex, sendVars, userVars, threadVars, fault>>

\* tcp_client_close in a callback, also in the on_conn_close of the end of
\* the stream and in on_conn_error.
CloseFromLoop ==
  /\ MayClose
  /\ pc[Loop] = "idle"
  /\ CloseMeetsEnd \/ ~InTurnOfEnd
  /\ CloseMeetsError \/ ~InErrorAfterEnd
  /\ closeAsked' = TRUE
  /\ CloseHandle
  /\ UNCHANGED <<use, connect, mutex, sem, flag, data2, writes, userVars,
                 threadVars>>

\* Mutant: the data pointer of the async handle was never set.
AsyncCloseCbNoData ==
  /\ LoopIdle
  /\ handles = "open"
  /\ closePending
  /\ closePending' = FALSE
  /\ UNCHANGED <<use, connVars, mutex, sendVars, userVars, threadVars,
                 closeAsked, fault>>

AsyncCloseCb ==
  /\ LoopIdle
  /\ handles = "open"
  /\ closePending
  /\ CloseMeetsEnd \/ ~InTurnOfEnd
  /\ CloseHandle
  /\ UNCHANGED <<use, connect, mutex, sem, flag, data2, writes, userVars,
                 threadVars, closeAsked>>

\* libuv is done with the session, after the last callback of its requests:
\* it leaves the list of closing handles, and on_close_connection runs.
OnCloseConnection ==
  /\ LoopIdle
  /\ session = "closing"
  /\ connect # "pending"
  /\ writes = << >>
  /\ session' = "closed"
  /\ client' = IF freesAll THEN "freed" ELSE client
  /\ Touch
  /\ UNCHANGED <<use, freesAll, connect, handles, mutex, sendVars,
                 closePending, userVars, threadVars, closeAsked>>

-----------------------------------------------------------------------------

\* The process has been aborted or is undefined, or the client is gone, or
\* never came to be, and nobody is inside a call.
Finished ==
  /\ \/ fault # "none"
     \/ /\ client \in {"freed", "failed"}
        /\ session # "closing"
        /\ errors = 0
        /\ \A t \in Threads : ~InCall(t)
  /\ UNCHANGED vars

SenderStep(s) ==
  \/ Lock(s)
  \/ SetFlag(s)
  \/ SetBuf(s)
  \/ Wake(s)
  \/ Wait(s)
  \/ Unlock(s)

LoopSendStep == LoopSetFlag \/ LoopSetBuf \/ LoopSubmit

Next ==
  \/ TcpClientRun
  \/ OnConnect
  \/ \E s \in Senders : Call(s) \/ SenderStep(s)
  \/ AsyncSendCb
  \/ SendDataErrorReturns
  \/ OnClientWrite
  \/ LoopCall
  \/ LoopSendStep
  \/ OnReadError
  \/ OnReadErrorReturns
  \/ CloseFromThread
  \/ CloseFromLoop
  \/ AsyncCloseCb
  \/ OnCloseConnection
  \/ Finished

\* Threads inside a call keep running, the loop serves what is due, attempts
\* to connect end, and a peer takes what is written or leaves.  Nobody has to
\* call, to leave or to close.
Fairness ==
  /\ \A s \in Senders : WF_vars(SenderStep(s))
  /\ WF_vars(OnConnect)
  /\ WF_vars(AsyncSendCb)
  /\ WF_vars(SendDataErrorReturns)
  /\ WF_vars(OnClientWrite)
  /\ WF_vars(LoopSendStep)
  /\ WF_vars(OnReadErrorReturns)
  /\ WF_vars(AsyncCloseCb)
  /\ WF_vars(OnCloseConnection)

Spec == Init /\ [][Next]_vars /\ Fairness

-----------------------------------------------------------------------------
(* Properties                                                              *)

Places == {"idle", "lock", "flag", "buf", "wake", "wait", "unlock", "submit"}
Outcomes == {"none", "carried", "reported", "refused"}
Faults == {"none", "use_after_free", "dead_frame", "abort"}
Requests == [from : Threads, n : Nat]

\* Every variable has its type.
TypeOK ==
  /\ use \in Uses
  /\ client \in {"unborn", "open", "freed", "failed"}
  /\ session \in {"active", "closing", "closed"}
  /\ freesAll \in BOOLEAN
  /\ connect \in {"never", "pending", "up", "failed"}
  /\ handles \in {"open", "closed"}
  /\ mutex \in Senders \cup {NULL}
  /\ sem \in Nat
  /\ flag \in BOOLEAN
  /\ data2 \in Threads \cup {NULL}
  /\ sendPending \in BOOLEAN
  /\ closePending \in BOOLEAN
  /\ writes \in Seq(Requests)
  /\ ending \in BOOLEAN
  /\ errors \in Nat
  /\ pc \in [Threads -> Places]
  /\ calls \in [Threads -> Nat]
  /\ outcome \in [Threads -> Outcomes]
  /\ closeAsked \in BOOLEAN
  /\ fault \in Faults

\* Nothing touches a tcp_client_t, or libuv a uv_tcp_t, after it was freed; no
\* uv_buf_t of a finished call is sent; the session is closed once, at the end
\* of the stream or by tcp_client_close; no locked mutex is destroyed.
NoFault == fault = "none"

\* What tcp_client_close frees, libuv is done with: the session has left its
\* list of closing handles and no request is under way.
ClientOutlivesSession ==
  client = "freed" => /\ session = "closed"
                      /\ connect # "pending"
                      /\ writes = << >>

\* The client is used while it lives, and lives while it is used.
UsesStayWithinLives == NoFault /\ ClientOutlivesSession

\* A token of the semaphore is there only for the sender that waits for it,
\* after its own write was reported on, whatever the loop thread, the end of
\* the stream or an attempt to connect that fails do meanwhile.
TokenBelongsToOwner ==
  sem > 0 => /\ sem = 1
             /\ mutex # NULL
             /\ pc[mutex] = "wait"
             /\ outcome[mutex] = "reported"

\* A sender that waits will be woken: the loop has been signalled for it, or
\* libuv holds its own write, or the user is being told that there was no
\* memory for it, or its token is there, unless libuv refused the write.
NoWakeupIsLost ==
  \A s \in Senders :
    pc[s] = "wait" =>
      \/ sendPending /\ data2 = s
      \/ \E i \in DOMAIN writes : writes[i].from = s /\ writes[i].n = calls[s]
      \/ errors > 0 /\ flag /\ outcome[s] = "reported"
      \/ sem > 0
      \/ outcome[s] = "refused"

\* Foreign threads are served one at a time, and each is let go by its own
\* report.
SendsAreServedInTurn == TokenBelongsToOwner /\ NoWakeupIsLost

\* Every sender returns, unless the program was cut short or libuv refused a
\* write, whose result send_data ignores: nobody posts the semaphore for it.
SendReturns ==
  \A s \in Senders :
    InCall(s) ~> \/ ~InCall(s)
                 \/ fault # "none"
                 \/ \E r \in Senders : outcome[r] = "refused"

\* A client that was asked to close is freed, in whatever state its connection
\* is: connecting, failed, up, or ended.
CloseFreesAll == closeAsked ~> client = "freed" \/ fault # "none"

StatusOf(s) == IF ~InCall(s) THEN "idle"
               ELSE IF outcome[s] = "none" THEN "asked" ELSE outcome[s]

PayloadOf(s) == IF InCall(s) THEN calls[s] ELSE NULL

Service == INSTANCE SendService WITH
  Clients   <- Senders,
  Payloads  <- 1 .. MaxCalls,
  None      <- NULL,
  status    <- [s \in Senders |-> StatusOf(s)],
  payload   <- [s \in Senders |-> PayloadOf(s)],
  transport <- IF "threads" \in use
               THEN [i \in DOMAIN writes |->
                       [client |-> writes[i].from, payload |-> writes[i].n]]
               ELSE << >>

\* While the loop thread does not send, tcp_client_send_data is a blocking
\* send: one write at a time, that of a blocked caller, reported before it
\* returns.
ImplementsSendService == Service!Spec

=============================================================================
