----------------------------- MODULE UdpSocket -----------------------------
(***************************************************************************)
(* One udp_socket_t of src/communication/net/udp.c.                        *)
(*                                                                         *)
(* The event-loop thread that ran udp_handle_run owns the libuv handles.   *)
(* Any other thread sends by publishing a pointer to a uv_buf_t on its own *)
(* stack in the handle, waking the loop with uv_async_send and waiting on  *)
(* the handle's semaphore; the handle's mutex serialises such threads.     *)
(* The loop thread itself (a callback) sends without mutex or semaphore    *)
(* through the same fields.  Foreign threads move one shared access at a   *)
(* time, and so does a send made on the loop thread; the other callbacks   *)
(* of the loop are single steps, since the loop runs one at a time.        *)
(*                                                                         *)
(* A step whose effect C leaves undefined sets "fault" and ends the        *)
(* behaviour: what follows it is not this program any more.                *)
(***************************************************************************)
EXTENDS Integers, Sequences

CONSTANTS
  Senders,        \* the foreign threads that send
  Loop,           \* the event-loop thread
  NULL,
  SharedAddr,     \* the pointer &udp_handle->send_addr
  Addrs,          \* destinations
  Refused,        \* destinations for which uv_udp_send returns an error
  Entries,        \* entry points in use: "addr" udp_send_data, "ip" ..._ip
  MaxCalls,       \* bound: calls made by each sender
  MaxLoopSends,   \* bound: sends made on the loop thread
  AllocFails,     \* TRUE: malloc may fail in send_data
  CloseWhenIdle   \* TRUE: the handle is closed only once no sender is
                  \* inside a call, and none calls afterwards

Threads == Senders \cup {Loop}

ASSUME ConstantsOK ==
  /\ Loop \notin Senders
  /\ NULL \notin Threads
  /\ SharedAddr \notin Threads \cup {NULL}
  /\ Addrs # {}
  /\ NULL \notin Addrs
  /\ Refused \subseteq Addrs
  /\ Entries \subseteq {"addr", "ip"}
  /\ MaxCalls \in Nat
  /\ MaxLoopSends \in Nat
  /\ AllocFails \in BOOLEAN
  /\ CloseWhenIdle \in BOOLEAN

VARIABLES
  life,           \* the udp_socket_t: unborn, open, freed, or failed to start
  mutex,          \* its owner, or NULL
  sem,            \* the value of the semaphore
  asyncSendFlag,  \* async_send_flag
  data1,          \* data1: the thread whose stack holds the uv_buf_t
  data2,          \* data2: that thread's own sockaddr, or SharedAddr
  sendAddr,       \* send_addr
  sendPending,    \* async_send has been signalled
  closePending,   \* async_close has been signalled
  reqs,           \* requests libuv has accepted, oldest first
  pc,             \* where each thread is
  frame,          \* the stack frame of each thread's last call
  outcome,        \* history: what became of each sender's last call
  closeAsked,     \* udp_handle_close has been called
  fault           \* "none", or the undefined behaviour the program ran into

shared == <<mutex, sem, asyncSendFlag, data1, data2, sendAddr>>
vars == <<life, shared, sendPending, closePending, reqs, pc, frame, outcome,
          closeAsked, fault>>

\* Between the return of uv_mutex_lock and that of uv_mutex_unlock.
Critical == {"flag", "buf", "addr", "wake", "wait", "unlock"}

\* A call is still running, so its stack frame may be read.
InCall(t) == pc[t] # "idle"

Stopped == closeAsked /\ CloseWhenIdle

\* Thread t moves; a program that ran into a fault does not.
Goto(t, from, to) ==
  /\ fault = "none"
  /\ pc[t] = from
  /\ pc' = [pc EXCEPT ![t] = to]

\* The loop thread is between two callbacks.
LoopIdle == fault = "none" /\ pc[Loop] = "idle"

\* A thread touches the udp_socket_t.
Touch == fault' = IF life = "freed" THEN "use_after_free" ELSE fault

-----------------------------------------------------------------------------
(* Starting the handle, on the loop thread                                 *)

Init ==
  /\ life = "unborn"
  /\ mutex = NULL
  /\ sem = 0
  /\ asyncSendFlag = FALSE
  /\ data1 = NULL
  /\ data2 = NULL
  /\ sendAddr = NULL
  /\ sendPending = FALSE
  /\ closePending = FALSE
  /\ reqs = << >>
  /\ pc = [t \in Threads |-> "idle"]
  /\ frame = [t \in Threads |-> [n |-> 0, to |-> NULL, ptr |-> t]]
  /\ outcome = [t \in Threads |-> "none"]
  /\ closeAsked = FALSE
  /\ fault = "none"

\* A failure of calloc or of uv_udp_recv_start leaves nothing behind and
\* returns NULL, which no caller uses.
UdpHandleRun ==
  /\ LoopIdle
  /\ life = "unborn"
  /\ life' \in {"open", "failed"}
  /\ UNCHANGED <<shared, sendPending, closePending, reqs, pc, frame, outcome,
                 closeAsked, fault>>

-----------------------------------------------------------------------------
(* The body both sides share: send_data                                    *)

\* Mutant: it is the handle's send_addr whatever data2 points to.
TargetShared == sendAddr

\* What uv_udp_send copies: the uv_buf_t behind data1, the address behind
\* data2.
Target == IF data2 = SharedAddr THEN sendAddr ELSE frame[data2].to
Request == [from |-> data1, n |-> frame[data1].n, to |-> Target]

\* Mutant: the flag is read the wrong way round.
PostIfSync == IF asyncSendFlag THEN sem ELSE sem + 1

\* The loop lets a waiting sender go, if a sender is what the flag says.
PostIfAsync == IF asyncSendFlag THEN sem + 1 ELSE sem

SendDataNoMemory ==
  /\ AllocFails
  /\ sem' = PostIfAsync
  /\ outcome' = [outcome EXCEPT ![data1] = "reported"]
  /\ UNCHANGED <<reqs, fault>>

\* The result of uv_udp_send is ignored: a refused request is forgotten.
SendDataSubmit ==
  /\ UNCHANGED sem
  /\ IF ~InCall(data1)
     THEN fault' = "dead_frame" /\ UNCHANGED <<reqs, outcome>>
     ELSE IF Target \in Refused
     THEN /\ outcome' = [outcome EXCEPT ![data1] = "refused"]
          /\ UNCHANGED <<reqs, fault>>
     ELSE /\ reqs' = Append(reqs, Request)
          /\ outcome' = [outcome EXCEPT ![data1] = "carried"]
          /\ UNCHANGED fault

\* Mutant: the waiter is let go once libuv has taken the request.
SendDataPostingEarly ==
  \/ SendDataNoMemory
  \/ /\ sem' = PostIfAsync
     /\ reqs' = Append(reqs, Request)
     /\ outcome' = [outcome EXCEPT ![data1] = "carried"]
     /\ UNCHANGED fault

SendData == SendDataNoMemory \/ SendDataSubmit

-----------------------------------------------------------------------------
(* udp_send_data and udp_send_data_ip on a foreign thread                  *)

\* The ip entry writes the handle's send_addr before it takes the mutex.
Enter(t, a, e) ==
  /\ frame' = [frame EXCEPT ![t] =
                 [n |-> @.n + 1, to |-> a,
                  ptr |-> IF e = "ip" THEN SharedAddr ELSE t]]
  /\ sendAddr' = IF e = "ip" THEN a ELSE sendAddr
  /\ outcome' = [outcome EXCEPT ![t] = "none"]

Call(s, a, e) ==
  /\ life \in {"open", "freed"}
  /\ ~Stopped
  /\ frame[s].n < MaxCalls
  /\ Goto(s, "idle", "lock")
  /\ Enter(s, a, e)
  /\ Touch
  /\ UNCHANGED <<life, mutex, sem, asyncSendFlag, data1, data2, sendPending,
                 closePending, reqs, closeAsked>>

\* Mutant: the mutex is not taken.
LockNotTaken(s) ==
  /\ Goto(s, "lock", "flag")
  /\ mutex' = s
  /\ Touch
  /\ UNCHANGED <<life, sem, asyncSendFlag, data1, data2, sendAddr,
                 sendPending, closePending, reqs, frame, outcome, closeAsked>>

Lock(s) ==
  /\ Goto(s, "lock", "flag")
  /\ mutex = NULL
  /\ mutex' = s
  /\ Touch
  /\ UNCHANGED <<life, sem, asyncSendFlag, data1, data2, sendAddr,
                 sendPending, closePending, reqs, frame, outcome, closeAsked>>

SetFlag(s) ==
  /\ Goto(s, "flag", "buf")
  /\ asyncSendFlag' = TRUE
  /\ UNCHANGED <<life, mutex, sem, data1, data2, sendAddr, sendPending,
                 closePending, reqs, frame, outcome, closeAsked, fault>>

SetBuf(s) ==
  /\ Goto(s, "buf", "addr")
  /\ data1' = s
  /\ UNCHANGED <<life, mutex, sem, asyncSendFlag, data2, sendAddr,
                 sendPending, closePending, reqs, frame, outcome, closeAsked,
                 fault>>

SetAddr(s) ==
  /\ Goto(s, "addr", "wake")
  /\ data2' = frame[s].ptr
  /\ UNCHANGED <<life, mutex, sem, asyncSendFlag, data1, sendAddr,
                 sendPending, closePending, reqs, frame, outcome, closeAsked,
                 fault>>

Wake(s) ==
  /\ Goto(s, "wake", "wait")
  /\ sendPending' = TRUE
  /\ UNCHANGED <<life, shared, closePending, reqs, frame, outcome,
                 closeAsked, fault>>

WaitLeaves == <<life, mutex, asyncSendFlag, data1, data2, sendAddr, sendPending,
                closePending, reqs, frame, outcome, closeAsked, fault>>

\* Mutant: uv_sem_trywait in place of uv_sem_wait.
WaitTry(s) ==
  /\ Goto(s, "wait", "unlock")
  /\ sem' = IF sem > 0 THEN sem - 1 ELSE sem
  /\ UNCHANGED WaitLeaves

Wait(s) ==
  /\ Goto(s, "wait", "unlock")
  /\ sem > 0
  /\ sem' = sem - 1
  /\ UNCHANGED WaitLeaves

Unlock(s) ==
  /\ Goto(s, "unlock", "idle")
  /\ mutex' = NULL
  /\ UNCHANGED <<life, sem, asyncSendFlag, data1, data2, sendAddr,
                 sendPending, closePending, reqs, frame, outcome, closeAsked,
                 fault>>

-----------------------------------------------------------------------------
(* The event-loop thread                                                   *)

AsyncSendCb ==
  /\ LoopIdle
  /\ life = "open"
  /\ sendPending
  /\ sendPending' = FALSE
  /\ SendData
  /\ UNCHANGED <<life, mutex, asyncSendFlag, data1, data2, sendAddr,
                 closePending, pc, frame, closeAsked>>

\* The request at the head is done, or cancelled because the socket closes.
\* The callback finds the udp_socket_t through req->data.
OnSendCb ==
  /\ LoopIdle
  /\ reqs # << >>
  /\ reqs' = Tail(reqs)
  /\ outcome' = LET r == Head(reqs) IN
       IF frame[r.from].n = r.n THEN [outcome EXCEPT ![r.from] = "reported"]
                                ELSE outcome
  /\ sem' = PostIfAsync
  /\ Touch
  /\ UNCHANGED <<life, mutex, asyncSendFlag, data1, data2, sendAddr,
                 sendPending, closePending, pc, frame, closeAsked>>

\* on_data answers from the loop thread: the same fields, no mutex.
LoopCall(a, e) ==
  /\ life = "open"
  /\ frame[Loop].n < MaxLoopSends
  /\ Goto(Loop, "idle", "flag")
  /\ Enter(Loop, a, e)
  /\ UNCHANGED <<life, mutex, sem, asyncSendFlag, data1, data2, sendPending,
                 closePending, reqs, closeAsked, fault>>

LoopSetFlag ==
  /\ Goto(Loop, "flag", "buf")
  /\ asyncSendFlag' = FALSE
  /\ UNCHANGED <<life, mutex, sem, data1, data2, sendAddr, sendPending,
                 closePending, reqs, frame, outcome, closeAsked, fault>>

LoopSetBuf ==
  /\ Goto(Loop, "buf", "addr")
  /\ data1' = Loop
  /\ UNCHANGED <<life, mutex, sem, asyncSendFlag, data2, sendAddr,
                 sendPending, closePending, reqs, frame, outcome, closeAsked,
                 fault>>

LoopSetAddr ==
  /\ Goto(Loop, "addr", "submit")
  /\ data2' = frame[Loop].ptr
  /\ UNCHANGED <<life, mutex, sem, asyncSendFlag, data1, sendAddr,
                 sendPending, closePending, reqs, frame, outcome, closeAsked,
                 fault>>

LoopSubmit ==
  /\ Goto(Loop, "submit", "idle")
  /\ SendData
  /\ UNCHANGED <<life, mutex, asyncSendFlag, data1, data2, sendAddr,
                 sendPending, closePending, frame, closeAsked>>

-----------------------------------------------------------------------------
(* Closing                                                                 *)

\* Mutant: nobody looks whether the mutex is locked.
CloseHandleLocked ==
  /\ life' = "freed"
  /\ sendPending' = FALSE
  /\ closePending' = FALSE
  /\ UNCHANGED fault

\* uv_mutex_destroy aborts the process when the mutex is locked.  Otherwise
\* everything is closed and the udp_socket_t is freed at once; libuv still
\* has the socket's requests to cancel.
CloseHandle ==
  IF mutex # NULL
  THEN fault' = "abort" /\ UNCHANGED <<life, sendPending, closePending>>
  ELSE /\ life' = "freed"
       /\ sendPending' = FALSE
       /\ closePending' = FALSE
       /\ UNCHANGED fault

Quiet == \A s \in Senders : ~InCall(s)

MayClose ==
  /\ life = "open"
  /\ ~closeAsked
  /\ CloseWhenIdle => Quiet

\* udp_handle_close from a foreign thread.
CloseFromThread ==
  /\ fault = "none"
  /\ MayClose
  /\ closeAsked' = TRUE
  /\ closePending' = TRUE
  /\ UNCHANGED <<life, shared, sendPending, reqs, pc, frame, outcome, fault>>

\* udp_handle_close from a callback.
CloseFromLoop ==
  /\ LoopIdle
  /\ MayClose
  /\ closeAsked' = TRUE
  /\ CloseHandle
  /\ UNCHANGED <<shared, reqs, pc, frame, outcome>>

\* Mutant: the data pointer of the async handle was never set.
AsyncCloseCbNoData ==
  /\ LoopIdle
  /\ life = "open"
  /\ closePending
  /\ closePending' = FALSE
  /\ UNCHANGED <<life, shared, sendPending, reqs, pc, frame, outcome,
                 closeAsked, fault>>

AsyncCloseCb ==
  /\ LoopIdle
  /\ life = "open"
  /\ closePending
  /\ CloseHandle
  /\ UNCHANGED <<shared, reqs, pc, frame, outcome, closeAsked>>

-----------------------------------------------------------------------------

\* The process has been aborted or is undefined, or the handle is gone (or
\* never came to be) and nobody is left waiting.
Finished ==
  /\ \/ fault # "none"
     \/ /\ life \in {"freed", "failed"}
        /\ reqs = << >>
        /\ \A t \in Threads : ~InCall(t)
  /\ UNCHANGED vars

SenderStep(s) ==
  \/ Lock(s)
  \/ SetFlag(s)
  \/ SetBuf(s)
  \/ SetAddr(s)
  \/ Wake(s)
  \/ Wait(s)
  \/ Unlock(s)

LoopSendStep ==
  \/ LoopSetFlag
  \/ LoopSetBuf
  \/ LoopSetAddr
  \/ LoopSubmit

Next ==
  \/ UdpHandleRun
  \/ \E s \in Senders, a \in Addrs, e \in Entries : Call(s, a, e)
  \/ \E s \in Senders : SenderStep(s)
  \/ AsyncSendCb
  \/ OnSendCb
  \/ \E a \in Addrs, e \in Entries : LoopCall(a, e)
  \/ LoopSendStep
  \/ CloseFromThread
  \/ CloseFromLoop
  \/ AsyncCloseCb
  \/ Finished

\* Threads that are inside a call keep running, and the loop serves every
\* event source that stays ready.  Nobody has to call or to close.
Fairness ==
  /\ \A s \in Senders : WF_vars(SenderStep(s))
  /\ WF_vars(AsyncSendCb)
  /\ WF_vars(OnSendCb)
  /\ WF_vars(LoopSendStep)
  /\ WF_vars(AsyncCloseCb)

Spec == Init /\ [][Next]_vars /\ Fairness

-----------------------------------------------------------------------------
(* Properties                                                              *)

Lives == {"unborn", "open", "freed", "failed"}
Faults == {"none", "use_after_free", "dead_frame", "abort"}
Outcomes == {"none", "carried", "reported", "refused"}
Frames == [n : Nat, to : Addrs \cup {NULL}, ptr : Threads \cup {SharedAddr}]
Requests == [from : Threads, n : Nat, to : Addrs]

\* Every variable has its type; what libuv is given has an address.
TypeOK ==
  /\ life \in Lives
  /\ mutex \in Senders \cup {NULL}
  /\ sem \in Nat
  /\ asyncSendFlag \in BOOLEAN
  /\ data1 \in Threads \cup {NULL}
  /\ data2 \in Threads \cup {SharedAddr, NULL}
  /\ sendAddr \in Addrs \cup {NULL}
  /\ sendPending \in BOOLEAN
  /\ closePending \in BOOLEAN
  /\ reqs \in Seq(Requests)
  /\ pc \in [Threads -> {"idle", "lock", "submit"} \cup Critical]
  /\ frame \in [Threads -> Frames]
  /\ outcome \in [Threads -> Outcomes]
  /\ closeAsked \in BOOLEAN
  /\ fault \in Faults

\* A semaphore token is never left over for a later call: there is at most
\* one, and it is there only while the sender that holds the mutex waits for
\* it, after the loop has reported on that sender's own call
\* (uv_sem_post in on_send_cb and send_data, uv_sem_wait in udp_send_data).
TokenBelongsToOwner ==
  sem > 0 => /\ sem = 1
             /\ mutex # NULL
             /\ pc[mutex] = "wait"
             /\ outcome[mutex] = "reported"

\* A datagram of a foreign sender that libuv holds is the one that sender is
\* still blocked on, and goes where that call asked, whatever other threads
\* have stored in data1, data2 and send_addr meanwhile.
AddressedAsAsked ==
  \A i \in DOMAIN reqs :
    LET r == reqs[i] IN
      r.from \in Senders => /\ InCall(r.from)
                            /\ r.n = frame[r.from].n
                            /\ r.to = frame[r.from].to

\* A sender that waits will be woken: the loop has been signalled for it, or
\* libuv holds its own request, or its token is there, unless libuv refused
\* the request.  No wakeup is lost between the stores of the senders, the
\* signals the loop takes together and the posts of its callbacks.
NoWakeupIsLost ==
  \A s \in Senders :
    pc[s] = "wait" =>
      \/ sendPending /\ data1 = s
      \/ \E i \in DOMAIN reqs : reqs[i].from = s /\ reqs[i].n = frame[s].n
      \/ sem > 0
      \/ outcome[s] = "refused"

\* Foreign threads are served one at a time, each with its own datagram, and
\* each is let go by its own report.
SendsAreServedInTurn ==
  TokenBelongsToOwner /\ AddressedAsAsked /\ NoWakeupIsLost

\* Nothing reads the udp_socket_t after close_handle freed it, no uv_buf_t of
\* a finished call is sent, and no locked mutex is destroyed.
NoFault == fault = "none"

\* With no send on the loop thread, a request that uv_udp_send refuses is the
\* last the handle takes: its sender keeps the mutex for good, since send_data
\* drops the error and nobody posts the semaphore.
RefusalSilencesTheHandle ==
  [][(\E s \in Senders : outcome[s] = "refused") =>
       reqs' = reqs /\ ~closeAsked']_vars

\* close_handle never frees the udp_socket_t while a sender is between the
\* lock and the unlock of its mutex, even when the two race: the process is
\* aborted by uv_mutex_destroy instead.
NeverFreedUnderASender ==
  [][life = "open" /\ life' = "freed" =>
       \A s \in Senders : pc[s] \notin Critical]_vars

\* Every blocked sender returns, unless the program was cut short or libuv
\* refused a request: the result of uv_udp_send is ignored in send_data, so
\* nobody posts the semaphore for it.
SendReturns ==
  \A s \in Senders :
    InCall(s) ~> \/ ~InCall(s)
                 \/ fault # "none"
                 \/ \E r \in Senders : outcome[r] = "refused"

\* A handle that was asked to close is freed and libuv has given back every
\* request it had accepted, unless the program was cut short.
CloseDrains ==
  closeAsked ~> \/ life = "freed" /\ reqs = << >>
                \/ fault # "none"

-----------------------------------------------------------------------------
(* Foreign sends implement the blocking send service                       *)

Envelope(f) == [n |-> f.n, to |-> f.to]

StatusOf(s) == IF ~InCall(s) THEN "idle"
               ELSE IF outcome[s] = "none" THEN "asked" ELSE outcome[s]

PayloadOf(s) == IF InCall(s) THEN Envelope(frame[s]) ELSE NULL

Service == INSTANCE SendService WITH
  Clients   <- Senders,
  Payloads  <- [n : 0 .. MaxCalls, to : Addrs],
  None      <- NULL,
  status    <- [s \in Senders |-> StatusOf(s)],
  payload   <- [s \in Senders |-> PayloadOf(s)],
  transport <- [i \in DOMAIN reqs |->
                  [client |-> reqs[i].from, payload |-> Envelope(reqs[i])]]

\* With no send on the loop thread, udp_send_data is a blocking send: one
\* datagram at a time, that of a blocked caller, reported before it returns.
ImplementsSendService == Service!Spec

=============================================================================
