------------------------------ MODULE Component ------------------------------
(***************************************************************************)
(* The program of src/main.c: the component of src/components/component.c  *)
(* on an event-loop thread of src/utils/event_loop_thread.c.               *)
(*                                                                         *)
(* Three threads share a UDP socket (UdpSocket) and a message queue        *)
(* (MsgQueue).  What the loop thread receives it puts into the queue; the  *)
(* queue's thread takes it out and answers through the socket, for which   *)
(* it needs the loop thread; the main thread starts the two, waits for a   *)
(* signal, and takes down first the queue and then the socket.             *)
(*                                                                         *)
(* The steps of the socket and of the queue are those of their modules;    *)
(* this module says when the component's threads take them.  Messages and  *)
(* datagrams have no content but their sender and, for the dump in the     *)
(* log, their length.                                                      *)
(***************************************************************************)
EXTENDS Integers, Sequences, FiniteSets

CONSTANTS
  Msg,            \* the thread of the message queue
  Loop,           \* the event-loop thread
  NULL, SharedAddr,
  Peers,          \* who sends datagrams to the component
  Refused,        \* the peers to which uv_udp_send refuses to send
  Lengths,        \* the lengths of their datagrams
  MSG_PRINT_SIZE,
  Capacity,       \* messages the kernel's queue holds
  MaxDatagrams,   \* bound: datagrams received
  AllocFails      \* TRUE: malloc and calloc may fail

ASSUME ConstantsOK ==
  /\ Msg # Loop
  /\ NULL \notin {Msg, Loop, SharedAddr}
  /\ SharedAddr \notin {Msg, Loop}
  /\ Peers # {}
  /\ NULL \notin Peers \cup [by : {Loop}, n : Nat, in : Nat]
  /\ Refused \subseteq Peers
  /\ Lengths \subseteq Nat
  /\ MSG_PRINT_SIZE \in Nat \ {0}
  /\ Capacity \in Nat \ {0}
  /\ MaxDatagrams \in Nat
  /\ AllocFails \in BOOLEAN

VARIABLES
  \* The socket: see UdpSocket.
  socket, mutex, sem, asyncSendFlag, data1, data2, sendAddr, sendPending,
  closePending, reqs, pc, frame, outcome, closeAsked, socketFault,
  \* The queue: see MsgQueue.
  queueLife, starts, isRunning, exists, queue, sender, sent, receiver, hand,
  heap, taken, handled, queueFault,
  \* The component.
  mainAt,         \* where the main thread is
  stop,           \* main.c's stop
  loopAt,         \* where the event-loop thread is
  handleSet,      \* udp_handle has been assigned a socket
  initPeer,       \* init_peer
  peerAddr,       \* peer_addr
  firstPeer,      \* history: the peer of the first datagram
  datagrams,      \* datagrams received
  fault           \* the undefined behaviour the component itself ran into

socketVars == <<socket, mutex, sem, asyncSendFlag, data1, data2, sendAddr,
                sendPending, closePending, reqs, pc, frame, outcome,
                closeAsked, socketFault>>
queueVars == <<queueLife, starts, isRunning, exists, queue, sender, sent,
               receiver, hand, heap, taken, handled, queueFault>>
peerVars == <<initPeer, peerAddr, firstPeer, datagrams>>
mainVars == <<mainAt, stop>>
loopVars == <<loopAt, handleSet>>
vars == <<socketVars, queueVars, peerVars, mainVars, loopVars, fault>>

Udp == INSTANCE UdpSocket WITH
  Senders <- {Msg}, Addrs <- Peers, Entries <- {"addr"},
  MaxCalls <- MaxDatagrams, MaxLoopSends <- 0, CloseWhenIdle <- FALSE,
  life <- socket, fault <- socketFault

\* The same socket, for users that close it only when nobody sends.
OrderlyUdp == INSTANCE UdpSocket WITH
  Senders <- {Msg}, Addrs <- Peers, Entries <- {"addr"},
  MaxCalls <- MaxDatagrams, MaxLoopSends <- 0, CloseWhenIdle <- TRUE,
  life <- socket, fault <- socketFault

Queue == INSTANCE MsgQueue WITH
  Senders <- {Loop}, MaxSends <- MaxDatagrams, MaxStarts <- 1,
  life <- queueLife, fault <- queueFault

\* The program has not run into undefined behaviour.
Sound == fault = "none" /\ socketFault = "none" /\ queueFault = "none"

MainGoto(from, to) ==
  /\ Sound
  /\ mainAt = from
  /\ mainAt' = to
  /\ UNCHANGED stop

LoopGoto(from, to) ==
  /\ Sound
  /\ loopAt = from
  /\ loopAt' = to

Init ==
  /\ Udp!Init
  /\ Queue!Init
  /\ mainAt = "queue"
  /\ stop = FALSE
  /\ loopAt = "none"
  /\ handleSet = FALSE
  /\ initPeer = FALSE
  /\ peerAddr = NULL
  /\ firstPeer = NULL
  /\ datagrams = 0
  /\ fault = "none"

-----------------------------------------------------------------------------
(* The main thread: starting                                               *)

\* component_init goes on with msg_queue NULL when there is no queue.
CreateQueue ==
  /\ MainGoto("queue", "thread")
  /\ Queue!MsgQueueCreate \/ Queue!MsgQueueCreateFails
  /\ UNCHANGED <<socketVars, peerVars, loopVars, fault>>

\* Where event_thread_create leaves the new thread.  That the memory for the
\* loop was not there is overlooked, and the thread starts without one.
ThreadStarts == {"start"} \cup IF AllocFails THEN {"none", "noloop"} ELSE {}

\* Nobody looks at the result of event_thread_create.
CreateThread ==
  /\ MainGoto("thread", "wait")
  /\ loopAt' \in ThreadStarts
  /\ UNCHANGED <<socketVars, queueVars, peerVars, handleSet, fault>>

\* A signal may come at any time, to a thread that it does not disturb; main
\* looks at stop once it waits.
Signal ==
  /\ Sound
  /\ ~stop
  /\ mainAt # "ended"
  /\ stop' = TRUE
  /\ UNCHANGED <<socketVars, queueVars, peerVars, mainAt, loopVars, fault>>

StopWaiting ==
  /\ MainGoto("wait", "destroy")
  /\ stop
  /\ UNCHANGED <<socketVars, queueVars, peerVars, loopVars, fault>>

-----------------------------------------------------------------------------
(* The event-loop thread: starting and ending                              *)

\* uv_loop_init of a loop for which there was no memory.
LoopInitFails ==
  /\ LoopGoto("noloop", "noloop")
  /\ fault' = "null_pointer"
  /\ UNCHANGED <<socketVars, queueVars, peerVars, mainVars, handleSet>>

\* event_thread initialises the loop and calls event_thread_func.
RunHandle ==
  /\ LoopGoto("start", "assign")
  /\ Udp!UdpHandleRun
  /\ UNCHANGED <<queueVars, peerVars, mainVars, handleSet, fault>>

AssignHandle ==
  /\ LoopGoto("assign", "run")
  /\ handleSet' = (socket = "open")
  /\ UNCHANGED <<socketVars, queueVars, peerVars, mainVars, fault>>

\* Mutant: the loop is run once, and not until it has nothing left to do.
LoopRunsOnce ==
  /\ LoopGoto("run", "teardown")
  /\ UNCHANGED <<socketVars, queueVars, peerVars, mainVars, handleSet, fault>>

\* uv_run returns: no handle is open and no request is under way.
LoopEnds ==
  /\ LoopGoto("run", "teardown")
  /\ socket \in {"freed", "failed"}
  /\ reqs = << >>
  /\ UNCHANGED <<socketVars, queueVars, peerVars, mainVars, handleSet, fault>>

\* uv_tear_down closes the loop, at the first attempt since nothing is open.
TearDown ==
  /\ LoopGoto("teardown", "free")
  /\ UNCHANGED <<socketVars, queueVars, peerVars, mainVars, handleSet, fault>>

FreeLoop ==
  /\ LoopGoto("free", "ended")
  /\ UNCHANGED <<socketVars, queueVars, peerVars, mainVars, handleSet, fault>>

\* Callbacks of the socket run one at a time, and not while the loop thread is
\* in on_data.
ServeLeaves == <<queueVars, peerVars, mainVars, handleSet, fault>>

AsyncSendCb ==
  /\ LoopGoto("run", "run")
  /\ Udp!AsyncSendCb
  /\ UNCHANGED ServeLeaves

OnSendCb ==
  /\ LoopGoto("run", "run")
  /\ Udp!OnSendCb
  /\ UNCHANGED ServeLeaves

AsyncCloseCb ==
  /\ LoopGoto("run", "run")
  /\ Udp!AsyncCloseCb
  /\ UNCHANGED ServeLeaves

-----------------------------------------------------------------------------
(* on_data, on the loop thread                                             *)

\* print_in_hex writes three characters for each of the first MSG_PRINT_SIZE
\* bytes, each time with a terminating zero, into MAX_PRINT_BUFSIZE of them.
HexDump(len) ==
  LET n == IF len > MSG_PRINT_SIZE THEN MSG_PRINT_SIZE ELSE len
  IN IF n = 0 THEN 0 ELSE 3 * n + 1

DumpOverruns(len) == HexDump(len) > 3 * MSG_PRINT_SIZE

\* Mutant: the address of the last peer is kept, not that of the first.
OnDataLastPeer(p, len) ==
  /\ LoopGoto("run", "flag")
  /\ socket = "open"
  /\ datagrams < MaxDatagrams
  /\ datagrams' = datagrams + 1
  /\ firstPeer' = IF datagrams = 0 THEN p ELSE firstPeer
  /\ peerAddr' = p
  /\ fault' = IF DumpOverruns(len) THEN "overrun" ELSE fault
  /\ UNCHANGED <<socketVars, queueVars, initPeer, mainVars, handleSet>>

\* A datagram of p: the address of the first is stored ...
OnData(p, len) ==
  /\ LoopGoto("run", IF initPeer THEN "id" ELSE "flag")
  /\ socket = "open"
  /\ datagrams < MaxDatagrams
  /\ datagrams' = datagrams + 1
  /\ firstPeer' = IF datagrams = 0 THEN p ELSE firstPeer
  /\ peerAddr' = IF initPeer THEN peerAddr ELSE p
  /\ fault' = IF DumpOverruns(len) THEN "overrun" ELSE fault
  /\ UNCHANGED <<socketVars, queueVars, initPeer, mainVars, handleSet>>

SetInitPeer ==
  /\ LoopGoto("flag", "id")
  /\ initPeer' = TRUE
  /\ UNCHANGED <<socketVars, queueVars, peerAddr, firstPeer, datagrams,
                 mainVars, handleSet, fault>>

\* ... and get_component_msg_id looks for the queue.  component_uninit leaves
\* the pointer to the msg_queue_t it has freed.  Without a queue the datagram
\* is dropped.
GetMsgId ==
  /\ LoopGoto("id", IF queueLife = "failed" THEN "run" ELSE "copy")
  /\ fault' = IF queueLife = "freed" THEN "use_after_free" ELSE fault
  /\ UNCHANGED <<socketVars, queueVars, peerVars, mainVars, handleSet>>

\* msg_send copies the data, or drops it for lack of memory ...
CopyData ==
  /\ \/ LoopGoto("copy", "send") /\ Queue!MsgSend(Loop)
     \/ AllocFails /\ LoopGoto("copy", "run") /\ UNCHANGED queueVars
  /\ UNCHANGED <<socketVars, peerVars, mainVars, handleSet, fault>>

\* Mutant: msgsnd does not wait for room.
SendMsgOverwriting ==
  /\ LoopGoto("send", "run")
  /\ Queue!MsgsndOverwrites(Loop) \/ Queue!MsgsndFails(Loop)
  /\ UNCHANGED <<socketVars, peerVars, mainVars, handleSet, fault>>

\* ... and blocks the loop thread while the queue is full.
SendMsg ==
  /\ LoopGoto("send", "run")
  /\ Queue!Msgsnd(Loop) \/ Queue!MsgsndFails(Loop)
  /\ UNCHANGED <<socketVars, peerVars, mainVars, handleSet, fault>>

\* msgsnd gives up, and the datagram is lost: a signal is handled on the loop
\* thread while it is blocked, or the kernel has no memory for the message.
SendMsgErrs ==
  /\ LoopGoto("send", "run")
  /\ Queue!MsgsndErrs(Loop)
  /\ \/ Len(queue) = Capacity /\ stop' = TRUE
     \/ AllocFails /\ UNCHANGED stop
  /\ UNCHANGED <<socketVars, peerVars, mainAt, handleSet, fault>>

-----------------------------------------------------------------------------
(* The message thread                                                      *)

MsgLeaves == <<peerVars, mainVars, loopVars, fault>>

\* Mutant: a message is handled although msgrcv has failed.
ReceiveFallsThrough ==
  /\ Sound
  /\ Queue!CheckRunning \/ Queue!Msgrcv \/ Queue!MsgrcvFailsFallsThrough
  /\ UNCHANGED <<socketVars, MsgLeaves>>

Receive ==
  /\ Sound
  /\ Queue!CheckRunning \/ Queue!Msgrcv \/ Queue!MsgrcvFails
  /\ UNCHANGED <<socketVars, MsgLeaves>>

\* A signal is handled on the message thread while msgrcv is blocked.
ReceiveInterrupted ==
  /\ Sound
  /\ Queue!MsgrcvInterrupted
  /\ stop' = TRUE
  /\ UNCHANGED <<socketVars, peerVars, mainAt, loopVars, fault>>

\* on_msg has called udp_send_data for the message in hand, or will not.
Answered == frame[Msg].n > Len(handled) \/ ~initPeer

\* on_msg answers to peer_addr, which nobody writes any more.
OnMsg ==
  /\ Sound
  /\ receiver = "handle"
  /\ ~Answered
  /\ Udp!Call(Msg, peerAddr, "addr")
  /\ UNCHANGED <<queueVars, MsgLeaves>>

OnMsgSends ==
  /\ Sound
  /\ Udp!SenderStep(Msg)
  /\ UNCHANGED <<queueVars, MsgLeaves>>

\* on_msg has returned.
HandleMsg ==
  /\ Sound
  /\ Answered
  /\ ~Udp!InCall(Msg)
  /\ Queue!HandleMsg
  /\ UNCHANGED <<socketVars, MsgLeaves>>

-----------------------------------------------------------------------------
(* The main thread: component_uninit                                       *)

MainLeaves == <<peerVars, loopVars>>

\* msg_queue_destroy of a queue that was never made.
DestroyNothing ==
  /\ MainGoto("destroy", "destroy")
  /\ queueLife = "failed"
  /\ fault' = "null_pointer"
  /\ UNCHANGED <<socketVars, queueVars, MainLeaves>>

StopQueue ==
  /\ MainGoto("destroy", "remove")
  /\ Queue!StopRunning
  /\ UNCHANGED <<socketVars, MainLeaves, fault>>

\* Mutant: the thread of the queue is left to find out by itself.
RemoveQueueNever ==
  /\ MainGoto("remove", "free")
  /\ Queue!RemoveQueueNever
  /\ UNCHANGED <<socketVars, MainLeaves, fault>>

RemoveQueue ==
  /\ MainGoto("remove", "free")
  /\ Queue!RemoveQueue
  /\ UNCHANGED <<socketVars, MainLeaves, fault>>

\* Mutant: the thread of the queue is not waited for.
FreeQueueAtOnce ==
  /\ MainGoto("free", "close")
  /\ Queue!NoJoin
  /\ UNCHANGED <<socketVars, MainLeaves, fault>>

FreeQueue ==
  /\ MainGoto("free", "close")
  /\ Queue!JoinAndFree
  /\ UNCHANGED <<socketVars, MainLeaves, fault>>

\* udp_handle_close, which does nothing while udp_handle is NULL.
CloseHandle ==
  /\ MainGoto("close", "join")
  /\ \/ handleSet /\ Udp!CloseFromThread
     \/ ~handleSet /\ UNCHANGED socketVars
  /\ UNCHANGED <<queueVars, MainLeaves, fault>>

\* event_thread_destroy; joining a thread that was never made is undefined.
JoinLoop ==
  /\ MainGoto("join", "ended")
  /\ \/ loopAt = "ended" /\ UNCHANGED fault
     \/ loopAt = "none" /\ fault' = "no_thread"
  /\ UNCHANGED <<socketVars, queueVars, MainLeaves>>

-----------------------------------------------------------------------------

LoopStep ==
  \/ LoopInitFails
  \/ RunHandle
  \/ AssignHandle
  \/ SetInitPeer
  \/ GetMsgId
  \/ CopyData
  \/ SendMsg
  \/ LoopEnds
  \/ TearDown
  \/ FreeLoop

MsgStep ==
  \/ Receive
  \/ OnMsg
  \/ OnMsgSends
  \/ HandleMsg

MainStep ==
  \/ CreateQueue
  \/ CreateThread
  \/ StopWaiting
  \/ DestroyNothing
  \/ StopQueue
  \/ RemoveQueue
  \/ FreeQueue
  \/ CloseHandle
  \/ JoinLoop

Next ==
  \/ MainStep
  \/ LoopStep
  \/ AsyncSendCb
  \/ OnSendCb
  \/ AsyncCloseCb
  \/ \E p \in Peers, len \in Lengths : OnData(p, len)
  \/ SendMsgErrs
  \/ MsgStep
  \/ ReceiveInterrupted
  \/ Signal

\* Threads run, and the loop serves what is due.  Nobody has to send a
\* datagram or a signal.
Fairness ==
  /\ WF_vars(MainStep)
  /\ WF_vars(LoopStep)
  /\ WF_vars(AsyncSendCb)
  /\ WF_vars(OnSendCb)
  /\ WF_vars(AsyncCloseCb)
  /\ WF_vars(MsgStep)

Spec == Init /\ [][Next]_vars /\ Fairness

-----------------------------------------------------------------------------
(* Properties                                                              *)

MainPlaces == {"queue", "thread", "wait", "destroy", "remove", "free",
               "close", "join", "ended"}
LoopPlaces == {"none", "noloop", "start", "assign", "run", "flag", "id",
               "copy", "send", "teardown", "free", "ended"}

\* Every variable has its type.
TypeOK ==
  /\ Udp!TypeOK
  /\ Queue!TypeOK
  /\ mainAt \in MainPlaces
  /\ stop \in BOOLEAN
  /\ loopAt \in LoopPlaces
  /\ handleSet \in BOOLEAN
  /\ initPeer \in BOOLEAN
  /\ peerAddr \in Peers \cup {NULL}
  /\ firstPeer \in Peers \cup {NULL}
  /\ datagrams \in 0 .. MaxDatagrams
  /\ fault \in {"none", "null_pointer", "use_after_free", "overrun",
                "no_thread"}

\* Every answer goes to the peer that was the first to send, and on_msg does
\* not look at peer_addr before it was written, although init_peer and
\* peer_addr are written on one thread and read on another without a lock.
AnswersGoToFirstPeer ==
  /\ receiver = "handle" => initPeer
  /\ Udp!InCall(Msg) => frame[Msg].to = firstPeer
  /\ \A i \in DOMAIN reqs : reqs[i].to = firstPeer

\* What component_uninit takes down has no users left: neither the socket nor
\* the queue is ever misused by the threads that are still inside their
\* functions, and when the loop's memory goes (event_thread, after uv_run) no
\* thread is inside a call that would wake it, none will be, and nothing is
\* signalled.
PartsOutliveTheirUsers ==
  /\ socketFault = "none"
  /\ queueFault = "none"
  /\ loopAt \in {"teardown", "free", "ended"} =>
       /\ socket = "failed" \/ mainAt \in {"join", "ended"}
       /\ ~Udp!InCall(Msg)
       /\ ~sendPending /\ ~closePending

\* The component is a user of the socket such as the theorems about UdpSocket
\* are about: it closes it only when no thread is inside a call, and calls no
\* more afterwards.
UsesSocketInOrder == OrderlyUdp!Init /\ [][OrderlyUdp!Next]_socketVars

\* Used by the component, its parts keep what they promise to any user: a
\* datagram that on_data has put into the queue reaches on_msg once and in
\* order, also while on_msg is blocked in udp_send_data and on_data in msgsnd,
\* and every answer is a blocking send.
PartsKeepTheirPromises ==
  UsesSocketInOrder /\ Queue!ImplementsFifoChannel /\ Udp!ImplementsSendService

\* The loop thread waits for room in the queue, the message thread for the
\* loop thread.
Jammed ==
  /\ loopAt = "send"
  /\ exists
  /\ Len(queue) = Capacity
  /\ pc[Msg] = "wait"
  /\ sem = 0

\* The datagram in the hands of on_data is freed without having been queued.
DatagramIsLost == Queue!Buf(Loop) \notin heap' \cup taken'

\* Once the two threads wait for each other (msgsnd in on_data, uv_sem_wait in
\* on_msg), neither the answer nor room in the queue ends that:
\* component_uninit removes the queue, or msgsnd gives up and on_data's
\* datagram is dropped.
JamEndsInLoss ==
  [][Jammed /\ Sound => Jammed' \/ ~exists' \/ DatagramIsLost]_vars

Unanswerable == outcome[Msg] = "refused"

\* A message that is in the queue is handled, unless the program is stopped,
\* the threads wait for each other, or libuv refused an answer.
MessagesMove ==
  \A n \in 1 .. MaxDatagrams :
    LET m == Queue!BufOf(Loop, n) IN
      m \in taken ~> \/ m \in {handled[i] : i \in DOMAIN handled}
                     \/ stop
                     \/ Jammed
                     \/ Unanswerable
                     \/ ~Sound

\* udp_handle_close has found udp_handle NULL, and the loop runs for ever.
Stranded == mainAt = "join" /\ ~closeAsked /\ socket # "failed"

\* component_uninit returns, also when the two threads wait for each other,
\* unless libuv has refused an answer or it came before udp_handle was set.
UninitReturns ==
  mainAt = "destroy" ~> \/ mainAt = "ended"
                        \/ Stranded
                        \/ Unanswerable
                        \/ ~Sound

=============================================================================
