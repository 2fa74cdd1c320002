-------------------------- MODULE ComponentProofs --------------------------
(***************************************************************************)
(* Proofs about Component, for any number of peers, datagrams and lengths  *)
(* and any capacity of the queue.                                          *)
(*                                                                         *)
(* They rest on those about its parts: the component's steps are steps of  *)
(* the queue, and steps of the socket under the discipline that the        *)
(* theorems about UdpSocket ask for, so that the invariants of both hold.  *)
(***************************************************************************)
EXTENDS Component, TLAPS

QueueP == INSTANCE MsgQueueProofs WITH
  Senders <- {Loop}, MaxSends <- MaxDatagrams, MaxStarts <- 1,
  life <- queueLife, fault <- queueFault

UdpP == INSTANCE UdpSocketProofs WITH
  Senders <- {Msg}, Addrs <- Peers, Entries <- {"addr"},
  MaxCalls <- MaxDatagrams, MaxLoopSends <- 0, CloseWhenIdle <- TRUE,
  life <- socket, fault <- socketFault

-----------------------------------------------------------------------------
(* The parts                                                               *)

LEMMA QueueConstants == QueueP!ConstantsOK
<1>1. [by : {Loop}, n : Nat, in : Nat] \cap {NULL} = {}
  BY ConstantsOK DEF ConstantsOK
<1> QED
  BY <1>1, ConstantsOK DEF QueueP!ConstantsOK, ConstantsOK

LEMMA UdpConstants == UdpP!ConstantsOK /\ UdpP!Discipline /\ UdpP!Direct
  BY ConstantsOK
  DEF UdpP!ConstantsOK, UdpP!Threads, UdpP!Discipline, UdpP!Direct

LEMMA QueueKeepsInv ==
  ASSUME QueueP!Inv, [QueueP!Next]_(QueueP!vars)
  PROVE  QueueP!Inv'
  BY QueueP!NextInv, QueueConstants

LEMMA SocketKeepsInv ==
  ASSUME UdpP!TypeInv, UdpP!Inv, [UdpP!Next]_(UdpP!vars)
  PROVE  UdpP!TypeInv' /\ UdpP!Inv'
<1>1. UdpP!TypeInv'
  BY UdpP!NextTypes, UdpConstants
<1> QED
  BY <1>1, UdpP!NextInv, UdpConstants

LEMMA SameQueue ==
  /\ Queue!Init => QueueP!Init
  /\ Queue!MsgQueueCreate => QueueP!MsgQueueCreate
  /\ Queue!MsgQueueCreateFails => QueueP!MsgQueueCreateFails
  /\ Queue!MsgSend(Loop) => QueueP!MsgSend(Loop)
  /\ Queue!Msgsnd(Loop) => QueueP!Msgsnd(Loop)
  /\ Queue!MsgsndFails(Loop) => QueueP!MsgsndFails(Loop)
  /\ Queue!MsgsndErrs(Loop) => QueueP!MsgsndErrs(Loop)
  /\ Queue!CheckRunning => QueueP!CheckRunning
  /\ Queue!Msgrcv => QueueP!Msgrcv
  /\ Queue!MsgrcvFails => QueueP!MsgrcvFails
  /\ Queue!MsgrcvInterrupted => QueueP!MsgrcvInterrupted
  /\ Queue!HandleMsg => QueueP!HandleMsg
  /\ Queue!StopRunning => QueueP!StopRunning
  /\ Queue!RemoveQueue => QueueP!RemoveQueue
  /\ Queue!JoinAndFree => QueueP!JoinAndFree
<1> USE DEF Queue!kernel, QueueP!kernel, Queue!threads, QueueP!threads,
        Queue!history, QueueP!history, Queue!SenderGoto, QueueP!SenderGoto,
        Queue!ReceiverGoto, QueueP!ReceiverGoto, Queue!Free, QueueP!Free,
        Queue!Up, QueueP!Up, Queue!Buf, QueueP!Buf, Queue!BufOf, QueueP!BufOf
<1>1. Queue!Init => QueueP!Init
  BY DEF Queue!Init, QueueP!Init
<1>2. Queue!MsgQueueCreate => QueueP!MsgQueueCreate
  BY DEF Queue!MsgQueueCreate, QueueP!MsgQueueCreate, Queue!FreshQueue,
         QueueP!FreshQueue
<1>3. Queue!MsgQueueCreateFails => QueueP!MsgQueueCreateFails
  BY DEF Queue!MsgQueueCreateFails, QueueP!MsgQueueCreateFails
<1>4. Queue!MsgSend(Loop) => QueueP!MsgSend(Loop)
  BY DEF Queue!MsgSend, QueueP!MsgSend
<1>5. Queue!Msgsnd(Loop) => QueueP!Msgsnd(Loop)
  BY DEF Queue!Msgsnd, QueueP!Msgsnd
<1>6. Queue!MsgsndFails(Loop) => QueueP!MsgsndFails(Loop)
  BY DEF Queue!MsgsndFails, QueueP!MsgsndFails, Queue!GiveUp, QueueP!GiveUp
<1>7. Queue!CheckRunning => QueueP!CheckRunning
  BY DEF Queue!CheckRunning, QueueP!CheckRunning
<1>8. Queue!Msgrcv => QueueP!Msgrcv
  BY DEF Queue!Msgrcv, QueueP!Msgrcv
<1>9. Queue!MsgrcvFails => QueueP!MsgrcvFails
  BY DEF Queue!MsgrcvFails, QueueP!MsgrcvFails
<1>10. Queue!HandleMsg => QueueP!HandleMsg
  BY DEF Queue!HandleMsg, QueueP!HandleMsg
<1>11. Queue!StopRunning => QueueP!StopRunning
  BY DEF Queue!StopRunning, QueueP!StopRunning
<1>12. Queue!RemoveQueue => QueueP!RemoveQueue
  BY DEF Queue!RemoveQueue, QueueP!RemoveQueue
<1>13. Queue!JoinAndFree => QueueP!JoinAndFree
  BY DEF Queue!JoinAndFree, QueueP!JoinAndFree
<1>14. Queue!MsgsndErrs(Loop) => QueueP!MsgsndErrs(Loop)
  BY DEF Queue!MsgsndErrs, QueueP!MsgsndErrs, Queue!GiveUp, QueueP!GiveUp
<1>15. Queue!MsgrcvInterrupted => QueueP!MsgrcvInterrupted
  BY DEF Queue!MsgrcvInterrupted, QueueP!MsgrcvInterrupted
<1> QED
  BY <1>1, <1>2, <1>3, <1>4, <1>5, <1>6, <1>7, <1>8, <1>9, <1>10, <1>11,
     <1>12, <1>13, <1>14, <1>15

\* CloseWhenIdle, in which the instances of UdpSocket differ, matters to the
\* first call and to the close only.
LEMMA SameSocket ==
  /\ Udp!Init => UdpP!Init /\ OrderlyUdp!Init
  /\ Udp!UdpHandleRun => UdpP!UdpHandleRun /\ OrderlyUdp!UdpHandleRun
  /\ Udp!AsyncSendCb => UdpP!AsyncSendCb /\ OrderlyUdp!AsyncSendCb
  /\ Udp!OnSendCb => UdpP!OnSendCb /\ OrderlyUdp!OnSendCb
  /\ Udp!AsyncCloseCb => UdpP!AsyncCloseCb /\ OrderlyUdp!AsyncCloseCb
  /\ Udp!SenderStep(Msg) => UdpP!SenderStep(Msg) /\ OrderlyUdp!SenderStep(Msg)
<1> USE DEF Udp!shared, UdpP!shared, OrderlyUdp!shared,
            Udp!Goto, UdpP!Goto, OrderlyUdp!Goto,
            Udp!LoopIdle, UdpP!LoopIdle, OrderlyUdp!LoopIdle,
            Udp!Touch, UdpP!Touch, OrderlyUdp!Touch,
            Udp!PostIfAsync, UdpP!PostIfAsync, OrderlyUdp!PostIfAsync
<1>1. Udp!Init => UdpP!Init /\ OrderlyUdp!Init
  BY DEF Udp!Init, UdpP!Init, OrderlyUdp!Init, Udp!Threads, UdpP!Threads,
         OrderlyUdp!Threads
<1>2. Udp!UdpHandleRun => UdpP!UdpHandleRun /\ OrderlyUdp!UdpHandleRun
  BY DEF Udp!UdpHandleRun, UdpP!UdpHandleRun, OrderlyUdp!UdpHandleRun
<1>3. Udp!AsyncSendCb => UdpP!AsyncSendCb /\ OrderlyUdp!AsyncSendCb
  BY DEF Udp!AsyncSendCb, UdpP!AsyncSendCb, OrderlyUdp!AsyncSendCb,
         Udp!SendData, UdpP!SendData, OrderlyUdp!SendData,
         Udp!SendDataNoMemory, UdpP!SendDataNoMemory,
         OrderlyUdp!SendDataNoMemory, Udp!SendDataSubmit,
         UdpP!SendDataSubmit, OrderlyUdp!SendDataSubmit, Udp!InCall,
         UdpP!InCall, OrderlyUdp!InCall, Udp!Target, UdpP!Target,
         OrderlyUdp!Target, Udp!Request, UdpP!Request, OrderlyUdp!Request
<1>4. Udp!OnSendCb => UdpP!OnSendCb /\ OrderlyUdp!OnSendCb
  BY DEF Udp!OnSendCb, UdpP!OnSendCb, OrderlyUdp!OnSendCb
<1>5. Udp!AsyncCloseCb => UdpP!AsyncCloseCb /\ OrderlyUdp!AsyncCloseCb
  BY DEF Udp!AsyncCloseCb, UdpP!AsyncCloseCb, OrderlyUdp!AsyncCloseCb,
         Udp!CloseHandle, UdpP!CloseHandle, OrderlyUdp!CloseHandle
<1>6. Udp!SenderStep(Msg) =>
        UdpP!SenderStep(Msg) /\ OrderlyUdp!SenderStep(Msg)
  BY DEF Udp!SenderStep, UdpP!SenderStep, OrderlyUdp!SenderStep,
         Udp!Lock, UdpP!Lock, OrderlyUdp!Lock,
         Udp!SetFlag, UdpP!SetFlag, OrderlyUdp!SetFlag,
         Udp!SetBuf, UdpP!SetBuf, OrderlyUdp!SetBuf,
         Udp!SetAddr, UdpP!SetAddr, OrderlyUdp!SetAddr,
         Udp!Wake, UdpP!Wake, OrderlyUdp!Wake,
         Udp!Wait, UdpP!Wait, OrderlyUdp!Wait,
         Udp!WaitLeaves, UdpP!WaitLeaves, OrderlyUdp!WaitLeaves,
         Udp!Unlock, UdpP!Unlock, OrderlyUdp!Unlock
<1> QED
  BY <1>1, <1>2, <1>3, <1>4, <1>5, <1>6

LEMMA SameCall ==
  ASSUME NEW p \in Peers, Udp!Call(Msg, p, "addr"), ~closeAsked
  PROVE  UdpP!Call(Msg, p, "addr") /\ OrderlyUdp!Call(Msg, p, "addr")
  BY DEF Udp!Call, UdpP!Call, OrderlyUdp!Call, Udp!Enter, UdpP!Enter,
         OrderlyUdp!Enter, Udp!Goto, UdpP!Goto, OrderlyUdp!Goto, Udp!Touch,
         UdpP!Touch, OrderlyUdp!Touch, UdpP!Stopped, OrderlyUdp!Stopped

LEMMA SameClose ==
  ASSUME Udp!CloseFromThread, pc[Msg] = "idle"
  PROVE  UdpP!CloseFromThread /\ OrderlyUdp!CloseFromThread
  BY DEF Udp!CloseFromThread, UdpP!CloseFromThread,
         OrderlyUdp!CloseFromThread, Udp!MayClose, UdpP!MayClose,
         OrderlyUdp!MayClose, UdpP!Quiet, OrderlyUdp!Quiet, UdpP!InCall,
         OrderlyUdp!InCall, Udp!shared, UdpP!shared, OrderlyUdp!shared

-----------------------------------------------------------------------------
(* The component's own invariant                                           *)

\* Where the three threads may be at the same time.
Phases ==
  /\ mainAt \in {"queue", "thread"} => loopAt = "none"
  /\ mainAt \in {"close", "join", "ended"} => queueLife = "freed"
  /\ closeAsked => mainAt \in {"join", "ended"}
  /\ closePending => socket = "open"
  /\ pc[Msg] # "idle" => receiver = "handle"
  /\ loopAt \in {"teardown", "free", "ended"} => socket \in {"freed", "failed"}

\* How far the address of the first peer has got.
Addressed ==
  /\ datagrams > 0 => initPeer \/ loopAt = "flag"
  /\ initPeer => datagrams > 0
  /\ initPeer \/ loopAt = "flag" => peerAddr = firstPeer /\ firstPeer \in Peers
  /\ loopAt = "flag" => ~initPeer /\ datagrams > 0
  /\ loopAt \in {"id", "copy", "send"} => initPeer
  /\ queue # << >> => initPeer
  /\ receiver = "handle" => initPeer
  /\ pc[Msg] # "idle" => frame[Msg].to = firstPeer

OwnTypes ==
  /\ mainAt \in MainPlaces
  /\ stop \in BOOLEAN
  /\ loopAt \in LoopPlaces
  /\ handleSet \in BOOLEAN
  /\ initPeer \in BOOLEAN
  /\ peerAddr \in Peers \cup {NULL}
  /\ firstPeer \in Peers \cup {NULL}
  /\ datagrams \in 0 .. MaxDatagrams
  /\ fault \in {"none", "null_pointer", "use_after_free", "overrun",
                "no_thread"}

Inv ==
  /\ UdpP!TypeInv
  /\ UdpP!Inv
  /\ QueueP!Inv
  /\ OwnTypes
  /\ Phases
  /\ Addressed

USE DEF socketVars, queueVars, peerVars, mainVars, loopVars, MainGoto,
        LoopGoto, ServeLeaves, MsgLeaves, MainLeaves

\* What the invariants of the parts say here.
LEMMA PartsSay ==
  ASSUME Inv
  PROVE  /\ socketFault = "none" /\ queueFault = "none"
         /\ DOMAIN pc = {Msg, Loop} /\ DOMAIN frame = {Msg, Loop}
         /\ queueLife = "freed" => receiver = "ended"
         /\ closeAsked => pc[Msg] = "idle"
         /\ socket \notin {"open", "freed"} => pc[Msg] = "idle"
         /\ socket = "freed" => closeAsked
         /\ pc[Msg] = "idle" => ~sendPending /\ reqs = << >>
<1> USE DEF Inv
<1>1. socketFault = "none" /\ queueFault = "none"
  BY DEF UdpP!Inv, UdpP!NoFault, QueueP!Inv
<1>2. DOMAIN pc = {Msg, Loop} /\ DOMAIN frame = {Msg, Loop}
  BY DEF UdpP!TypeInv, UdpP!TypeOK, UdpP!Threads
<1>3. queueLife = "freed" => receiver = "ended"
  BY DEF QueueP!Inv, QueueP!Lifecycle
<1>4. UdpP!Quiet <=> pc[Msg] = "idle"
  BY DEF UdpP!Quiet, UdpP!InCall
<1>5. /\ closeAsked => pc[Msg] = "idle"
      /\ socket \notin {"open", "freed"} => pc[Msg] = "idle"
      /\ socket = "freed" => closeAsked
  BY <1>4 DEF UdpP!Inv, UdpP!Closing
<1>6. pc[Msg] = "idle" => ~sendPending /\ reqs = << >>
  BY <1>4, UdpP!QuietIsUnlocked, UdpConstants
  DEF UdpP!Inv, UdpP!TypeInv, UdpP!Nothing
<1> QED
  BY <1>1, <1>2, <1>3, <1>5, <1>6

LEMMA InitInv == Init => Inv
<1> SUFFICES ASSUME Init PROVE Inv
  OBVIOUS
<1>1. UdpP!Init /\ QueueP!Init
  BY SameSocket, SameQueue DEF Init
<1>2. UdpP!TypeInv /\ UdpP!Inv
  BY <1>1, UdpP!InitTypes, UdpP!InitInv, UdpConstants
<1>3. QueueP!Inv
  BY <1>1, QueueP!InitInv, QueueConstants
<1>4. /\ pc[Msg] = "idle" /\ ~closeAsked /\ ~closePending
  BY DEF Init, Udp!Init, Udp!Threads
<1>5. queue = << >> /\ receiver = "none"
  BY DEF Init, Queue!Init
<1>6. OwnTypes
  <2>1. /\ mainAt = "queue" /\ loopAt = "none" /\ fault = "none"
        /\ peerAddr = NULL /\ firstPeer = NULL /\ datagrams = 0
    BY DEF Init
  <2>2. stop = FALSE /\ handleSet = FALSE /\ initPeer = FALSE
    BY DEF Init
  <2>3. 0 \in 0 .. MaxDatagrams
    BY ConstantsOK DEF ConstantsOK
  <2> QED
    BY <2>1, <2>2, <2>3 DEF OwnTypes, MainPlaces, LoopPlaces
<1> QED
  BY <1>2, <1>3, <1>4, <1>5, <1>6 DEF Init, Inv, Phases, Addressed

-----------------------------------------------------------------------------
(* A step of the component is a step of its parts                          *)

LEMMA StepsOfQueue ==
  ASSUME [Next]_vars
  PROVE  [QueueP!Next]_(QueueP!vars)
<1>1. CASE UNCHANGED queueVars
  BY <1>1 DEF QueueP!vars, QueueP!kernel, QueueP!threads, QueueP!history
<1>2. CASE CreateQueue
  BY <1>2, SameQueue DEF CreateQueue, QueueP!Next
<1>3. CASE CopyData \/ SendMsg \/ SendMsgErrs
  BY <1>1, <1>3, SameQueue DEF CopyData, SendMsg, SendMsgErrs, QueueP!Next,
                               QueueP!SenderStep
<1>4. CASE Receive \/ ReceiveInterrupted \/ HandleMsg
  BY <1>4, SameQueue DEF Receive, ReceiveInterrupted, HandleMsg, QueueP!Next,
                         QueueP!ReceiverStep
<1>5. CASE StopQueue \/ RemoveQueue \/ FreeQueue
  BY <1>5, SameQueue DEF StopQueue, RemoveQueue, FreeQueue, QueueP!Next,
                         QueueP!DestroyStep
<1> QED
  BY <1>1, <1>2, <1>3, <1>4, <1>5, Zenon
  DEF Next, MainStep, LoopStep, MsgStep, vars, CreateThread, StopWaiting,
      DestroyNothing, CloseHandle, JoinLoop, LoopInitFails, RunHandle,
      AssignHandle, SetInitPeer, GetMsgId, LoopEnds, TearDown, FreeLoop,
      AsyncSendCb, OnSendCb, AsyncCloseCb, OnData, OnMsg, OnMsgSends, Signal

\* on_msg calls only for a message in hand, which the queue has no more once
\* component_uninit closes the socket.
LEMMA StepsOfSocket ==
  ASSUME Inv, [Next]_vars
  PROVE  /\ [UdpP!Next]_(UdpP!vars)
         /\ [OrderlyUdp!Next]_socketVars
<1> USE DEF Inv
<1>1. CASE UNCHANGED socketVars
  BY <1>1 DEF UdpP!vars, UdpP!shared
<1>2. CASE RunHandle \/ AsyncSendCb \/ OnSendCb \/ AsyncCloseCb
  BY <1>2, SameSocket DEF RunHandle, AsyncSendCb, OnSendCb, AsyncCloseCb,
                          UdpP!Next, OrderlyUdp!Next
<1>3. CASE OnMsgSends
  BY <1>3, SameSocket DEF OnMsgSends, UdpP!Next, OrderlyUdp!Next
<1>4. CASE OnMsg
  <2>1. Udp!Call(Msg, peerAddr, "addr") /\ peerAddr \in Peers
    BY <1>4 DEF OnMsg, Answered, Addressed
  <2>2. ~closeAsked
    BY <1>4, PartsSay DEF OnMsg, Phases
  <2>3. /\ UdpP!Call(Msg, peerAddr, "addr")
        /\ OrderlyUdp!Call(Msg, peerAddr, "addr")
    BY <2>1, <2>2, SameCall
  <2> QED
    BY <2>1, <2>3 DEF UdpP!Next, OrderlyUdp!Next
<1>5. CASE CloseHandle
  <2>1. pc[Msg] = "idle"
    BY <1>5, PartsSay DEF CloseHandle, Phases
  <2> QED
    BY <1>1, <1>5, <2>1, SameClose DEF CloseHandle, UdpP!Next, OrderlyUdp!Next
<1> QED
  BY <1>1, <1>2, <1>3, <1>4, <1>5, Zenon
  DEF Next, MainStep, LoopStep, MsgStep, vars, CreateQueue, CreateThread,
      StopWaiting, DestroyNothing, StopQueue, RemoveQueue, FreeQueue,
      JoinLoop, LoopInitFails, AssignHandle, SetInitPeer, GetMsgId, CopyData,
      SendMsg, SendMsgErrs, LoopEnds, TearDown, FreeLoop, OnData, Receive,
      ReceiveInterrupted, HandleMsg, Signal

-----------------------------------------------------------------------------
(* The component's own invariant is kept                                   *)

Own == OwnTypes /\ Phases /\ Addressed

USE DEF Own, MainPlaces, LoopPlaces

LEMMA MainOwn ==
  ASSUME Inv, MainStep \/ Signal
  PROVE  Own'
<1> USE DEF Inv
<1>1. CASE CreateQueue
  <2>1. queue' = << >> \/ queue' = queue
    BY <1>1 DEF CreateQueue, Queue!MsgQueueCreate, Queue!FreshQueue,
                Queue!MsgQueueCreateFails, Queue!kernel
  <2>2. receiver' \in {"check", receiver}
    BY <1>1 DEF CreateQueue, Queue!MsgQueueCreate, Queue!MsgQueueCreateFails,
                Queue!threads
  <2>3. pc[Msg] = "idle"
    BY <1>1, PartsSay DEF CreateQueue, Queue!MsgQueueCreate,
       Queue!MsgQueueCreateFails, Phases, QueueP!Inv, QueueP!Lifecycle,
       QueueP!Begun
  <2> QED
    BY <1>1, <2>1, <2>2, <2>3 DEF CreateQueue, OwnTypes, Phases, Addressed
<1>2. CASE CreateThread
  BY <1>2 DEF CreateThread, ThreadStarts, OwnTypes, Phases, Addressed
<1>3. CASE StopWaiting
  BY <1>3 DEF StopWaiting, OwnTypes, Phases, Addressed
<1>9. CASE Signal
  <2>1. stop' \in BOOLEAN
    BY <1>9 DEF Signal
  <2>2. UNCHANGED <<socketVars, queueVars, peerVars, mainAt, loopVars, fault>>
    BY <1>9 DEF Signal
  <2> QED
    BY <2>1, <2>2 DEF OwnTypes, Phases, Addressed
<1>4. CASE DestroyNothing \/ JoinLoop
  BY <1>4 DEF DestroyNothing, JoinLoop, OwnTypes, Phases, Addressed
<1>5. CASE StopQueue
  BY <1>5 DEF StopQueue, Queue!StopRunning, Queue!kernel, Queue!threads,
              OwnTypes, Phases, Addressed
<1>6. CASE RemoveQueue
  BY <1>6 DEF RemoveQueue, Queue!RemoveQueue, Queue!threads, OwnTypes, Phases,
              Addressed
<1>7. CASE FreeQueue
  BY <1>7 DEF FreeQueue, Queue!JoinAndFree, Queue!kernel, Queue!threads,
              OwnTypes, Phases, Addressed
<1>8. CASE CloseHandle
  BY <1>8 DEF CloseHandle, Udp!CloseFromThread, Udp!MayClose, OwnTypes,
              Phases, Addressed
<1> QED
  BY <1>1, <1>2, <1>3, <1>4, <1>5, <1>6, <1>7, <1>8, <1>9 DEF MainStep

\* The loop thread outside its callbacks.
LEMMA LoopOwn ==
  ASSUME Inv, LoopInitFails \/ RunHandle \/ AssignHandle \/ LoopEnds
              \/ TearDown \/ FreeLoop
  PROVE  Own'
<1> USE DEF Inv
<1>1. CASE RunHandle
  BY <1>1 DEF RunHandle, Udp!UdpHandleRun, OwnTypes, Phases, Addressed
<1>2. CASE AssignHandle
  <2>1. handleSet' \in BOOLEAN
    BY <1>2, Zenon DEF AssignHandle
  <2>2. /\ loopAt = "assign" /\ loopAt' = "run"
        /\ UNCHANGED <<socketVars, queueVars, peerVars, mainVars, fault>>
    BY <1>2 DEF AssignHandle
  <2> QED
    BY <2>1, <2>2 DEF OwnTypes, Phases, Addressed
<1>3. CASE LoopInitFails
  BY <1>3 DEF LoopInitFails, OwnTypes, Phases, Addressed
<1>4. CASE LoopEnds \/ TearDown \/ FreeLoop
  BY <1>4 DEF LoopEnds, TearDown, FreeLoop, OwnTypes, Phases, Addressed
<1> QED
  BY <1>1, <1>2, <1>3, <1>4

LEMMA ServeOwn ==
  ASSUME Inv, AsyncSendCb \/ OnSendCb \/ AsyncCloseCb
  PROVE  Own'
<1> USE DEF Inv
<1>1. UNCHANGED <<pc, frame, closeAsked>>
  BY DEF AsyncSendCb, OnSendCb, AsyncCloseCb, Udp!AsyncSendCb, Udp!OnSendCb,
         Udp!AsyncCloseCb
<1>2. closePending' => closePending /\ socket' = socket
  BY DEF AsyncSendCb, OnSendCb, AsyncCloseCb, Udp!AsyncSendCb, Udp!OnSendCb,
         Udp!AsyncCloseCb, Udp!CloseHandle
<1>3. UNCHANGED <<queueVars, peerVars, mainVars, loopVars, fault>>
  BY DEF AsyncSendCb, OnSendCb, AsyncCloseCb
<1>4. loopAt = "run"
  BY DEF AsyncSendCb, OnSendCb, AsyncCloseCb
<1> QED
  BY <1>1, <1>2, <1>3, <1>4 DEF OwnTypes, Phases, Addressed

LEMMA OnDataOwn ==
  ASSUME Inv,
         \/ \E p \in Peers, len \in Lengths : OnData(p, len)
         \/ SetInitPeer \/ GetMsgId \/ CopyData \/ SendMsg \/ SendMsgErrs
  PROVE  Own'
<1> USE DEF Inv
<1>1. ASSUME NEW p \in Peers, NEW len \in Lengths, OnData(p, len) PROVE Own'
  <2>1. datagrams' \in 0 .. MaxDatagrams /\ datagrams' > 0
    BY <1>1, ConstantsOK DEF OnData, OwnTypes, ConstantsOK
  <2>2. CASE initPeer
    BY <1>1, <2>1, <2>2 DEF OnData, OwnTypes, Phases, Addressed
  <2>3. CASE ~initPeer
    <3>1. datagrams = 0 /\ pc[Msg] = "idle"
      BY <1>1, <2>3 DEF OnData, OwnTypes, Phases, Addressed
    <3> QED
      BY <1>1, <2>1, <2>3, <3>1 DEF OnData, OwnTypes, Phases, Addressed
  <2> QED
    BY <2>2, <2>3
<1>2. CASE SetInitPeer
  <2>1. initPeer' \in BOOLEAN /\ initPeer'
    BY <1>2 DEF SetInitPeer
  <2>2. /\ loopAt = "flag" /\ loopAt' = "id"
        /\ UNCHANGED <<socketVars, queueVars, peerAddr, firstPeer, datagrams,
                       mainVars, handleSet, fault>>
    BY <1>2 DEF SetInitPeer
  <2> QED
    BY <2>1, <2>2 DEF OwnTypes, Phases, Addressed
<1>4. CASE GetMsgId
  BY <1>4 DEF GetMsgId, OwnTypes, Phases, Addressed
<1>3. CASE CopyData \/ SendMsg \/ SendMsgErrs
  <2>1. UNCHANGED <<queueLife, receiver>>
    BY <1>3 DEF CopyData, SendMsg, SendMsgErrs, Queue!MsgSend, Queue!Msgsnd,
                Queue!MsgsndFails, Queue!MsgsndErrs, Queue!GiveUp,
                Queue!kernel
  <2>2. /\ loopAt \in {"copy", "send"} /\ loopAt' \in {"send", "run"}
        /\ UNCHANGED <<socketVars, peerVars, mainAt, handleSet, fault>>
    BY <1>3 DEF CopyData, SendMsg, SendMsgErrs
  <2>7. stop' \in BOOLEAN
    BY <1>3 DEF CopyData, SendMsg, SendMsgErrs, OwnTypes
  <2>3. initPeer
    BY <2>2 DEF Addressed
  <2>4. OwnTypes'
    BY <2>2, <2>7 DEF OwnTypes
  <2>5. Phases'
    BY <2>1, <2>2 DEF Phases
  <2>6. Addressed'
    BY <2>1, <2>2, <2>3 DEF Addressed
  <2> QED
    BY <2>4, <2>5, <2>6
<1> QED
  BY <1>1, <1>2, <1>3, <1>4

LEMMA MsgOwn ==
  ASSUME Inv, MsgStep \/ ReceiveInterrupted
  PROVE  Own'
<1> USE DEF Inv
<1>1. CASE Receive
  <2>1. queueLife' = queueLife
    BY <1>1 DEF Receive, Queue!CheckRunning, Queue!Msgrcv, Queue!MsgrcvFails
  <2>2. receiver # "handle"
    BY <1>1 DEF Receive, Queue!CheckRunning, Queue!Msgrcv, Queue!MsgrcvFails,
                Queue!ReceiverGoto
  <2>3. receiver' = "handle" => initPeer
    BY <1>1 DEF Receive, Queue!CheckRunning, Queue!Msgrcv, Queue!MsgrcvFails,
                Queue!ReceiverGoto, Addressed
  <2>4. queue' # << >> => initPeer
    BY <1>1 DEF Receive, Queue!CheckRunning, Queue!Msgrcv, Queue!MsgrcvFails,
                Queue!kernel, Addressed
  <2> QED
    BY <1>1, <2>1, <2>2, <2>3, <2>4 DEF Receive, OwnTypes, Phases, Addressed
<1>2. CASE OnMsg
  <2>1. /\ pc' = [pc EXCEPT ![Msg] = "lock"]
        /\ frame' = [frame EXCEPT ![Msg] =
                       [n |-> @.n + 1, to |-> peerAddr, ptr |-> Msg]]
        /\ UNCHANGED <<socket, closeAsked, closePending>>
    BY <1>2 DEF OnMsg, Udp!Call, Udp!Goto, Udp!Enter
  <2>2. frame'[Msg].to = firstPeer /\ receiver = "handle"
    BY <1>2, <2>1, PartsSay DEF OnMsg, Addressed
  <2> QED
    BY <1>2, <2>1, <2>2 DEF OnMsg, OwnTypes, Phases, Addressed
<1>3. CASE OnMsgSends
  <2>1. pc[Msg] # "idle"
    BY <1>3 DEF OnMsgSends, Udp!SenderStep, Udp!Lock, Udp!SetFlag, Udp!SetBuf,
                Udp!SetAddr, Udp!Wake, Udp!Wait, Udp!Unlock, Udp!Goto
  <2>2. UNCHANGED <<socket, closeAsked, closePending, frame>>
    BY <1>3 DEF OnMsgSends, Udp!SenderStep, Udp!Lock, Udp!SetFlag, Udp!SetBuf,
                Udp!SetAddr, Udp!Wake, Udp!Wait, Udp!Unlock, Udp!WaitLeaves
  <2> QED
    BY <1>3, <2>1, <2>2 DEF OnMsgSends, OwnTypes, Phases, Addressed
<1>4. CASE HandleMsg
  <2>1. pc[Msg] = "idle"
    BY <1>4 DEF HandleMsg, Udp!InCall
  <2>2. receiver' = "check" /\ UNCHANGED <<queueLife, queue>>
    BY <1>4 DEF HandleMsg, Queue!HandleMsg, Queue!ReceiverGoto, Queue!kernel
  <2> QED
    BY <1>4, <2>1, <2>2 DEF HandleMsg, OwnTypes, Phases, Addressed
<1>5. CASE ReceiveInterrupted
  <2>1. /\ receiver # "handle" /\ receiver' # "handle"
        /\ UNCHANGED <<queueLife, queue>>
    BY <1>5 DEF ReceiveInterrupted, Queue!MsgrcvInterrupted,
                Queue!ReceiverGoto, Queue!kernel
  <2>2. /\ UNCHANGED <<socketVars, peerVars, mainAt, loopVars, fault>>
        /\ stop' \in BOOLEAN
    BY <1>5 DEF ReceiveInterrupted
  <2> QED
    BY <2>1, <2>2 DEF OwnTypes, Phases, Addressed
<1> QED
  BY <1>1, <1>2, <1>3, <1>4, <1>5 DEF MsgStep

LEMMA NextInv ==
  ASSUME Inv, [Next]_vars
  PROVE  Inv'
<1>1. QueueP!Inv'
  BY StepsOfQueue, QueueKeepsInv DEF Inv
<1>2. UdpP!TypeInv' /\ UdpP!Inv'
  BY StepsOfSocket, SocketKeepsInv DEF Inv
<1>3. Own'
  <2>1. CASE UNCHANGED vars
    BY <2>1 DEF vars, Inv, OwnTypes, Phases, Addressed
  <2> QED
    BY <2>1, MainOwn, LoopOwn, ServeOwn, OnDataOwn, MsgOwn DEF Next, LoopStep
<1> QED
  BY <1>1, <1>2, <1>3 DEF Inv

\* The invariants of the socket, of the queue and of the component hold in
\* every state the program can reach.
THEOREM ComponentInvariant == Spec => []Inv
<1> QED
  BY InitInv, NextInv, PTL DEF Spec

-----------------------------------------------------------------------------
(* What follows                                                            *)

\* Every variable of the component, of its socket and of its queue has its
\* type, always.
THEOREM ComponentTypesHold == Spec => []TypeOK
<1>1. ASSUME Inv PROVE TypeOK
  <2>1. Udp!TypeOK
    BY <1>1 DEF Inv, UdpP!TypeInv, UdpP!TypeOK, Udp!TypeOK, UdpP!Lives,
                Udp!Lives, UdpP!Faults, Udp!Faults, UdpP!Outcomes,
                Udp!Outcomes, UdpP!Frames, Udp!Frames, UdpP!Requests,
                Udp!Requests, UdpP!Threads, Udp!Threads, UdpP!Critical,
                Udp!Critical
  <2>2. Queue!TypeOK
    BY <1>1 DEF Inv, QueueP!Inv, QueueP!TypeOK, Queue!TypeOK,
                QueueP!Messages, Queue!Messages
  <2> QED
    BY <1>1, <2>1, <2>2 DEF Inv, OwnTypes, TypeOK
<1> QED
  BY <1>1, ComponentInvariant, PTL

\* on_msg answers the peer that was the first to send, and nobody else, though
\* its address passes from the loop thread to the message thread without a
\* lock: what comes first through the queue comes after the address.
THEOREM AnswersAlwaysGoToFirstPeer == Spec => []AnswersGoToFirstPeer
<1>1. ASSUME Inv PROVE AnswersGoToFirstPeer
  <2> USE <1>1 DEF Inv
  <2>1. receiver = "handle" => initPeer
    BY DEF Addressed
  <2>2. Udp!InCall(Msg) => frame[Msg].to = firstPeer
    BY DEF Addressed, Udp!InCall
  <2>3. ASSUME NEW i \in DOMAIN reqs PROVE reqs[i].to = firstPeer
    <3>1. reqs # << >>
      BY <2>3
    <3>2. mutex = Msg /\ pc[Msg] = "wait" /\ UdpP!Owns(Msg)
      BY <3>1, UdpP!LoopServesOwner, UdpConstants
      DEF UdpP!TypeInv, UdpP!Inv, UdpP!Nothing
    <3>3. UdpP!OwnRequestOnly(Msg)
      BY <3>1, <3>2 DEF UdpP!Owns, UdpP!Waiting, UdpP!Nothing
    <3>4. Len(reqs) = 1 /\ reqs[1].to = frame[Msg].to
      BY <3>3, UdpConstants DEF UdpP!OwnRequestOnly
    <3>5. i = 1
      BY <2>3, <3>4 DEF UdpP!TypeInv, UdpP!TypeOK
    <3> QED
      BY <3>2, <3>4, <3>5 DEF Addressed
  <2> QED
    BY <2>1, <2>2, <2>3 DEF AnswersGoToFirstPeer
<1> QED
  BY <1>1, ComponentInvariant, PTL

\* component_uninit takes nothing away from under a thread that uses it: not
\* the queue, not the socket and not the loop.
THEOREM PartsAlwaysOutliveTheirUsers == Spec => []PartsOutliveTheirUsers
<1>1. ASSUME Inv PROVE PartsOutliveTheirUsers
  <2>1. ASSUME loopAt \in {"teardown", "free", "ended"}
        PROVE  /\ socket = "failed" \/ mainAt \in {"join", "ended"}
               /\ pc[Msg] = "idle"
               /\ ~sendPending /\ ~closePending
    BY <1>1, <2>1, PartsSay DEF Inv, Phases
  <2> QED
    BY <1>1, <2>1, PartsSay DEF PartsOutliveTheirUsers, Udp!InCall
<1> QED
  BY <1>1, ComponentInvariant, PTL

\* The component keeps to the discipline that the theorems about UdpSocket ask
\* of a user: it closes the socket when on_msg has returned for the last time.
THEOREM SocketIsUsedInOrder == Spec => UsesSocketInOrder
<1>1. Init => OrderlyUdp!Init
  BY SameSocket DEF Init
<1>2. Inv /\ [Next]_vars => [OrderlyUdp!Next]_socketVars
  BY StepsOfSocket
<1> QED
  BY <1>1, <1>2, ComponentInvariant, PTL DEF Spec, UsesSocketInOrder

\* The queue's kernel holds no more than its capacity here either.
LEMMA QueueIsBounded == Spec => []QueueP!Bounded
<1>1. Init => QueueP!Bounded
  BY SameQueue, QueueP!InitBounded, QueueConstants DEF Init
<1>2. Inv /\ QueueP!Bounded /\ [Next]_vars => QueueP!Bounded'
  BY StepsOfQueue, QueueP!NextBounded, QueueConstants DEF Inv
<1> QED
  BY <1>1, <1>2, ComponentInvariant, PTL DEF Spec

\* What the queue promises is the same, read through either instance.
LEMMA SameChannel ==
  /\ QueueP!Channel!Init => Queue!Channel!Init
  /\ [QueueP!Channel!Next]_(QueueP!Channel!vars) =>
       [Queue!Channel!Next]_(Queue!Channel!vars)
<1>1. /\ Queue!Messages = QueueP!Messages
      /\ Queue!Contents = QueueP!Contents
      /\ Queue!Contents' = QueueP!Contents'
  BY DEF Queue!Messages, QueueP!Messages, Queue!Contents, QueueP!Contents,
         Queue!InHand, QueueP!InHand
<1>2. QueueP!Channel!Init => Queue!Channel!Init
  BY <1>1 DEF QueueP!Channel!Init, Queue!Channel!Init
<1>3. QueueP!Channel!Next => Queue!Channel!Next
  BY <1>1 DEF QueueP!Channel!Next, Queue!Channel!Next, QueueP!Channel!Take,
     Queue!Channel!Take, QueueP!Channel!Deliver, Queue!Channel!Deliver,
     QueueP!Channel!Empty, Queue!Channel!Empty, QueueP!Channel!EmptyButFirst,
     Queue!Channel!EmptyButFirst
<1>4. UNCHANGED QueueP!Channel!vars => UNCHANGED Queue!Channel!vars
  BY <1>1 DEF QueueP!Channel!vars, Queue!Channel!vars
<1> QED
  BY <1>2, <1>3, <1>4

\* A datagram that on_data has handed to msg_send reaches on_msg once, and in
\* the order in which the queue has taken it, whatever blocks meanwhile.
THEOREM DatagramsPassInOrder == Spec => Queue!ImplementsFifoChannel
<1>1. Init => Queue!Channel!Init
  BY SameQueue, SameChannel, QueueP!InitImplements, QueueConstants DEF Init
<1>2. Inv /\ QueueP!Bounded /\ [Next]_vars =>
        [Queue!Channel!Next]_(Queue!Channel!vars)
  BY StepsOfQueue, SameChannel, QueueP!StepImplements, QueueConstants DEF Inv
<1> QED
  BY <1>1, <1>2, ComponentInvariant, QueueIsBounded, PTL
  DEF Spec, Queue!ImplementsFifoChannel, Queue!Channel!Spec

LEMMA SameService ==
  /\ UdpP!Service!Init => Udp!Service!Init
  /\ [UdpP!Service!Next]_(UdpP!Service!vars) =>
       [Udp!Service!Next]_(Udp!Service!vars)
<1> USE DEF Udp!StatusOf, UdpP!StatusOf, Udp!PayloadOf, UdpP!PayloadOf,
            Udp!Envelope, UdpP!Envelope, Udp!InCall, UdpP!InCall,
            Udp!Service!Letter, UdpP!Service!Letter, Udp!Service!Move,
            UdpP!Service!Move
<1>1. UdpP!Service!Init => Udp!Service!Init
  BY DEF UdpP!Service!Init, Udp!Service!Init
<1>2. UdpP!Service!Next => Udp!Service!Next
  BY DEF UdpP!Service!Next, Udp!Service!Next, UdpP!Service!Ask,
     Udp!Service!Ask, UdpP!Service!Carry, Udp!Service!Carry,
     UdpP!Service!Report, Udp!Service!Report, UdpP!Service!GiveUp,
     Udp!Service!GiveUp, UdpP!Service!Refuse, Udp!Service!Refuse,
     UdpP!Service!Return, Udp!Service!Return
<1>3. UNCHANGED UdpP!Service!vars => UNCHANGED Udp!Service!vars
  BY DEF UdpP!Service!vars, Udp!Service!vars
<1> QED
  BY <1>1, <1>2, <1>3

\* Every answer of on_msg is a blocking send, although udp_handle_close may
\* come at any time.
THEOREM AnswersAreBlockingSends == Spec => Udp!ImplementsSendService
<1>1. Init => Udp!Service!Init
  BY SameSocket, SameService, UdpP!InitImplements, UdpConstants DEF Init
<1>2. Inv /\ [Next]_vars => [Udp!Service!Next]_(Udp!Service!vars)
  BY StepsOfSocket, SameService, UdpP!StepImplements, UdpConstants DEF Inv
<1> QED
  BY <1>1, <1>2, ComponentInvariant, PTL
  DEF Spec, Udp!ImplementsSendService, Udp!Service!Spec

\* The component uses its parts so that they keep what they promise.
THEOREM PartsAlwaysKeepTheirPromises == Spec => PartsKeepTheirPromises
BY SocketIsUsedInOrder, DatagramsPassInOrder, AnswersAreBlockingSends
DEF PartsKeepTheirPromises

\* Once on_data waits for room in the queue and on_msg for the loop thread,
\* no answer and no room ends it, whatever the other threads, libuv and the
\* peers do: msg_queue_destroy removes the queue, or on_data's datagram is
\* dropped.
THEOREM JamsEndInLoss == Spec => JamEndsInLoss
<1>1. ASSUME Inv, [Next]_vars, Jammed, Sound
      PROVE  Jammed' \/ ~exists' \/ DatagramIsLost
  <2> USE <1>1 DEF Jammed
  <2>1. receiver = "handle" /\ queueLife # "none"
    BY DEF Inv, Phases, QueueP!Inv, QueueP!Lifecycle, QueueP!Begun
  <2>2. CASE RemoveQueue
    BY <2>2 DEF RemoveQueue, Queue!RemoveQueue
  <2>3. CASE (MainStep \/ Signal) /\ ~RemoveQueue
    <3>1. UNCHANGED <<loopAt, exists, queue, pc, sem>>
      BY <2>1, <2>3
      DEF MainStep, Signal, CreateQueue, CreateThread, StopWaiting,
          DestroyNothing, StopQueue, FreeQueue, CloseHandle, JoinLoop,
          Queue!MsgQueueCreate, Queue!MsgQueueCreateFails,
          Queue!StopRunning, Queue!JoinAndFree, Queue!kernel,
          Udp!CloseFromThread, Udp!shared, Inv, Phases
    <3> QED
      BY <3>1
  <2>4. CASE SendMsgErrs
    <3>1. Queue!GiveUp(Loop)
      BY <2>4 DEF SendMsgErrs, Queue!MsgsndErrs
    <3>2. Queue!Buf(Loop) \notin taken
      <4>1. QueueP!Sending \cap taken = {}
        BY QueueP!SendingIsNotTaken, QueueConstants DEF Inv, QueueP!Inv
      <4>2. Queue!Buf(Loop) \in QueueP!Sending
        BY <3>1 DEF Queue!GiveUp, Queue!SenderGoto, QueueP!Sending,
                    QueueP!Buf, QueueP!BufOf, Queue!Buf, Queue!BufOf
      <4> QED
        BY <4>1, <4>2
    <3> QED
      BY <3>1, <3>2 DEF DatagramIsLost, Queue!GiveUp, Queue!Free,
                        Queue!history
  <2>5. ~LoopStep
    <3>1. ~(Len(queue) < Capacity)
      BY ConstantsOK DEF ConstantsOK
    <3>2. ~SendMsg
      BY <3>1, Zenon DEF SendMsg, Queue!Msgsnd, Queue!MsgsndFails
    <3> QED
      BY <3>2 DEF LoopStep, LoopInitFails, RunHandle, AssignHandle,
                  SetInitPeer, GetMsgId, CopyData, LoopEnds, TearDown,
                  FreeLoop, LoopGoto
  <2>6. ~(AsyncSendCb \/ OnSendCb \/ AsyncCloseCb)
    BY DEF AsyncSendCb, OnSendCb, AsyncCloseCb, LoopGoto
  <2>7. ASSUME NEW p \in Peers, NEW len \in Lengths PROVE ~OnData(p, len)
    BY DEF OnData, LoopGoto
  <2>8. CASE MsgStep \/ ReceiveInterrupted
    BY <2>1, <2>8
    DEF MsgStep, Receive, ReceiveInterrupted, OnMsg, OnMsgSends, HandleMsg,
        Queue!CheckRunning, Queue!Msgrcv, Queue!MsgrcvFails,
        Queue!MsgrcvInterrupted, Queue!ReceiverGoto, Udp!Call,
        Udp!SenderStep, Udp!Lock, Udp!SetFlag, Udp!SetBuf, Udp!SetAddr,
        Udp!Wake, Udp!Wait, Udp!Unlock, Udp!Goto, Udp!InCall
  <2>9. CASE UNCHANGED vars
    BY <2>9 DEF vars
  <2> QED
    BY <2>2, <2>3, <2>4, <2>5, <2>6, <2>7, <2>8, <2>9 DEF Next
<1>2. Inv /\ [Next]_vars =>
        [Jammed /\ Sound => Jammed' \/ ~exists' \/ DatagramIsLost]_vars
  BY <1>1
<1> QED
  BY <1>2, ComponentInvariant, PTL DEF Spec, JamEndsInLoss

=============================================================================
