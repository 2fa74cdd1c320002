-------------------------- MODULE UdpSocketProofs --------------------------
(***************************************************************************)
(* Proofs about UdpSocket, for any number of senders, calls and addresses. *)
(*                                                                         *)
(* The type invariant holds however the handle is used.  The rest needs    *)
(* the discipline under which the fields of the handle have one user at a  *)
(* time.                                                                   *)
(***************************************************************************)
EXTENDS UdpSocket, TLAPS

\* Only foreign threads send, and the handle is closed after they are done.
Discipline ==
  /\ MaxLoopSends = 0
  /\ CloseWhenIdle

\* They name the address in memory of their own.
Direct == Entries \subseteq {"addr"}

-----------------------------------------------------------------------------
(* Types                                                                   *)

\* Before a request is built, a buffer and an address have been published.
Published ==
  /\ sendPending => data1 # NULL /\ data2 # NULL
  /\ \A t \in Threads :
       /\ pc[t] \in {"addr", "wake", "submit"} => data1 # NULL
       /\ pc[t] \in {"wake", "submit"} => data2 # NULL

\* Behind a published pointer, or one that a call will publish, there is an
\* address.
Addressed ==
  /\ data2 = SharedAddr => sendAddr # NULL
  /\ data2 \in Threads => frame[data2].to # NULL
  /\ \A t \in Threads :
       /\ frame[t].ptr \in {t, SharedAddr}
       /\ pc[t] # "idle" =>
            /\ frame[t].to # NULL
            /\ frame[t].ptr = SharedAddr => sendAddr # NULL

TypeInv == TypeOK /\ Published /\ Addressed

-----------------------------------------------------------------------------
(* The protocol between the owner of the mutex and the loop                *)

\* The loop has nothing of the handle's to do, and no token is left.
Nothing == ~sendPending /\ reqs = << >> /\ sem = 0

OwnRequest(s, a) == [from |-> s, n |-> frame[s].n, to |-> a]

\* All that libuv holds is the datagram of s: to the address s has asked for,
\* unless it was taken from send_addr.
OwnRequestOnly(s) ==
  /\ reqs = << OwnRequest(s, reqs[1].to) >>
  /\ Direct => reqs[1].to = frame[s].to

\* s waits: the loop has been signalled, or the request is in libuv's hands,
\* or was refused, or the token is there.
Waiting(s) ==
  \/ /\ sendPending
     /\ reqs = << >>
     /\ sem = 0
     /\ outcome[s] = "none"
  \/ /\ ~sendPending
     /\ OwnRequestOnly(s)
     /\ sem = 0
     /\ outcome[s] = "carried"
  \/ Nothing /\ outcome[s] = "refused"
  \/ /\ ~sendPending
     /\ reqs = << >>
     /\ sem = 1
     /\ outcome[s] = "reported"

\* How far s has got with the fields while it owns the mutex.
Owns(s) ==
  /\ pc[s] \in {"flag", "buf", "addr", "wake"} => Nothing /\ outcome[s] = "none"
  /\ pc[s] \in {"buf", "addr", "wake", "wait"} => asyncSendFlag
  /\ pc[s] \in {"addr", "wake", "wait"} => data1 = s
  /\ pc[s] \in {"wake", "wait"} => data2 = frame[s].ptr
  /\ pc[s] = "wait" => Waiting(s)
  /\ pc[s] = "unlock" => Nothing /\ outcome[s] = "reported"

Protocol ==
  /\ \A s \in Senders :
       /\ pc[s] \in Critical <=> mutex = s
       /\ pc[s] # "submit"
       /\ pc[s] = "lock" => outcome[s] = "none"
       /\ pc[s] = "idle" => outcome[s] # "refused"
       /\ mutex = s => Owns(s)
       /\ Direct => frame[s].ptr = s
       /\ frame[s].n <= MaxCalls
  /\ mutex = NULL => Nothing
  /\ pc[Loop] = "idle"

Closing ==
  /\ closeAsked => Quiet
  /\ closePending => closeAsked
  /\ life = "freed" => closeAsked
  /\ life \notin {"open", "freed"} => Quiet

Inv == NoFault /\ Protocol /\ Closing

USE DEF Goto, LoopIdle, Touch, shared, WaitLeaves

-----------------------------------------------------------------------------
(* The type invariant                                                      *)

LEMMA InitTypes == Init => TypeInv
<1> USE ConstantsOK DEF TypeOK
<1> SUFFICES ASSUME Init PROVE TypeInv
  OBVIOUS
<1>1. frame \in [Threads -> Frames]
  BY DEF Init, Frames
<1>2. Published
  BY DEF Init, Published
<1>7. Addressed
  BY DEF Init, Addressed, Threads
<1>3. reqs \in Seq(Requests)
  BY DEF Init
<1>4. pc \in [Threads -> {"idle", "lock", "submit"} \cup Critical]
  BY DEF Init
<1>5. outcome \in [Threads -> Outcomes]
  BY DEF Init, Outcomes
<1>6. life \in Lives /\ fault \in Faults
  BY DEF Init, Lives, Faults
<1> QED
  BY <1>1, <1>2, <1>3, <1>4, <1>5, <1>6, <1>7 DEF Init, TypeInv

\* What send_data leaves in the fields it writes, once a buffer and an address
\* have been published.
LEMMA SendDataTypes ==
  ASSUME TypeOK, Addressed, data1 # NULL, data2 # NULL, SendData
  PROVE  /\ sem' \in Nat
         /\ reqs' \in Seq(Requests)
         /\ outcome' \in [Threads -> Outcomes]
         /\ fault' \in Faults
<1> USE ConstantsOK DEF TypeOK
<1>1. data1 \in Threads /\ data2 \in Threads \cup {SharedAddr}
  OBVIOUS
<1>2. Request \in Requests
  BY <1>1 DEF Request, Requests, Target, Frames, Addressed
<1>3. PostIfAsync \in Nat
  BY DEF PostIfAsync
<1>4. Append(reqs, Request) \in Seq(Requests)
  BY <1>2
<1>5. CASE SendDataNoMemory
  BY <1>1, <1>3, <1>5 DEF SendDataNoMemory, Outcomes
<1>6. CASE SendDataSubmit
  BY <1>1, <1>4, <1>6 DEF SendDataSubmit, Outcomes, Faults
<1> QED
  BY <1>5, <1>6 DEF SendData

\* What a call puts into the caller's frame.
LEMMA EnterTypes ==
  ASSUME TypeOK, NEW t \in Threads, NEW a \in Addrs, NEW e \in Entries,
         Enter(t, a, e)
  PROVE  /\ frame' \in [Threads -> Frames]
         /\ sendAddr' \in Addrs \cup {NULL}
         /\ outcome' \in [Threads -> Outcomes]
<1> USE ConstantsOK DEF TypeOK
<1> DEFINE ptr == IF e = "ip" THEN SharedAddr ELSE t
<1>1. [n |-> frame[t].n + 1, to |-> a, ptr |-> ptr] \in Frames
  BY DEF Frames
<1>2. frame' \in [Threads -> Frames]
  BY <1>1 DEF Enter
<1> QED
  BY <1>2 DEF Enter, Outcomes

LEMMA NextTyped == TypeInv /\ [Next]_vars => TypeOK' /\ Published'
<1> SUFFICES ASSUME TypeInv, [Next]_vars PROVE TypeOK' /\ Published'
  OBVIOUS
<1> USE ConstantsOK DEF TypeInv, TypeOK, Published, Critical, Faults,
                        Lives, Threads
<1>1. CASE UdpHandleRun
  BY <1>1 DEF UdpHandleRun
<1>2. ASSUME NEW s \in Senders, NEW a \in Addrs, NEW e \in Entries,
             Call(s, a, e)
      PROVE  TypeOK' /\ Published'
  BY <1>2, EnterTypes DEF Call
<1>3. ASSUME NEW s \in Senders, SenderStep(s) PROVE TypeOK' /\ Published'
  <2>1. CASE Lock(s)
    BY <2>1 DEF Lock
  <2>2. CASE SetFlag(s)
    BY <2>2 DEF SetFlag
  <2>3. CASE SetBuf(s)
    BY <2>3 DEF SetBuf
  <2>4. CASE SetAddr(s)
    <3>1. data2' \in Threads \cup {SharedAddr}
      BY <2>4 DEF SetAddr, Frames
    <3> QED
      BY <2>4, <3>1 DEF SetAddr
  <2>5. CASE Wake(s)
    BY <2>5 DEF Wake
  <2>6. CASE Wait(s)
    BY <2>6 DEF Wait
  <2>7. CASE Unlock(s)
    BY <2>7 DEF Unlock
  <2> QED
    BY <1>3, <2>1, <2>2, <2>3, <2>4, <2>5, <2>6, <2>7 DEF SenderStep
<1>4. CASE AsyncSendCb
  BY <1>4, SendDataTypes DEF AsyncSendCb
<1>5. CASE OnSendCb
  <2>1. Head(reqs) \in Requests /\ reqs' \in Seq(Requests)
    BY <1>5 DEF OnSendCb
  <2>2. outcome' \in [Threads -> Outcomes]
    BY <1>5 DEF OnSendCb, Outcomes
  <2>3. sem' \in Nat
    BY <1>5 DEF OnSendCb, PostIfAsync
  <2> QED
    BY <1>5, <2>1, <2>2, <2>3 DEF OnSendCb
<1>6. ASSUME NEW a \in Addrs, NEW e \in Entries, LoopCall(a, e)
      PROVE  TypeOK' /\ Published'
  BY <1>6, EnterTypes DEF LoopCall
<1>7. CASE LoopSendStep
  <2>1. CASE LoopSetFlag
    BY <2>1 DEF LoopSetFlag
  <2>2. CASE LoopSetBuf
    BY <2>2 DEF LoopSetBuf
  <2>3. CASE LoopSetAddr
    <3>1. data2' \in Threads \cup {SharedAddr}
      BY <2>3 DEF LoopSetAddr, Frames
    <3> QED
      BY <2>3, <3>1 DEF LoopSetAddr
  <2>4. CASE LoopSubmit
    BY <2>4, SendDataTypes DEF LoopSubmit
  <2> QED
    BY <1>7, <2>1, <2>2, <2>3, <2>4 DEF LoopSendStep
<1>8. CASE CloseFromThread
  BY <1>8 DEF CloseFromThread
<1>9. CASE CloseFromLoop
  BY <1>9 DEF CloseFromLoop, CloseHandle
<1>10. CASE AsyncCloseCb
  BY <1>10 DEF AsyncCloseCb, CloseHandle
<1>11. CASE Finished \/ UNCHANGED vars
  BY <1>11 DEF Finished, vars
<1> QED
  BY <1>1, <1>2, <1>3, <1>4, <1>5, <1>6, <1>7, <1>8, <1>9, <1>10, <1>11
  DEF Next

\* A call brings its address along, and only calls change addresses.
LEMMA NextAddressed == TypeInv /\ [Next]_vars => Addressed'
<1> SUFFICES ASSUME TypeInv, [Next]_vars PROVE Addressed'
  OBVIOUS
<1> USE ConstantsOK DEF TypeInv, TypeOK, Threads
<1>1. ASSUME NEW t \in Threads, NEW a \in Addrs, NEW e \in Entries,
             Enter(t, a, e), UNCHANGED data2,
             pc' = [pc EXCEPT ![t] = pc'[t]]
      PROVE  Addressed'
  <2> DEFINE ptr == IF e = "ip" THEN SharedAddr ELSE t
  <2>1. \A u \in Threads :
          frame'[u] = IF u = t THEN [n |-> frame[t].n + 1, to |-> a, ptr |-> ptr]
                               ELSE frame[u]
    BY <1>1 DEF Enter
  <2>2. /\ sendAddr' = IF e = "ip" THEN a ELSE sendAddr
        /\ \A u \in Threads \ {t} : pc'[u] = pc[u]
    BY <1>1 DEF Enter
  <2> QED
    BY <1>1, <2>1, <2>2 DEF Addressed
<1>2. ASSUME NEW s \in Senders, NEW a \in Addrs, NEW e \in Entries,
             Call(s, a, e)
      PROVE  Addressed'
  BY <1>1, <1>2 DEF Call
<1>3. ASSUME NEW a \in Addrs, NEW e \in Entries, LoopCall(a, e)
      PROVE  Addressed'
  BY <1>1, <1>3 DEF LoopCall
<1>4. ASSUME NEW t \in Threads, data2' = frame[t].ptr, pc[t] # "idle",
             UNCHANGED <<sendAddr, frame>>, pc' = [pc EXCEPT ![t] = pc'[t]]
      PROVE  Addressed'
  BY <1>4 DEF Addressed
<1>5. ASSUME UNCHANGED <<data2, sendAddr, frame>>,
             \A t \in Threads : pc'[t] # "idle" => pc[t] # "idle"
      PROVE  Addressed'
  BY <1>5 DEF Addressed
<1>6. ASSUME NEW s \in Senders, SenderStep(s) PROVE Addressed'
  BY <1>4, <1>5, <1>6
  DEF SenderStep, Lock, SetFlag, SetBuf, SetAddr, Wake, Wait, Unlock
<1>7. CASE LoopSendStep
  BY <1>4, <1>5, <1>7
  DEF LoopSendStep, LoopSetFlag, LoopSetBuf, LoopSetAddr, LoopSubmit
<1>8. CASE \/ UdpHandleRun \/ AsyncSendCb \/ OnSendCb \/ CloseFromThread
           \/ CloseFromLoop \/ AsyncCloseCb \/ Finished \/ UNCHANGED vars
  BY <1>5, <1>8
  DEF UdpHandleRun, AsyncSendCb, OnSendCb, CloseFromThread, CloseFromLoop,
      AsyncCloseCb, Finished, vars
<1> QED
  BY <1>2, <1>3, <1>6, <1>7, <1>8 DEF Next

LEMMA NextTypes == TypeInv /\ [Next]_vars => TypeInv'
BY NextTyped, NextAddressed DEF TypeInv

\* Every variable keeps its type, however the handle is used: with sends on
\* the loop thread, closes that race with senders, and faults.
THEOREM TypeCorrect == Spec => []TypeOK
<1>1. Spec => []TypeInv
  BY InitTypes, NextTypes, PTL DEF Spec
<1> QED
  BY <1>1, PTL DEF TypeInv

-----------------------------------------------------------------------------
(* The discipline keeps the protocol                                       *)

LEMMA InitInv == Discipline /\ Init => Inv
  BY ConstantsOK
  DEF Discipline, Init, Inv, NoFault, Protocol, Closing, Nothing, Quiet,
      InCall, Critical, Threads

\* Nobody is inside the mutex when nobody is inside a call.
LEMMA QuietIsUnlocked ==
  ASSUME TypeOK, Protocol, Quiet
  PROVE  mutex = NULL /\ Nothing
<1>1. mutex \notin Senders
  BY DEF Protocol, Quiet, InCall, Critical
<1> QED
  BY <1>1 DEF TypeOK, Protocol

\* Whatever the loop finds to do is for the sender that owns the mutex.
LEMMA LoopServesOwner ==
  ASSUME TypeOK, Protocol, ~Nothing
  PROVE  mutex \in Senders /\ pc[mutex] = "wait" /\ Owns(mutex)
<1>1. mutex \in Senders /\ pc[mutex] \in Critical /\ Owns(mutex)
  BY DEF TypeOK, Protocol
<1> QED
  BY <1>1 DEF Owns, Critical

\* A step of a sender inside a call.
LEMMA SenderStepInv ==
  ASSUME Discipline, TypeInv, TypeInv', Inv, NEW s \in Senders, SenderStep(s)
  PROVE  Inv'
<1> USE ConstantsOK DEF Inv, NoFault, Protocol, Closing, Quiet, InCall,
                        Critical, Threads
<1>1. CASE Lock(s)
  <2>1. life # "freed"
    BY <1>1 DEF Lock
  <2>2. Nothing' /\ outcome'[s] = "none"
    BY <1>1 DEF Lock, Nothing
  <2> QED
    BY <1>1, <2>1, <2>2 DEF Lock, Owns, TypeInv, TypeOK
<1>2. CASE SetFlag(s)
  BY <1>2 DEF SetFlag, Owns, Nothing, TypeInv, TypeOK
<1>3. CASE SetBuf(s)
  BY <1>3 DEF SetBuf, Owns, Nothing, TypeInv, TypeOK
<1>4. CASE SetAddr(s)
  BY <1>4 DEF SetAddr, Owns, Nothing, TypeInv, TypeOK
<1>5. CASE Wake(s)
  BY <1>5 DEF Wake, Owns, Nothing, Waiting, TypeInv, TypeOK
<1>6. CASE Wait(s)
  BY <1>6 DEF Wait, Owns, Nothing, Waiting, TypeInv, TypeOK
<1>7. CASE Unlock(s)
  BY <1>7 DEF Unlock, Owns, Nothing, TypeInv, TypeOK
<1> QED
  BY <1>1, <1>2, <1>3, <1>4, <1>5, <1>6, <1>7 DEF SenderStep

\* What send_data makes of the published buffer and address.
LEMMA PublishedRequest ==
  ASSUME TypeOK, NEW s \in Senders, data1 = s, data2 = frame[s].ptr,
         Direct => frame[s].ptr = s
  PROVE  /\ Request = OwnRequest(s, Target)
         /\ Direct => Target = frame[s].to
<1> USE ConstantsOK DEF TypeOK, Threads, Frames
<1>1. Direct => Target = frame[s].to
  BY DEF Target
<1>2. Request = OwnRequest(s, Target)
  BY DEF Request, OwnRequest
<1> QED
  BY <1>1, <1>2

\* A callback that serves the sender in the mutex.
LEMMA ServeInv ==
  ASSUME Discipline, TypeInv, TypeInv', Inv, AsyncSendCb \/ OnSendCb
  PROVE  Inv'
<1> USE ConstantsOK DEF Inv, NoFault
<1>1. ~Nothing
  BY DEF AsyncSendCb, OnSendCb, Nothing
<1>2. PICK s \in Senders : mutex = s /\ pc[s] = "wait" /\ Owns(s)
  BY <1>1, LoopServesOwner DEF TypeInv
<1>3. /\ data1 = s /\ data2 = frame[s].ptr
      /\ asyncSendFlag /\ Waiting(s)
  BY <1>2 DEF Owns
<1>4. life = "open" /\ ~closeAsked
  BY <1>2 DEF Closing, Quiet, InCall
<1>5. UNCHANGED <<life, mutex, asyncSendFlag, data1, data2, closePending, pc,
                  frame, closeAsked>>
  BY DEF AsyncSendCb, OnSendCb
<1>6. fault' = "none" /\ Waiting(s)'
  <2>1. CASE AsyncSendCb
    <3>1. outcome[s] = "none" /\ reqs = << >> /\ sem = 0
      BY <2>1, <1>3 DEF AsyncSendCb, Waiting, Nothing
    <3>2. s # SharedAddr /\ s \in Threads
      BY <1>2 DEF Threads
    <3>3. /\ Request = OwnRequest(s, Target)
          /\ Direct => Target = frame[s].to
      BY <1>2, <1>3, PublishedRequest DEF TypeInv, Protocol
    <3>4. ~sendPending'
      BY <2>1 DEF AsyncSendCb
    <3>5. CASE SendDataNoMemory
      BY <3>1, <3>2, <3>4, <3>5, <2>1, <1>3, <1>5
      DEF SendDataNoMemory, PostIfAsync, Waiting, AsyncSendCb, TypeInv, TypeOK
    <3>6. CASE SendDataSubmit
      <4>1. InCall(data1)
        BY <1>2, <1>3 DEF InCall
      <4>2. CASE Target \in Refused
        BY <3>1, <3>2, <3>4, <3>6, <4>1, <4>2, <1>3, <1>5
        DEF SendDataSubmit, Waiting, Nothing, TypeInv, TypeOK
      <4>3. CASE Target \notin Refused
        <5>1. reqs' = << OwnRequest(s, Target) >> /\ sem' = 0 /\ UNCHANGED fault
          BY <3>1, <3>3, <3>6, <4>1, <4>3 DEF SendDataSubmit
        <5>2. outcome'[s] = "carried"
          BY <3>2, <3>6, <4>1, <4>3, <1>3 DEF SendDataSubmit, TypeInv, TypeOK
        <5>3. OwnRequestOnly(s)'
          BY <1>5, <3>3, <5>1 DEF OwnRequestOnly, OwnRequest
        <5> QED
          BY <5>1, <5>2, <5>3, <3>4, <1>5 DEF Waiting
      <4> QED
        BY <4>2, <4>3
    <3> QED
      BY <2>1, <3>5, <3>6 DEF AsyncSendCb, SendData
  <2>2. CASE OnSendCb
    <3>0. ~sendPending /\ OwnRequestOnly(s) /\ sem = 0
      BY <2>2, <1>3 DEF OnSendCb, Waiting, Nothing
    <3>1. reqs = << OwnRequest(s, reqs[1].to) >>
      BY <3>0 DEF OwnRequestOnly
    <3>2. reqs' = << >> /\ sem' = 1 /\ ~sendPending'
      <4>1. PICK r : reqs = << r >>
        BY <3>1
      <4>2. reqs' = << >>
        BY <2>2, <4>1 DEF OnSendCb
      <4> QED
        BY <2>2, <3>0, <4>2, <1>3 DEF OnSendCb, PostIfAsync
    <3>3. Head(reqs) = OwnRequest(s, reqs[1].to)
      BY <3>1
    <3>4. outcome'[s] = "reported"
      BY <2>2, <3>3, <1>2 DEF OnSendCb, OwnRequest, TypeInv, TypeOK, Threads
    <3>5. fault' = "none"
      BY <2>2, <1>4 DEF OnSendCb
    <3> QED
      BY <3>2, <3>4, <3>5, <1>5 DEF Waiting
  <2> QED
    BY <2>1, <2>2
<1>7. Protocol'
  <2>1. \A t \in Senders \ {s} : outcome'[t] = outcome[t]
    <3>1. CASE AsyncSendCb
      BY <3>1, <1>3
      DEF AsyncSendCb, SendData, SendDataNoMemory, SendDataSubmit, TypeInv,
          TypeOK, Threads
    <3>2. CASE OnSendCb
      <4>0. reqs = << OwnRequest(s, reqs[1].to) >>
        BY <3>2, <1>3 DEF OnSendCb, Waiting, Nothing, OwnRequestOnly
      <4>1. Head(reqs) = OwnRequest(s, reqs[1].to)
        BY <4>0
      <4> QED
        BY <3>2, <4>1 DEF OnSendCb, OwnRequest, TypeInv, TypeOK, Threads
    <3> QED
      BY <3>1, <3>2
  <2>2. Owns(s)'
    BY <1>2, <1>3, <1>5, <1>6 DEF Owns
  <2>3. mutex' = s /\ s # NULL /\ pc[s] # "lock"
    BY <1>2, <1>5 DEF Threads
  <2> QED
    BY <1>2, <1>5, <2>1, <2>2, <2>3 DEF Protocol
<1>8. Closing'
  BY <1>4, <1>5 DEF Closing, Quiet, InCall
<1> QED
  BY <1>6, <1>7, <1>8

\* Closing finds the mutex free.
LEMMA CloseInv ==
  ASSUME Discipline, TypeInv, Inv,
         CloseFromThread \/ CloseFromLoop \/ AsyncCloseCb
  PROVE  Inv'
<1> USE ConstantsOK DEF Inv, NoFault
<1>1. Quiet
  BY DEF CloseFromThread, CloseFromLoop, AsyncCloseCb, MayClose, Discipline,
         Closing
<1>2. mutex = NULL /\ Nothing
  BY <1>1, QuietIsUnlocked DEF TypeInv
<1>3. UNCHANGED <<shared, reqs, pc, frame, outcome>> /\ fault' = "none"
  BY <1>2 DEF CloseFromThread, CloseFromLoop, AsyncCloseCb, CloseHandle
<1>4. Protocol'
  BY <1>2, <1>3
  DEF Protocol, Nothing, CloseFromThread, CloseFromLoop, AsyncCloseCb,
      CloseHandle, Threads
<1>5. Closing'
  BY <1>1, <1>2, <1>3
  DEF Closing, Quiet, InCall, CloseFromThread, CloseFromLoop, AsyncCloseCb,
      CloseHandle, MayClose
<1> QED
  BY <1>3, <1>4, <1>5

LEMMA NextInv ==
  Discipline /\ TypeInv /\ TypeInv' /\ Inv /\ [Next]_vars => Inv'
<1> SUFFICES ASSUME Discipline, TypeInv, TypeInv', Inv, [Next]_vars
             PROVE  Inv'
  OBVIOUS
<1> USE ConstantsOK
<1>1. CASE UdpHandleRun
  BY <1>1 DEF UdpHandleRun, Inv, NoFault, Protocol, Closing, Nothing, Owns,
              Waiting, OwnRequestOnly, OwnRequest, Quiet, InCall
<1>2. ASSUME NEW s \in Senders, NEW a \in Addrs, NEW e \in Entries,
             Call(s, a, e)
      PROVE  Inv'
  <2>1. ~closeAsked /\ life = "open"
    BY <1>2 DEF Call, Stopped, Discipline, Inv, Closing
  <2>2. (Direct => e # "ip") /\ mutex # s
    BY <1>2 DEF Call, Direct, Inv, Protocol, Critical
  <2>3. \A t \in Senders \ {s} :
          pc'[t] = pc[t] /\ frame'[t] = frame[t] /\ outcome'[t] = outcome[t]
    BY <1>2 DEF Call, Enter, TypeInv, TypeOK, Threads
  <2>4. pc'[s] = "lock" /\ outcome'[s] = "none"
    BY <1>2 DEF Call, Enter, TypeInv, TypeOK, Threads
  <2>5. (Direct => frame'[s].ptr = s) /\ frame'[s].n <= MaxCalls
    BY <1>2, <2>2 DEF Call, Enter, TypeInv, TypeOK, Threads, Frames
  <2>6. pc'[Loop] = "idle"
    BY <1>2 DEF Call, Inv, Protocol, TypeInv, TypeOK, Threads
  <2>7. UNCHANGED <<life, mutex, sem, asyncSendFlag, data1, data2, sendPending,
                    closePending, reqs, closeAsked>> /\ fault' = "none"
    BY <1>2, <2>1 DEF Call, Inv, NoFault
  <2>8. \A t \in Senders \ {s} : Owns(t) => Owns(t)'
    BY <2>3, <2>7 DEF Owns, Waiting, OwnRequestOnly, OwnRequest, Nothing
  <2>9. Protocol'
    BY <2>2, <2>3, <2>4, <2>5, <2>6, <2>7, <2>8
    DEF Inv, Protocol, Critical, Nothing
  <2> QED
    BY <2>1, <2>7, <2>9 DEF Inv, NoFault, Closing
<1>3. ASSUME NEW s \in Senders, SenderStep(s) PROVE Inv'
  BY <1>3, SenderStepInv
<1>4. CASE AsyncSendCb \/ OnSendCb
  BY <1>4, ServeInv
<1>5. ASSUME NEW a \in Addrs, NEW e \in Entries, LoopCall(a, e) PROVE FALSE
  BY <1>5 DEF LoopCall, Discipline, TypeInv, TypeOK, Frames, Threads
<1>6. CASE LoopSendStep
  BY <1>6 DEF LoopSendStep, LoopSetFlag, LoopSetBuf, LoopSetAddr, LoopSubmit,
              Inv, Protocol
<1>7. CASE CloseFromThread \/ CloseFromLoop \/ AsyncCloseCb
  BY <1>7, CloseInv
<1>8. CASE Finished \/ UNCHANGED vars
  BY <1>8 DEF Finished, vars, Inv, NoFault, Protocol, Closing, Nothing, Owns,
              Waiting, OwnRequestOnly, OwnRequest, Quiet, InCall
<1> QED
  BY <1>1, <1>2, <1>3, <1>4, <1>5, <1>6, <1>7, <1>8 DEF Next

LEMMA InvHolds ==
  ASSUME Discipline
  PROVE  Spec => [](TypeInv /\ Inv)
  BY InitTypes, NextTypes, InitInv, NextInv, PTL DEF Spec

\* What the invariant says of the token, of the waiter and of the request.
LEMMA TokenIsOwners ==
  ASSUME TypeInv, Inv PROVE TokenBelongsToOwner
<1> SUFFICES ASSUME sem > 0 PROVE TokenBelongsToOwner
  BY DEF TokenBelongsToOwner
<1>1. PICK s \in Senders : mutex = s /\ pc[s] = "wait" /\ Owns(s)
  BY LoopServesOwner DEF TypeInv, Inv, Nothing
<1>2. Waiting(s) /\ s # NULL
  BY <1>1, ConstantsOK DEF Owns, Threads
<1> QED
  BY <1>1, <1>2 DEF TokenBelongsToOwner, Waiting, Nothing

LEMMA WaiterIsServed ==
  ASSUME TypeInv, Inv PROVE NoWakeupIsLost
<1> SUFFICES ASSUME NEW s \in Senders, pc[s] = "wait"
             PROVE  \/ sendPending /\ data1 = s
                    \/ \E i \in DOMAIN reqs : /\ reqs[i].from = s
                                             /\ reqs[i].n = frame[s].n
                    \/ sem > 0
                    \/ outcome[s] = "refused"
  BY DEF NoWakeupIsLost
<1>1. Waiting(s) /\ data1 = s
  BY DEF Inv, Protocol, Owns, Critical
<1>2. CASE OwnRequestOnly(s)
  <2>1. reqs = << OwnRequest(s, reqs[1].to) >>
    BY <1>2 DEF OwnRequestOnly
  <2>2. 1 \in DOMAIN reqs /\ reqs[1] = OwnRequest(s, reqs[1].to)
    BY <2>1
  <2> QED
    BY <2>2 DEF OwnRequest
<1> QED
  BY <1>1, <1>2 DEF Waiting

LEMMA RequestIsAsAsked ==
  ASSUME Direct, TypeInv, Inv PROVE AddressedAsAsked
<1> SUFFICES ASSUME NEW i \in DOMAIN reqs
             PROVE  LET r == reqs[i] IN
                      /\ InCall(r.from)
                      /\ r.n = frame[r.from].n
                      /\ r.to = frame[r.from].to
  BY DEF AddressedAsAsked
<1>1. reqs # << >>
  BY DEF TypeInv, TypeOK
<1>2. PICK s \in Senders : mutex = s /\ pc[s] = "wait" /\ Owns(s)
  BY <1>1, LoopServesOwner DEF TypeInv, Inv, Nothing
<1>3. reqs = << OwnRequest(s, frame[s].to) >>
  BY <1>1, <1>2 DEF Owns, Waiting, Nothing, OwnRequestOnly
<1> QED
  BY <1>2, <1>3 DEF OwnRequest, InCall

\* No token of the semaphore is left over for a later call, whatever the
\* number of senders (uv_sem_post in send_data and on_send_cb, uv_sem_wait in
\* udp_send_data).
THEOREM TokensBelongToOwners ==
  ASSUME Discipline
  PROVE  Spec => []TokenBelongsToOwner
<1>1. TypeInv /\ Inv => TokenBelongsToOwner
  BY TokenIsOwners
<1> QED
  BY <1>1, InvHolds, PTL

\* No wakeup is lost: whoever waits has the loop signalled with its own buffer,
\* or its own request in libuv, or its token, or had it refused.  Also when
\* senders share send_addr through udp_send_data_ip.
THEOREM NoWakeupIsEverLost ==
  ASSUME Discipline
  PROVE  Spec => []NoWakeupIsLost
<1>1. TypeInv /\ Inv => NoWakeupIsLost
  BY WaiterIsServed
<1> QED
  BY <1>1, InvHolds, PTL

\* Senders that name the address in memory of their own are served in turn:
\* each by its own token, and what libuv holds is what the blocked one asked
\* for (data1 and data2, which send_data reads on another thread).
THEOREM SendersAreServedInTurn ==
  ASSUME Discipline, Direct
  PROVE  Spec => []SendsAreServedInTurn
<1>1. TypeInv /\ Inv => SendsAreServedInTurn
  BY TokenIsOwners, WaiterIsServed, RequestIsAsAsked DEF SendsAreServedInTurn
<1> QED
  BY <1>1, InvHolds, PTL

\* close_handle comes after the last use of the udp_socket_t, of every
\* uv_buf_t on a sender's stack and of the mutex.
THEOREM DisciplinedUseIsSafe ==
  ASSUME Discipline
  PROVE  Spec => []NoFault
<1>1. Inv => NoFault
  BY DEF Inv
<1> QED
  BY <1>1, InvHolds, PTL

\* A refused request keeps its sender in the mutex (uv_udp_send's result is
\* dropped in send_data), so that no other request is ever made, and those who
\* wait for the senders before they close never do.
THEOREM RefusalIsForGood ==
  ASSUME Discipline
  PROVE  Spec => RefusalSilencesTheHandle
<1>1. TypeInv /\ Inv /\ TypeInv' /\ Inv' /\ [Next]_vars =>
        [(\E s \in Senders : outcome[s] = "refused") =>
           reqs' = reqs /\ ~closeAsked']_vars
  <2> SUFFICES ASSUME TypeInv, Inv, Inv', Next,
                      NEW s \in Senders, outcome[s] = "refused"
               PROVE  reqs' = reqs /\ ~closeAsked'
    OBVIOUS
  <2> USE ConstantsOK DEF Inv, TypeInv, TypeOK, Threads
  <2>1. pc[s] \notin {"idle", "lock", "submit"}
    BY DEF Protocol
  <2>2. mutex = s /\ Owns(s) /\ pc[s] \in Critical
    BY <2>1 DEF Protocol
  <2>3. pc[s] = "wait" /\ Waiting(s)
    BY <2>2 DEF Owns, Critical
  <2>4. Nothing /\ ~Quiet /\ ~closeAsked
    BY <2>3 DEF Waiting, Closing, Quiet, InCall
  <2>5. ~AsyncSendCb /\ ~OnSendCb /\ ~LoopSendStep
    BY <2>4 DEF AsyncSendCb, OnSendCb, LoopSendStep, LoopSetFlag, LoopSetBuf,
                LoopSetAddr, LoopSubmit, Nothing, Protocol
  <2>6. ~CloseFromThread /\ ~CloseFromLoop
    BY <2>4 DEF CloseFromThread, CloseFromLoop, MayClose, Discipline
  <2>7. ASSUME NEW a \in Addrs, NEW e \in Entries, LoopCall(a, e) PROVE FALSE
    BY <2>7 DEF LoopCall, Discipline, Frames
  <2> QED
    BY <2>4, <2>5, <2>6, <2>7
    DEF Next, UdpHandleRun, Call, SenderStep, Lock, SetFlag, SetBuf, SetAddr,
        Wake, Wait, Unlock, AsyncCloseCb, Finished, vars
<1> QED
  BY <1>1, InvHolds, InitTypes, NextTypes, PTL
  DEF Spec, RefusalSilencesTheHandle

-----------------------------------------------------------------------------
(* Without the discipline: the mutex still is one                          *)

Exclusion == \A s \in Senders : pc[s] \in Critical <=> mutex = s

LEMMA InitExclusion == Init => Exclusion
  BY ConstantsOK DEF Init, Exclusion, Critical, Threads

LEMMA NextExclusion == TypeInv /\ Exclusion /\ [Next]_vars => Exclusion'
<1> SUFFICES ASSUME TypeOK, Exclusion, [Next]_vars PROVE Exclusion'
  BY DEF TypeInv
<1> USE ConstantsOK DEF TypeOK, Exclusion, Critical, Threads
<1>1. ASSUME NEW s \in Senders, NEW a \in Addrs, NEW e \in Entries,
             Call(s, a, e)
      PROVE  Exclusion'
  BY <1>1 DEF Call
<1>2. ASSUME NEW s \in Senders, SenderStep(s) PROVE Exclusion'
  BY <1>2 DEF SenderStep, Lock, SetFlag, SetBuf, SetAddr, Wake, Wait, Unlock
<1>3. ASSUME NEW a \in Addrs, NEW e \in Entries, LoopCall(a, e)
      PROVE  Exclusion'
  BY <1>3 DEF LoopCall
<1>4. CASE LoopSendStep
  BY <1>4 DEF LoopSendStep, LoopSetFlag, LoopSetBuf, LoopSetAddr, LoopSubmit
<1>5. CASE UNCHANGED <<mutex, pc>>
  BY <1>5
<1> QED
  BY <1>1, <1>2, <1>3, <1>4, <1>5
  DEF Next, vars, UdpHandleRun, AsyncSendCb, OnSendCb, CloseFromThread,
      CloseFromLoop, AsyncCloseCb, Finished

\* However closes race with senders, close_handle does not free the handle
\* under one that is between the lock and the unlock of the mutex: it aborts.
THEOREM FreedOnlyWhenUnlocked == Spec => NeverFreedUnderASender
<1>1. TypeInv /\ Exclusion /\ [Next]_vars =>
        [life = "open" /\ life' = "freed" =>
           \A s \in Senders : pc[s] \notin Critical]_vars
  <2> SUFFICES ASSUME Exclusion, Next, life = "open", life' = "freed",
                      NEW s \in Senders
               PROVE  pc[s] \notin Critical
    OBVIOUS
  <2>1. CloseFromLoop \/ AsyncCloseCb
    BY DEF Next, UdpHandleRun, Call, SenderStep, Lock, SetFlag, SetBuf,
           SetAddr, Wake, Wait, Unlock, AsyncSendCb, OnSendCb, LoopCall,
           LoopSendStep, LoopSetFlag, LoopSetBuf, LoopSetAddr, LoopSubmit,
           CloseFromThread, Finished, vars
  <2>2. mutex = NULL
    BY <2>1 DEF CloseFromLoop, AsyncCloseCb, CloseHandle
  <2> QED
    BY <2>2, ConstantsOK DEF Exclusion, Threads
<1> QED
  BY <1>1, InitTypes, NextTypes, InitExclusion, NextExclusion, PTL
  DEF Spec, NeverFreedUnderASender

-----------------------------------------------------------------------------
(* The loop thread alone: answers from on_data, and no other thread sends  *)

\* The handshake is left alone, and data1 is the loop's own when it is read.
LoopAlone ==
  /\ mutex = NULL
  /\ sem = 0
  /\ ~asyncSendFlag
  /\ ~sendPending
  /\ pc[Loop] \in {"idle", "flag", "buf", "addr", "submit"}
  /\ pc[Loop] \in {"addr", "submit"} => data1 = Loop

\* A program goes wrong only in on_send_cb, of a datagram that was with libuv
\* when close_handle freed the handle.
FaultsAreLateReports ==
  [][fault' # fault => life = "freed" /\ reqs # << >> /\ OnSendCb]_vars

LEMMA InitLoopAlone == Init => LoopAlone
  BY DEF Init, LoopAlone, Threads

LEMMA NextLoopAlone ==
  ASSUME Senders = {}, TypeInv, LoopAlone, [Next]_vars
  PROVE  /\ LoopAlone'
         /\ fault' # fault => life = "freed" /\ reqs # << >> /\ OnSendCb
<1> USE DEF TypeInv, TypeOK, LoopAlone, Threads, Goto, shared
<1>1. ASSUME NEW a \in Addrs, NEW e \in Entries, LoopCall(a, e)
      PROVE  LoopAlone' /\ fault' = fault
  BY <1>1 DEF LoopCall, Enter
<1>2. CASE LoopSetFlag \/ LoopSetBuf \/ LoopSetAddr
  BY <1>2 DEF LoopSetFlag, LoopSetBuf, LoopSetAddr
<1>3. CASE LoopSubmit
  <2>1. data1 = Loop /\ InCall(data1)
    BY <1>3 DEF LoopSubmit, InCall
  <2>2. sem' = sem /\ fault' = fault
    BY <1>3, <2>1 DEF LoopSubmit, SendData, SendDataNoMemory, SendDataSubmit,
                      PostIfAsync
  <2> QED
    BY <1>3, <2>2 DEF LoopSubmit
<1>4. CASE OnSendCb
  BY <1>4 DEF OnSendCb, PostIfAsync, Touch, LoopIdle
<1>5. CASE CloseFromLoop \/ AsyncCloseCb
  BY <1>5 DEF CloseFromLoop, AsyncCloseCb, CloseHandle
<1>6. CASE UdpHandleRun \/ CloseFromThread \/ UNCHANGED vars
  BY <1>6 DEF UdpHandleRun, CloseFromThread, vars
<1> QED
  BY <1>1, <1>2, <1>3, <1>4, <1>5, <1>6
  DEF Next, AsyncSendCb, LoopSendStep, Finished

\* When only callbacks send, through either entry and with closes from any
\* side, no token is ever posted, no dead frame is read and no locked mutex is
\* destroyed; what is left is the close over a datagram that libuv still has.
THEOREM AnswersAreSafeUntilClosed ==
  ASSUME Senders = {} PROVE Spec => [](sem = 0) /\ FaultsAreLateReports
<1>1. LoopAlone => sem = 0
  BY DEF LoopAlone
<1>2. TypeInv /\ LoopAlone /\ [Next]_vars => TypeInv' /\ LoopAlone'
  BY NextTypes, NextLoopAlone
<1>3. TypeInv /\ LoopAlone /\ [Next]_vars =>
        [fault' # fault => life = "freed" /\ reqs # << >> /\ OnSendCb]_vars
  BY NextLoopAlone
<1> QED
  BY <1>1, <1>2, <1>3, InitTypes, InitLoopAlone, PTL
  DEF Spec, FaultsAreLateReports

-----------------------------------------------------------------------------
(* Disciplined sends implement the blocking send service                   *)

LEMMA Stutters ==
  ASSUME UNCHANGED <<reqs, frame, outcome>>,
         \A s \in Senders : InCall(s)' <=> InCall(s)
  PROVE  UNCHANGED Service!vars
<1>1. \A s \in Senders : /\ StatusOf(s)' = StatusOf(s)
                        /\ PayloadOf(s)' = PayloadOf(s)
  BY DEF StatusOf, PayloadOf, Envelope
<1> QED
  BY <1>1 DEF Service!vars, Envelope

\* What the service's transport is, for no request and for one.
LEMMA TransportOf ==
  ASSUME NEW q, NEW r,
         q = << >> \/ q = << r >>
  PROVE  LET T == [i \in DOMAIN q |->
                     [client |-> q[i].from, payload |-> Envelope(q[i])]]
         IN  /\ q = << >> => T = << >>
             /\ q = << r >> =>
                  T = << [client |-> r.from, payload |-> Envelope(r)] >>
<1>1. CASE q = << >>
  BY <1>1
<1>2. CASE q = << r >>
  <2> DEFINE T == [i \in DOMAIN q |->
                     [client |-> q[i].from, payload |-> Envelope(q[i])]]
  <2>1. DOMAIN q = 1 .. 1 /\ q[1] = r
    BY <1>2
  <2>2. T = [i \in 1 .. 1 |->
               [client |-> r.from, payload |-> Envelope(r)]]
    BY <2>1
  <2>3. T = << [client |-> r.from, payload |-> Envelope(r)] >>
    BY <2>2
  <2> QED
    BY <1>2, <2>3
<1> QED
  BY <1>1, <1>2

\* One sender's call gets further, the others' do not.
LEMMA Moves ==
  ASSUME NEW s \in Senders, NEW from, NEW to,
         StatusOf(s) = from, StatusOf(s)' = to,
         \A t \in Senders \ {s} : StatusOf(t)' = StatusOf(t)
  PROVE  Service!Move(s, from, to)
  BY DEF Service!Move

\* What the others ask for does not change.
LEMMA PayloadsKept ==
  ASSUME UNCHANGED <<frame, pc>>
  PROVE  UNCHANGED [s \in Senders |-> PayloadOf(s)]
<1>1. \A s \in Senders : PayloadOf(s)' = PayloadOf(s)
  BY DEF PayloadOf, Envelope, InCall
<1> QED
  BY <1>1

LEMMA CallAsks ==
  ASSUME TypeInv, NEW s \in Senders, NEW a \in Addrs, NEW e \in Entries,
         Call(s, a, e), MaxLoopSends = 0
  PROVE  Service!Next
<1> DEFINE p == [n |-> frame[s].n + 1, to |-> a]
<1> USE ConstantsOK DEF TypeInv, TypeOK, Threads
<1>1. p \in [n : 0 .. MaxCalls, to : Addrs]
  BY DEF Call, Frames
<1>2. Envelope(frame'[s]) = p /\ InCall(s)'
  BY DEF Call, Enter, Envelope, InCall
<1>3. StatusOf(s) = "idle" /\ StatusOf(s)' = "asked"
  BY DEF Call, Enter, StatusOf, InCall
<1>4. \A t \in Senders \ {s} : /\ StatusOf(t)' = StatusOf(t)
                              /\ PayloadOf(t)' = PayloadOf(t)
  BY DEF Call, Enter, StatusOf, PayloadOf, Envelope, InCall
<1>5. PayloadOf(s)' = p
  BY <1>2 DEF PayloadOf
<1>6. Service!Move(s, "idle", "asked")
  BY <1>3, <1>4, Moves
<1>7. [t \in Senders |-> PayloadOf(t)]' =
        [[t \in Senders |-> PayloadOf(t)] EXCEPT ![s] = p]
  BY <1>4, <1>5
<1>8. Service!Ask(s, p)
  BY <1>6, <1>7 DEF Service!Ask, Call
<1> QED
  BY <1>1, <1>8 DEF Service!Next

\* The sender leaves, or moves inside its call.
LEMMA SenderStepImplements ==
  ASSUME TypeInv, Inv, NEW s \in Senders, SenderStep(s)
  PROVE  Service!Next \/ UNCHANGED Service!vars
<1> USE ConstantsOK DEF TypeInv, TypeOK, Threads
<1>1. CASE Unlock(s)
  <2>1. outcome[s] = "reported"
    BY <1>1 DEF Unlock, Inv, Protocol, Owns, Critical
  <2>2. /\ StatusOf(s) = "reported" /\ StatusOf(s)' = "idle"
        /\ PayloadOf(s)' = NULL
    BY <1>1, <2>1 DEF Unlock, StatusOf, PayloadOf, InCall
  <2>3. \A t \in Senders \ {s} : /\ StatusOf(t)' = StatusOf(t)
                                /\ PayloadOf(t)' = PayloadOf(t)
    BY <1>1 DEF Unlock, StatusOf, PayloadOf, Envelope, InCall
  <2>4. Service!Move(s, "reported", "idle")
    BY <2>2, <2>3, Moves
  <2>5. [t \in Senders |-> PayloadOf(t)]' =
          [[t \in Senders |-> PayloadOf(t)] EXCEPT ![s] = NULL]
    BY <2>2, <2>3
  <2>6. Service!Return(s)
    BY <1>1, <2>4, <2>5 DEF Service!Return, Unlock, Envelope
  <2> QED
    BY <2>6 DEF Service!Next
<1>2. CASE ~Unlock(s)
  <2>1. UNCHANGED <<reqs, frame, outcome>>
    BY <1>2 DEF SenderStep, Lock, SetFlag, SetBuf, SetAddr, Wake, Wait
  <2>2. \A t \in Senders : InCall(t)' <=> InCall(t)
    BY <1>2 DEF SenderStep, Lock, SetFlag, SetBuf, SetAddr, Wake, Wait, InCall
  <2> QED
    BY <2>1, <2>2, Stutters
<1> QED
  BY <1>1, <1>2

\* async_send_cb hands the owner's datagram over, or gives it up, or has it
\* refused.
LEMMA AsyncSendCbImplements ==
  ASSUME Direct, TypeInv, Inv, AsyncSendCb
  PROVE  Service!Next
<1> USE ConstantsOK DEF TypeInv, TypeOK, Threads
<1>1. PICK s \in Senders : mutex = s /\ pc[s] = "wait" /\ Owns(s)
  BY LoopServesOwner DEF AsyncSendCb, Nothing, Inv
<1>2. /\ data1 = s /\ data2 = frame[s].ptr
      /\ outcome[s] = "none" /\ reqs = << >>
  BY <1>1 DEF Owns, Waiting, Nothing, AsyncSendCb, OwnRequestOnly
<1>3. Request = OwnRequest(s, frame[s].to)
  BY <1>2, PublishedRequest DEF Inv, Protocol
<1>4. UNCHANGED <<frame, pc>> /\ UNCHANGED [t \in Senders |-> PayloadOf(t)]
  BY PayloadsKept DEF AsyncSendCb
<1>5. StatusOf(s) = "asked"
  BY <1>1, <1>2 DEF StatusOf, InCall
<1>6. \A t \in Senders \ {s} : StatusOf(t)' = StatusOf(t)
  BY <1>2, <1>4
  DEF AsyncSendCb, SendData, SendDataNoMemory, SendDataSubmit, StatusOf, InCall
<1>7. CASE SendDataNoMemory
  <2>1. StatusOf(s)' = "reported"
    BY <1>1, <1>2, <1>4, <1>7 DEF SendDataNoMemory, StatusOf, InCall
  <2>2. Service!Move(s, "asked", "reported")
    BY <1>5, <1>6, <2>1, Moves
  <2>3. Service!GiveUp(s)
    BY <1>2, <1>4, <1>7, <2>2 DEF Service!GiveUp, SendDataNoMemory
  <2> QED
    BY <2>3 DEF Service!Next
<1>8. CASE SendDataSubmit /\ Target \in Refused
  <2>1. StatusOf(s)' = "refused" /\ reqs' = reqs
    BY <1>1, <1>2, <1>4, <1>8 DEF SendDataSubmit, StatusOf, InCall
  <2>2. Service!Move(s, "asked", "refused")
    BY <1>5, <1>6, <2>1, Moves
  <2>3. Service!Refuse(s)
    BY <1>2, <1>4, <2>1, <2>2 DEF Service!Refuse
  <2> QED
    BY <2>3 DEF Service!Next
<1>9. CASE SendDataSubmit /\ Target \notin Refused
  <2>1. StatusOf(s)' = "carried" /\ reqs' = << OwnRequest(s, frame[s].to) >>
    BY <1>1, <1>2, <1>3, <1>4, <1>9 DEF SendDataSubmit, StatusOf, InCall
  <2>2. Service!Move(s, "asked", "carried")
    BY <1>5, <1>6, <2>1, Moves
  <2>3. [i \in DOMAIN reqs' |-> [client |-> reqs'[i].from,
                                 payload |-> Envelope(reqs'[i])]]
          = << [client |-> s, payload |-> Envelope(OwnRequest(s, frame[s].to))] >>
    BY <2>1, TransportOf DEF OwnRequest
  <2>4. Envelope(OwnRequest(s, frame[s].to)) = PayloadOf(s)
    BY <1>1 DEF OwnRequest, Envelope, PayloadOf, InCall
  <2>5. Service!Carry(s)
    BY <1>2, <1>4, <2>2, <2>3, <2>4 DEF Service!Carry, Service!Letter
  <2> QED
    BY <2>5 DEF Service!Next
<1> QED
  BY <1>7, <1>8, <1>9 DEF AsyncSendCb, SendData

\* on_send_cb reports on the owner's datagram.
LEMMA OnSendCbImplements ==
  ASSUME Direct, TypeInv, Inv, OnSendCb
  PROVE  Service!Next
<1> USE ConstantsOK DEF TypeInv, TypeOK, Threads
<1>1. PICK s \in Senders : mutex = s /\ pc[s] = "wait" /\ Owns(s)
  BY LoopServesOwner DEF OnSendCb, Nothing, Inv
<1>2. reqs = << OwnRequest(s, frame[s].to) >> /\ outcome[s] = "carried"
  BY <1>1 DEF Owns, Waiting, Nothing, OnSendCb, OwnRequestOnly
<1>3. reqs' = << >> /\ Head(reqs) = OwnRequest(s, frame[s].to)
  BY <1>2 DEF OnSendCb
<1>4. /\ outcome' = [outcome EXCEPT ![s] = "reported"]
      /\ UNCHANGED <<frame, pc>>
      /\ UNCHANGED [t \in Senders |-> PayloadOf(t)]
  <2>1. Head(reqs).from = s /\ Head(reqs).n = frame[s].n
    BY <1>3 DEF OwnRequest
  <2> QED
    BY <2>1, PayloadsKept DEF OnSendCb
<1>5. StatusOf(s) = "carried" /\ StatusOf(s)' = "reported"
  BY <1>1, <1>2, <1>4 DEF StatusOf, InCall
<1>6. \A t \in Senders \ {s} : StatusOf(t)' = StatusOf(t)
  BY <1>4 DEF StatusOf, InCall
<1>7. Service!Move(s, "carried", "reported")
  BY <1>5, <1>6, Moves
<1>8. [i \in DOMAIN reqs |-> [client |-> reqs[i].from,
                              payload |-> Envelope(reqs[i])]]
        = << [client |-> s, payload |-> Envelope(OwnRequest(s, frame[s].to))] >>
  BY <1>2, TransportOf DEF OwnRequest
<1>9. Envelope(OwnRequest(s, frame[s].to)) = PayloadOf(s)
  BY <1>1 DEF OwnRequest, Envelope, PayloadOf, InCall
<1>10. Service!Report(s)
  BY <1>3, <1>4, <1>7, <1>8, <1>9 DEF Service!Report, Service!Letter
<1> QED
  BY <1>10 DEF Service!Next

LEMMA InitImplements == Init => Service!Init
  BY ConstantsOK DEF Init, Service!Init, StatusOf, PayloadOf, InCall, Threads

LEMMA StepImplements ==
  ASSUME Discipline, Direct
  PROVE  TypeInv /\ Inv /\ [Next]_vars => [Service!Next]_(Service!vars)
<1> USE ConstantsOK
<1> SUFFICES ASSUME TypeInv, Inv, [Next]_vars
             PROVE  Service!Next \/ UNCHANGED Service!vars
  OBVIOUS
<1>1. ASSUME NEW s \in Senders, NEW a \in Addrs, NEW e \in Entries,
             Call(s, a, e)
      PROVE  Service!Next
  BY <1>1, CallAsks DEF Discipline
<1>2. ASSUME NEW s \in Senders, SenderStep(s)
      PROVE  Service!Next \/ UNCHANGED Service!vars
  BY <1>2, SenderStepImplements
<1>3. CASE AsyncSendCb
  BY <1>3, AsyncSendCbImplements
<1>4. CASE OnSendCb
  BY <1>4, OnSendCbImplements
<1>5. ASSUME NEW a \in Addrs, NEW e \in Entries, LoopCall(a, e) PROVE FALSE
  BY <1>5 DEF LoopCall, Discipline, TypeInv, TypeOK, Frames, Threads
<1>6. CASE LoopSendStep
  BY <1>6 DEF LoopSendStep, LoopSetFlag, LoopSetBuf, LoopSetAddr,
              LoopSubmit, Inv, Protocol
<1>7. CASE UNCHANGED <<reqs, frame, outcome, pc>>
  <2>1. \A s \in Senders : InCall(s)' <=> InCall(s)
    BY <1>7 DEF InCall
  <2> QED
    BY <1>7, <2>1, Stutters
<1> QED
  BY <1>1, <1>2, <1>3, <1>4, <1>5, <1>6, <1>7
  DEF Next, vars, UdpHandleRun, CloseFromThread, CloseFromLoop, AsyncCloseCb,
      Finished

\* Under the discipline, and with addresses in the senders' own memory,
\* udp_send_data is the blocking send of SendService.
THEOREM DisciplinedSendsImplementSendService ==
  ASSUME Discipline, Direct
  PROVE  Spec => ImplementsSendService
BY InitImplements, StepImplements, InvHolds, PTL
DEF Spec, ImplementsSendService, Service!Spec

=============================================================================
