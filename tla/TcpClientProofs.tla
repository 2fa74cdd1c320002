-------------------------- MODULE TcpClientProofs --------------------------
(***************************************************************************)
(* Proofs about TcpClient, for any number of senders and calls.            *)
(*                                                                         *)
(* The types hold however the client is used.  The rest needs a client     *)
(* that has one kind of sender, and whose close comes after its senders,   *)
(* not in the turn of the loop in which the stream has ended, and not in   *)
(* the on_conn_error of a send after that end.                             *)
(***************************************************************************)
EXTENDS TcpClient, TLAPS

Discipline ==
  /\ \A u \in Uses : ~({"threads", "loop"} \subseteq u)
  /\ ~CloseMeetsEnd
  /\ ~CloseMeetsError
  /\ CloseWhenIdle

USE DEF Goto, LoopIdle, Touch, TouchLock, TouchFlag, WaitLeaves, connVars,
        sendVars, threadVars, userVars

-----------------------------------------------------------------------------
(* The invariant                                                           *)

Critical == {"flag", "buf", "wake", "wait", "unlock"}

\* The loop has nothing of the senders' to do, and no token is left.
Nothing == ~sendPending /\ writes = << >> /\ sem = 0 /\ errors = 0

OwnWrite(s) == [from |-> s, n |-> calls[s]]

\* s waits: the loop has been signalled, or the write is in libuv's hands, or
\* was refused, or the user is being told that there was no memory, or the
\* token is there.
Waiting(s) ==
  \/ /\ sendPending
     /\ writes = << >>
     /\ sem = 0
     /\ errors = 0
     /\ outcome[s] = "none"
  \/ /\ ~sendPending
     /\ writes = << OwnWrite(s) >>
     /\ sem = 0
     /\ errors = 0
     /\ outcome[s] = "carried"
  \/ Nothing /\ outcome[s] = "refused"
  \/ /\ ~sendPending
     /\ writes = << >>
     /\ sem + errors = 1
     /\ outcome[s] = "reported"

\* How far s has got with the fields while it owns the mutex.
Owns(s) ==
  /\ pc[s] \in {"flag", "buf", "wake"} => Nothing /\ outcome[s] = "none"
  /\ pc[s] \in {"buf", "wake", "wait"} => flag
  /\ pc[s] \in {"wake", "wait"} => data2 = s
  /\ pc[s] = "wait" => Waiting(s)
  /\ pc[s] = "unlock" => Nothing /\ outcome[s] = "reported"

\* Threads have the fields to themselves, or the loop thread has.
Protocol ==
  /\ \A s \in Senders :
       /\ pc[s] \in Critical <=> mutex = s
       /\ pc[s] # "submit"
       /\ pc[s] = "lock" => outcome[s] = "none"
       /\ mutex = s => Owns(s)
  /\ "threads" \in use => pc[Loop] = "idle"
  /\ "threads" \in use /\ mutex = NULL => Nothing
  /\ "threads" \notin use => Quiet /\ ~sendPending /\ ~flag /\ sem = 0

\* The order in which the parts of a client go.
Lifecycle ==
  /\ client \notin {"open", "freed"} =>
       /\ session = "active"
       /\ connect = "never"
       /\ ~ending
       /\ ~closeAsked
       /\ Quiet
  /\ closeAsked => Quiet
  /\ closePending => closeAsked
  /\ handles = "closed" => /\ closeAsked
                           /\ ~closePending
                           /\ ~sendPending
                           /\ \/ client = "freed"
                              \/ session = "closing" /\ freesAll
  /\ freesAll => handles = "closed"
  /\ client = "freed" => handles = "closed" /\ session = "closed"
  /\ session = "closed" => connect # "pending" /\ writes = << >>
  /\ errors > 0 \/ pc[Loop] # "idle" => client = "open"

Inv == NoFault /\ Protocol /\ Lifecycle

-----------------------------------------------------------------------------
(* Types                                                                   *)

\* Before the loop is woken, a buffer has been published.
Published ==
  /\ sendPending => data2 # NULL
  /\ \A s \in Senders : pc[s] = "wake" => data2 # NULL

TypeInv == TypeOK /\ Published

LEMMA InitTypes == Init => TypeInv
<1> SUFFICES ASSUME Init PROVE TypeInv
  OBVIOUS
<1>1. writes \in Seq(Requests)
  BY DEF Init
<1>2. pc \in [Threads -> Places] /\ outcome \in [Threads -> Outcomes]
  BY DEF Init, Places, Outcomes
<1>3. fault \in Faults
  BY DEF Init, Faults
<1>4. Published
  BY DEF Init, Published, Threads
<1> QED
  BY <1>1, <1>2, <1>3, <1>4 DEF Init, TypeInv, TypeOK

\* What send_data leaves in the fields it writes.
LEMMA SendDataTypes ==
  ASSUME TypeOK, NEW t \in Threads, SendData(t)
  PROVE  /\ sem' \in Nat
         /\ writes' \in Seq(Requests)
         /\ outcome' \in [Threads -> Outcomes]
         /\ errors' \in Nat
         /\ fault' \in Faults
<1> USE DEF TypeOK
<1>1. [from |-> t, n |-> calls[t]] \in Requests
  BY DEF Requests
<1>2. Append(writes, [from |-> t, n |-> calls[t]])
        \in Seq(Requests)
  BY <1>1
<1>3. CASE SendDataNoMemory(t)
  BY <1>3 DEF SendDataNoMemory, Report, Outcomes
<1>4. CASE SendDataSubmit(t)
  BY <1>2, <1>4 DEF SendDataSubmit, Report, Outcomes, Faults
<1> QED
  BY <1>3, <1>4 DEF SendData

LEMMA CloseHandleTypes ==
  ASSUME TypeOK, CloseHandle
  PROVE  /\ client' \in {"unborn", "open", "freed", "failed"}
         /\ session' \in {"active", "closing", "closed"}
         /\ freesAll' \in BOOLEAN
         /\ handles' \in {"open", "closed"}
         /\ sendPending' \in BOOLEAN /\ (sendPending' => sendPending)
         /\ closePending' \in BOOLEAN
         /\ fault' \in Faults
<1> USE DEF TypeOK, CloseHandle, UvClose, Faults
<1>1. CASE mutex # NULL
  BY <1>1
<1>2. CASE mutex = NULL /\ session = "active"
  BY <1>2
<1>3. CASE mutex = NULL /\ session # "active"
  BY <1>3
<1> QED
  BY <1>1, <1>2, <1>3

LEMMA NextTypes == TypeInv /\ [Next]_vars => TypeInv'
<1> SUFFICES ASSUME TypeInv, [Next]_vars PROVE TypeInv'
  OBVIOUS
<1> USE ConstantsOK DEF TypeInv, TypeOK, Published, Threads, Faults,
                        Places
<1>1. CASE TcpClientRun
  BY <1>1 DEF TcpClientRun
<1>2. CASE OnConnect
  BY <1>2 DEF OnConnect
<1>3. ASSUME NEW s \in Senders, Call(s) PROVE TypeInv'
  BY <1>3 DEF Call, Enter, Report, Outcomes
<1>4. ASSUME NEW s \in Senders, SenderStep(s) PROVE TypeInv'
  <2>1. CASE Lock(s)
    BY <2>1 DEF Lock
  <2>2. CASE SetFlag(s)
    BY <2>2 DEF SetFlag
  <2>3. CASE SetBuf(s)
    BY <2>3 DEF SetBuf
  <2>4. CASE Wake(s)
    BY <2>4 DEF Wake
  <2>5. CASE Wait(s)
    BY <2>5 DEF Wait
  <2>6. CASE Unlock(s)
    BY <2>6 DEF Unlock
  <2> QED
    BY <1>4, <2>1, <2>2, <2>3, <2>4, <2>5, <2>6 DEF SenderStep
<1>5. CASE AsyncSendCb
  <2>1. data2 \in Threads
    BY <1>5 DEF AsyncSendCb
  <2>2. /\ sem' \in Nat
        /\ writes' \in Seq(Requests)
        /\ outcome' \in [Threads -> Outcomes]
        /\ errors' \in Nat
        /\ fault' \in {"none", "use_after_free", "dead_frame", "abort"}
    BY <1>5, <2>1, SendDataTypes DEF AsyncSendCb
  <2>3. sendPending' \in BOOLEAN /\ Published'
    BY <1>5 DEF AsyncSendCb
  <2>4. UNCHANGED <<use, client, session, freesAll, connect, handles, mutex,
                    flag, data2, closePending, ending, pc, calls, closeAsked>>
    BY <1>5 DEF AsyncSendCb
  <2> QED
    BY <2>2, <2>3, <2>4
<1>6. CASE OnClientWrite
  <2>1. Tail(writes) \in Seq(Requests)
    BY <1>6 DEF OnClientWrite
  <2>2. outcome' \in [Threads -> Outcomes]
    <3>1. CASE UNCHANGED outcome
      BY <3>1
    <3>2. CASE Report(Head(writes).from, "reported")
      BY <3>2 DEF Report, Outcomes
    <3> QED
      BY <1>6, <3>1, <3>2 DEF OnClientWrite
  <2> QED
    BY <1>6, <2>1, <2>2 DEF OnClientWrite, PostIfAsync
<1>7. CASE LoopCall
  BY <1>7 DEF LoopCall, Enter, Report, Outcomes
<1>8. CASE LoopSendStep
  <2>1. CASE LoopSetFlag
    <3>1. pc' = [pc EXCEPT ![Loop] = "buf"] /\ flag' = FALSE
      BY <2>1 DEF LoopSetFlag
    <3>2. Published'
      BY <2>1, <3>1 DEF LoopSetFlag
    <3>3. flag' \in BOOLEAN
      BY <3>1
    <3>4. pc' \in [Threads -> Places]
      BY <3>1
    <3>5. UNCHANGED <<use, client, session, freesAll, connect, handles,
                      mutex, sem, data2, sendPending, writes, closePending,
                      ending, errors, calls, outcome, closeAsked, fault>>
      BY <2>1 DEF LoopSetFlag
    <3>6. TypeOK'
      BY <3>3, <3>4, <3>5
    <3> QED
      BY <3>2, <3>6
  <2>2. CASE LoopSetBuf
    BY <2>2 DEF LoopSetBuf
  <2>3. CASE LoopSubmit
    BY <2>3, SendDataTypes DEF LoopSubmit
  <2> QED
    BY <1>8, <2>1, <2>2, <2>3 DEF LoopSendStep
<1>9. CASE OnReadError
  BY <1>9 DEF OnReadError
<1>10. CASE OnReadErrorReturns
  <2>1. ending' \in BOOLEAN
    BY <1>10 DEF OnReadErrorReturns
  <2>2. UNCHANGED <<use, client, connect, handles, mutex, sem, flag, data2,
                    sendPending, writes, closePending, errors, pc, calls,
                    outcome, closeAsked>>
    BY <1>10 DEF OnReadErrorReturns
  <2>3. /\ session' \in {"active", "closing", "closed"}
        /\ freesAll' \in BOOLEAN
        /\ fault' \in Faults
    <3>1. CASE UvClose(FALSE)
      BY <3>1 DEF UvClose
    <3>2. CASE UNCHANGED <<session, freesAll, fault>>
      BY <3>2
    <3> QED
      BY <1>10, <3>1, <3>2 DEF OnReadErrorReturns
  <2> QED
    BY <2>1, <2>2, <2>3
<1>11. CASE CloseFromThread
  BY <1>11 DEF CloseFromThread
<1>12. CASE CloseFromLoop
  BY <1>12, CloseHandleTypes DEF CloseFromLoop
<1>13. CASE AsyncCloseCb
  BY <1>13, CloseHandleTypes DEF AsyncCloseCb
<1>14. CASE OnCloseConnection
  BY <1>14 DEF OnCloseConnection
<1>15. CASE SendDataErrorReturns
  BY <1>15 DEF SendDataErrorReturns, PostIfAsync
<1>16. CASE Finished \/ UNCHANGED vars
  BY <1>16 DEF Finished, vars
<1> QED
  BY <1>1, <1>2, <1>3, <1>4, <1>5, <1>6, <1>7, <1>8, <1>9, <1>10, <1>11,
     <1>12, <1>13, <1>14, <1>15, <1>16
  DEF Next

\* Every variable keeps its type, however the client is used.
THEOREM ClientTypesHold == Spec => []TypeOK
<1>1. Spec => []TypeInv
  BY InitTypes, NextTypes, PTL DEF Spec
<1> QED
  BY <1>1, PTL DEF TypeInv

-----------------------------------------------------------------------------
(* The discipline keeps the invariant                                      *)

LEMMA InitInv == Init => Inv
BY ConstantsOK
DEF Init, Inv, NoFault, Protocol, Lifecycle, Nothing, Quiet, InCall, Critical,
    Threads

\* Nobody is inside the mutex when nobody is inside a call.
LEMMA QuietIsUnlocked ==
  ASSUME TypeOK, Protocol, Quiet
  PROVE  mutex = NULL
BY DEF TypeOK, Protocol, Quiet, InCall, Critical

\* Whatever the loop finds to do is for the sender that owns the mutex.
LEMMA LoopServesOwner ==
  ASSUME TypeOK, Protocol, "threads" \in use, ~Nothing
  PROVE  mutex \in Senders /\ pc[mutex] = "wait" /\ Owns(mutex)
<1>1. mutex \in Senders /\ pc[mutex] \in Critical /\ Owns(mutex)
  BY DEF TypeOK, Protocol
<1> QED
  BY <1>1 DEF Owns, Critical

\* While somebody is inside a call, nothing of the client is gone.
LEMMA BusyIsOpen ==
  ASSUME TypeOK, Protocol, Lifecycle, NEW s \in Senders, InCall(s)
  PROVE  /\ "threads" \in use
         /\ ~closeAsked
         /\ client = "open"
         /\ handles # "closed"
<1>1. ~Quiet
  BY DEF Quiet
<1>2. "threads" \in use
  BY <1>1 DEF Protocol
<1>3. ~closeAsked
  BY <1>1 DEF Lifecycle
<1>4. client = "open" /\ handles # "closed"
  BY <1>1, <1>3 DEF Lifecycle, TypeOK
<1> QED
  BY <1>2, <1>3, <1>4

\* A step of a sender inside a call.
LEMMA SenderStepInv ==
  ASSUME TypeInv, TypeInv', Inv, NEW s \in Senders, SenderStep(s)
  PROVE  Inv'
<1> USE ConstantsOK DEF Inv, NoFault, Protocol, Lifecycle, Quiet, InCall,
                        Critical, Threads, TypeInv, TypeOK
<1>0. InCall(s)
  BY DEF SenderStep, Lock, SetFlag, SetBuf, Wake, Wait, Unlock
<1>1. /\ "threads" \in use
      /\ ~closeAsked
      /\ client = "open"
      /\ handles # "closed"
  BY <1>0, BusyIsOpen
<1>2. CASE Lock(s)
  <2>1. Nothing' /\ outcome'[s] = "none"
    BY <1>1, <1>2 DEF Lock, Nothing
  <2> QED
    BY <1>1, <1>2, <2>1 DEF Lock, Owns
<1>3. CASE SetFlag(s)
  BY <1>1, <1>3 DEF SetFlag, Owns, Nothing
<1>4. CASE SetBuf(s)
  BY <1>1, <1>4 DEF SetBuf, Owns, Nothing
<1>5. CASE Wake(s)
  BY <1>1, <1>5 DEF Wake, Owns, Nothing, Waiting
<1>6. CASE Wait(s)
  BY <1>1, <1>6 DEF Wait, Owns, Nothing, Waiting
<1>7. CASE Unlock(s)
  BY <1>1, <1>7 DEF Unlock, Owns, Nothing
<1> QED
  BY <1>2, <1>3, <1>4, <1>5, <1>6, <1>7 DEF SenderStep

\* A callback that serves the sender in the mutex.
LEMMA ServeInv ==
  ASSUME TypeInv, TypeInv', Inv, "threads" \in use,
         AsyncSendCb \/ SendDataErrorReturns \/ OnClientWrite
  PROVE  Inv'
<1> USE ConstantsOK DEF Inv, NoFault
<1>1. ~Nothing
  BY DEF AsyncSendCb, SendDataErrorReturns, OnClientWrite, Nothing, TypeInv,
         TypeOK
<1>2. PICK s \in Senders : mutex = s /\ pc[s] = "wait" /\ Owns(s)
  BY <1>1, LoopServesOwner DEF TypeInv
<1>3. data2 = s /\ flag /\ Waiting(s) /\ s \in Threads
  BY <1>2 DEF Owns, Threads
<1>4. InCall(s)
  BY <1>2 DEF InCall
<1>5. ~closeAsked /\ client = "open" /\ handles # "closed"
  BY <1>4, BusyIsOpen DEF TypeInv
<1>6. UNCHANGED <<use, client, session, freesAll, connect, handles, mutex,
                  flag, data2, closePending, ending, pc, calls, closeAsked>>
  BY DEF AsyncSendCb, SendDataErrorReturns, OnClientWrite
<1>7. fault' = "none" /\ Waiting(s)'
  <2>1. CASE AsyncSendCb
    <3>1. /\ outcome[s] = "none" /\ writes = << >> /\ sem = 0 /\ errors = 0
          /\ ~sendPending'
      BY <2>1, <1>3 DEF AsyncSendCb, Waiting, Nothing
    <3>2. CASE SendDataNoMemory(s)
      BY <3>1, <3>2, <1>3, <1>6
      DEF SendDataNoMemory, Waiting, Report, TypeInv, TypeOK
    <3>3. CASE SendDataSubmit(s)
      <4>1. CASE ~Writable
        BY <3>1, <3>3, <4>1, <1>3, <1>4, <1>6
        DEF SendDataSubmit, Waiting, Nothing, Report, TypeInv, TypeOK
      <4>2. CASE Writable
        <5>1. /\ writes' = << OwnWrite(s) >> /\ sem' = 0 /\ errors' = 0
              /\ UNCHANGED fault
          BY <3>1, <3>3, <4>2, <1>4 DEF SendDataSubmit, OwnWrite
        <5>2. outcome'[s] = "carried"
          BY <3>3, <4>2, <1>3, <1>4
          DEF SendDataSubmit, Report, TypeInv, TypeOK
        <5>3. OwnWrite(s)' = OwnWrite(s)
          BY <1>6 DEF OwnWrite
        <5> QED
          BY <5>1, <5>2, <5>3, <3>1 DEF Waiting
      <4> QED
        BY <4>1, <4>2
    <3> QED
      BY <2>1, <1>3, <3>2, <3>3 DEF AsyncSendCb, SendData
  <2>2. CASE OnClientWrite
    <3>1. /\ ~sendPending /\ writes = << OwnWrite(s) >>
          /\ sem = 0 /\ errors = 0
      BY <2>2, <1>3 DEF OnClientWrite, Waiting, Nothing
    <3>2. writes' = << >> /\ Head(writes) = OwnWrite(s)
      BY <2>2, <3>1 DEF OnClientWrite
    <3>3. calls[Head(writes).from] = Head(writes).n /\ Head(writes).from = s
      BY <3>2 DEF OwnWrite
    <3>4. outcome'[s] = "reported"
      BY <2>2, <3>3, <1>3 DEF OnClientWrite, Report, TypeInv, TypeOK
    <3>5. sem' = 1 /\ errors' = 0 /\ ~sendPending' /\ fault' = "none"
      BY <2>2, <3>1, <1>3, <1>5 DEF OnClientWrite, PostIfAsync
    <3> QED
      BY <3>2, <3>4, <3>5 DEF Waiting
  <2>3. CASE SendDataErrorReturns
    <3>1. /\ ~sendPending /\ writes = << >> /\ sem = 0 /\ errors = 1
          /\ outcome[s] = "reported"
      BY <2>3, <1>3 DEF SendDataErrorReturns, Waiting, Nothing, TypeInv, TypeOK
    <3>2. /\ ~sendPending' /\ writes' = << >> /\ sem' = 1 /\ errors' = 0
          /\ outcome' = outcome /\ fault' = "none"
      BY <2>3, <3>1, <1>3, <1>5 DEF SendDataErrorReturns, PostIfAsync
    <3> QED
      BY <3>1, <3>2 DEF Waiting
  <2> QED
    BY <2>1, <2>2, <2>3
<1>8. \A t \in Senders \ {s} : outcome'[t] = outcome[t]
  <2>1. CASE AsyncSendCb
    BY <2>1, <1>3
    DEF AsyncSendCb, SendData, SendDataNoMemory, SendDataSubmit, Report,
        TypeInv, TypeOK, Threads
  <2>2. CASE OnClientWrite
    <3>1. writes = << OwnWrite(s) >>
      BY <2>2, <1>3 DEF OnClientWrite, Waiting, Nothing
    <3>2. Head(writes).from = s
      BY <3>1 DEF OwnWrite
    <3> QED
      BY <2>2, <3>2 DEF OnClientWrite, Report, TypeInv, TypeOK, Threads
  <2>3. CASE SendDataErrorReturns
    BY <2>3 DEF SendDataErrorReturns
  <2> QED
    BY <2>1, <2>2, <2>3
<1>9. Owns(s)'
  BY <1>2, <1>3, <1>6, <1>7 DEF Owns
<1>10. Protocol'
  <2>1. \A t \in Senders :
          /\ pc'[t] \in Critical <=> mutex' = t
          /\ pc'[t] # "submit"
          /\ pc'[t] = "lock" => outcome'[t] = "none"
          /\ mutex' = t => Owns(t)'
    BY <1>2, <1>6, <1>8, <1>9 DEF Protocol
  <2>2. mutex' # NULL /\ "threads" \in use' /\ pc'[Loop] = "idle"
    BY <1>2, <1>6 DEF Protocol, Threads
  <2> QED
    BY <2>1, <2>2 DEF Protocol
<1>11. Lifecycle'
  <2>1. session = "closed" => writes' = << >>
    BY DEF Lifecycle, AsyncSendCb, SendDataErrorReturns, OnClientWrite,
           SendData, SendDataNoMemory, SendDataSubmit, Writable
  <2> QED
    BY <1>5, <1>6, <2>1 DEF Lifecycle, Quiet, InCall
<1> QED
  BY <1>7, <1>10, <1>11

\* The fields are the loop thread's: nobody waits for what becomes of its
\* writes.
LEMMA LoopSendInv ==
  ASSUME TypeInv, TypeInv', Inv, "threads" \notin use,
         \/ LoopCall \/ LoopSendStep
         \/ AsyncSendCb \/ SendDataErrorReturns \/ OnClientWrite
  PROVE  Inv'
<1> USE ConstantsOK DEF Inv, NoFault
<1>1. Quiet /\ mutex = NULL
  BY QuietIsUnlocked DEF TypeInv, Protocol
<1>2. ~AsyncSendCb
  BY DEF AsyncSendCb, Protocol
<1>3. /\ \A s \in Senders : pc'[s] = pc[s]
      /\ UNCHANGED <<use, client, session, freesAll, connect, handles, mutex,
                     sendPending, closePending, ending, closeAsked>>
  BY <1>2 DEF LoopCall, Enter, LoopSendStep, LoopSetFlag, LoopSetBuf,
              LoopSubmit, SendDataErrorReturns, OnClientWrite, TypeInv, TypeOK,
              Threads
<1>4. Quiet'
  BY <1>1, <1>3 DEF Quiet, InCall
<1>5. Protocol'
  <2>1. ~flag /\ sem = 0 /\ ~sendPending
    BY DEF Protocol
  <2>2. ~flag' /\ sem' = 0
    BY <2>1 DEF LoopCall, Enter, LoopSendStep, LoopSetFlag, LoopSetBuf,
                LoopSubmit, SendDataErrorReturns, OnClientWrite, SendData,
                SendDataNoMemory, SendDataSubmit, PostIfAsync, AsyncSendCb
  <2> QED
    BY <1>1, <1>3, <1>4, <2>1, <2>2
    DEF Protocol, Quiet, InCall, Critical, TypeInv, TypeOK
<1>6. /\ fault' = "none"
      /\ session = "closed" => writes' = << >>
      /\ errors' > 0 \/ pc'[Loop] # "idle" => client = "open"
  <2>1. CASE LoopCall
    BY <2>1 DEF LoopCall, Lifecycle
  <2>2. CASE LoopSetFlag \/ LoopSetBuf
    BY <2>2 DEF LoopSetFlag, LoopSetBuf, Lifecycle
  <2>3. CASE LoopSubmit
    BY <2>3 DEF LoopSubmit, SendData, SendDataNoMemory, SendDataSubmit, InCall,
                Writable, Lifecycle
  <2>4. CASE OnClientWrite
    <3>1. client # "freed"
      BY <2>4 DEF OnClientWrite, Lifecycle
    <3> QED
      BY <2>4, <3>1 DEF OnClientWrite, Lifecycle, Protocol
  <2>5. CASE SendDataErrorReturns
    BY <2>5 DEF SendDataErrorReturns, Lifecycle, Protocol
  <2> QED
    BY <1>2, <2>1, <2>2, <2>3, <2>4, <2>5 DEF LoopSendStep
<1>7. Lifecycle'
  BY <1>3, <1>4, <1>6 DEF Lifecycle
<1> QED
  BY <1>5, <1>6, <1>7

\* close_handle, when nobody is inside a call.
LEMMA CloseHandleInv ==
  ASSUME TypeInv, Inv, Quiet, CloseHandle, client = "open", handles = "open",
         session = "active" \/ session = "closed",
         closeAsked', pc[Loop] = "idle", session = "closed" => errors = 0,
         UNCHANGED <<use, connect, mutex, sem, writes, pc, outcome, calls, flag,
                     data2, errors>>
  PROVE  Inv'
<1> USE DEF Inv, NoFault
<1>1. mutex = NULL
  BY QuietIsUnlocked DEF TypeInv
<1>2. /\ handles' = "closed"
      /\ ~sendPending' /\ ~closePending'
      /\ fault' = "none"
      /\ \/ session = "active" /\ session' = "closing" /\ freesAll'
            /\ client' = "open"
         \/ session' = "closed" /\ session = "closed" /\ client' = "freed"
            /\ freesAll' = freesAll
  BY <1>1 DEF CloseHandle, UvClose
<1>3. Quiet'
  BY DEF Quiet, InCall
<1>4. Protocol'
  BY <1>1, <1>2, <1>3
  DEF Protocol, Quiet, InCall, Critical, Nothing, TypeInv, TypeOK
<1>5. Lifecycle'
  BY <1>2, <1>3 DEF Lifecycle
<1> QED
  BY <1>2, <1>4, <1>5

\* What the loop does about the connection alone is nothing to the senders.
LEMMA ProtocolKept ==
  ASSUME Protocol, UNCHANGED <<use, mutex, sem, flag, data2, sendPending,
                               writes, errors, pc, calls, outcome>>
  PROVE  Protocol' /\ (Quiet' <=> Quiet)
BY DEF Protocol, Nothing, Owns, Waiting, OwnWrite, Quiet, InCall

\* The calls of tcp_client_close.
LEMMA CloseInv ==
  ASSUME Discipline, TypeInv, TypeInv', Inv,
         CloseFromThread \/ CloseFromLoop \/ AsyncCloseCb
  PROVE  Inv'
<1> USE DEF Discipline
<1>1. CASE CloseFromThread
  BY <1>1 DEF CloseFromThread, MayClose, Inv, NoFault, Protocol, Lifecycle,
              Nothing, Owns, Waiting, OwnWrite, Quiet, InCall
<1>2. CASE CloseFromLoop
  <2>1. Quiet /\ client = "open" /\ ~closeAsked /\ CloseHandle /\ closeAsked'
    BY <1>2 DEF CloseFromLoop, MayClose
  <2>2. handles = "open" /\ ~freesAll
    BY <2>1 DEF Inv, Lifecycle, TypeInv, TypeOK
  <2>3. session = "active" \/ session = "closed"
    BY <1>2, <2>2 DEF CloseFromLoop, InTurnOfEnd, TypeInv, TypeOK
  <2>4. session = "closed" => errors = 0
    BY <1>2 DEF CloseFromLoop, InErrorAfterEnd, TypeInv, TypeOK
  <2> QED
    BY <1>2, <2>1, <2>2, <2>3, <2>4, CloseHandleInv DEF CloseFromLoop
<1>3. CASE AsyncCloseCb
  <2>1. closeAsked /\ Quiet /\ handles = "open" /\ closeAsked' /\ CloseHandle
    BY <1>3 DEF AsyncCloseCb, Inv, Lifecycle
  <2>2. client = "open" /\ ~freesAll
    BY <2>1 DEF Inv, Lifecycle, TypeInv, TypeOK
  <2>3. session = "active" \/ session = "closed"
    BY <1>3, <2>2 DEF AsyncCloseCb, InTurnOfEnd, TypeInv, TypeOK
  <2> QED
    BY <1>3, <2>1, <2>2, <2>3, CloseHandleInv DEF AsyncCloseCb
<1> QED
  BY <1>1, <1>2, <1>3

LEMMA NextInv ==
  Discipline /\ TypeInv /\ TypeInv' /\ Inv /\ [Next]_vars => Inv'
<1> SUFFICES ASSUME Discipline, TypeInv, TypeInv', Inv, [Next]_vars PROVE Inv'
  OBVIOUS
<1> USE ConstantsOK
<1>1. "threads" \in use => "loop" \notin use
  BY DEF Discipline, TypeInv, TypeOK
<1>2. CASE TcpClientRun
  BY <1>2 DEF TcpClientRun, Inv, NoFault, Protocol, Lifecycle, Nothing, Owns,
              Waiting, OwnWrite, Quiet, InCall
<1>3. CASE OnConnect
  BY <1>3 DEF OnConnect, Inv, NoFault, Protocol, Lifecycle, Nothing, Owns,
              Waiting, OwnWrite, Quiet, InCall
<1>4. ASSUME NEW s \in Senders, Call(s) PROVE Inv'
  <2>1. ~closeAsked /\ "threads" \in use
    BY <1>4 DEF Call, Stopped, Discipline
  <2>2. client # "freed"
    BY <2>1 DEF Inv, Lifecycle
  <2>3. Lifecycle' /\ fault' = "none"
    BY <1>4, <2>1, <2>2 DEF Call, Inv, NoFault, Lifecycle, TypeInv, TypeOK
  <2>4. Protocol'
    BY <1>4, <2>1
    DEF Call, Enter, Report, Inv, Protocol, Critical, Nothing, Owns, Waiting,
        OwnWrite, TypeInv, TypeOK, Threads
  <2> QED
    BY <2>3, <2>4 DEF Inv, NoFault
<1>5. ASSUME NEW s \in Senders, SenderStep(s) PROVE Inv'
  BY <1>5, SenderStepInv
<1>6. CASE AsyncSendCb \/ SendDataErrorReturns \/ OnClientWrite
  BY <1>6, ServeInv, LoopSendInv
<1>7. CASE LoopCall \/ LoopSendStep
  <2>1. "threads" \notin use
    BY <1>1, <1>7 DEF LoopCall, LoopSendStep, LoopSetFlag, LoopSetBuf,
                      LoopSubmit, Inv, Protocol
  <2> QED
    BY <1>7, <2>1, LoopSendInv
<1>8. CASE OnReadError
  BY <1>8 DEF OnReadError, Inv, NoFault, Protocol, Lifecycle, Nothing, Owns,
              Waiting, OwnWrite, Quiet, InCall
<1>9. CASE OnReadErrorReturns
  <2>1. Protocol' /\ (Quiet' <=> Quiet)
    BY <1>9, ProtocolKept DEF OnReadErrorReturns, Inv
  <2>2. UNCHANGED <<client, connect, handles, sendPending, closePending,
                    closeAsked, writes, errors, pc>> /\ ~ending'
    BY <1>9 DEF OnReadErrorReturns
  <2>3. CASE session = "active"
    <3>1. session' = "closing" /\ freesAll' = FALSE /\ fault' = "none"
      BY <1>9, <2>3 DEF OnReadErrorReturns, UvClose
    <3>2. handles # "closed" /\ client = "open"
      BY <1>9, <2>3 DEF OnReadErrorReturns, Inv, Lifecycle, TypeInv, TypeOK
    <3> QED
      BY <2>1, <2>2, <3>1, <3>2 DEF Inv, NoFault, Lifecycle
  <2>4. CASE session # "active"
    <3>1. UNCHANGED <<session, freesAll, fault>>
      BY <1>9, <2>4 DEF OnReadErrorReturns
    <3> QED
      BY <2>1, <2>2, <3>1 DEF Inv, NoFault, Lifecycle
  <2> QED
    BY <2>3, <2>4
<1>10. CASE CloseFromThread \/ CloseFromLoop \/ AsyncCloseCb
  BY <1>10, CloseInv
<1>11. CASE OnCloseConnection
  <2>1. Protocol' /\ (Quiet' <=> Quiet)
    BY <1>11, ProtocolKept DEF OnCloseConnection, Inv
  <2>2. UNCHANGED <<freesAll, connect, handles, sendPending, closePending,
                    closeAsked, writes, errors, pc>>
          /\ errors = 0 /\ pc[Loop] = "idle"
    BY <1>11 DEF OnCloseConnection
  <2>3. client = "open" /\ connect # "pending" /\ writes = << >>
    BY <1>11 DEF OnCloseConnection, Inv, Lifecycle, TypeInv, TypeOK
  <2>4. /\ session' = "closed"
        /\ client' = IF freesAll THEN "freed" ELSE "open"
        /\ fault' = "none"
    BY <1>11, <2>3 DEF OnCloseConnection, Inv, NoFault
  <2>5. handles = "closed" => freesAll
    BY <2>3 DEF Inv, Lifecycle
  <2> QED
    BY <2>1, <2>2, <2>3, <2>4, <2>5
    DEF Inv, NoFault, Lifecycle, TypeInv, TypeOK
<1>12. CASE Finished \/ UNCHANGED vars
  BY <1>12 DEF Finished, vars, Inv, NoFault, Protocol, Lifecycle, Nothing,
               Owns, Waiting, OwnWrite, Quiet, InCall
<1> QED
  BY <1>2, <1>3, <1>4, <1>5, <1>6, <1>7, <1>8, <1>9, <1>10, <1>11, <1>12
  DEF Next

LEMMA InvHolds == ASSUME Discipline PROVE Spec => [](TypeInv /\ Inv)
BY InitTypes, NextTypes, InitInv, NextInv, PTL DEF Spec

\* Nothing is used after it was freed, no dead frame is sent, the session is
\* closed once and no locked mutex is destroyed: at the end of the stream, in
\* tcp_client_close and in both, and when a send runs out of memory after the
\* end, whatever the user then does but close.
THEOREM OneKindOfSenderIsSafe == ASSUME Discipline PROVE Spec => []NoFault
BY InvHolds, PTL DEF Inv

\* on_close_connection and close_handle free the client only when libuv is done
\* with its session: with the attempt to connect, with the writes, and with
\* closing.
THEOREM SessionGoesFirst ==
  ASSUME Discipline PROVE Spec => []ClientOutlivesSession
<1>1. Inv => ClientOutlivesSession
  BY DEF Inv, Lifecycle, ClientOutlivesSession
<1> QED
  BY <1>1, InvHolds, PTL

\* The two together, as the runs check them.
THEOREM ClientUsesStayWithinLives ==
  ASSUME Discipline PROVE Spec => []UsesStayWithinLives
<1>1. Spec => []NoFault /\ []ClientOutlivesSession
  BY OneKindOfSenderIsSafe, SessionGoesFirst
<1> QED
  BY <1>1, PTL DEF UsesStayWithinLives

LEMMA TokenIsOwners ==
  ASSUME TypeInv, Inv PROVE TokenBelongsToOwner
<1> SUFFICES ASSUME sem > 0 PROVE TokenBelongsToOwner
  BY DEF TokenBelongsToOwner
<1>1. CASE "threads" \in use
  <2>1. PICK s \in Senders : mutex = s /\ pc[s] = "wait" /\ Owns(s)
    BY <1>1, LoopServesOwner DEF TypeInv, Inv, Nothing
  <2>2. Waiting(s) /\ s # NULL
    BY <2>1, ConstantsOK DEF Owns, Threads
  <2> QED
    BY <2>1, <2>2 DEF TokenBelongsToOwner, Waiting, Nothing, TypeInv, TypeOK
<1>2. CASE "threads" \notin use
  BY <1>2 DEF Inv, Protocol
<1> QED
  BY <1>1, <1>2

LEMMA WaiterIsServed ==
  ASSUME TypeInv, Inv PROVE NoWakeupIsLost
<1> SUFFICES ASSUME NEW s \in Senders, pc[s] = "wait"
             PROVE  \/ sendPending /\ data2 = s
                    \/ \E i \in DOMAIN writes : /\ writes[i].from = s
                                               /\ writes[i].n = calls[s]
                    \/ errors > 0 /\ flag /\ outcome[s] = "reported"
                    \/ sem > 0
                    \/ outcome[s] = "refused"
  BY DEF NoWakeupIsLost
<1>1. Waiting(s) /\ data2 = s /\ flag
  BY DEF Inv, Protocol, Owns, Critical
<1>2. CASE writes = << OwnWrite(s) >>
  <2>1. 1 \in DOMAIN writes /\ writes[1] = OwnWrite(s)
    BY <1>2
  <2> QED
    BY <2>1 DEF OwnWrite
<1> QED
  BY <1>1, <1>2 DEF Waiting, Nothing, TypeInv, TypeOK

\* Senders are served in turn: a token is there only for the one that waits,
\* and whoever waits has the loop signalled, its own write in libuv, its token,
\* or a write that was refused.
THEOREM ClientServesSendersInTurn ==
  ASSUME Discipline PROVE Spec => []SendsAreServedInTurn
<1>1. TypeInv /\ Inv => SendsAreServedInTurn
  BY TokenIsOwners, WaiterIsServed DEF SendsAreServedInTurn
<1> QED
  BY <1>1, InvHolds, PTL

-----------------------------------------------------------------------------
(* Sends of foreign threads implement the blocking send service            *)

\* A step that is none of the service's.
LEMMA Stutters ==
  ASSUME UNCHANGED <<use, writes, calls>>,
         \A s \in Senders : /\ outcome'[s] = outcome[s]
                            /\ InCall(s)' <=> InCall(s)
  PROVE  UNCHANGED Service!vars
<1>1. \A s \in Senders : /\ StatusOf(s)' = StatusOf(s)
                        /\ PayloadOf(s)' = PayloadOf(s)
  BY DEF StatusOf, PayloadOf
<1> QED
  BY <1>1 DEF Service!vars

\* On the loop thread nothing is the service's.
LEMMA LoopStutters ==
  ASSUME Quiet, Quiet', "threads" \notin use, UNCHANGED use
  PROVE  UNCHANGED Service!vars
<1>1. \A s \in Senders : /\ StatusOf(s)' = StatusOf(s)
                        /\ PayloadOf(s)' = PayloadOf(s)
  BY DEF StatusOf, PayloadOf, Quiet
<1> QED
  BY <1>1 DEF Service!vars

\* What the service's transport is, for no write and for one.
LEMMA TransportOf ==
  ASSUME NEW q, NEW r,
         q = << >> \/ q = << r >>
  PROVE  LET T == [i \in DOMAIN q |->
                     [client |-> q[i].from, payload |-> q[i].n]]
         IN  /\ q = << >> => T = << >>
             /\ q = << r >> => T = << [client |-> r.from, payload |-> r.n] >>
<1>1. CASE q = << >>
  BY <1>1
<1>2. CASE q = << r >>
  <2> DEFINE T == [i \in DOMAIN q |->
                     [client |-> q[i].from, payload |-> q[i].n]]
  <2>1. DOMAIN q = 1 .. 1 /\ q[1] = r
    BY <1>2
  <2>2. T = [i \in 1 .. 1 |-> [client |-> r.from, payload |-> r.n]]
    BY <2>1
  <2>3. T = << [client |-> r.from, payload |-> r.n] >>
    BY <2>2
  <2> QED
    BY <1>2, <2>3
<1> QED
  BY <1>1, <1>2

\* One sender's call gets further, the others' do not.
LEMMA Moves ==
  ASSUME NEW s \in Senders, NEW from, NEW to,
         StatusOf(s) = from, StatusOf(s)' = to,
         \A t \in Senders \ {s} : StatusOf(t)' = StatusOf(t)
  PROVE  Service!Move(s, from, to)
BY DEF Service!Move

\* What the calls ask for does not change.
LEMMA PayloadsKept ==
  ASSUME UNCHANGED <<calls, pc>>
  PROVE  UNCHANGED [s \in Senders |-> PayloadOf(s)]
<1>1. \A s \in Senders : PayloadOf(s)' = PayloadOf(s)
  BY DEF PayloadOf, InCall
<1> QED
  BY <1>1

LEMMA CallAsks ==
  ASSUME TypeInv, NEW s \in Senders, Call(s)
  PROVE  Service!Next
<1> USE ConstantsOK DEF TypeInv, TypeOK, Threads
<1>1. PICK p \in 1 .. MaxCalls : p = calls[s] + 1
  BY DEF Call
<1>2. calls' = [calls EXCEPT ![s] = p]
  BY <1>1 DEF Call, Enter
<1>3. /\ StatusOf(s) = "idle" /\ StatusOf(s)' = "asked"
      /\ PayloadOf(s)' = p
  BY <1>2 DEF Call, Enter, Report, StatusOf, PayloadOf, InCall
<1>4. \A t \in Senders \ {s} : /\ StatusOf(t)' = StatusOf(t)
                              /\ PayloadOf(t)' = PayloadOf(t)
  BY DEF Call, Enter, Report, StatusOf, PayloadOf, InCall
<1>5. Service!Move(s, "idle", "asked")
  BY <1>3, <1>4, Moves
<1>6. [t \in Senders |-> PayloadOf(t)]' =
        [[t \in Senders |-> PayloadOf(t)] EXCEPT ![s] = p]
  BY <1>3, <1>4
<1>7. Service!Ask(s, p)
  BY <1>5, <1>6 DEF Service!Ask, Call
<1> QED
  BY <1>7 DEF Service!Next

\* The sender leaves, or moves inside its call.
LEMMA SenderStepImplements ==
  ASSUME TypeInv, Inv, NEW s \in Senders, SenderStep(s)
  PROVE  Service!Next \/ UNCHANGED Service!vars
<1> USE ConstantsOK DEF TypeInv, TypeOK, Threads
<1>1. CASE Unlock(s)
  <2>1. outcome[s] = "reported"
    BY <1>1 DEF Unlock, Inv, Protocol, Owns, Critical
  <2>2. /\ StatusOf(s) = "reported" /\ StatusOf(s)' = "idle"
        /\ PayloadOf(s)' = NULL
    BY <1>1, <2>1 DEF Unlock, StatusOf, PayloadOf, InCall
  <2>3. \A t \in Senders \ {s} : /\ StatusOf(t)' = StatusOf(t)
                                /\ PayloadOf(t)' = PayloadOf(t)
    BY <1>1 DEF Unlock, StatusOf, PayloadOf, InCall
  <2>4. Service!Move(s, "reported", "idle")
    BY <2>2, <2>3, Moves
  <2>5. [t \in Senders |-> PayloadOf(t)]' =
          [[t \in Senders |-> PayloadOf(t)] EXCEPT ![s] = NULL]
    BY <2>2, <2>3
  <2>6. Service!Return(s)
    BY <1>1, <2>4, <2>5 DEF Service!Return, Unlock
  <2> QED
    BY <2>6 DEF Service!Next
<1>2. CASE ~Unlock(s)
  <2>1. UNCHANGED <<use, writes, calls, outcome>>
    BY <1>2 DEF SenderStep, Lock, SetFlag, SetBuf, Wake, Wait
  <2>2. \A t \in Senders : InCall(t)' <=> InCall(t)
    BY <1>2 DEF SenderStep, Lock, SetFlag, SetBuf, Wake, Wait, InCall
  <2> QED
    BY <2>1, <2>2, Stutters
<1> QED
  BY <1>1, <1>2

\* async_send_cb hands the owner's data over, or gives it up, or has it
\* refused.
LEMMA AsyncSendCbImplements ==
  ASSUME TypeInv, Inv, "threads" \in use, AsyncSendCb
  PROVE  Service!Next
<1> USE ConstantsOK DEF TypeInv, TypeOK, Threads
<1>1. PICK s \in Senders : mutex = s /\ pc[s] = "wait" /\ Owns(s)
  BY LoopServesOwner DEF AsyncSendCb, Nothing, Inv
<1>2. data2 = s /\ outcome[s] = "none" /\ writes = << >>
  BY <1>1 DEF Owns, Waiting, Nothing, AsyncSendCb
<1>3. /\ UNCHANGED <<use, calls, pc>> /\ "threads" \in use'
      /\ UNCHANGED [t \in Senders |-> PayloadOf(t)]
  BY PayloadsKept DEF AsyncSendCb
<1>4. StatusOf(s) = "asked" /\ InCall(s)
  BY <1>1, <1>2 DEF StatusOf, InCall
<1>5. \A t \in Senders \ {s} : StatusOf(t)' = StatusOf(t)
  BY <1>2, <1>3
  DEF AsyncSendCb, SendData, SendDataNoMemory, SendDataSubmit, Report,
      StatusOf, InCall
<1>6. CASE SendDataNoMemory(s)
  <2>1. StatusOf(s)' = "reported"
    BY <1>1, <1>3, <1>6 DEF SendDataNoMemory, Report, StatusOf, InCall
  <2>2. Service!Move(s, "asked", "reported")
    BY <1>4, <1>5, <2>1, Moves
  <2>3. Service!GiveUp(s)
    BY <1>2, <1>3, <1>6, <2>2 DEF Service!GiveUp, SendDataNoMemory
  <2> QED
    BY <2>3 DEF Service!Next
<1>7. CASE SendDataSubmit(s) /\ ~Writable
  <2>1. StatusOf(s)' = "refused" /\ writes' = writes
    BY <1>1, <1>3, <1>4, <1>7 DEF SendDataSubmit, Report, StatusOf, InCall
  <2>2. Service!Move(s, "asked", "refused")
    BY <1>4, <1>5, <2>1, Moves
  <2>3. Service!Refuse(s)
    BY <1>2, <1>3, <2>1, <2>2 DEF Service!Refuse
  <2> QED
    BY <2>3 DEF Service!Next
<1>8. CASE SendDataSubmit(s) /\ Writable
  <2>1. StatusOf(s)' = "carried" /\ writes' = << OwnWrite(s) >>
    BY <1>1, <1>2, <1>3, <1>4, <1>8
    DEF SendDataSubmit, Report, StatusOf, InCall, OwnWrite
  <2>2. Service!Move(s, "asked", "carried")
    BY <1>4, <1>5, <2>1, Moves
  <2>3. [i \in DOMAIN writes' |-> [client |-> writes'[i].from,
                                   payload |-> writes'[i].n]]
          = << [client |-> s, payload |-> PayloadOf(s)] >>
    BY <1>4, <2>1, TransportOf DEF OwnWrite, PayloadOf
  <2>4. Service!Carry(s)
    BY <1>2, <1>3, <2>2, <2>3 DEF Service!Carry, Service!Letter
  <2> QED
    BY <2>4 DEF Service!Next
<1> QED
  BY <1>2, <1>6, <1>7, <1>8 DEF AsyncSendCb, SendData

\* on_client_write reports on the owner's data.
LEMMA OnClientWriteImplements ==
  ASSUME TypeInv, Inv, "threads" \in use, OnClientWrite
  PROVE  Service!Next
<1> USE ConstantsOK DEF TypeInv, TypeOK, Threads
<1>1. PICK s \in Senders : mutex = s /\ pc[s] = "wait" /\ Owns(s)
  BY LoopServesOwner DEF OnClientWrite, Nothing, Inv
<1>2. writes = << OwnWrite(s) >> /\ outcome[s] = "carried"
  BY <1>1 DEF Owns, Waiting, Nothing, OnClientWrite
<1>3. writes' = << >> /\ Head(writes) = OwnWrite(s)
  BY <1>2 DEF OnClientWrite
<1>4. outcome' = [outcome EXCEPT ![s] = "reported"]
  <2>1. Head(writes).from = s /\ Head(writes).n = calls[s]
    BY <1>3 DEF OwnWrite
  <2> QED
    BY <2>1 DEF OnClientWrite, Report
<1>5. /\ UNCHANGED <<use, calls, pc>>
      /\ UNCHANGED [t \in Senders |-> PayloadOf(t)]
  BY PayloadsKept DEF OnClientWrite
<1>6. StatusOf(s) = "carried" /\ StatusOf(s)' = "reported"
  BY <1>1, <1>2, <1>4, <1>5 DEF StatusOf, InCall
<1>7. \A t \in Senders \ {s} : StatusOf(t)' = StatusOf(t)
  BY <1>4, <1>5 DEF StatusOf, InCall
<1>8. Service!Move(s, "carried", "reported")
  BY <1>6, <1>7, Moves
<1>9. [i \in DOMAIN writes |-> [client |-> writes[i].from,
                                payload |-> writes[i].n]]
        = << [client |-> s, payload |-> PayloadOf(s)] >>
  BY <1>1, <1>2, TransportOf DEF OwnWrite, PayloadOf, InCall
<1>10. Service!Report(s)
  BY <1>3, <1>5, <1>8, <1>9 DEF Service!Report, Service!Letter
<1> QED
  BY <1>10 DEF Service!Next

\* tcp_client_send_data of foreign threads is the blocking send of SendService.
THEOREM ClientSendsImplementSendService ==
  ASSUME Discipline
  PROVE  Spec => ImplementsSendService
<1> USE ConstantsOK
<1>1. Init => Service!Init
  BY DEF Init, Service!Init, StatusOf, PayloadOf, InCall, Threads
<1>2. TypeInv /\ TypeInv' /\ Inv /\ Inv' /\ [Next]_vars =>
        [Service!Next]_(Service!vars)
  <2> SUFFICES ASSUME TypeInv, TypeInv', Inv, Inv', [Next]_vars
               PROVE  Service!Next \/ UNCHANGED Service!vars
    OBVIOUS
  <2>1. ASSUME NEW s \in Senders, Call(s) PROVE Service!Next
    BY <2>1, CallAsks
  <2>2. ASSUME NEW s \in Senders, SenderStep(s)
        PROVE  Service!Next \/ UNCHANGED Service!vars
    BY <2>2, SenderStepImplements
  <2>3. CASE "threads" \in use /\ (AsyncSendCb \/ OnClientWrite)
    BY <2>3, AsyncSendCbImplements, OnClientWriteImplements
  <2>4. CASE "threads" \notin use
    <3>1. Quiet /\ Quiet' /\ use' = use
      BY <2>4 DEF Inv, Protocol, Next, vars, TcpClientRun, OnConnect, Call,
                  SenderStep, Lock, SetFlag, SetBuf, Wake, Wait, Unlock,
                  AsyncSendCb, SendDataErrorReturns, OnClientWrite, LoopCall,
                  LoopSendStep, LoopSetFlag, LoopSetBuf, LoopSubmit, OnReadError,
                  OnReadErrorReturns, CloseFromThread, CloseFromLoop,
                  AsyncCloseCb, OnCloseConnection, Finished
    <3> QED
      BY <2>4, <3>1, LoopStutters
  <2>5. CASE UNCHANGED <<use, writes, calls, outcome, pc>>
    <3>1. \A s \in Senders : InCall(s)' <=> InCall(s)
      BY <2>5 DEF InCall
    <3> QED
      BY <2>5, <3>1, Stutters
  <2>6. CASE "threads" \in use /\ (LoopCall \/ LoopSendStep)
    BY <2>6 DEF LoopCall, LoopSendStep, LoopSetFlag, LoopSetBuf, LoopSubmit,
                Inv, Protocol, Discipline, TypeInv, TypeOK
  <2> QED
    BY <2>1, <2>2, <2>3, <2>4, <2>5, <2>6
    DEF Next, vars, TcpClientRun, OnConnect, SendDataErrorReturns, OnReadError,
        OnReadErrorReturns, CloseFromThread, CloseFromLoop, AsyncCloseCb,
        OnCloseConnection, Finished
<1> QED
  BY <1>1, <1>2, InitTypes, NextTypes, InvHolds, PTL
  DEF Spec, ImplementsSendService, Service!Spec

=============================================================================
