-------------------------- MODULE TcpServerProofs --------------------------
(***************************************************************************)
(* Proofs about TcpServer, for any number of connections, senders and      *)
(* calls.                                                                  *)
(*                                                                         *)
(* The types, and that the queue holds the living connections, hold        *)
(* however the server is used.  That nothing is touched after its end, and *)
(* that the senders are served in turn, is what their properties say of    *)
(* undisturbed use, in which clients leave neither where other threads     *)
(* send nor where one closes.                                              *)
(***************************************************************************)
EXTENDS TcpServer, TLAPS

-----------------------------------------------------------------------------
(* The queue of connections                                                *)

R == INSTANCE RingProofs WITH Nodes <- Conns

\* r is a ring whose elements are the ones a walk visits.
IsQueue(r) == R!IsQueue(r)

LEMMA SettingHolds == R!Setting
BY ConstantsOK DEF R!Setting, R!IsFiniteSet, IsFiniteSet

\* The server's queue and the one of the proofs are the same.
LEMMA SamePlaces == Queue!Places = R!Places
BY DEF Queue!Places, R!Places

LEMMA SameCardinality ==
  \A S : /\ Queue!Cardinality(S) = R!Cardinality(S)
         /\ Cardinality(S) = R!Cardinality(S)
BY Zenon DEF Queue!Cardinality, R!Cardinality, Cardinality

LEMMA SameElements == \A r : Queue!Elements(r) = R!Elements(r)
<1> SUFFICES ASSUME NEW r PROVE Queue!Elements(r) = R!Elements(r)
  OBVIOUS
<1>1. Queue!Reached(r) = R!Reached(r)
  <2> DEFINE walk(g) == [k \in 0 .. R!Cardinality(R!Places) |->
                           IF k = 0 \/ (k > 1 /\ g[k - 1] = Anchor)
                           THEN Anchor ELSE r.next[g[k - 1]]]
  <2>1. Queue!Reached(r) = CHOOSE g : g = walk(g)
    BY SamePlaces, SameCardinality DEF Queue!Reached, Queue!Following
  <2>2. R!Reached(r) = CHOOSE g : g = walk(g)
    BY DEF R!Reached, R!Following
  <2> HIDE DEF walk
  <2> QED
    BY <2>1, <2>2
<1> DEFINE back(at) == {k \in DOMAIN at : k > 0 /\ at[k] = Anchor}
           n(at) == IF back(at) = {} THEN R!Cardinality(Conns)
                    ELSE (CHOOSE k \in back(at) :
                            \A j \in back(at) : k <= j) - 1
           q(at) == [i \in 1 .. n(at) |-> at[i]]
<1>2. Queue!Elements(r) = q(Queue!Reached(r))
  BY SameCardinality DEF Queue!Elements
<1>3. R!Elements(r) = q(R!Reached(r))
  BY DEF R!Elements
<1> HIDE DEF q
<1> QED
  BY <1>1, <1>2, <1>3

LEMMA SameOperators ==
  \A r, c : /\ Queue!Rings = R!Rings
            /\ Queue!EmptyRing = R!EmptyRing
            /\ Queue!InsertTail(r, c) = R!InsertTail(r, c)
            /\ Queue!Remove(r, c) = R!Remove(r, c)
            /\ Queue!IsEmpty(r) = R!IsEmpty(r)
            /\ Queue!IsRing(r, c) = R!IsRing(r, c)
            /\ R!Members(c) = {c[i] : i \in 1 .. Len(c)}
BY DEF Queue!Rings, R!Rings, Queue!Places, R!Places, Queue!EmptyRing,
       R!EmptyRing, Queue!InsertTail, R!InsertTail, Queue!Remove, R!Remove,
       Queue!IsEmpty, R!IsEmpty, Queue!IsRing, R!IsRing, R!Members

\* The connections in the queue r.
Linked(r) == R!Members(R!Elements(r))

LEMMA PlacesOfSequence ==
  ASSUME NEW q \in Seq(Conns)
  PROVE  /\ ToSet(q) = {q[i] : i \in 1 .. Len(q)}
         /\ \A i \in 1 .. Len(q) : q[i] \in Conns
         /\ Len(q) \in Nat
BY DEF ToSet

\* What a queue is to the server.
LEMMA QueueFacts ==
  ASSUME NEW r, IsQueue(r)
  PROVE  /\ r \in Queue!Rings
         /\ ToSet(Queue!Elements(r)) = Linked(r)
         /\ Linked(r) \subseteq Conns
         /\ Len(Queue!Elements(r)) \in Nat
         /\ Cardinality(Linked(r)) = Len(Queue!Elements(r))
         /\ Queue!IsRing(r, Linked(r))
         /\ Queue!IsEmpty(r) <=> Linked(r) = {}
<1>1. /\ r \in R!Rings
      /\ R!Elements(r) \in Seq(Conns)
      /\ R!Cardinality(Linked(r)) = Len(R!Elements(r))
  BY SettingHolds, R!QueueHoldsEachOnce DEF IsQueue, Linked
<1>2. Linked(r) = {R!Elements(r)[i] : i \in 1 .. Len(R!Elements(r))}
  BY DEF Linked, R!Members
<1>3. ToSet(R!Elements(r)) = Linked(r)
  BY <1>1, <1>2, PlacesOfSequence
<1>4. Linked(r) \subseteq Conns /\ Len(R!Elements(r)) \in Nat
  BY <1>1, <1>2, PlacesOfSequence
<1>5. R!IsRing(r, Linked(r)) /\ (R!IsEmpty(r) <=> Linked(r) = {})
  BY SettingHolds, R!QueueIsRing, R!EmptyHasNone DEF IsQueue, Linked
<1> QED
  BY <1>1, <1>3, <1>4, <1>5, SameElements, SameOperators, SameCardinality

LEMMA QueueInit == IsQueue(Queue!EmptyRing) /\ Linked(Queue!EmptyRing) = {}
<1>1. R!IsQueue(R!EmptyRing) /\ R!Elements(R!EmptyRing) = << >>
  BY SettingHolds, R!QueueStarts
<1>2. R!Members(<< >>) = {}
  BY DEF R!Members
<1> QED
  BY <1>1, <1>2, SameOperators DEF IsQueue, Linked

LEMMA QueueInsert ==
  ASSUME NEW r, IsQueue(r), NEW c \in Conns, c \notin Linked(r)
  PROVE  /\ IsQueue(Queue!InsertTail(r, c))
         /\ Linked(Queue!InsertTail(r, c)) = Linked(r) \cup {c}
         /\ Len(Queue!Elements(Queue!InsertTail(r, c))) =
              Len(Queue!Elements(r)) + 1
BY SettingHolds, R!QueueGrows, SameOperators, SameElements
DEF IsQueue, Linked

LEMMA QueueRemove ==
  ASSUME NEW r, IsQueue(r), NEW c \in Linked(r)
  PROVE  /\ IsQueue(Queue!Remove(r, c))
         /\ Linked(Queue!Remove(r, c)) = Linked(r) \ {c}
         /\ Len(Queue!Elements(Queue!Remove(r, c))) =
              Len(Queue!Elements(r)) - 1
BY SettingHolds, R!QueueShrinks, SameOperators, SameElements
DEF IsQueue, Linked

-----------------------------------------------------------------------------
(* However it is used: the types, and what is in the queue                 *)

USE DEF Goto, LoopIdle, Touch, TouchServer, TouchLock, WaitLeaves, serverVars,
        lockVars, asyncVars, connVars, threadVars

QueueOK ==
  /\ IsQueue(ring)
  /\ Linked(ring) = Alive
  /\ connCount = Len(Sessions)

\* Whatever is under way is for a connection, and what libuv has to do is for
\* one that lives.
Targets ==
  /\ callback.in # "none" => callback.conn \in Alive
  /\ callback.in = "close" => /\ conn[callback.conn] = "closing"
                              /\ writes[callback.conn] = << >>
  /\ sendPending => sendTarget \in Conns
  /\ \A s \in Senders : /\ InCall(s) => frame[s].conn \in Conns
                        /\ pc[s] = "wake" => sendTarget \in Conns
  /\ \A c \in Conns : writes[c] # << >> => c \in Alive

TypeInv == TypeOK /\ QueueOK /\ Targets

\* Nothing but an accept and the end of a close concerns the queue.
LEMMA QueueKept ==
  ASSUME QueueOK, UNCHANGED <<ring, connCount>>, Alive' = Alive
  PROVE  QueueOK'
BY DEF QueueOK, Sessions

LEMMA ClosingLives ==
  ASSUME TypeOK, NEW C, ConnsClose(C)
  PROVE  /\ conn' \in [Conns -> Lives]
         /\ Alive' = Alive
         /\ \A c \in Conns : conn[c] = "closing" => conn'[c] = "closing"
BY DEF TypeOK, ConnsClose, Alive, Lives

LEMMA LivingAreQueued ==
  ASSUME TypeInv
  PROVE  /\ ring \in Queue!Rings
         /\ ToSet(Sessions) = Alive
         /\ Alive \subseteq Conns
         /\ connCount \in Nat
         /\ Cardinality(Alive) = connCount
         /\ Queue!IsRing(ring, Alive)
         /\ Queue!IsEmpty(ring) <=> Alive = {}
BY QueueFacts DEF TypeInv, QueueOK, Sessions

LEMMA InitTypes == Init => TypeInv
<1> SUFFICES ASSUME Init PROVE TypeInv
  OBVIOUS
<1> USE ConstantsOK
<1>1. /\ IsQueue(ring)
      /\ Linked(ring) = {}
      /\ ring \in Queue!Rings
      /\ Len(Sessions) = 0
  <2>1. Queue!Elements(ring) = << >>
    BY SettingHolds, R!QueueStarts, SameElements, SameOperators DEF Init
  <2>2. IsQueue(ring) /\ Linked(ring) = {}
    BY QueueInit DEF Init
  <2> QED
    BY <2>1, <2>2, QueueFacts DEF Sessions
<1>2. Alive = {}
  BY DEF Init, Alive
<1>3. QueueOK
  BY <1>1, <1>2 DEF QueueOK, Init
<1>4. Targets
  BY DEF Targets, Init, NoCallback, InCall
<1>5. /\ conn \in [Conns -> Lives]
      /\ writes \in [Conns -> Seq(Requests)]
      /\ data2 \in [Conns -> Threads \cup {NULL}]
      /\ flag \in [Conns -> BOOLEAN]
  BY DEF Init, Lives
<1>6. /\ pc \in [Senders -> Places]
      /\ outcome \in [Senders -> Outcomes]
      /\ frame \in [Senders -> Frames]
  BY DEF Init, Places, Outcomes, Frames, Modes
<1>7. callback \in [in : {"none", "error", "close"}, conn : Conns \cup {NULL}]
  BY DEF Init, NoCallback
<1>8. TypeOK
  BY <1>1, <1>5, <1>6, <1>7 DEF TypeOK, Init, Faults
<1> QED
  BY <1>3, <1>4, <1>8 DEF TypeInv

\* What send_data leaves in the fields it writes.
LEMMA SendDataTypes ==
  ASSUME TypeInv, NEW c \in Conns, data2[c] \in Senders,
         SendDataNoMemory(c) \/ SendDataSubmit(c)
  PROVE  /\ sem' \in Nat
         /\ writes' \in [Conns -> Seq(Requests)]
         /\ outcome' \in [Senders -> Outcomes]
         /\ fault' \in Faults
         /\ \A d \in Conns : writes'[d] # << >> => d \in Alive
<1> USE DEF TypeOK, TypeInv, Targets
<1>1. [from |-> data2[c], n |-> frame[data2[c]].n] \in Requests
  BY DEF Requests, Frames, Threads
<1>2. Append(writes[c], [from |-> data2[c], n |-> frame[data2[c]].n])
        \in Seq(Requests)
  BY <1>1
<1>3. CASE SendDataNoMemory(c)
  BY <1>3 DEF SendDataNoMemory, PostIfAsync, Report, Outcomes
<1>4. CASE SendDataSubmit(c)
  <2>1. sem' \in Nat /\ fault' \in Faults
    BY <1>4 DEF SendDataSubmit, Faults
  <2>2. outcome' \in [Senders -> Outcomes]
    BY <1>4 DEF SendDataSubmit, Report, Outcomes
  <2>3. CASE UNCHANGED writes
    BY <2>1, <2>2, <2>3
  <2>4. CASE /\ conn[c] = "open"
             /\ writes' = [writes EXCEPT ![c] =
                  Append(@, [from |-> data2[c], n |-> frame[data2[c]].n])]
    <3>1. c \in Alive
      BY <2>4 DEF Alive
    <3>2. \A d \in Conns : d # c => writes'[d] = writes[d]
      BY <2>4
    <3> QED
      BY <1>2, <2>1, <2>2, <2>4, <3>1, <3>2
  <2> QED
    BY <1>4, <2>3, <2>4 DEF SendDataSubmit
<1> QED
  BY <1>3, <1>4

LEMMA CloseHandleTypes ==
  ASSUME TypeOK, CloseHandle
  PROVE  /\ server' \in {"unborn", "open", "freed", "failed"}
         /\ listener' \in {"open", "stalled", "closed"}
         /\ sendPending' \in BOOLEAN /\ (sendPending' => sendPending)
         /\ closePending' \in BOOLEAN
         /\ conn' \in [Conns -> Lives]
         /\ Alive' = Alive
         /\ \A c \in Conns : conn[c] = "closing" => conn'[c] = "closing"
         /\ fault' \in Faults
<1>1. CASE mutex # NULL
  BY <1>1 DEF CloseHandle, TypeOK, Alive, Faults
<1>2. CASE mutex = NULL
  BY <1>2, ClosingLives DEF CloseHandle, TypeOK
<1> QED
  BY <1>1, <1>2

\* A step of a sender: it changes what it asks for, but no connection.
LEMMA SenderStepTypes ==
  ASSUME TypeInv, NEW s \in Senders, SenderStep(s)
  PROVE  TypeInv'
<1> USE ConstantsOK DEF TypeInv, TypeOK, Targets, Places, Critical, Faults,
                        InCall
<1>1. UNCHANGED <<ring, connCount, conn, writes, callback>> /\ Alive' = Alive
  BY DEF SenderStep, Lock, SetFlag, SetBuf, SetTarget, Wake, Wait, Unlock,
         PrintConn, NextConn, WalkEnds, Alive
<1>2. QueueOK'
  BY <1>1, QueueKept
<1>3. frame[s].conn \in Conns
  BY DEF SenderStep, Lock, SetFlag, SetBuf, SetTarget, Wake, Wait, Unlock,
         PrintConn, NextConn, WalkEnds
<1>4. CASE Lock(s)
  BY <1>1, <1>2, <1>4 DEF Lock
<1>5. CASE SetFlag(s)
  BY <1>1, <1>2, <1>5 DEF SetFlag
<1>6. CASE SetBuf(s)
  <2>1. data2' \in [Conns -> Threads \cup {NULL}]
    BY <1>6 DEF SetBuf, Threads
  <2> QED
    BY <1>1, <1>2, <1>6, <2>1 DEF SetBuf
<1>7. CASE SetTarget(s)
  BY <1>1, <1>2, <1>3, <1>7 DEF SetTarget
<1>8. CASE Wake(s)
  BY <1>1, <1>2, <1>8 DEF Wake
<1>9. CASE Wait(s)
  BY <1>1, <1>2, <1>9 DEF Wait
<1>10. CASE Unlock(s)
  BY <1>1, <1>2, <1>10 DEF Unlock
<1>11. CASE PrintConn(s)
  BY <1>1, <1>2, <1>11 DEF PrintConn
<1>12. CASE NextConn(s)
  <2>1. Onward(s) \in Conns
    BY <1>3, <1>12 DEF NextConn, Onward, Queue!Following, Queue!Rings,
                       Queue!Places
  <2>2. frame' \in [Senders -> Frames] /\ frame'[s].conn = Onward(s)
    BY <1>12, <2>1 DEF NextConn, Visit, Frames
  <2>3. outcome' \in [Senders -> Outcomes]
    BY <1>12 DEF NextConn, Visit, Outcomes
  <2>4. pc' \in [Senders -> Places] /\ (\A t \in Senders : t # s => pc'[t] = pc[t])
    BY <1>12 DEF NextConn, VisitAt
  <2>5. \A t \in Senders : t # s => frame'[t] = frame[t]
    BY <1>12 DEF NextConn, Visit
  <2>6. Targets'
    BY <1>1, <1>12, <2>1, <2>2, <2>4, <2>5 DEF NextConn, VisitAt
  <2> QED
    BY <1>1, <1>2, <1>12, <2>2, <2>3, <2>4, <2>6 DEF NextConn
<1>13. CASE WalkEnds(s)
  BY <1>1, <1>2, <1>13 DEF WalkEnds
<1> QED
  BY <1>4, <1>5, <1>6, <1>7, <1>8, <1>9, <1>10, <1>11, <1>12, <1>13
  DEF SenderStep

LEMMA CallTypes ==
  ASSUME TypeInv, NEW s \in Senders, NEW m \in Modes, Call(s, m)
  PROVE  TypeInv'
<1> USE DEF TypeInv, TypeOK, Targets, InCall
<1>1. UNCHANGED <<ring, connCount, conn, writes, callback>> /\ Alive' = Alive
  BY DEF Call, Alive
<1>2. QueueOK'
  BY <1>1, QueueKept
<1>3. PICK c \in ToSet(Sessions) : Visit(s, c, m)
  BY DEF Call
<1>4. c \in Conns
  BY <1>3, LivingAreQueued
<1>5. frame' \in [Senders -> Frames] /\ frame'[s].conn = c
  BY <1>3, <1>4 DEF Visit, Frames
<1>6. outcome' \in [Senders -> Outcomes]
  BY <1>3 DEF Visit, Outcomes
<1>7. pc' \in [Senders -> Places] /\ pc'[s] # "wake"
  BY DEF Call, VisitAt, Places, Critical
<1>8. \A t \in Senders : t # s => frame'[t] = frame[t] /\ pc'[t] = pc[t]
  BY <1>3 DEF Call, Visit
<1>9. Targets'
  BY <1>1, <1>4, <1>5, <1>7, <1>8 DEF Call
<1> QED
  BY <1>1, <1>2, <1>5, <1>6, <1>7, <1>9 DEF Call

\* A connection comes.
LEMMA NewConnectionTypes ==
  ASSUME TypeInv, NEW c \in Conns,
         OnNewConnection(c) \/ OnNewConnectionFails(c)
  PROVE  TypeInv'
<1> USE DEF TypeInv, TypeOK, InCall
<1>0. c \notin Alive
  BY DEF OnNewConnection, OnNewConnectionFails, Alive
<1>1. CASE OnNewConnection(c)
  <2>1. conn' \in [Conns -> Lives] /\ Alive' = Alive \cup {c}
    BY <1>1 DEF OnNewConnection, Lives, Alive
  <2>2. ring' = Queue!InsertTail(ring, c) /\ connCount' = connCount + 1
    BY <1>1 DEF OnNewConnection
  <2>3. QueueOK'
    BY <1>0, <2>1, <2>2, QueueInsert DEF QueueOK, Sessions
  <2>4. ring' \in Queue!Rings /\ connCount' \in Nat
    BY <2>3, QueueFacts DEF QueueOK, Sessions
  <2>5. Targets'
    BY <1>1, <2>1 DEF OnNewConnection, Targets
  <2> QED
    BY <1>1, <2>1, <2>3, <2>4, <2>5 DEF OnNewConnection, Faults
<1>2. CASE OnNewConnectionFails(c)
  <2>1. conn' \in [Conns -> Lives] /\ Alive' = Alive
    BY <1>0, <1>2 DEF OnNewConnectionFails, Lives, Alive
  <2>2. QueueOK'
    BY <1>2, <2>1, QueueKept DEF OnNewConnectionFails
  <2>3. Targets'
    BY <1>2, <2>1 DEF OnNewConnectionFails, Targets, LoopIdle, NoCallback
  <2> QED
    BY <1>2, <2>1, <2>2, <2>3 DEF OnNewConnectionFails, Faults
<1> QED
  BY <1>1, <1>2

\* libuv reports on the oldest write of c.
LEMMA OnConnWriteTypes ==
  ASSUME TypeInv, NEW c \in Conns, OnConnWrite(c)
  PROVE  TypeInv'
<1> USE DEF TypeInv, TypeOK, InCall
<1>1. UNCHANGED <<ring, connCount, conn, callback>> /\ Alive' = Alive
  BY DEF OnConnWrite, Alive
<1>2. QueueOK'
  BY <1>1, QueueKept
<1>3. /\ writes' = [writes EXCEPT ![c] = Tail(writes[c])]
      /\ Tail(writes[c]) \in Seq(Requests)
      /\ writes[c] # << >>
  BY DEF OnConnWrite
<1>4. writes' \in [Conns -> Seq(Requests)]
  BY <1>3
<1>5. \A d \in Conns : writes'[d] # << >> => writes[d] # << >>
  BY <1>3
<1>6. outcome' \in [Senders -> Outcomes]
  <2>1. CASE UNCHANGED outcome
    BY <2>1
  <2>2. CASE /\ Head(writes[c]).from \in Senders
             /\ Report(Head(writes[c]).from, "reported")
    BY <2>2 DEF Report, Outcomes
  <2> QED
    BY <2>1, <2>2 DEF OnConnWrite
<1>7. sem' \in Nat
  BY DEF OnConnWrite, PostIfAsync
<1>8. Targets'
  BY <1>1, <1>5 DEF OnConnWrite, Targets, LoopIdle, NoCallback
<1> QED
  BY <1>1, <1>2, <1>4, <1>6, <1>7, <1>8 DEF OnConnWrite, TouchFlag, Faults

LEMMA AsyncSendCbTypes ==
  ASSUME TypeInv, AsyncSendCb
  PROVE  TypeInv'
<1> USE DEF TypeInv, TypeOK, InCall
<1>1. UNCHANGED <<ring, connCount, conn, callback>> /\ Alive' = Alive
  BY DEF AsyncSendCb, Alive
<1>2. QueueOK'
  BY <1>1, QueueKept
<1>3. sendTarget \in Conns
  BY DEF AsyncSendCb, Targets
<1>4. /\ sem' \in Nat
      /\ writes' \in [Conns -> Seq(Requests)]
      /\ outcome' \in [Senders -> Outcomes]
      /\ fault' \in Faults
      /\ \A d \in Conns : writes'[d] # << >> => d \in Alive
  <2>1. CASE UNCHANGED <<sem, writes, outcome>>
    BY <2>1 DEF AsyncSendCb, Targets, Faults, SendDataNoMemory, SendDataSubmit
  <2>2. CASE /\ data2[sendTarget] \in Senders
             /\ SendDataNoMemory(sendTarget) \/ SendDataSubmit(sendTarget)
    BY <1>3, <2>2, SendDataTypes
  <2> QED
    BY <2>1, <2>2 DEF AsyncSendCb
<1>5. Targets'
  BY <1>1, <1>4 DEF AsyncSendCb, Targets, LoopIdle, NoCallback
<1> QED
  BY <1>1, <1>2, <1>4, <1>5 DEF AsyncSendCb

LEMMA LoopSendTypes ==
  ASSUME TypeInv, NEW c \in Conns, LoopSend(c)
  PROVE  TypeInv'
<1> USE ConstantsOK DEF TypeInv, TypeOK, InCall
<1>1. UNCHANGED <<ring, connCount, conn, callback>> /\ Alive' = Alive
  BY DEF LoopSend, Alive
<1>2. QueueOK'
  BY <1>1, QueueKept
<1>3. data2' \in [Conns -> Threads \cup {NULL}] /\ flag' \in [Conns -> BOOLEAN]
  BY DEF LoopSend, Threads
<1>4. loopSends' \in Nat
  BY DEF LoopSend
<1>5. [from |-> Loop, n |-> loopSends'] \in Requests
  BY <1>4 DEF Requests, Threads
<1>6. /\ writes' \in [Conns -> Seq(Requests)]
      /\ \A d \in Conns : writes'[d] # writes[d] => conn[d] = "open"
  <2>1. CASE UNCHANGED writes
    BY <2>1
  <2>2. CASE /\ conn[c] = "open"
             /\ writes' = [writes EXCEPT ![c] =
                             Append(@, [from |-> Loop, n |-> loopSends'])]
    <3>1. Append(writes[c], [from |-> Loop, n |-> loopSends'])
            \in Seq(Requests)
      BY <1>5
    <3> QED
      BY <2>2, <3>1
  <2> QED
    BY <2>1, <2>2 DEF LoopSend
<1>7. Targets'
  BY <1>1, <1>6 DEF LoopSend, Targets, Alive
<1> QED
  BY <1>1, <1>2, <1>3, <1>4, <1>6, <1>7 DEF LoopSend

LEMMA CloseTypes ==
  ASSUME TypeInv, CloseFromLoop \/ CloseFlag \/ CloseSignal \/ AsyncCloseCb
  PROVE  TypeInv'
<1> USE DEF TypeInv, TypeOK, InCall
<1>1. CASE CloseFlag \/ CloseSignal
  <2>1. QueueOK'
    BY <1>1, QueueKept DEF CloseFlag, CloseSignal, Alive
  <2>2. Targets'
    BY <1>1 DEF CloseFlag, CloseSignal, Targets, Alive
  <2> QED
    BY <1>1, <2>1, <2>2 DEF CloseFlag, CloseSignal, Faults
<1>2. CASE CloseFromLoop \/ AsyncCloseCb
  <2>1. UNCHANGED <<ring, connCount, writes, callback, pc, frame, sendTarget>>
    BY <1>2 DEF CloseFromLoop, AsyncCloseCb
  <2>2. /\ server' \in {"unborn", "open", "freed", "failed"}
        /\ listener' \in {"open", "stalled", "closed"}
        /\ sendPending' \in BOOLEAN /\ (sendPending' => sendPending)
        /\ closePending' \in BOOLEAN
        /\ conn' \in [Conns -> Lives]
        /\ Alive' = Alive
        /\ \A c \in Conns : conn[c] = "closing" => conn'[c] = "closing"
        /\ fault' \in Faults
    <3>1. CASE CloseHandle
      BY <3>1, CloseHandleTypes
    <3>2. CASE ~CloseHandle
      BY <1>2, <3>2 DEF CloseFromLoop, AsyncCloseCb, Alive, Faults
    <3> QED
      BY <3>1, <3>2
  <2>3. QueueOK'
    BY <2>1, <2>2, QueueKept
  <2>4. Targets'
    BY <2>1, <2>2 DEF Targets, Alive
  <2> QED
    BY <1>2, <2>1, <2>2, <2>3, <2>4 DEF CloseFromLoop, AsyncCloseCb
<1> QED
  BY <1>1, <1>2

LEMMA ReadErrorTypes ==
  ASSUME TypeInv,
         \/ \E c \in Conns : OnConnReadError(c)
         \/ OnConnReadErrorReturns
  PROVE  TypeInv'
<1> USE DEF TypeInv, TypeOK, InCall
<1>1. ASSUME NEW c \in Conns, OnConnReadError(c) PROVE TypeInv'
  <2>1. QueueOK'
    BY <1>1, QueueKept DEF OnConnReadError, Alive
  <2>2. Targets'
    BY <1>1 DEF OnConnReadError, Targets, Alive
  <2> QED
    BY <1>1, <2>1, <2>2 DEF OnConnReadError, Faults
<1>2. CASE OnConnReadErrorReturns
  <2>1. conn' \in [Conns -> Lives] /\ Alive' = Alive
    BY <1>2, ClosingLives DEF OnConnReadErrorReturns
  <2>2. QueueOK'
    BY <1>2, <2>1, QueueKept DEF OnConnReadErrorReturns
  <2>3. Targets'
    BY <1>2, <2>1 DEF OnConnReadErrorReturns, Targets, NoCallback
  <2> QED
    BY <1>2, <2>1, <2>2, <2>3 DEF OnConnReadErrorReturns, NoCallback, Faults
<1> QED
  BY <1>1, <1>2

\* A connection goes.
LEMMA CloseConnectionTypes ==
  ASSUME TypeInv,
         \/ \E c \in Conns : OnCloseConnection(c)
         \/ OnCloseConnectionReturns
  PROVE  TypeInv'
<1> USE DEF TypeInv, TypeOK, InCall
<1>1. ASSUME NEW c \in Conns, OnCloseConnection(c) PROVE TypeInv'
  <2>1. QueueOK'
    BY <1>1, QueueKept DEF OnCloseConnection, Alive
  <2>2. Targets'
    BY <1>1 DEF OnCloseConnection, Targets, Alive
  <2> QED
    BY <1>1, <2>1, <2>2 DEF OnCloseConnection, Faults
<1>2. CASE OnCloseConnectionReturns
  <2> DEFINE c == callback.conn
  <2>1. /\ c \in Alive
        /\ c \in Conns
        /\ writes[c] = << >>
    BY <1>2 DEF OnCloseConnectionReturns, Targets, Alive
  <2>2. conn' \in [Conns -> Lives] /\ Alive' = Alive \ {c}
    BY <1>2, <2>1 DEF OnCloseConnectionReturns, Lives, Alive
  <2>3. ring' = Queue!Remove(ring, c) /\ connCount' = connCount - 1
    BY <1>2 DEF OnCloseConnectionReturns
  <2>4. QueueOK'
    BY <2>1, <2>2, <2>3, QueueRemove DEF QueueOK, Sessions
  <2>5. ring' \in Queue!Rings /\ connCount' \in Nat
    BY <2>4, QueueFacts DEF QueueOK, Sessions
  <2>6. Targets'
    BY <1>2, <2>1, <2>2 DEF OnCloseConnectionReturns, Targets, NoCallback
  <2>7. /\ server' \in {"unborn", "open", "freed", "failed"}
        /\ callback' \in [in : {"none", "error", "close"},
                          conn : Conns \cup {NULL}]
        /\ fault' \in Faults
    BY <1>2 DEF OnCloseConnectionReturns, NoCallback, Faults
  <2> QED
    BY <1>2, <2>2, <2>4, <2>5, <2>6, <2>7 DEF OnCloseConnectionReturns
<1> QED
  BY <1>1, <1>2

LEMMA NextTypes == TypeInv /\ [Next]_vars => TypeInv'
<1> SUFFICES ASSUME TypeInv, [Next]_vars PROVE TypeInv'
  OBVIOUS
<1>1. CASE TcpServerRun
  <2>1. QueueOK'
    BY <1>1, QueueKept DEF TcpServerRun, Alive, TypeInv
  <2>2. Targets'
    BY <1>1 DEF TcpServerRun, Targets, Alive, TypeInv, InCall
  <2> QED
    BY <1>1, <2>1, <2>2 DEF TcpServerRun, TypeInv, TypeOK
<1>2. CASE Finished \/ UNCHANGED vars
  <2>1. UNCHANGED vars
    BY <1>2 DEF Finished
  <2>2. QueueOK'
    BY <2>1, QueueKept DEF vars, Alive, TypeInv
  <2>3. Targets'
    BY <2>1 DEF vars, Targets, Alive, TypeInv, InCall
  <2> QED
    BY <2>1, <2>2, <2>3 DEF vars, TypeInv, TypeOK
<1> QED
  BY <1>1, <1>2, SenderStepTypes, CallTypes, NewConnectionTypes,
     OnConnWriteTypes, AsyncSendCbTypes, LoopSendTypes, CloseTypes,
     ReadErrorTypes, CloseConnectionTypes
  DEF Next

\* Every variable keeps its type, however the server is used.
THEOREM ServerTypesHold == Spec => []TypeOK
<1>1. Spec => []TypeInv
  BY InitTypes, NextTypes, PTL DEF Spec
<1> QED
  BY <1>1, PTL DEF TypeInv

\* The queue holds the connections whose memory is in use and no others, each
\* once, and conn_count counts them, however the server is used: also when
\* the calls of other threads race with the callbacks of the loop.
THEOREM QueueHoldsTheLiving == Spec => []SessionsAreTheLiving
<1>1. Spec => []TypeInv
  BY InitTypes, NextTypes, PTL DEF Spec
<1>2. TypeInv => SessionsAreTheLiving
  BY LivingAreQueued DEF SessionsAreTheLiving, TypeInv, QueueOK
<1> QED
  BY <1>1, <1>2, PTL

-----------------------------------------------------------------------------
(* In undisturbed use nothing fails, and the senders are served in turn    *)

\* The loop has nothing of the senders' to do, and no token is left.
Nothing == ~sendPending /\ (\A c \in Conns : writes[c] = << >>) /\ sem = 0

\* The write of s is all that libuv holds.
OwnWriteOnly(s) ==
  \A c \in Conns :
    writes[c] = IF c = frame[s].conn
                THEN << [from |-> s, n |-> frame[s].n] >> ELSE << >>

\* s waits: the loop has been signalled, or the write is in libuv's hands, or
\* the token is there.
Waiting(s) ==
  \/ /\ sendPending
     /\ \A c \in Conns : writes[c] = << >>
     /\ sem = 0
     /\ outcome[s] = "none"
  \/ /\ ~sendPending
     /\ OwnWriteOnly(s)
     /\ sem = 0
     /\ outcome[s] = "carried"
  \/ /\ ~sendPending
     /\ \A c \in Conns : writes[c] = << >>
     /\ sem = 1
     /\ outcome[s] = "reported"

\* How far s has got with the fields while it owns the mutex.
Owns(s) ==
  LET c == frame[s].conn IN
    /\ pc[s] \in {"flag", "buf", "target", "wake"} =>
         Nothing /\ outcome[s] = "none"
    /\ pc[s] \in {"buf", "target", "wake", "wait"} => flag[c]
    /\ pc[s] \in {"target", "wake", "wait"} => data2[c] = s
    /\ pc[s] \in {"wake", "wait"} => sendTarget = c
    /\ pc[s] = "wait" => Waiting(s)
    /\ pc[s] = "unlock" => Nothing /\ outcome[s] = "reported"

\* Only the loop thread sends.
Silent ==
  /\ Quiet
  /\ ~sendPending
  /\ sem = 0
  /\ \A c \in Conns : /\ ~flag[c]
                      /\ \A i \in 1 .. Len(writes[c]) :
                           writes[c][i].from = Loop

Protocol ==
  /\ \A s \in Senders :
       /\ pc[s] \in Critical <=> mutex = s
       /\ pc[s] = "lock" => outcome[s] = "none"
       /\ mutex = s => Owns(s)
       /\ InCall(s) => conn[frame[s].conn] = "open"
  /\ use.senders # {} /\ mutex = NULL => Nothing
  /\ use.senders = {} => Silent

\* The order in which the parts of a server go.
Lifecycle ==
  /\ fault = "none"
  /\ Asked => Quiet
  /\ isClosing => Asked
  /\ Asked /\ listener # "closed" => "thread" \in use.closer
  /\ closer = "flagged" => listener # "closed"
  /\ closePending => closer = "done" /\ listener # "closed"
  /\ listener = "closed" => Asked
  /\ server = "freed" => listener = "closed" /\ Alive = {}
  /\ use.leavers = {} =>
       /\ callback.in # "error"
       /\ listener # "closed" => \A c \in Conns : conn[c] # "closing"

Orderly == use.orderly /\ Disciplined(use) /\ Protocol /\ Lifecycle

Inv == Undisturbed => Orderly

LEMMA InitInv == Init => Inv
<1> SUFFICES ASSUME Init, Undisturbed PROVE Orderly
  BY DEF Inv
<1>1. use.orderly /\ Disciplined(use)
  BY DEF Undisturbed
<1>2. Quiet /\ ~Asked
  BY DEF Init, Quiet, InCall, Asked
<1>3. Protocol
  BY <1>2, ConstantsOK
  DEF Init, Protocol, Silent, Nothing, InCall, Critical, Threads
<1>4. Lifecycle
  BY <1>2 DEF Init, Lifecycle, NoCallback
<1> QED
  BY <1>1, <1>3, <1>4 DEF Orderly

\* Nobody is inside the mutex when nobody is inside a call.
LEMMA QuietIsUnlocked ==
  ASSUME TypeOK, Protocol, Quiet
  PROVE  mutex = NULL
BY DEF TypeOK, Protocol, Quiet, InCall, Critical

\* While somebody is inside a call, nothing of the server is gone or going.
LEMMA BusyIsOpen ==
  ASSUME TypeInv, Orderly, NEW s \in Senders, InCall(s)
  PROVE  /\ ~Asked
         /\ server # "freed"
         /\ listener # "closed"
         /\ use.senders # {}
         /\ use.leavers = {}
         /\ use.loopConns = {}
         /\ frame[s].conn \in Conns
         /\ conn[frame[s].conn] = "open"
<1>1. ~Quiet
  BY DEF Quiet
<1>2. ~Asked /\ server # "freed" /\ listener # "closed"
  BY <1>1 DEF Orderly, Lifecycle
<1>3. use.senders # {}
  BY <1>1 DEF Orderly, Protocol, Silent
<1> QED
  BY <1>2, <1>3 DEF Orderly, Disciplined, Protocol, TypeInv, Targets

\* Whatever the loop finds to do for a sender is for the owner of the mutex.
LEMMA LoopServesOwner ==
  ASSUME TypeInv, Orderly, use.senders # {}, ~Nothing
  PROVE  mutex \in Senders /\ pc[mutex] = "wait" /\ Owns(mutex)
<1>1. mutex \in Senders /\ pc[mutex] \in Critical /\ Owns(mutex)
  BY DEF TypeInv, TypeOK, Orderly, Protocol
<1> QED
  BY <1>1 DEF Owns, Critical

\* A step of a sender inside a call.
LEMMA SenderStepInv ==
  ASSUME TypeInv, TypeInv', Orderly, NEW s \in Senders, SenderStep(s)
  PROVE  Orderly'
<1> USE ConstantsOK
<1>0. InCall(s)
  BY DEF InCall, SenderStep, Lock, SetFlag, SetBuf, SetTarget, Wake, Wait,
         Unlock, PrintConn, NextConn, WalkEnds
<1>1. /\ ~Asked
      /\ server # "freed"
      /\ listener # "closed"
      /\ use.senders # {}
      /\ use.leavers = {}
      /\ use.loopConns = {}
      /\ frame[s].conn \in Conns
      /\ conn[frame[s].conn] = "open"
  BY <1>0, BusyIsOpen
<1>2. /\ UNCHANGED <<use, server, listener, isClosing, ring, connCount, conn,
                     closePending, writes, callback, closer>>
      /\ Alive' = Alive
      /\ ~Asked'
  BY <1>1 DEF SenderStep, Lock, SetFlag, SetBuf, SetTarget, Wake, Wait, Unlock,
              PrintConn, NextConn, WalkEnds, Alive, Asked
<1>3. fault' = "none"
  BY <1>1 DEF SenderStep, Lock, SetFlag, SetBuf, SetTarget, Wake, Wait, Unlock,
              PrintConn, NextConn, WalkEnds
<1>4. Disciplined(use)' /\ Lifecycle'
  BY <1>1, <1>2, <1>3 DEF Orderly, Disciplined, Lifecycle, Asked
<1> USE DEF Orderly, Protocol, TypeInv, TypeOK, Targets, InCall
<1>5. \A t \in Senders : t # s => pc'[t] = pc[t] /\ frame'[t] = frame[t]
                                  /\ outcome'[t] = outcome[t]
  BY DEF SenderStep, Lock, SetFlag, SetBuf, SetTarget, Wake, Wait, Unlock,
         PrintConn, NextConn, WalkEnds, Visit
<1>6. /\ pc'[s] \in Critical <=> mutex' = s
      /\ pc'[s] = "lock" => outcome'[s] = "none"
      /\ \A t \in Senders : t # s => (mutex' = t <=> mutex = t)
      /\ pc'[s] \notin Critical => mutex' = NULL \/ mutex' = mutex
  BY DEF SenderStep, Lock, SetFlag, SetBuf, SetTarget, Wake, Wait, Unlock,
         PrintConn, NextConn, WalkEnds, Visit, VisitAt, Critical, Threads
<1>7. InCall(s)' => conn'[frame'[s].conn] = "open"
  <2>1. CASE NextConn(s)
    <3>1. Onward(s) \in Alive
      <4>1. Queue!IsRing(ring, Alive)
        BY LivingAreQueued
      <4>2. frame[s].conn \in Alive
        BY <1>1 DEF Alive
      <4>3. Onward(s) \in Alive \cup {Anchor}
        BY <4>1, <4>2 DEF Queue!IsRing, Onward, Queue!Following
      <4> QED
        BY <2>1, <4>3 DEF NextConn
    <3>2. conn[Onward(s)] = "open"
      BY <1>1, <3>1 DEF Alive, Lifecycle
    <3>3. frame'[s].conn = Onward(s)
      BY <2>1 DEF NextConn, Visit
    <3> QED
      BY <1>2, <3>2, <3>3
  <2>2. CASE UNCHANGED frame
    BY <1>1, <1>2, <2>2
  <2> QED
    BY <2>1, <2>2 DEF SenderStep, Lock, SetFlag, SetBuf, SetTarget, Wake, Wait,
                      Unlock, PrintConn, WalkEnds
<1>8. ASSUME mutex' = s PROVE Owns(s)'
  <2>1. CASE Lock(s)
    <3>1. Nothing' /\ outcome'[s] = "none" /\ pc'[s] = "flag"
      BY <1>1, <2>1 DEF Lock, Nothing
    <3> QED
      BY <3>1 DEF Owns
  <2>2. CASE ~Lock(s)
    <3>1. pc[s] \in Critical /\ Owns(s)
      BY <1>8, <2>2 DEF SenderStep, Lock, SetFlag, SetBuf, SetTarget, Wake,
                        Wait, Unlock, PrintConn, NextConn, WalkEnds, Critical
    <3>2. CASE SetFlag(s)
      BY <1>1, <1>2, <3>1, <3>2 DEF SetFlag, Owns, Nothing
    <3>3. CASE SetBuf(s)
      BY <1>1, <1>2, <3>1, <3>3 DEF SetBuf, Owns, Nothing
    <3>4. CASE SetTarget(s)
      BY <1>1, <1>2, <3>1, <3>4 DEF SetTarget, Owns, Nothing
    <3>5. CASE Wake(s)
      BY <1>1, <1>2, <3>1, <3>5 DEF Wake, Owns, Nothing, Waiting
    <3>6. CASE Wait(s)
      <4>1. /\ ~sendPending
            /\ \A c \in Conns : writes[c] = << >>
            /\ sem = 1
            /\ outcome[s] = "reported"
        BY <3>1, <3>6 DEF Wait, Owns, Waiting
      <4>2. Nothing' /\ outcome'[s] = "reported" /\ pc'[s] = "unlock"
        BY <1>2, <3>6, <4>1 DEF Wait, Nothing
      <4> QED
        BY <4>2 DEF Owns
    <3> QED
      BY <1>8, <2>2, <3>1, <3>2, <3>3, <3>4, <3>5, <3>6, ConstantsOK
      DEF SenderStep, Unlock, PrintConn, NextConn, WalkEnds, Critical, Threads
  <2> QED
    BY <2>1, <2>2
<1>9. ASSUME NEW t \in Senders, t # s, mutex' = t PROVE Owns(t)'
  <2>1. mutex = t /\ pc[s] \notin Critical /\ Owns(t)
    BY <1>6, <1>9
  <2>2. UNCHANGED <<sem, flag, data2, sendTarget, sendPending>>
    BY <2>1, ConstantsOK
    DEF SenderStep, Lock, SetFlag, SetBuf, SetTarget, Wake, Wait, Unlock,
        PrintConn, NextConn, WalkEnds, Critical, Threads
  <2>3. pc'[t] = pc[t] /\ frame'[t] = frame[t] /\ outcome'[t] = outcome[t]
    BY <1>5, <1>9
  <2> QED
    BY <1>2, <2>1, <2>2, <2>3 DEF Owns, Nothing, Waiting, OwnWriteOnly
<1>10. ASSUME mutex' = NULL PROVE Nothing'
  <2>1. CASE Unlock(s)
    <3>1. Owns(s) /\ pc[s] = "unlock"
      BY <2>1 DEF Unlock, Critical
    <3> QED
      BY <1>2, <2>1, <3>1 DEF Unlock, Owns, Nothing
  <2>2. CASE ~Unlock(s)
    <3>1. mutex = NULL /\ pc[s] \notin Critical
      BY <1>10, <2>2 DEF SenderStep, Lock, SetFlag, SetBuf, SetTarget, Wake,
                         Wait, PrintConn, NextConn, WalkEnds, Critical, Threads
    <3>2. UNCHANGED <<sem, sendPending>>
      BY <1>10, <3>1
      DEF SenderStep, Lock, SetFlag, SetBuf, SetTarget, Wake, Wait, Unlock,
          PrintConn, NextConn, WalkEnds, Critical, Threads
    <3> QED
      BY <1>1, <1>2, <3>1, <3>2 DEF Nothing
  <2> QED
    BY <2>1, <2>2
<1>11. \A t \in Senders : t # s => /\ pc'[t] \in Critical <=> mutex' = t
                                   /\ pc'[t] = "lock" => outcome'[t] = "none"
                                   /\ InCall(t)' =>
                                        conn'[frame'[t].conn] = "open"
  BY <1>2, <1>5, <1>6
<1>12. Protocol'
  BY <1>1, <1>2, <1>6, <1>7, <1>8, <1>9, <1>10, <1>11
<1> QED
  BY <1>2, <1>4, <1>12

\* A step that leaves the senders alone, and the connections they are at.
LEMMA ProtocolKept ==
  ASSUME Protocol,
         UNCHANGED <<use, mutex, sem, flag, data2, sendTarget, sendPending,
                     writes, pc, frame, outcome>>,
         \A s \in Senders : InCall(s) => conn'[frame[s].conn] = "open"
  PROVE  Protocol'
<1>1. \A s \in Senders : Owns(s) => Owns(s)'
  BY DEF Owns, Nothing, Waiting, OwnWriteOnly
<1>2. Nothing => Nothing'
  BY DEF Nothing
<1>3. Silent => Silent'
  BY DEF Silent, Quiet, InCall
<1> QED
  BY <1>1, <1>2, <1>3 DEF Protocol, InCall

LEMMA CallInv ==
  ASSUME TypeInv, TypeInv', Orderly, NEW s \in Senders, NEW m \in Modes,
         Call(s, m)
  PROVE  Orderly'
<1> USE DEF TypeInv, TypeOK
<1>1. /\ ~Asked
      /\ use.senders # {}
      /\ use.leavers = {}
      /\ listener # "closed"
  BY DEF Call, Stopped, Orderly, Disciplined, Lifecycle
<1>2. /\ UNCHANGED <<use, server, listener, isClosing, mutex, sem, flag, data2,
                     sendTarget, sendPending, closePending, writes, conn,
                     callback, closer, fault>>
      /\ Alive' = Alive
      /\ ~Asked'
  BY <1>1 DEF Call, Alive, Asked
<1>3. Disciplined(use)' /\ Lifecycle'
  BY <1>1, <1>2 DEF Orderly, Disciplined, Lifecycle
<1>4. PICK c \in ToSet(Sessions) : Visit(s, c, m)
  BY DEF Call
<1>5. conn[c] = "open"
  <2>1. c \in Alive
    BY LivingAreQueued
  <2> QED
    BY <1>1, <2>1 DEF Alive, Orderly, Lifecycle
<1>6. /\ frame'[s].conn = c
      /\ outcome'[s] = "none"
      /\ pc[s] = "idle"
      /\ pc'[s] \in {"print", "lock"}
  BY <1>4 DEF Call, Visit, VisitAt
<1>7. \A t \in Senders : t # s => pc'[t] = pc[t] /\ frame'[t] = frame[t]
                                  /\ outcome'[t] = outcome[t]
  BY <1>4 DEF Call, Visit
<1>8. mutex # s
  BY <1>6 DEF Orderly, Protocol, Critical
<1>9. \A t \in Senders : t # s /\ Owns(t) => Owns(t)'
  BY <1>2, <1>7 DEF Owns, Nothing, Waiting, OwnWriteOnly
<1>10. Nothing => Nothing'
  BY <1>2 DEF Nothing
<1>11. \A t \in Senders : InCall(t)' => conn'[frame'[t].conn] = "open"
  BY <1>2, <1>5, <1>6, <1>7 DEF Orderly, Protocol, InCall
<1>12. Protocol'
  BY <1>1, <1>2, <1>6, <1>7, <1>8, <1>9, <1>10, <1>11
  DEF Orderly, Protocol, Critical
<1> QED
  BY <1>2, <1>3, <1>12 DEF Orderly

LEMMA NewConnectionInv ==
  ASSUME TypeInv, TypeInv', Orderly, NEW c \in Conns,
         OnNewConnection(c) \/ OnNewConnectionFails(c)
  PROVE  Orderly'
<1> USE DEF TypeInv, TypeOK
<1>1. server = "open" /\ listener = "open"
  BY DEF OnNewConnection, OnNewConnectionFails, Orderly, Lifecycle
<1>2. /\ UNCHANGED <<use, server, isClosing, mutex, sem, flag, data2,
                     sendTarget, sendPending, closePending, writes, callback,
                     pc, frame, outcome, closer>>
      /\ fault' = fault
      /\ listener' \in {"open", "stalled"}
      /\ \A d \in Conns : \/ conn'[d] = conn[d]
                          \/ conn[d] = "none" /\ conn'[d] # "closing"
  BY <1>1 DEF OnNewConnection, OnNewConnectionFails
<1>3. \A s \in Senders : InCall(s) => conn'[frame[s].conn] = "open"
  BY <1>2, BusyIsOpen
<1>4. Protocol'
  BY <1>2, <1>3, ProtocolKept DEF Orderly
<1>5. Disciplined(use)' /\ Lifecycle'
  BY <1>1, <1>2 DEF Orderly, Disciplined, Lifecycle, Asked, Quiet, InCall
<1> QED
  BY <1>2, <1>4, <1>5 DEF Orderly

\* A step of the loop that is for the sender, or for the loop's own sends.
LEMMA LoopKeepsLifecycle ==
  ASSUME Orderly,
         UNCHANGED <<use, server, listener, isClosing, closePending, conn,
                     callback, pc, closer, fault>>
  PROVE  Disciplined(use)' /\ Lifecycle'
BY DEF Orderly, Disciplined, Lifecycle, Asked, Quiet, InCall, Alive

\* A step of the loop for the owner of the mutex.
LEMMA OwnerIsServed ==
  ASSUME TypeInv, Orderly, use.senders # {}, mutex \in Senders,
         UNCHANGED <<use, mutex, conn, pc, frame>>,
         \A t \in Senders : t # mutex => outcome'[t] = outcome[t],
         Owns(mutex)', pc[mutex] = "wait"
  PROVE  Protocol'
BY ConstantsOK
DEF TypeInv, TypeOK, Orderly, Protocol, InCall, Critical, Threads

LEMMA OnConnWriteInv ==
  ASSUME TypeInv, TypeInv', Orderly, NEW c \in Conns, OnConnWrite(c)
  PROVE  Orderly'
<1> USE DEF TypeInv, TypeOK, Targets
<1>1. /\ server # "freed" /\ conn[c] # "freed"
      /\ ~(flag[c] /\ listener = "closed")
  <2>1. server # "freed" /\ conn[c] # "freed"
    BY DEF OnConnWrite, Orderly, Lifecycle, Alive
  <2>2. CASE use.senders # {}
    <3>1. PICK s \in Senders : pc[s] = "wait"
      BY <2>2, LoopServesOwner DEF OnConnWrite, Nothing
    <3> QED
      BY <2>1, <3>1, BusyIsOpen DEF InCall
  <2>3. CASE use.senders = {}
    BY <2>1, <2>3 DEF Orderly, Protocol, Silent
  <2> QED
    BY <2>2, <2>3
<1>2. UNCHANGED <<use, server, listener, isClosing, closePending, conn,
                  callback, pc, closer, fault, mutex, flag, data2, sendTarget,
                  sendPending, frame>>
  BY <1>1 DEF OnConnWrite, TouchFlag
<1>3. Disciplined(use)' /\ Lifecycle'
  BY <1>2, LoopKeepsLifecycle
<1>4. writes' = [writes EXCEPT ![c] = Tail(writes[c])] /\ writes[c] # << >>
  BY DEF OnConnWrite
<1>5. CASE use.senders # {}
  <2> DEFINE s == mutex
  <2>1. s \in Senders /\ pc[s] = "wait" /\ Owns(s)
    BY <1>4, <1>5, LoopServesOwner DEF Nothing
  <2>2. /\ flag[frame[s].conn]
        /\ data2[frame[s].conn] = s
        /\ sendTarget = frame[s].conn
        /\ ~sendPending
        /\ OwnWriteOnly(s)
        /\ sem = 0
    BY <1>4, <2>1 DEF Owns, Waiting
  <2>3. c = frame[s].conn /\ writes[c] = << [from |-> s, n |-> frame[s].n] >>
    BY <1>4, <2>2 DEF OwnWriteOnly
  <2>4. Head(writes[c]) = [from |-> s, n |-> frame[s].n]
        /\ Tail(writes[c]) = << >>
    BY <2>3
  <2>5. /\ outcome' = [outcome EXCEPT ![s] = "reported"]
        /\ sem' = 1
    BY <2>1, <2>2, <2>3, <2>4 DEF OnConnWrite, Report, PostIfAsync
  <2>6. \A d \in Conns : writes'[d] = << >>
    BY <1>4, <2>2, <2>3, <2>4 DEF OwnWriteOnly
  <2>7. Waiting(s)'
    BY <1>2, <2>1, <2>2, <2>5, <2>6 DEF Waiting
  <2>8. Owns(s)'
    BY <1>2, <2>1, <2>2, <2>7 DEF Owns
  <2>9. \A t \in Senders : t # s => outcome'[t] = outcome[t]
    BY <2>5
  <2>10. Protocol'
    BY <1>2, <1>5, <2>1, <2>8, <2>9, OwnerIsServed
  <2> QED
    BY <1>2, <1>3, <2>10 DEF Orderly
<1>6. CASE use.senders = {}
  <2>1. Silent
    BY <1>6 DEF Orderly, Protocol
  <2>2. Head(writes[c]).from = Loop
    BY <1>4, <2>1 DEF Silent
  <2>3. UNCHANGED <<sem, outcome>>
    BY <2>1, <2>2, ConstantsOK DEF OnConnWrite, PostIfAsync, Silent
  <2>4. \A i \in 1 .. Len(writes'[c]) : writes'[c][i].from = Loop
    <3>1. /\ Len(Tail(writes[c])) = Len(writes[c]) - 1
          /\ \A i \in 1 .. Len(writes[c]) - 1 :
               Tail(writes[c])[i] = writes[c][i + 1]
      BY <1>4
    <3> QED
      BY <1>4, <2>1, <3>1 DEF Silent
  <2>5. Silent'
    BY <1>2, <1>4, <2>1, <2>3, <2>4 DEF Silent, Quiet, InCall
  <2>6. mutex = NULL
    BY <2>1, QuietIsUnlocked DEF Orderly, Silent
  <2>7. Protocol'
    BY <1>2, <1>6, <2>1, <2>3, <2>5, <2>6, ConstantsOK
    DEF Orderly, Protocol, InCall, Threads
  <2> QED
    BY <1>2, <1>3, <2>7 DEF Orderly
<1> QED
  BY <1>5, <1>6

LEMMA AppendToNone == ASSUME NEW e PROVE Append(<< >>, e) = << e >>
OBVIOUS

LEMMA AppendKeepsSource ==
  ASSUME NEW q \in Seq(Requests), NEW e \in Requests,
         \A i \in 1 .. Len(q) : q[i].from = Loop, e.from = Loop
  PROVE  \A i \in 1 .. Len(Append(q, e)) : Append(q, e)[i].from = Loop
<1>1. /\ Len(q) \in Nat
      /\ Len(Append(q, e)) = Len(q) + 1
      /\ \A i \in 1 .. Len(q) + 1 :
           Append(q, e)[i] = IF i = Len(q) + 1 THEN e ELSE q[i]
  OBVIOUS
<1> QED
  BY <1>1

LEMMA AsyncSendCbInv ==
  ASSUME TypeInv, TypeInv', Orderly, AsyncSendCb
  PROVE  Orderly'
<1> USE DEF TypeInv, TypeOK, Targets
<1> DEFINE s == mutex
           c == sendTarget
<1>1. sendPending /\ listener # "closed" /\ server # "freed"
  BY DEF AsyncSendCb, Orderly, Lifecycle
<1>2. use.senders # {}
  BY <1>1 DEF Orderly, Protocol, Silent
<1>3. s \in Senders /\ pc[s] = "wait" /\ Owns(s)
  BY <1>1, <1>2, LoopServesOwner DEF Nothing
<1>4. /\ flag[c]
      /\ data2[c] = s
      /\ c = frame[s].conn
      /\ \A d \in Conns : writes[d] = << >>
      /\ sem = 0
      /\ outcome[s] = "none"
  BY <1>1, <1>3 DEF Owns, Waiting
<1>5. InCall(s) /\ conn[c] = "open" /\ c \in Conns
  BY <1>3, <1>4 DEF InCall, Orderly, Protocol
<1>6. SendDataNoMemory(c) \/ SendDataSubmit(c)
  <2>1. "freed" \notin {server, conn[c]} /\ data2[c] # Loop
    BY <1>1, <1>3, <1>4, <1>5, ConstantsOK
  <2> QED
    BY <2>1 DEF AsyncSendCb
<1>7. UNCHANGED <<use, server, listener, isClosing, closePending, conn,
                  callback, pc, closer, mutex, flag, data2, sendTarget, frame>>
      /\ ~sendPending'
  BY DEF AsyncSendCb
<1>8. CASE SendDataNoMemory(c)
  <2>1. sem' = 1 /\ writes' = writes /\ outcome'[s] = "reported"
    BY <1>3, <1>4, <1>8 DEF SendDataNoMemory, PostIfAsync, Report
  <2>2. Owns(s)'
    BY <1>3, <1>4, <1>7, <2>1 DEF Owns, Waiting
  <2>3. \A t \in Senders : t # s => outcome'[t] = outcome[t]
    BY <1>4, <1>8 DEF SendDataNoMemory, Report
  <2>4. Protocol'
    BY <1>2, <1>3, <1>7, <2>2, <2>3, OwnerIsServed
  <2>5. Disciplined(use)' /\ Lifecycle'
    BY <1>7, <1>8, LoopKeepsLifecycle DEF SendDataNoMemory
  <2> QED
    BY <1>7, <2>4, <2>5 DEF Orderly
<1>9. CASE SendDataSubmit(c)
  <2>1. /\ sem' = 0
        /\ writes' = [writes EXCEPT ![c] =
             Append(writes[c], [from |-> s, n |-> frame[s].n])]
        /\ outcome' = [outcome EXCEPT ![s] = "carried"]
        /\ fault' = fault
    BY <1>4, <1>5, <1>9 DEF SendDataSubmit, Report
  <2>2. Append(writes[c], [from |-> s, n |-> frame[s].n]) =
          << [from |-> s, n |-> frame[s].n] >>
    <3>1. writes[c] = << >>
      BY <1>4, <1>5
    <3> QED
      BY <3>1, AppendToNone
  <2>3. OwnWriteOnly(s)'
    BY <1>4, <1>5, <1>7, <2>1, <2>2 DEF OwnWriteOnly
  <2>4. Owns(s)'
    BY <1>3, <1>4, <1>7, <2>1, <2>3 DEF Owns, Waiting
  <2>5. \A t \in Senders : t # s => outcome'[t] = outcome[t]
    BY <2>1
  <2>6. Protocol'
    BY <1>2, <1>3, <1>7, <2>4, <2>5, OwnerIsServed
  <2>7. Disciplined(use)' /\ Lifecycle'
    BY <1>7, <2>1, LoopKeepsLifecycle
  <2> QED
    BY <1>7, <2>6, <2>7 DEF Orderly
<1> QED
  BY <1>6, <1>8, <1>9

LEMMA LoopSendInv ==
  ASSUME TypeInv, TypeInv', Orderly, NEW c \in Conns, LoopSend(c)
  PROVE  Orderly'
<1> USE DEF TypeInv, TypeOK, Targets
<1>1. use.senders = {}
  BY DEF LoopSend, Orderly, Disciplined
<1>2. Silent /\ mutex = NULL
  BY <1>1, QuietIsUnlocked DEF Orderly, Protocol, Silent
<1>3. UNCHANGED <<use, server, listener, isClosing, closePending, conn,
                  callback, pc, closer, fault, mutex, sem, sendTarget,
                  sendPending, frame, outcome>>
  BY DEF LoopSend
<1>4. Disciplined(use)' /\ Lifecycle'
  BY <1>3, LoopKeepsLifecycle
<1>5. \A d \in Conns : ~flag'[d]
  BY <1>2 DEF LoopSend, Silent
<1>6. ASSUME NEW d \in Conns
      PROVE  \A i \in 1 .. Len(writes'[d]) : writes'[d][i].from = Loop
  <2>1. CASE writes'[d] = writes[d]
    BY <1>2, <2>1 DEF Silent
  <2>2. CASE writes'[d] = Append(writes[d], [from |-> Loop, n |-> loopSends'])
    <3>1. /\ writes[d] \in Seq(Requests)
          /\ [from |-> Loop, n |-> loopSends'] \in Requests
      BY DEF Requests, Threads
    <3>2. \A i \in 1 .. Len(writes[d]) : writes[d][i].from = Loop
      BY <1>2 DEF Silent
    <3>3. \A i \in 1 .. Len(Append(writes[d],
                                  [from |-> Loop, n |-> loopSends'])) :
            Append(writes[d], [from |-> Loop, n |-> loopSends'])[i].from = Loop
      BY <3>1, <3>2, AppendKeepsSource
    <3> QED
      BY <2>2, <3>3
  <2> QED
    BY <2>1, <2>2 DEF LoopSend
<1>7. Silent'
  BY <1>2, <1>3, <1>5, <1>6 DEF Silent, Quiet, InCall
<1>8. Protocol'
  BY <1>1, <1>2, <1>3, <1>7, ConstantsOK
  DEF Orderly, Protocol, InCall, Silent, Quiet, Threads
<1> QED
  BY <1>3, <1>4, <1>8 DEF Orderly

\* Nobody is inside a call when the loop closes the handles.
LEMMA CloseHandleInv ==
  ASSUME TypeInv, Orderly, Quiet, CloseHandle
  PROVE  /\ listener' = "closed"
         /\ ~sendPending /\ ~sendPending'
         /\ ~closePending'
         /\ server' = (IF Alive = {} THEN "freed" ELSE server)
         /\ Alive' = Alive
         /\ fault' = fault
<1>1. mutex = NULL
  BY QuietIsUnlocked DEF TypeInv, Orderly
<1>2. ~sendPending
  BY <1>1 DEF Orderly, Protocol, Nothing, Silent
<1>3. Alive' = Alive
  BY CloseHandleTypes DEF TypeInv
<1> QED
  BY <1>1, <1>2, <1>3, LivingAreQueued DEF CloseHandle, TypeInv, TypeOK

LEMMA CloseInv ==
  ASSUME TypeInv, TypeInv', Orderly, use.orderly,
         CloseFromLoop \/ CloseFlag \/ CloseSignal \/ AsyncCloseCb
  PROVE  Orderly'
<1> USE DEF TypeInv, TypeOK
<1>1. Quiet
  BY DEF CloseFromLoop, CloseFlag, CloseSignal, AsyncCloseCb, MayClose,
         Orderly, Lifecycle, Asked
<1>2. UNCHANGED <<use, mutex, sem, flag, data2, sendTarget, writes, pc, frame,
                  outcome, callback>>
  BY DEF CloseFromLoop, CloseFlag, CloseSignal, AsyncCloseCb
<1>3. Disciplined(use)' /\ Quiet'
  BY <1>1, <1>2 DEF Orderly, Disciplined, Quiet, InCall
<1>4. CASE CloseFromLoop
  <2>1. CloseHandle
    BY <1>4 DEF CloseFromLoop
  <2>2. /\ listener' = "closed"
        /\ ~sendPending /\ ~sendPending'
        /\ ~closePending'
        /\ server' = (IF Alive = {} THEN "freed" ELSE server)
        /\ Alive' = Alive
        /\ fault' = fault
    BY <1>1, <2>1, CloseHandleInv
  <2>3. closer' = "done" /\ server = "open"
    BY <1>4 DEF CloseFromLoop, MayClose
  <2>4. Protocol'
    BY <1>1, <1>2, <2>2, ProtocolKept DEF Quiet, Orderly
  <2>5. Lifecycle'
    BY <1>2, <1>3, <2>2, <2>3 DEF Orderly, Lifecycle, Asked
  <2> QED
    BY <1>2, <1>3, <2>4, <2>5 DEF Orderly
<1>5. CASE AsyncCloseCb
  <2>0. server # "freed" /\ closer = "done" /\ closer' = closer
    BY <1>5 DEF AsyncCloseCb, Orderly, Lifecycle
  <2>1. CloseHandle
    BY <1>5, <2>0 DEF AsyncCloseCb
  <2>2. /\ listener' = "closed"
        /\ ~sendPending /\ ~sendPending'
        /\ ~closePending'
        /\ server' = (IF Alive = {} THEN "freed" ELSE server)
        /\ Alive' = Alive
        /\ fault' = fault
    BY <1>1, <2>1, CloseHandleInv
  <2>3. Protocol'
    BY <1>1, <1>2, <2>2, ProtocolKept DEF Quiet, Orderly
  <2>4. Lifecycle'
    BY <1>2, <1>3, <2>0, <2>2 DEF Orderly, Lifecycle, Asked
  <2> QED
    BY <1>2, <1>3, <2>3, <2>4 DEF Orderly
<1>6. CASE CloseFlag
  <2>1. Protocol'
    BY <1>1, <1>2, <1>6, ProtocolKept DEF CloseFlag, Quiet, Orderly
  <2>2. listener # "closed" /\ ~closePending
    BY <1>6 DEF CloseFlag, MayClose, Orderly, Lifecycle, Asked
  <2>3. Lifecycle'
    BY <1>2, <1>3, <1>6, <2>2
    DEF CloseFlag, MayClose, Orderly, Lifecycle, Asked, Alive
  <2> QED
    BY <1>2, <1>3, <2>1, <2>3 DEF Orderly
<1>7. CASE CloseSignal
  <2>1. Protocol'
    BY <1>1, <1>2, <1>7, ProtocolKept DEF CloseSignal, Quiet, Orderly
  <2>2. listener # "closed" /\ server # "freed"
    BY <1>7 DEF CloseSignal, Orderly, Lifecycle
  <2>3. Lifecycle'
    BY <1>2, <1>3, <1>7, <2>2
    DEF CloseSignal, Orderly, Lifecycle, Asked, Alive
  <2> QED
    BY <1>2, <1>3, <2>1, <2>3 DEF Orderly
<1> QED
  BY <1>4, <1>5, <1>6, <1>7

LEMMA ReadErrorInv ==
  ASSUME TypeInv, TypeInv', Orderly,
         \/ \E c \in Conns : OnConnReadError(c)
         \/ OnConnReadErrorReturns
  PROVE  Orderly'
<1> USE DEF TypeInv, TypeOK, Targets
<1>1. use.leavers # {}
  BY DEF OnConnReadError, OnConnReadErrorReturns, Orderly, Lifecycle
<1>2. Quiet
  BY <1>1, BusyIsOpen DEF Quiet
<1>3. UNCHANGED <<use, server, listener, isClosing, closePending, mutex, sem,
                  flag, data2, sendTarget, sendPending, writes, pc, frame,
                  outcome, closer>>
  BY DEF OnConnReadError, OnConnReadErrorReturns
<1>4. Protocol'
  BY <1>2, <1>3, ProtocolKept DEF Quiet, Orderly
<1>5. Alive' = Alive
  BY ClosingLives DEF OnConnReadError, OnConnReadErrorReturns, Alive
<1>6. server # "freed"
  <2>1. Alive # {}
    BY DEF OnConnReadError, OnConnReadErrorReturns, Alive
  <2> QED
    BY <2>1 DEF Orderly, Lifecycle
<1>7. fault' = fault
  <2>1. CASE OnConnReadErrorReturns
    <3>1. conn[callback.conn] # "freed"
      BY <2>1 DEF OnConnReadErrorReturns, Alive
    <3> QED
      BY <1>6, <2>1, <3>1 DEF OnConnReadErrorReturns
  <2> QED
    BY <1>6, <2>1 DEF OnConnReadError
<1>8. Disciplined(use)' /\ Lifecycle'
  BY <1>1, <1>2, <1>3, <1>5, <1>7
  DEF Orderly, Disciplined, Lifecycle, Asked, Quiet, InCall
<1> QED
  BY <1>3, <1>4, <1>8 DEF Orderly

LEMMA CloseConnectionInv ==
  ASSUME TypeInv, TypeInv', Orderly,
         \/ \E c \in Conns : OnCloseConnection(c)
         \/ OnCloseConnectionReturns
  PROVE  Orderly'
<1> USE DEF TypeInv, TypeOK, Targets
<1>1. \E c \in Conns : conn[c] = "closing"
  BY DEF OnCloseConnection, OnCloseConnectionReturns, Alive
<1>2. Quiet
  BY <1>1, BusyIsOpen DEF Quiet, Orderly, Lifecycle
<1>3. UNCHANGED <<use, listener, isClosing, closePending, mutex, sem,
                  flag, data2, sendTarget, sendPending, writes, pc, frame,
                  outcome, closer>>
  BY DEF OnCloseConnection, OnCloseConnectionReturns
<1>4. Protocol'
  BY <1>2, <1>3, ProtocolKept DEF Quiet, Orderly
<1>5. server # "freed"
  BY <1>1 DEF Orderly, Lifecycle, Alive
<1>6. fault' = fault
  BY <1>5 DEF OnCloseConnection, OnCloseConnectionReturns, Alive
<1>7. Disciplined(use)'
  BY <1>3 DEF Orderly
<1>8. CASE \E c \in Conns : OnCloseConnection(c)
  BY <1>2, <1>3, <1>4, <1>6, <1>7, <1>8
  DEF OnCloseConnection, Orderly, Lifecycle, Asked, Quiet, InCall, Alive
<1>9. CASE OnCloseConnectionReturns
  <2>1. server' = "freed" => listener = "closed" /\ Alive' = {}
    <3>1. Queue!IsEmpty(ring') <=> Alive' = {}
      BY QueueFacts DEF QueueOK
    <3>2. isClosing => listener = "closed"
      BY <1>1 DEF Orderly, Disciplined, Lifecycle
    <3> QED
      BY <1>5, <1>9, <3>1, <3>2 DEF OnCloseConnectionReturns
  <2>2. callback'.in = "none"
    BY <1>9 DEF OnCloseConnectionReturns, NoCallback
  <2>3. \A c \in Conns : conn'[c] = "closing" => conn[c] = "closing"
    BY <1>9 DEF OnCloseConnectionReturns
  <2>4. Lifecycle'
    BY <1>2, <1>3, <1>6, <2>1, <2>2, <2>3
    DEF Orderly, Lifecycle, Asked, Quiet, InCall
  <2> QED
    BY <1>3, <1>4, <1>7, <2>4 DEF Orderly
<1> QED
  BY <1>8, <1>9

\* Every step keeps the invariant.
LEMMA NextInv == TypeInv /\ TypeInv' /\ Inv /\ [Next]_vars => Inv'
<1> SUFFICES ASSUME TypeInv, TypeInv', Inv, [Next]_vars, Undisturbed'
             PROVE  Orderly'
  BY DEF Inv
<1>1. use' = use
  BY DEF Next, vars, TcpServerRun, OnNewConnection, OnNewConnectionFails,
         OnConnReadError, OnCloseConnection, OnConnWrite, LoopSend,
         OnConnReadErrorReturns, OnCloseConnectionReturns, Call, SenderStep,
         Lock, SetFlag, SetBuf, SetTarget, Wake, Wait, Unlock, PrintConn,
         NextConn, WalkEnds, AsyncSendCb, CloseFromLoop, CloseFlag,
         CloseSignal, AsyncCloseCb, Finished
<1>2. use.orderly /\ Orderly
  BY <1>1 DEF Inv, Undisturbed, Disciplined
<1>3. CASE TcpServerRun
  <2>1. Protocol'
    BY <1>2, <1>3, ProtocolKept DEF TcpServerRun, Orderly, Protocol
  <2>2. Disciplined(use)' /\ Lifecycle'
    BY <1>2, <1>3
    DEF TcpServerRun, Orderly, Lifecycle, Asked, Quiet, InCall, Alive
  <2> QED
    BY <1>1, <1>2, <2>1, <2>2 DEF Orderly
<1>4. CASE Finished \/ UNCHANGED vars
  <2>1. UNCHANGED vars
    BY <1>4 DEF Finished
  <2>2. Protocol'
    BY <1>2, <2>1, ProtocolKept DEF vars, Orderly, Protocol
  <2>3. Disciplined(use)' /\ Lifecycle'
    BY <1>2, <2>1, LoopKeepsLifecycle DEF vars
  <2> QED
    BY <1>1, <1>2, <2>2, <2>3 DEF Orderly
<1> QED
  BY <1>2, <1>3, <1>4, SenderStepInv, CallInv, NewConnectionInv,
     OnConnWriteInv, AsyncSendCbInv, LoopSendInv, CloseInv, ReadErrorInv,
     CloseConnectionInv
  DEF Next

LEMMA InvHolds == Spec => [](TypeInv /\ Inv)
<1>1. Init => TypeInv /\ Inv
  BY InitTypes, InitInv
<1>2. TypeInv /\ Inv /\ [Next]_vars => (TypeInv /\ Inv)'
  BY NextTypes, NextInv
<1> QED
  BY <1>1, <1>2, PTL DEF Spec

\* In undisturbed use nothing that was freed is touched, no uv_buf_t of a
\* finished call is sent, and no locked mutex is destroyed.
THEOREM UndisturbedUseHasNoFault == Spec => []NoFault
<1>1. Inv => NoFault
  BY DEF Inv, Orderly, Lifecycle, NoFault
<1> QED
  BY <1>1, InvHolds, PTL

\* In undisturbed use the tcp_server_t is freed last, after its handles and
\* every connection.
THEOREM UndisturbedServerGoesLast == Spec => []ServerGoesLast
<1>1. TypeInv /\ Inv => ServerGoesLast
  <2> SUFFICES ASSUME TypeInv, Orderly, server = "freed"
               PROVE  /\ listener = "closed"
                      /\ Alive = {}
                      /\ \A c \in Conns : writes[c] = << >>
    BY DEF Inv, ServerGoesLast, FreedLast
  <2> QED
    BY DEF Orderly, Lifecycle, TypeInv, Targets
<1> QED
  BY <1>1, InvHolds, PTL

\* The two together, as the run checks them.
THEOREM ServerUsesStayWithinLives == Spec => []UsesStayWithinLives
<1>1. Spec => []NoFault /\ []ServerGoesLast
  BY UndisturbedUseHasNoFault, UndisturbedServerGoesLast
<1> QED
  BY <1>1, PTL DEF UsesStayWithinLives

\* What a sender that waits is waiting for is on its way.
LEMMA WaiterIsServed ==
  ASSUME TypeInv, Orderly, NEW s \in Senders, pc[s] = "wait"
  PROVE  \/ sendPending /\ sendTarget = frame[s].conn /\ data2[frame[s].conn] = s
         \/ \E i \in DOMAIN writes[frame[s].conn] :
              writes[frame[s].conn][i] = [from |-> s, n |-> frame[s].n]
         \/ sem > 0
<1>1. frame[s].conn \in Conns
  BY DEF TypeInv, Targets, InCall
<1>2. mutex = s /\ Owns(s)
  BY DEF Orderly, Protocol, Critical
<1>3. CASE ~sendPending /\ OwnWriteOnly(s)
  <2>1. writes[frame[s].conn] = << [from |-> s, n |-> frame[s].n] >>
    BY <1>1, <1>3 DEF OwnWriteOnly
  <2>2. 1 \in DOMAIN writes[frame[s].conn]
    BY <2>1
  <2> QED
    BY <2>1, <2>2
<1> QED
  BY <1>2, <1>3 DEF Owns, Waiting

\* In undisturbed use the senders are served one at a time: a token is
\* there only for the sender that waits, after its own write was reported on,
\* libuv holds writes only of the sender that is blocked, on the connection it
\* asked for, and a sender that waits is never forgotten.
THEOREM SendersAreServedInTurn == Spec => []SendsAreServedInTurn
<1>1. TypeInv /\ Inv => TokenBelongsToOwner
  <2> SUFFICES ASSUME TypeInv, Orderly, sem > 0
               PROVE  /\ sem = 1
                      /\ mutex # NULL
                      /\ pc[mutex] = "wait"
                      /\ outcome[mutex] = "reported"
    BY DEF Inv, TokenBelongsToOwner
  <2>1. use.senders # {} /\ ~Nothing
    BY DEF Orderly, Protocol, Silent, Nothing
  <2>2. mutex \in Senders /\ pc[mutex] = "wait" /\ Owns(mutex)
    BY <2>1, LoopServesOwner
  <2> QED
    BY <2>2, ConstantsOK DEF Owns, Waiting, Threads
<1>2. TypeInv /\ Inv => WritesGoWhereAsked
  <2> SUFFICES ASSUME TypeInv, Orderly, NEW c \in Conns,
                      NEW i \in DOMAIN writes[c], writes[c][i].from \in Senders
               PROVE  /\ pc[writes[c][i].from] = "wait"
                      /\ frame[writes[c][i].from].n = writes[c][i].n
                      /\ frame[writes[c][i].from].conn = c
    BY DEF Inv, WritesGoWhereAsked
  <2>0. writes[c] \in Seq(Requests) /\ i \in 1 .. Len(writes[c])
    BY DEF TypeInv, TypeOK
  <2>1. use.senders # {} /\ ~Nothing
    BY <2>0, ConstantsOK DEF Orderly, Protocol, Silent, Nothing
  <2>2. mutex \in Senders /\ pc[mutex] = "wait" /\ Owns(mutex)
    BY <2>1, LoopServesOwner
  <2>3. writes[c] # << >>
    BY <2>0
  <2>4. OwnWriteOnly(mutex)
    BY <2>2, <2>3 DEF Owns, Waiting
  <2>5. /\ c = frame[mutex].conn
        /\ writes[c] = << [from |-> mutex, n |-> frame[mutex].n] >>
    BY <2>3, <2>4 DEF OwnWriteOnly
  <2>6. writes[c][i] = [from |-> mutex, n |-> frame[mutex].n]
    BY <2>0, <2>5
  <2> QED
    BY <2>2, <2>5, <2>6
<1>3. TypeInv /\ Inv => NoWakeupIsLost
  BY WaiterIsServed DEF NoWakeupIsLost, Inv
<1>4. TypeInv /\ Inv => SendsAreServedInTurn
  BY <1>1, <1>2, <1>3 DEF SendsAreServedInTurn
<1> QED
  BY <1>4, InvHolds, PTL

-----------------------------------------------------------------------------
(* In undisturbed use a send to a connection is the blocking send of       *)
(* SendService                                                             *)

\* How a program uses the server does not change.
LEMMA UseIsFixed == [Next]_vars => use' = use
BY DEF Next, vars, TcpServerRun, OnNewConnection, OnNewConnectionFails,
       OnConnReadError, OnCloseConnection, OnConnWrite, LoopSend,
       OnConnReadErrorReturns, OnCloseConnectionReturns, Call, SenderStep,
       Lock, SetFlag, SetBuf, SetTarget, Wake, Wait, Unlock, PrintConn,
       NextConn, WalkEnds, AsyncSendCb, CloseFromLoop, CloseFlag,
       CloseSignal, AsyncCloseCb, Finished

\* What the service's transport is, with no write and with the write of s.
LEMMA TransportIsFree ==
  ASSUME \A c \in Conns : writes[c] = << >>
  PROVE  Transport = << >>
BY DEF Transport, Busy

LEMMA TransportHoldsOwn ==
  ASSUME Serving, NEW s \in Senders, frame[s].conn \in Conns, OwnWriteOnly(s)
  PROVE  Transport = << [client |-> s, payload |-> frame[s].conn] >>
<1> DEFINE d == frame[s].conn
           r == [from |-> s, n |-> frame[s].n]
<1>1. /\ writes[d] = << r >>
      /\ \A c \in Conns : c # d => writes[c] = << >>
  BY DEF OwnWriteOnly
<1>2. Busy = {d}
  BY <1>1 DEF Busy
<1>3. Transport = LettersOn(d)
  <2>1. (CHOOSE c \in Busy : TRUE) = d
    BY <1>2
  <2> QED
    BY <1>2, <2>1 DEF Transport
<1>4. DOMAIN writes[d] = 1 .. 1 /\ writes[d][1].from = s
  BY <1>1
<1>5. LettersOn(d) = [i \in 1 .. 1 |-> [client |-> s, payload |-> d]]
  BY <1>4 DEF LettersOn
<1> QED
  BY <1>3, <1>5

\* The same after a step.
LEMMA TransportBecomesFree ==
  ASSUME \A c \in Conns : writes'[c] = << >>
  PROVE  Transport' = << >>
BY DEF Transport, Busy

LEMMA TransportBecomesOwn ==
  ASSUME Serving, UNCHANGED <<use, frame>>,
         NEW s \in Senders, frame[s].conn \in Conns,
         \A d \in Conns : writes'[d] = IF d = frame[s].conn
                          THEN << [from |-> s, n |-> frame[s].n] >> ELSE << >>
  PROVE  Transport' = << [client |-> s, payload |-> frame[s].conn] >>
<1> DEFINE d == frame[s].conn
           r == [from |-> s, n |-> frame[s].n]
<1>1. Busy' = {d}
  BY DEF Busy
<1>2. Transport' = LettersOn(d)'
  <2>1. (CHOOSE c \in Busy' : TRUE) = d
    BY <1>1
  <2> QED
    BY <1>1, <2>1 DEF Transport, Serving, Undisturbed, Disciplined
<1>3. writes'[d] = << r >>
  OBVIOUS
<1>4. DOMAIN writes'[d] = 1 .. 1 /\ writes'[d][1].from = s
  BY <1>3
<1>5. LettersOn(d)' = [i \in 1 .. 1 |-> [client |-> s, payload |-> d]]
  BY <1>4 DEF LettersOn
<1> QED
  BY <1>2, <1>5

LEMMA TransportKept ==
  ASSUME UNCHANGED <<use, writes>>
  PROVE  Transport' = Transport
BY DEF Transport, Busy, LettersOn, Serving, Undisturbed, Disciplined

\* The service sees a sender only by the call it is in.
LEMMA SenderKept ==
  ASSUME NEW s \in Senders, use' = use,
         pc'[s] \in {"lock"} \cup Critical <=> pc[s] \in {"lock"} \cup Critical,
         Asking(s) => frame'[s] = frame[s] /\ outcome'[s] = outcome[s]
  PROVE  StatusOf(s)' = StatusOf(s) /\ PayloadOf(s)' = PayloadOf(s)
BY DEF StatusOf, PayloadOf, Asking, Serving, Undisturbed, Disciplined

LEMMA Stutters ==
  ASSUME UNCHANGED <<use, writes>>,
         \A s \in Senders : /\ StatusOf(s)' = StatusOf(s)
                            /\ PayloadOf(s)' = PayloadOf(s)
  PROVE  UNCHANGED Service!vars
BY TransportKept DEF Service!vars

\* One sender's call gets further, the others' do not.
LEMMA Moves ==
  ASSUME NEW s \in Senders, NEW from, NEW to,
         StatusOf(s) = from, StatusOf(s)' = to,
         \A t \in Senders \ {s} : StatusOf(t)' = StatusOf(t)
  PROVE  Service!Move(s, from, to)
BY DEF Service!Move

LEMMA PayloadsKept ==
  ASSUME UNCHANGED <<use, frame, pc>>
  PROVE  UNCHANGED [s \in Senders |-> PayloadOf(s)]
<1>1. \A s \in Senders : PayloadOf(s)' = PayloadOf(s)
  BY DEF PayloadOf, Asking, Serving, Undisturbed, Disciplined
<1> QED
  BY <1>1

\* A send begins, as a call of its own or as the next of a walk.
LEMMA VisitAsks ==
  ASSUME TypeInv, Serving, NEW s \in Senders, NEW c \in Conns, NEW m \in Modes,
         UNCHANGED <<use, writes>>,
         pc[s] \notin {"lock"} \cup Critical,
         pc' = [pc EXCEPT ![s] = "lock"],
         Visit(s, c, m)
  PROVE  Service!Next
<1> USE DEF TypeInv, TypeOK
<1>1. StatusOf(s) = "idle" /\ StatusOf(s)' = "asked" /\ PayloadOf(s)' = c
  BY DEF Visit, StatusOf, PayloadOf, Asking, Serving, Undisturbed, Disciplined
<1>2. ASSUME NEW t \in Senders \ {s}
      PROVE  StatusOf(t)' = StatusOf(t) /\ PayloadOf(t)' = PayloadOf(t)
  <2>1. pc'[t] = pc[t] /\ frame'[t] = frame[t] /\ outcome'[t] = outcome[t]
    BY DEF Visit
  <2> QED
    BY <2>1, SenderKept
<1>3. Service!Move(s, "idle", "asked")
  BY <1>1, <1>2, Moves
<1>4. [t \in Senders |-> PayloadOf(t)]' =
        [[t \in Senders |-> PayloadOf(t)] EXCEPT ![s] = c]
  BY <1>1, <1>2
<1>5. Service!Ask(s, c)
  BY <1>3, <1>4, TransportKept DEF Service!Ask
<1> QED
  BY <1>5 DEF Service!Next

LEMMA CallImplements ==
  ASSUME TypeInv, Serving, NEW s \in Senders, NEW m \in Modes, Call(s, m)
  PROVE  Service!Next \/ UNCHANGED Service!vars
<1> USE DEF TypeInv, TypeOK
<1>1. PICK c \in ToSet(Sessions) : Visit(s, c, m)
  BY DEF Call
<1>2. c \in Conns
  BY <1>1, LivingAreQueued
<1>3. CASE m # "print"
  <2>1. pc' = [pc EXCEPT ![s] = "lock"] /\ pc[s] \notin {"lock"} \cup Critical
    BY <1>3 DEF Call, VisitAt, Critical
  <2> QED
    BY <1>1, <1>2, <2>1, VisitAsks DEF Call
<1>4. CASE m = "print"
  <2>1. ASSUME NEW t \in Senders
        PROVE  StatusOf(t)' = StatusOf(t) /\ PayloadOf(t)' = PayloadOf(t)
    <3>1. pc'[t] \in {"lock"} \cup Critical <=> pc[t] \in {"lock"} \cup Critical
      BY <1>4 DEF Call, VisitAt, Critical
    <3>2. Asking(t) => frame'[t] = frame[t] /\ outcome'[t] = outcome[t]
      BY <1>1 DEF Asking, Call, Visit, Critical
    <3> QED
      BY <3>1, <3>2, SenderKept DEF Call
  <2> QED
    BY <2>1, Stutters DEF Call
<1> QED
  BY <1>3, <1>4

\* The sender leaves a connection, goes on to the next, or moves inside its
\* send.
LEMMA SenderStepImplements ==
  ASSUME TypeInv, Orderly, Serving, NEW s \in Senders, SenderStep(s)
  PROVE  Service!Next \/ UNCHANGED Service!vars
<1> USE ConstantsOK DEF TypeInv, TypeOK
<1>1. UNCHANGED <<use, writes>>
  BY DEF SenderStep, Lock, SetFlag, SetBuf, SetTarget, Wake, Wait, Unlock,
         PrintConn, NextConn, WalkEnds
<1>2. CASE Unlock(s)
  <2>1. outcome[s] = "reported"
    BY <1>2 DEF Unlock, Orderly, Protocol, Owns, Critical
  <2>2. /\ StatusOf(s) = "reported" /\ StatusOf(s)' = "idle"
        /\ PayloadOf(s)' = NULL
    BY <1>2, <2>1
   
   DEF Unlock, StatusOf, PayloadOf, Asking, Serving, Critical
  <2>3. ASSUME NEW t \in Senders \ {s}
        PROVE  StatusOf(t)' = StatusOf(t) /\ PayloadOf(t)' = PayloadOf(t)
    <3>1. pc'[t] = pc[t] /\ UNCHANGED <<frame, outcome>>
      BY <1>2 DEF Unlock
    <3> QED
      BY <1>1, <3>1, SenderKept
  <2>4. Service!Move(s, "reported", "idle")
    BY <2>2, <2>3, Moves
  <2>5. [t \in Senders |-> PayloadOf(t)]' =
          [[t \in Senders |-> PayloadOf(t)] EXCEPT ![s] = NULL]
    BY <2>2, <2>3
  <2>6. Service!Return(s)
    BY <1>1, <2>4, <2>5, TransportKept DEF Service!Return
  <2> QED
    BY <2>6 DEF Service!Next
<1>3. CASE NextConn(s) /\ frame[s].mode # "print"
  <2>1. pc' = [pc EXCEPT ![s] = "lock"] /\ pc[s] \notin {"lock"} \cup Critical
    BY <1>3 DEF NextConn, VisitAt, Critical
  <2>2. Onward(s) \in Conns
    BY <1>3 DEF NextConn, Onward, Queue!Following, Queue!Rings, Queue!Places,
                Targets, InCall
  <2>3. Visit(s, Onward(s), frame[s].mode) /\ frame[s].mode \in Modes
    BY <1>3 DEF NextConn, Frames
  <2> QED
    BY <1>1, <2>1, <2>2, <2>3, VisitAsks
<1>4. CASE ~Unlock(s) /\ ~(NextConn(s) /\ frame[s].mode # "print")
  <2>1. ASSUME NEW t \in Senders
        PROVE  StatusOf(t)' = StatusOf(t) /\ PayloadOf(t)' = PayloadOf(t)
    <3>1. pc'[t] \in {"lock"} \cup Critical <=> pc[t] \in {"lock"} \cup Critical
      BY <1>4 DEF SenderStep, Lock, SetFlag, SetBuf, SetTarget, Wake, Wait,
                  PrintConn, NextConn, WalkEnds, VisitAt, Critical
    <3>2. Asking(t) => frame'[t] = frame[t] /\ outcome'[t] = outcome[t]
      BY <1>4 DEF SenderStep, Lock, SetFlag, SetBuf, SetTarget, Wake, Wait,
                  PrintConn, NextConn, WalkEnds, Visit, Asking, Critical
    <3> QED
      BY <1>1, <3>1, <3>2, SenderKept
  <2> QED
    BY <1>1, <2>1, Stutters
<1> QED
  BY <1>2, <1>3, <1>4

\* async_send_cb hands the owner's write over, or gives it up.
LEMMA AsyncSendCbImplements ==
  ASSUME TypeInv, Orderly, Serving, AsyncSendCb
  PROVE  Service!Next
<1> USE ConstantsOK DEF TypeInv, TypeOK
<1>0. PICK c \in Conns : c = sendTarget
  BY DEF AsyncSendCb, Targets
<1>1. PICK s \in Senders : mutex = s /\ pc[s] = "wait" /\ Owns(s)
  BY LoopServesOwner
  DEF AsyncSendCb, Nothing, Serving, Undisturbed, Disciplined
<1>2. /\ data2[c] = s /\ c = frame[s].conn /\ c \in Conns
      /\ \A d \in Conns : writes[d] = << >>
      /\ outcome[s] = "none"
      /\ conn[c] = "open"
      /\ InCall(s)
  BY <1>0, <1>1
  DEF AsyncSendCb, Owns, Waiting, Orderly, Protocol, InCall, Targets
<1>3. SendDataNoMemory(c) \/ SendDataSubmit(c)
  <2>1. server # "freed" /\ data2[c] # Loop
    BY <1>1, <1>2, BusyIsOpen
  <2> QED
    BY <1>0, <1>2, <2>1 DEF AsyncSendCb
<1>4. UNCHANGED <<use, frame, pc>> /\ UNCHANGED [t \in Senders |-> PayloadOf(t)]
  BY PayloadsKept DEF AsyncSendCb
<1>5. StatusOf(s) = "asked" /\ PayloadOf(s) = c /\ Transport = << >>
  BY <1>1, <1>2, TransportIsFree DEF StatusOf, PayloadOf, Asking, Critical
<1>6. ASSUME NEW t \in Senders \ {s} PROVE StatusOf(t)' = StatusOf(t)
  <2>1. outcome'[t] = outcome[t]
    BY <1>2, <1>3 DEF SendDataNoMemory, SendDataSubmit, Report
  <2> QED
    BY <1>4, <2>1, SenderKept
<1>7. ASSUME NEW o, outcome' = [outcome EXCEPT ![s] = o], o # "none"
      PROVE  StatusOf(s)' = o
  BY <1>1, <1>4, <1>7
  DEF StatusOf, Asking, Serving, Undisturbed, Disciplined, Critical
<1>8. CASE SendDataNoMemory(c)
  <2>1. writes' = writes /\ StatusOf(s)' = "reported"
    BY <1>2, <1>7, <1>8 DEF SendDataNoMemory, Report
  <2>2. Service!Move(s, "asked", "reported")
    BY <1>1, <1>5, <1>6, <2>1, Moves
  <2>3. Service!GiveUp(s)
    BY <1>4, <1>5, <2>1, <2>2, TransportKept DEF Service!GiveUp
  <2> QED
    BY <1>1, <2>3 DEF Service!Next
<1>9. CASE SendDataSubmit(c)
  <2>1. /\ writes' = [writes EXCEPT ![c] =
             Append(writes[c], [from |-> s, n |-> frame[s].n])]
        /\ StatusOf(s)' = "carried"
    BY <1>2, <1>7, <1>9 DEF SendDataSubmit, Report
  <2>2. Append(writes[c], [from |-> s, n |-> frame[s].n]) =
          << [from |-> s, n |-> frame[s].n] >>
    BY <1>2, AppendToNone
  <2>3. \A d \in Conns : writes'[d] = IF d = c
                         THEN << [from |-> s, n |-> frame[s].n] >> ELSE << >>
    BY <1>2, <2>1, <2>2
  <2>4. Transport' = << [client |-> s, payload |-> c] >>
    BY <1>1, <1>2, <1>4, <2>3, TransportBecomesOwn
  <2>5. Service!Move(s, "asked", "carried")
    BY <1>1, <1>5, <1>6, <2>1, Moves
  <2>6. Service!Carry(s)
    BY <1>1, <1>4, <1>5, <2>4, <2>5 DEF Service!Carry, Service!Letter
  <2> QED
    BY <1>1, <2>6 DEF Service!Next
<1> QED
  BY <1>3, <1>8, <1>9

\* on_conn_write reports on the owner's write.
LEMMA OnConnWriteImplements ==
  ASSUME TypeInv, Orderly, Serving, NEW c \in Conns, OnConnWrite(c)
  PROVE  Service!Next
<1> USE ConstantsOK DEF TypeInv, TypeOK
<1>1. PICK s \in Senders : mutex = s /\ pc[s] = "wait" /\ Owns(s)
  BY LoopServesOwner
  DEF OnConnWrite, Nothing, Serving, Undisturbed, Disciplined
<1> DEFINE r == [from |-> s, n |-> frame[s].n]
<1>2. OwnWriteOnly(s) /\ outcome[s] = "carried"
  BY <1>1 DEF OnConnWrite, Owns, Waiting
<1>3. c = frame[s].conn /\ writes[c] = << r >>
  BY <1>2 DEF OnConnWrite, OwnWriteOnly
<1>4. Head(writes[c]) = r /\ Tail(writes[c]) = << >>
  BY <1>3
<1>5. /\ outcome' = [outcome EXCEPT ![s] = "reported"]
      /\ UNCHANGED <<use, frame, pc>>
      /\ UNCHANGED [t \in Senders |-> PayloadOf(t)]
  <2>1. Head(writes[c]).from = s /\ Head(writes[c]).n = frame[s].n
    BY <1>4
  <2> QED
    BY <1>1, <2>1, PayloadsKept DEF OnConnWrite, Report
<1>6. Transport' = << >>
  <2>1. \A d \in Conns : writes'[d] = << >>
    BY <1>2, <1>3, <1>4 DEF OnConnWrite, OwnWriteOnly
  <2> QED
    BY <2>1, TransportBecomesFree
<1>7. /\ StatusOf(s) = "carried" /\ StatusOf(s)' = "reported"
      /\ PayloadOf(s) = c
  BY <1>1, <1>2, <1>3, <1>5
  DEF StatusOf, PayloadOf, Asking, Serving, Undisturbed, Disciplined, Critical
<1>8. ASSUME NEW t \in Senders \ {s} PROVE StatusOf(t)' = StatusOf(t)
  BY <1>5, SenderKept
<1>9. Service!Move(s, "carried", "reported")
  BY <1>1, <1>7, <1>8, Moves
<1>10. Transport = << [client |-> s, payload |-> c] >>
  BY <1>1, <1>2, <1>3, TransportHoldsOwn
<1>11. Service!Report(s)
  BY <1>1, <1>5, <1>6, <1>7, <1>9, <1>10
  DEF Service!Report, Service!Letter
<1> QED
  BY <1>1, <1>11 DEF Service!Next

\* In undisturbed use, for any number of connections, a send to one of them,
\* alone or of a walk over all, is the blocking send of SendService.
THEOREM UndisturbedSendsImplementSendService ==
  Spec => ImplementsSendService
<1> USE ConstantsOK
<1>1. Init => Service!Init
  <2> SUFFICES ASSUME Init PROVE Service!Init
    OBVIOUS
  <2>1. Transport = << >>
    BY TransportIsFree DEF Init
  <2>2. \A s \in Senders : ~Asking(s)
    BY DEF Init, Asking, Critical
  <2> QED
    BY <2>1, <2>2 DEF Service!Init, StatusOf, PayloadOf
<1>2. TypeInv /\ Inv /\ [Next]_vars => [Service!Next]_(Service!vars)
  <2> SUFFICES ASSUME TypeInv, Inv, [Next]_vars
               PROVE  Service!Next \/ UNCHANGED Service!vars
    OBVIOUS
  <2>1. use' = use
    BY UseIsFixed
  <2>2. CASE ~Serving
    <3>1. Transport' = Transport
      BY <2>1, <2>2 DEF Transport, Serving, Undisturbed, Disciplined
    <3>2. \A s \in Senders : StatusOf(s)' = StatusOf(s)
                             /\ PayloadOf(s)' = PayloadOf(s)
      BY <2>1, <2>2
      DEF StatusOf, PayloadOf, Asking, Serving, Undisturbed, Disciplined
    <3> QED
      BY <3>1, <3>2 DEF Service!vars
  <2>3. CASE Serving
    <3>1. Orderly
      BY <2>3 DEF Serving, Inv
    <3>2. CASE UNCHANGED <<writes, pc, frame, outcome>>
      <4>1. \A s \in Senders : StatusOf(s)' = StatusOf(s)
                               /\ PayloadOf(s)' = PayloadOf(s)
        BY <2>1, <3>2, SenderKept
      <4> QED
        BY <2>1, <3>2, <4>1, Stutters
    <3>3. ASSUME NEW c \in Conns, LoopSend(c) PROVE FALSE
      BY <2>3, <3>1, <3>3 DEF LoopSend, Serving, Orderly, Disciplined
    <3> QED
      BY <2>3, <3>1, <3>2, <3>3, CallImplements, SenderStepImplements,
         AsyncSendCbImplements, OnConnWriteImplements
      DEF Next, vars, TcpServerRun, OnNewConnection, OnNewConnectionFails,
          OnConnReadError, OnCloseConnection, OnConnReadErrorReturns,
          OnCloseConnectionReturns, CloseFromLoop, CloseFlag, CloseSignal,
          AsyncCloseCb, Finished
  <2> QED
    BY <2>2, <2>3
<1> QED
  BY <1>1, <1>2, InvHolds, PTL DEF Spec, ImplementsSendService, Service!Spec

=============================================================================
