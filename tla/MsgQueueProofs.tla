--------------------------- MODULE MsgQueueProofs ---------------------------
(***************************************************************************)
(* Proofs about MsgQueue, for any number of senders, calls, incarnations   *)
(* and any capacity.                                                       *)
(***************************************************************************)
EXTENDS MsgQueue, SequenceTheorems, TLAPS

\* The life of the msg_queue_t tells what the process looks like.
Begun == life \notin {"none", "failed"}

Lifecycle ==
  /\ starts >= 1 /\ starts <= MaxStarts
  /\ receiver = "handle" <=> hand # NULL
  /\ isRunning <=> life = "up"
  /\ ~Begun => /\ \A s \in Senders : sender[s] = "idle" /\ sent[s] = 0
               /\ receiver = "none"
               /\ heap = {}
  /\ Begun => receiver # "none"
  /\ life \in {"up", "flagged"} => exists
  /\ life \in {"removed", "freed"} => ~exists
  /\ ~exists => queue = << >>
  /\ life = "freed" => receiver = "ended"

\* The number of a call tells whether its buffer is the one in use.
Numbered ==
  /\ \A s \in Senders : sender[s] = "sending" => sent[s] >= 1
  /\ \A m \in heap : m.in = starts /\ m.n <= sent[m.by]
  /\ \A m \in taken :
       /\ m.in <= starts
       /\ m.in = starts => /\ m.n <= sent[m.by]
                           /\ sender[m.by] = "sending" => m.n < sent[m.by]

\* The process's buffers are shared out between the senders, the queue and the
\* receiver.
Sharing ==
  Begun => /\ Held \subseteq heap \cap taken
           /\ \A i, j \in DOMAIN queue : queue[i] = queue[j] => i = j
           /\ Sending \subseteq heap
           /\ hand # NULL => hand \in (heap \cap taken) \ Held
           /\ life \in {"up", "flagged"} =>
                heap \subseteq Held \cup Sending \cup AtReceiver

Inv == TypeOK /\ fault = "none" /\ Lifecycle /\ Numbered /\ Sharing

USE DEF SenderGoto, ReceiverGoto, kernel, threads, history

-----------------------------------------------------------------------------
(* What the senders and the queue hold                                     *)

LEMMA SendingIs ==
  ASSUME TypeOK, NEW m
  PROVE  m \in Sending <=>
           \E s \in Senders : sender[s] = "sending" /\ m = Buf(s)
  BY DEF Sending

\* A buffer that is being sent is not one that was accepted.
LEMMA SendingIsNotTaken ==
  ASSUME TypeOK, Numbered
  PROVE  Sending \cap taken = {}
<1> SUFFICES ASSUME NEW s \in Senders, sender[s] = "sending", Buf(s) \in taken
             PROVE  FALSE
  BY DEF Sending
<1>1. Buf(s).by = s /\ Buf(s).n = sent[s] /\ Buf(s).in = starts
  BY DEF Buf, BufOf
<1>2. Buf(s).n < sent[s]
  BY <1>1 DEF Numbered
<1> QED
  BY <1>1, <1>2 DEF TypeOK

LEMMA BufIsMessage ==
  ASSUME TypeOK, Lifecycle, Numbered, NEW s \in Senders,
         sender[s] = "sending"
  PROVE  Buf(s) \in Messages /\ Buf(s) # NULL
<1>1. sent[s] \in 1 .. MaxSends /\ starts \in 1 .. MaxStarts
  BY ConstantsOK DEF TypeOK, Lifecycle, Numbered
<1>2. Buf(s) \in Messages
  BY <1>1 DEF Messages, Buf, BufOf
<1>3. Buf(s) \in [by : Senders, n : Nat, in : Nat]
  BY <1>1 DEF Buf, BufOf
<1> QED
  BY <1>2, <1>3, ConstantsOK

LEMMA MessagesAreNotNull == NULL \notin Messages
<1>1. Messages \subseteq [by : Senders, n : Nat, in : Nat]
  BY DEF Messages
<1> QED
  BY <1>1, ConstantsOK

LEMMA InitInv == Init => Inv
<1> SUFFICES ASSUME Init PROVE Inv
  OBVIOUS
<1> USE ConstantsOK DEF Init
<1>1. TypeOK
  <2>1. queue \in Seq(Messages) /\ handled \in Seq(Messages)
    OBVIOUS
  <2>2. sender \in [Senders -> {"idle", "sending"}]
    OBVIOUS
  <2>3. sent \in [Senders -> 0 .. MaxSends]
    OBVIOUS
  <2> QED
    BY <2>1, <2>2, <2>3 DEF TypeOK
<1>2. Lifecycle
  BY DEF Lifecycle, Begun
<1>3. Numbered
  BY DEF Numbered
<1>4. Sharing
  BY DEF Sharing, Begun
<1> QED
  BY <1>1, <1>2, <1>3, <1>4 DEF Inv

-----------------------------------------------------------------------------
(* The invariant                                                           *)

LEMMA CreateInv ==
  ASSUME Inv, MsgQueueCreate \/ MsgQueueCreateFails
  PROVE  Inv'
<1> USE ConstantsOK DEF Inv, MsgQueueCreate, MsgQueueCreateFails, FreshQueue
<1>1. TypeOK'
  <2>1. queue' \in Seq(Messages)
    <3>1. queue' = << >> \/ queue' = queue
      BY Zenon
    <3>2. queue \in Seq(Messages) /\ << >> \in Seq(Messages)
      BY DEF TypeOK
    <3> QED
      BY <3>1, <3>2, Zenon
  <2>2. life' \in {"up", "failed"}
    OBVIOUS
  <2>3. receiver' \in {"none", "check", "receive", "handle", "ended"}
    BY DEF TypeOK
  <2>4. isRunning' \in BOOLEAN
    BY DEF TypeOK
  <2>5. exists' \in BOOLEAN
    BY DEF TypeOK
  <2> QED
    BY <2>1, <2>2, <2>3, <2>4, <2>5 DEF TypeOK
<1>2. ~Begun /\ heap = {} /\ \A s \in Senders : sender[s] = "idle"
  BY DEF Begun, Lifecycle
<1>3. hand = NULL
  BY <1>2 DEF Lifecycle
<1>4. Lifecycle'
  BY <1>2, <1>3 DEF Lifecycle, Begun
<1>5. Numbered'
  BY DEF Numbered
<1>6. Sharing'
  BY <1>2, <1>3 DEF Sharing, Begun, Held, Sending, AtReceiver
<1> QED
  BY <1>1, <1>4, <1>5, <1>6

LEMMA MsgSendInv ==
  ASSUME Inv, NEW s \in Senders, MsgSend(s)
  PROVE  Inv'
<1> DEFINE b == BufOf(s, sent[s] + 1)
<1> USE ConstantsOK DEF Inv, MsgSend
<1>1. sent[s] + 1 \in 1 .. MaxSends /\ starts \in 1 .. MaxStarts
  BY DEF TypeOK, Lifecycle
<1>2. b \in Messages /\ b.by = s /\ b.n = sent[s] + 1 /\ b.in = starts
  BY <1>1 DEF Messages, BufOf
<1>3. TypeOK'
  BY <1>1, <1>2 DEF TypeOK
<1>4. Begun /\ Lifecycle'
  BY DEF Lifecycle, Begun
<1>5. sent'[s] = sent[s] + 1 /\ sender'[s] = "sending"
  BY DEF TypeOK
<1>6. \A t \in Senders \ {s} : sent'[t] = sent[t] /\ sender'[t] = sender[t]
  BY DEF TypeOK
<1>7. \A m \in Messages : m.by \in Senders /\ m.n \in Nat /\ m.in \in Nat
  BY DEF Messages
<1>8. \A t \in Senders : sent[t] \in Nat /\ sent'[t] \in Nat
  BY <1>3 DEF TypeOK
<1>9. Numbered'
  <2>1. \A t \in Senders : sender'[t] = "sending" => sent'[t] >= 1
    BY <1>5, <1>6, <1>8 DEF Numbered
  <2>2. \A m \in heap' : m.in = starts /\ m.n <= sent'[m.by]
    <3> SUFFICES ASSUME NEW m \in heap'
                 PROVE  m.in = starts /\ m.n <= sent'[m.by]
      OBVIOUS
    <3>1. CASE m = b
      BY <1>2, <1>5, <1>8, <3>1
    <3>2. CASE m \in heap
      BY <3>2, <1>5, <1>6, <1>7, <1>8 DEF Numbered, TypeOK
    <3> QED
      BY <3>1, <3>2
  <2>3. ASSUME NEW m \in taken
        PROVE  /\ m.in <= starts
               /\ m.in = starts =>
                    /\ m.n <= sent'[m.by]
                    /\ sender'[m.by] = "sending" => m.n < sent'[m.by]
    BY <2>3, <1>5, <1>6, <1>7, <1>8 DEF Numbered, TypeOK
  <2> QED
    BY <2>1, <2>2, <2>3 DEF Numbered
<1>10. Sending' = Sending \cup {b}
  BY <1>5, <1>6 DEF Sending, Buf, BufOf
<1>11. Sharing'
  BY <1>4, <1>10 DEF Sharing, Begun, Held, AtReceiver
<1> QED
  BY <1>3, <1>4, <1>9, <1>11

LEMMA MsgsndInv ==
  ASSUME Inv, NEW s \in Senders, Msgsnd(s)
  PROVE  Inv'
<1> DEFINE b == Buf(s)
<1> USE ConstantsOK DEF Inv, Msgsnd
<1>1. b \in Messages /\ b # NULL
  BY BufIsMessage
<1>2. queue \in Seq(Messages) /\ queue' = Append(queue, b)
  BY DEF TypeOK
<1>3. TypeOK'
  BY <1>1, <1>2 DEF TypeOK
<1>4. Begun /\ Lifecycle'
  BY <1>1, <1>2 DEF Lifecycle, Begun
<1>5. sender'[s] = "idle" /\ \A t \in Senders \ {s} : sender'[t] = sender[t]
  BY DEF TypeOK
<1>6. b.by = s /\ b.n = sent[s] /\ b.in = starts
  BY DEF Buf, BufOf
<1>7. Numbered'
  BY <1>5, <1>6 DEF Numbered, TypeOK
<1>8. b \in Sending /\ b \notin taken /\ b \in heap
  BY <1>4, SendingIsNotTaken DEF Sending, Sharing
<1>9. Sending' = Sending \ {b}
  BY <1>5 DEF Sending, Buf, BufOf
<1>10. /\ DOMAIN queue' = 1 .. Len(queue) + 1
       /\ \A i \in 1 .. Len(queue) : queue'[i] = queue[i]
       /\ queue'[Len(queue) + 1] = b
  BY <1>2
<1>11. Held' = Held \cup {b}
  BY <1>2, <1>10 DEF Held
<1>12. b \notin Held
  BY <1>4, <1>8 DEF Sharing
<1>13. \A i, j \in DOMAIN queue' : queue'[i] = queue'[j] => i = j
  BY <1>2, <1>4, <1>10, <1>12 DEF Sharing, Held
<1>14. Sharing'
  BY <1>4, <1>8, <1>9, <1>11, <1>13 DEF Sharing, Begun, AtReceiver
<1> QED
  BY <1>3, <1>4, <1>7, <1>14

LEMMA GiveUpInv ==
  ASSUME Inv, NEW s \in Senders, GiveUp(s)
  PROVE  Inv'
<1> DEFINE b == Buf(s)
<1> USE ConstantsOK DEF Inv, GiveUp
<1>1. Begun
  BY DEF Lifecycle
<1>2. b \in Sending /\ b \in heap /\ b \notin taken
  BY <1>1, SendingIsNotTaken DEF Sending, Sharing
<1>3. heap' = heap \ {b} /\ fault' = "none"
  BY <1>2 DEF Free
<1>4. TypeOK'
  BY <1>3 DEF TypeOK
<1>5. Lifecycle'
  BY <1>1, <1>3 DEF Lifecycle, Begun
<1>6. sender'[s] = "idle" /\ \A t \in Senders \ {s} : sender'[t] = sender[t]
  BY DEF TypeOK
<1>7. Numbered'
  BY <1>3, <1>6 DEF Numbered, TypeOK
<1>8. Sending' = Sending \ {b}
  BY <1>6 DEF Sending, Buf, BufOf
<1>9. Sharing'
  BY <1>1, <1>2, <1>3, <1>8 DEF Sharing, Begun, Held, AtReceiver, Lifecycle
<1> QED
  BY <1>3, <1>4, <1>5, <1>7, <1>9

LEMMA CheckRunningInv ==
  ASSUME Inv, CheckRunning
  PROVE  Inv'
<1> USE ConstantsOK DEF Inv, CheckRunning
<1>1. fault' = "none" /\ Begun
  BY DEF Lifecycle
<1>2. TypeOK'
  BY <1>1 DEF TypeOK
<1>3. Lifecycle'
  BY <1>1 DEF Lifecycle, Begun
<1>4. Numbered'
  BY DEF Numbered
<1>5. Sharing'
  BY <1>1 DEF Sharing, Begun, Held, Sending, Buf, BufOf, AtReceiver
<1> QED
  BY <1>1, <1>2, <1>3, <1>4, <1>5

LEMMA MsgrcvInv ==
  ASSUME Inv, Msgrcv
  PROVE  Inv'
<1> DEFINE b == Head(queue)
<1> USE ConstantsOK DEF Inv, Msgrcv
<1>1. queue \in Seq(Messages) /\ queue # << >> /\ queue' = Tail(queue)
  BY DEF TypeOK
<1>2. /\ b = queue[1] /\ 1 \in DOMAIN queue /\ b \in Messages
      /\ queue' \in Seq(Messages)
      /\ DOMAIN queue' = 1 .. Len(queue) - 1
      /\ \A i \in DOMAIN queue' : queue'[i] = queue[i + 1]
                                 /\ i + 1 \in DOMAIN queue /\ i + 1 # 1
      /\ DOMAIN queue \subseteq Nat /\ DOMAIN queue' \subseteq Nat
      /\ \A i \in DOMAIN queue \ {1} : i - 1 \in DOMAIN queue'
  BY <1>1, Len(queue) \in Nat
<1>3. TypeOK'
  BY <1>2 DEF TypeOK
<1>4. Begun /\ hand = NULL
  BY DEF Lifecycle, Begun
<1>5. b # NULL
  BY <1>2, MessagesAreNotNull
<1>6. Lifecycle'
  BY <1>4, <1>5 DEF Lifecycle, Begun
<1>7. Numbered'
  BY DEF Numbered
<1>8. Held = Held' \cup {b}
  <2>1. \A i \in DOMAIN queue' : queue'[i] \in Held
    BY <1>2 DEF Held
  <2>2. \A i \in DOMAIN queue : queue[i] \in Held' \cup {b}
    <3> SUFFICES ASSUME NEW i \in DOMAIN queue, i # 1
                 PROVE  queue[i] \in Held'
      BY <1>2
    <3>1. i - 1 \in DOMAIN queue' /\ queue'[i - 1] = queue[(i - 1) + 1]
      BY <1>2
    <3>2. (i - 1) + 1 = i
      BY <1>2
    <3> QED
      BY <3>1, <3>2 DEF Held
  <2>3. b \in Held
    BY <1>2 DEF Held
  <2> QED
    BY <2>1, <2>2, <2>3 DEF Held
<1>9. \A i, j \in DOMAIN queue : queue[i] = queue[j] => i = j
  BY <1>4 DEF Sharing
<1>10. b \notin Held'
  BY <1>2, <1>9 DEF Held
<1>11. \A i, j \in DOMAIN queue' : queue'[i] = queue'[j] => i = j
  <2> SUFFICES ASSUME NEW i \in DOMAIN queue', NEW j \in DOMAIN queue',
                      queue'[i] = queue'[j]
               PROVE  i = j
    OBVIOUS
  <2>1. i + 1 = j + 1
    BY <1>2, <1>9
  <2> QED
    BY <1>2, <2>1
<1>12. Sending' = Sending
  BY DEF Sending, Buf, BufOf
<1>13. Sharing'
  BY <1>4, <1>5, <1>8, <1>10, <1>11, <1>12 DEF Sharing, Begun, AtReceiver
<1> QED
  BY <1>3, <1>6, <1>7, <1>13

LEMMA MsgrcvFailsInv ==
  ASSUME Inv, MsgrcvFails
  PROVE  Inv'
<1> USE ConstantsOK DEF Inv, MsgrcvFails
<1>1. TypeOK'
  BY DEF TypeOK
<1>2. Begun
  BY DEF Lifecycle
<1>3. Lifecycle'
  BY <1>2 DEF Lifecycle, Begun
<1>4. Numbered'
  BY DEF Numbered
<1>5. Sharing'
  BY <1>2 DEF Sharing, Begun, Held, Sending, Buf, BufOf, AtReceiver
<1> QED
  BY <1>1, <1>3, <1>4, <1>5

LEMMA MsgrcvInterruptedInv ==
  ASSUME Inv, MsgrcvInterrupted
  PROVE  Inv'
<1> USE ConstantsOK DEF Inv, MsgrcvInterrupted
<1>1. TypeOK'
  BY DEF TypeOK
<1>2. Begun
  BY DEF Lifecycle
<1>3. Lifecycle'
  BY <1>2 DEF Lifecycle, Begun
<1>4. Numbered'
  BY DEF Numbered
<1>5. Sharing'
  BY <1>2 DEF Sharing, Begun, Held, Sending, Buf, BufOf, AtReceiver
<1> QED
  BY <1>1, <1>3, <1>4, <1>5

LEMMA HandleMsgInv ==
  ASSUME Inv, HandleMsg
  PROVE  Inv'
<1> USE ConstantsOK DEF Inv, HandleMsg
<1>1. Begun /\ hand # NULL
  BY DEF Lifecycle
<1>2. hand \in heap /\ hand \in taken /\ hand \notin Held
  BY <1>1 DEF Sharing
<1>3. heap' = heap \ {hand} /\ fault' = "none"
  BY <1>2 DEF Free
<1>4. TypeOK'
  <2>1. hand \in Messages /\ handled \in Seq(Messages)
    BY <1>1 DEF TypeOK
  <2> QED
    BY <1>3, <2>1 DEF TypeOK
<1>5. Lifecycle'
  BY <1>1, <1>3 DEF Lifecycle, Begun
<1>6. Numbered'
  BY <1>3 DEF Numbered
<1>7. hand \notin Sending
  BY <1>2, SendingIsNotTaken
<1>8. Sending' = Sending
  BY DEF Sending, Buf, BufOf
<1>9. Sharing'
  BY <1>1, <1>2, <1>3, <1>7, <1>8 DEF Sharing, Begun, Held, AtReceiver
<1> QED
  BY <1>3, <1>4, <1>5, <1>6, <1>9

LEMMA DestroyInv ==
  ASSUME Inv, StopRunning \/ DestroyStep
  PROVE  Inv'
<1> USE ConstantsOK DEF Inv, StopRunning, DestroyStep, RemoveQueue,
                        JoinAndFree, Up
<1>1. Begun /\ Begun'
  BY DEF Begun
<1>2. queue' = queue \/ queue' = << >>
  BY Zenon
<1>3. TypeOK'
  <2>1. queue' \in Seq(Messages)
    BY <1>2, EmptySeq, Zenon DEF TypeOK
  <2> QED
    BY <2>1 DEF TypeOK
<1>4. Lifecycle'
  <2>1. CASE StopRunning
    BY <1>1, <2>1 DEF Lifecycle, Begun
  <2>2. CASE RemoveQueue
    BY <1>1, <2>2 DEF Lifecycle, Begun
  <2>3. CASE JoinAndFree
    BY <1>1, <2>3 DEF Lifecycle, Begun
  <2> QED
    BY <2>1, <2>2, <2>3
<1>5. Numbered'
  BY DEF Numbered
<1>6. Sending' = Sending /\ AtReceiver' = AtReceiver
  BY DEF Sending, Buf, BufOf, AtReceiver
<1>7. Sharing'
  <2>1. CASE StopRunning
    BY <1>1, <1>6, <2>1 DEF Sharing, Begun, Held
  <2>2. CASE RemoveQueue
    <3>1. Held' = {} /\ DOMAIN queue' = {}
      BY <2>2 DEF Held
    <3> QED
      BY <1>1, <1>6, <2>2, <3>1 DEF Sharing, Begun
  <2>3. CASE JoinAndFree
    BY <1>1, <1>6, <2>3 DEF Sharing, Begun, Held
  <2> QED
    BY <2>1, <2>2, <2>3
<1> QED
  BY <1>3, <1>4, <1>5, <1>7

LEMMA RestartInv ==
  ASSUME Inv, Restart
  PROVE  Inv'
<1> USE ConstantsOK DEF Inv, Restart
<1>1. ~Begun'
  BY DEF Begun
<1>2. TypeOK'
  <2>1. sender' \in [Senders -> {"idle", "sending"}]
    OBVIOUS
  <2>2. sent' \in [Senders -> 0 .. MaxSends]
    OBVIOUS
  <2>3. queue' \in Seq(Messages) /\ handled' \in Seq(Messages)
    BY DEF TypeOK
  <2>4. isRunning' \in BOOLEAN /\ exists' \in BOOLEAN
    BY DEF TypeOK
  <2>5. starts' \in Nat /\ heap' \subseteq Messages
        /\ taken' \subseteq Messages
    BY DEF TypeOK
  <2>6. hand' = NULL /\ receiver' = "none" /\ life' = "none" /\ fault' = "none"
    OBVIOUS
  <2> HIDE DEF Restart
  <2> QED
    BY <2>1, <2>2, <2>3, <2>4, <2>5, <2>6 DEF TypeOK
<1>3. Lifecycle'
  <2>1. \A s \in Senders : sender'[s] = "idle" /\ sent'[s] = 0
    OBVIOUS
  <2>2. starts' >= 1 /\ starts' <= MaxStarts
    BY DEF Lifecycle, TypeOK
  <2>3. ~exists' => queue' = << >>
    BY DEF Lifecycle
  <2> QED
    BY <1>1, <2>1, <2>2, <2>3 DEF Lifecycle
<1>4. Numbered'
  <2>1. \A m \in taken : m.in <= starts /\ m.in \in Nat
    BY DEF Numbered, TypeOK, Messages
  <2> QED
    BY <2>1 DEF Numbered, TypeOK
<1>5. Sharing'
  BY <1>1 DEF Sharing
<1> QED
  BY <1>2, <1>3, <1>4, <1>5

LEMMA NextInv ==
  ASSUME Inv, [Next]_vars
  PROVE  Inv'
<1>1. CASE MsgQueueCreate \/ MsgQueueCreateFails
  BY <1>1, CreateInv
<1>2. CASE \E s \in Senders : MsgSend(s) \/ SenderStep(s) \/ MsgsndErrs(s)
  BY <1>2, MsgSendInv, MsgsndInv, GiveUpInv
     DEF SenderStep, MsgsndFails, MsgsndErrs
<1>3. CASE ReceiverStep \/ MsgrcvInterrupted
  BY <1>3, CheckRunningInv, MsgrcvInv, MsgrcvFailsInv, MsgrcvInterruptedInv,
     HandleMsgInv
     DEF ReceiverStep
<1>4. CASE StopRunning \/ DestroyStep
  BY <1>4, DestroyInv
<1>5. CASE Restart
  BY <1>5, RestartInv
<1>6. CASE Finished \/ UNCHANGED vars
  <2>1. UNCHANGED vars
    BY <1>6 DEF Finished
  <2> QED
    BY <2>1 DEF Inv, vars, TypeOK, Lifecycle, Begun, Numbered, Sharing, Held,
                Sending, Buf, BufOf, AtReceiver
<1> QED
  BY <1>1, <1>2, <1>3, <1>4, <1>5, <1>6 DEF Next

\* The invariant holds in every state the process, its successors and the
\* kernel can reach.
THEOREM QueueInvariant == Spec => []Inv
<1>1. Init => Inv
  BY InitInv
<1>2. Inv /\ [Next]_vars => Inv'
  BY NextInv
<1> QED
  BY <1>1, <1>2, PTL DEF Spec

-----------------------------------------------------------------------------
(* What follows from it                                                    *)

\* Every variable of the message queue has its type, always.
THEOREM QueueTypesHold == Spec => []TypeOK
<1>1. Inv => TypeOK
  BY DEF Inv
<1> QED
  BY <1>1, QueueInvariant, PTL

\* No buffer of msg_send is ever freed twice, freed under a thread that uses
\* it, received by an incarnation it does not belong to, or lost before the
\* queue is removed.
THEOREM BuffersAlwaysHaveOneOwner == Spec => []BuffersHaveOneOwner
<1>1. ASSUME Inv PROVE BuffersHaveOneOwner
  <2>1. fault = "none"
    BY <1>1 DEF Inv
  <2>2. ASSUME Up PROVE Sharing /\ Begun
    BY <1>1, <2>2 DEF Up, Begun, Inv
  <2>3. Sending \cap taken = {}
    BY <1>1, SendingIsNotTaken DEF Inv
  <2>4. NULL \notin heap
    BY <1>1, MessagesAreNotNull DEF Inv, TypeOK
  <2>5. ASSUME Up
        PROVE  /\ Held \cup Sending \cup AtReceiver \subseteq heap
               /\ Held \cap Sending = {}
               /\ AtReceiver \cap (Held \cup Sending) = {}
               /\ life \in {"up", "flagged"} =>
                    heap \subseteq Held \cup Sending \cup AtReceiver
    BY <2>2, <2>3, <2>5 DEF Sharing, AtReceiver
  <2> QED
    BY <2>1, <2>5 DEF BuffersHaveOneOwner
<1> QED
  BY <1>1, QueueInvariant, PTL

-----------------------------------------------------------------------------
(* The order of a sender's messages                                        *)

\* What was handled, what is in hand and what is queued stand in the order of
\* the calls.
Ordered ==
  Begun =>
    /\ \A i, j \in DOMAIN queue : i < j => Earlier(queue[i], queue[j])
    /\ \A i \in DOMAIN handled, j \in DOMAIN queue :
         Earlier(handled[i], queue[j])
    /\ hand # NULL =>
         /\ \A i \in DOMAIN handled : Earlier(handled[i], hand)
         /\ \A j \in DOMAIN queue : Earlier(hand, queue[j])

InOrder == EachHandledOnceInOrder /\ Ordered

\* Whatever was accepted is earlier than what is being sent.
LEMMA TakenIsEarlier ==
  ASSUME Inv, NEW s \in Senders, sender[s] = "sending", NEW m \in taken
  PROVE  Earlier(m, Buf(s))
<1>1. /\ Buf(s).by = s /\ Buf(s).n = sent[s] /\ Buf(s).in = starts
  BY DEF Buf, BufOf
<1>2. m \in Messages /\ m.in \in Nat /\ starts \in Nat
  BY DEF Inv, TypeOK, Messages
<1>3. m.in <= starts
  BY DEF Inv, Numbered
<1>4. m.in = starts /\ m.by = s => m.n < sent[s]
  BY DEF Inv, Numbered
<1> QED
  BY <1>1, <1>2, <1>3, <1>4 DEF Earlier

LEMMA MsgsndInOrder ==
  ASSUME Inv, InOrder, NEW s \in Senders, Msgsnd(s)
  PROVE  InOrder'
<1> DEFINE b == Buf(s)
<1>1. Begun /\ sender[s] = "sending" /\ handled' = handled /\ hand' = hand
      /\ taken \subseteq taken'
  BY DEF Inv, Lifecycle, Begun, Msgsnd
<1>2. /\ b \in Messages /\ queue \in Seq(Messages) /\ queue' = Append(queue, b)
      /\ Len(queue) \in Nat
  BY <1>1, BufIsMessage DEF Inv, TypeOK, Msgsnd
<1>3. /\ DOMAIN queue = 1 .. Len(queue)
      /\ DOMAIN queue' = 1 .. Len(queue) + 1
      /\ \A i \in 1 .. Len(queue) : queue'[i] = queue[i]
      /\ queue'[Len(queue) + 1] = b
  BY <1>2
<1>4. \A m \in taken : Earlier(m, b)
  BY <1>1, TakenIsEarlier
<1> HIDE DEF b
<1>5. \A i \in DOMAIN queue : queue[i] \in taken
  BY <1>1 DEF Inv, Sharing, Held
<1>6. \A i \in DOMAIN handled : handled[i] \in taken
  BY DEF InOrder, EachHandledOnceInOrder
<1>7. hand # NULL => hand \in taken
  BY <1>1 DEF Inv, Sharing
<1>8. ASSUME NEW i \in DOMAIN queue', NEW j \in DOMAIN queue', i < j
      PROVE  Earlier(queue'[i], queue'[j])
  <2>1. i \in 1 .. Len(queue) /\ queue'[i] = queue[i]
    BY <1>2, <1>3, <1>8
  <2>2. CASE j = Len(queue) + 1
    BY <1>3, <1>4, <1>5, <2>1, <2>2
  <2>3. CASE j \in 1 .. Len(queue)
    BY <1>1, <1>3, <1>8, <2>1, <2>3 DEF InOrder, Ordered
  <2> QED
    BY <1>2, <1>3, <2>2, <2>3
<1>9. ASSUME NEW i \in DOMAIN handled, NEW j \in DOMAIN queue'
      PROVE  Earlier(handled[i], queue'[j])
  BY <1>1, <1>2, <1>3, <1>4, <1>6, <1>9 DEF InOrder, Ordered
<1>10. ASSUME hand # NULL
       PROVE  /\ \A i \in DOMAIN handled : Earlier(handled[i], hand)
              /\ \A j \in DOMAIN queue' : Earlier(hand, queue'[j])
  BY <1>1, <1>2, <1>3, <1>4, <1>7, <1>10 DEF InOrder, Ordered
<1>11. EachHandledOnceInOrder'
  BY <1>1 DEF InOrder, EachHandledOnceInOrder, Earlier
<1>12. Ordered'
  BY <1>1, <1>8, <1>9, <1>10 DEF Ordered, Earlier
<1> QED
  BY <1>11, <1>12 DEF InOrder

LEMMA MsgrcvInOrder ==
  ASSUME Inv, InOrder, Msgrcv
  PROVE  InOrder'
<1>1. Begun /\ handled' = handled /\ taken' = taken
  BY DEF Inv, Lifecycle, Begun, Msgrcv
<1>2. queue \in Seq(Messages) /\ queue # << >> /\ queue' = Tail(queue)
      /\ hand' = Head(queue) /\ Len(queue) \in Nat
  BY DEF Inv, TypeOK, Msgrcv
<1>3. /\ hand' = queue[1] /\ 1 \in DOMAIN queue
      /\ \A i \in DOMAIN queue' : /\ queue'[i] = queue[i + 1]
                                  /\ i + 1 \in DOMAIN queue
                                  /\ i \in Nat /\ 1 < i + 1
  BY <1>2
<1>4. Ordered'
  BY <1>1, <1>3 DEF InOrder, Ordered, Earlier
<1>5. EachHandledOnceInOrder'
  BY <1>1 DEF InOrder, EachHandledOnceInOrder, Earlier
<1> QED
  BY <1>4, <1>5 DEF InOrder

LEMMA HandleMsgInOrder ==
  ASSUME Inv, InOrder, HandleMsg
  PROVE  InOrder'
<1>1. Begun /\ hand # NULL /\ hand' = NULL /\ taken' = taken
      /\ queue' = queue
  BY DEF Inv, Lifecycle, Begun, HandleMsg, kernel
<1>2. hand \in taken /\ hand \in Messages
  BY <1>1 DEF Inv, Sharing, TypeOK
<1>3. handled \in Seq(Messages) /\ handled' = Append(handled, hand)
      /\ Len(handled) \in Nat
  BY DEF Inv, TypeOK, HandleMsg
<1>4. /\ DOMAIN handled = 1 .. Len(handled)
      /\ DOMAIN handled' = 1 .. Len(handled) + 1
      /\ \A i \in 1 .. Len(handled) : handled'[i] = handled[i]
      /\ handled'[Len(handled) + 1] = hand
  BY <1>2, <1>3
<1>5. ASSUME NEW i \in DOMAIN handled', NEW j \in DOMAIN handled', i < j
      PROVE  Earlier(handled'[i], handled'[j])
  <2>1. i \in DOMAIN handled /\ handled'[i] = handled[i]
    BY <1>3, <1>4, <1>5
  <2>2. CASE j = Len(handled) + 1
    BY <1>1, <1>4, <2>1, <2>2 DEF InOrder, Ordered
  <2>3. CASE j \in DOMAIN handled
    BY <1>4, <1>5, <2>1, <2>3 DEF InOrder, EachHandledOnceInOrder
  <2> QED
    BY <1>3, <1>4, <2>2, <2>3
<1>6. \A i \in DOMAIN handled' : handled'[i] \in taken'
  BY <1>1, <1>2, <1>3, <1>4 DEF InOrder, EachHandledOnceInOrder
<1>7. \A i \in DOMAIN handled', j \in DOMAIN queue :
        Earlier(handled'[i], queue[j])
  BY <1>1, <1>3, <1>4 DEF InOrder, Ordered
<1>8. EachHandledOnceInOrder'
  BY <1>5, <1>6 DEF EachHandledOnceInOrder, Earlier
<1>9. Ordered'
  BY <1>1, <1>7 DEF InOrder, Ordered, Earlier
<1> QED
  BY <1>8, <1>9 DEF InOrder

LEMMA InitInOrder == Init => InOrder
  BY DEF Init, InOrder, EachHandledOnceInOrder, Ordered, Begun

LEMMA NextInOrder == Inv /\ InOrder /\ [Next]_vars => InOrder'
<1> SUFFICES ASSUME Inv, InOrder, [Next]_vars PROVE InOrder'
  OBVIOUS
<1>1. ASSUME NEW s \in Senders, Msgsnd(s) PROVE InOrder'
  BY <1>1, MsgsndInOrder
<1>2. CASE Msgrcv
  BY <1>2, MsgrcvInOrder
<1>3. CASE HandleMsg
  BY <1>3, HandleMsgInOrder
<1>4. ASSUME history' = history, queue' = << >>, hand' = hand \/ hand' = NULL,
             Begun \/ hand' = NULL
      PROVE  InOrder'
  <2>1. EachHandledOnceInOrder'
    BY <1>4 DEF InOrder, EachHandledOnceInOrder, Earlier
  <2>2. Ordered'
    BY <1>4 DEF InOrder, Ordered, Earlier
  <2> QED
    BY <2>1, <2>2 DEF InOrder
<1>5. ASSUME history' = history,
             ~Begun' \/ (Begun /\ UNCHANGED <<queue, hand>>)
      PROVE  InOrder'
  <2>1. EachHandledOnceInOrder'
    BY <1>5 DEF InOrder, EachHandledOnceInOrder, Earlier
  <2>2. Ordered'
    BY <1>5 DEF InOrder, Ordered, Earlier
  <2> QED
    BY <2>1, <2>2 DEF InOrder
<1>6. CASE MsgQueueCreate
  BY <1>4, <1>6 DEF MsgQueueCreate, FreshQueue, Inv, Lifecycle, Begun
<1>7. CASE RemoveQueue
  BY <1>4, <1>7 DEF RemoveQueue, Begun, Up
<1>8. CASE MsgQueueCreateFails \/ Restart
  BY <1>5, <1>8 DEF MsgQueueCreateFails, Restart, Begun
<1>9. ASSUME NEW s \in Senders, MsgSend(s) \/ GiveUp(s) PROVE InOrder'
  BY <1>5, <1>9 DEF MsgSend, GiveUp, Begun, Inv, Lifecycle
<1>10. CASE CheckRunning \/ MsgrcvFails \/ MsgrcvInterrupted \/ StopRunning
         \/ JoinAndFree
  BY <1>5, <1>10 DEF CheckRunning, MsgrcvFails, MsgrcvInterrupted, StopRunning,
                     JoinAndFree, Begun, Up, Inv, Lifecycle
<1>11. CASE UNCHANGED vars
  BY <1>5, <1>11 DEF vars, Begun
<1> QED
  BY <1>1, <1>2, <1>3, <1>6, <1>7, <1>8, <1>9, <1>10, <1>11
  DEF Next, SenderStep, MsgsndFails, MsgsndErrs, ReceiverStep, DestroyStep,
      Finished

\* Each message is handled at most once, a thread's in the order of its calls
\* of msg_send, across every restart of the process.
THEOREM MessagesAreHandledInOrder == Spec => []EachHandledOnceInOrder
<1>1. InOrder => EachHandledOnceInOrder
  BY DEF InOrder
<1> QED
  BY <1>1, InitInOrder, NextInOrder, QueueInvariant, PTL DEF Spec

-----------------------------------------------------------------------------
(* The queue implements FifoChannel                                        *)

Bounded == Len(queue) <= Capacity

LEMMA InitBounded == Init => Bounded
  BY ConstantsOK DEF Init, Bounded

LEMMA NextBounded == Inv /\ Bounded /\ [Next]_vars => Bounded'
<1> SUFFICES ASSUME Inv, Bounded, [Next]_vars PROVE Bounded'
  OBVIOUS
<1> USE ConstantsOK
<1>1. queue \in Seq(Messages) /\ Len(queue) \in Nat
  BY LenProperties DEF Inv, TypeOK
<1>2. CASE queue' = queue \/ queue' = << >>
  BY <1>2 DEF Bounded
<1>3. ASSUME NEW s \in Senders, Msgsnd(s) PROVE Bounded'
  <2>1. Buf(s) \in Messages
    BY <1>3, BufIsMessage DEF Msgsnd, Inv
  <2> QED
    BY <1>1, <1>3, <2>1, AppendProperties DEF Bounded, Msgsnd
<1>4. CASE Msgrcv
  BY <1>1, <1>4, HeadTailProperties DEF Bounded, Msgrcv
<1> QED
  BY <1>2, <1>3, <1>4, Zenon
  DEF Next, vars, SenderStep, ReceiverStep, DestroyStep, MsgQueueCreate,
      MsgQueueCreateFails, FreshQueue, MsgSend, MsgsndFails, MsgsndErrs,
      GiveUp, CheckRunning, MsgrcvFails, MsgrcvInterrupted, HandleMsg,
      StopRunning, RemoveQueue, JoinAndFree, Restart, Finished

LEMMA BoundedHolds == Spec => []Bounded
  BY InitBounded, NextBounded, QueueInvariant, PTL DEF Spec

\* A message in front of a queue.
LEMMA InFront ==
  ASSUME NEW S, NEW q \in Seq(S), NEW m \in S
  PROVE  /\ << m >> \o q # << >>
         /\ Len(<< m >> \o q) = Len(q) + 1
         /\ Head(<< m >> \o q) = m
         /\ Tail(<< m >> \o q) = q
         /\ << m >> \o << >> = << m >>
         /\ \A e \in S : << m >> \o Append(q, e) = Append(<< m >> \o q, e)
<1>1. << m >> \in Seq(S) /\ Len(<< m >>) = 1 /\ << m >>[1] = m
  OBVIOUS
<1>2. Len(q) \in Nat
  BY LenProperties
<1>3. /\ << m >> \o q \in Seq(S)
      /\ Len(<< m >> \o q) = 1 + Len(q)
      /\ \A i \in 1 .. 1 + Len(q) : (<< m >> \o q)[i] =
                    IF i <= 1 THEN << m >>[i] ELSE q[i - 1]
  BY <1>1, ConcatProperties
<1>4. << m >> \o q # << >>
  BY <1>2, <1>3
<1>5. Head(<< m >> \o q) = m
  BY <1>1, <1>2, <1>3
<1>6. Tail(<< m >> \o q) = q
  <2> DEFINE t == Tail(<< m >> \o q)
  <2>1. /\ t \in Seq(S) /\ Len(t) = Len(q)
        /\ \A i \in 1 .. Len(t) : t[i] = (<< m >> \o q)[i + 1]
    BY <1>2, <1>3, <1>4, HeadTailProperties
  <2>2. \A i \in 1 .. Len(t) : t[i] = q[i]
    BY <1>2, <1>3, <2>1
  <2> HIDE DEF t
  <2>3. t = q
    BY <2>1, <2>2, SeqEqual
  <2> QED
    BY <2>3 DEF t
<1>7. << m >> \o << >> = << m >>
  BY <1>1, ConcatEmptySeq
<1>8. ASSUME NEW e \in S
      PROVE  << m >> \o Append(q, e) = Append(<< m >> \o q, e)
  <2>1. << e >> \in Seq(S) /\ Append(q, e) = q \o << e >>
    BY AppendIsConcat
  <2>2. Append(<< m >> \o q, e) = (<< m >> \o q) \o << e >>
    BY <1>3, AppendIsConcat
  <2> QED
    BY <1>1, <2>1, <2>2, ConcatAssociative
<1> QED
  BY <1>2, <1>3, <1>4, <1>5, <1>6, <1>7, <1>8

LEMMA HeadThenTail ==
  ASSUME NEW S, NEW q \in Seq(S), q # << >>
  PROVE  << Head(q) >> \o Tail(q) = q
<1>1. /\ Head(q) \in S /\ Head(q) = q[1] /\ Tail(q) \in Seq(S)
      /\ Len(Tail(q)) = Len(q) - 1 /\ Len(q) \in Nat
      /\ \A i \in 1 .. Len(Tail(q)) : Tail(q)[i] = q[i + 1]
  BY HeadTailProperties, LenProperties
<1>2. << Head(q) >> \in Seq(S) /\ Len(<< Head(q) >>) = 1
      /\ << Head(q) >>[1] = Head(q)
  BY <1>1
<1> DEFINE r == << Head(q) >> \o Tail(q)
<1>3. /\ r \in Seq(S) /\ Len(r) = Len(q)
      /\ \A i \in 1 .. Len(q) : r[i] =
             IF i <= 1 THEN << Head(q) >>[i] ELSE Tail(q)[i - 1]
  BY <1>1, <1>2, ConcatProperties
<1>4. ASSUME NEW i \in 1 .. Len(r) PROVE r[i] = q[i]
  <2>1. CASE i = 1
    BY <1>1, <1>2, <1>3, <2>1
  <2>2. CASE i # 1
    <3>1. i - 1 \in 1 .. Len(Tail(q)) /\ (i - 1) + 1 = i /\ ~(i <= 1)
      BY <1>1, <1>3, <2>2
    <3>2. Tail(q)[i - 1] = q[i]
      BY <1>1, <3>1
    <3> QED
      BY <1>3, <3>1, <3>2
  <2> QED
    BY <2>1, <2>2
<1> HIDE DEF r
<1>5. r = q
  BY <1>3, <1>4, SeqEqual
<1> QED
  BY <1>5 DEF r

LEMMA ContentsIs ==
  ASSUME TypeOK
  PROVE  /\ ~Begun => Contents = << >>
         /\ Begun /\ hand = NULL => Contents = queue
         /\ Begun /\ hand # NULL => Contents = << hand >> \o queue
<1>1. << >> \o queue = queue
  BY ConcatEmptySeq DEF TypeOK
<1> QED
  BY <1>1 DEF Begun, Contents, InHand

LEMMA MsgsndTakes ==
  ASSUME Inv, Bounded, NEW s \in Senders, Msgsnd(s)
  PROVE  Channel!Take(Buf(s))
<1> DEFINE b == Buf(s)
<1> USE DEF Inv, Msgsnd
<1>1. b \in Messages /\ b \notin taken
  BY BufIsMessage, SendingIsNotTaken DEF Sending
<1>2. TypeOK' /\ Begun /\ Begun'
  BY MsgsndInv DEF Lifecycle, Begun
<1>3. queue \in Seq(Messages) /\ Len(queue) \in Nat
  BY LenProperties DEF TypeOK
<1>4. CASE hand = NULL
  <2>1. Contents = queue /\ Contents' = Append(queue, b)
    BY <1>2, <1>4, ContentsIs DEF Contents, InHand, Begun
  <2> QED
    BY <1>1, <1>3, <2>1, ConstantsOK DEF Channel!Take
<1>5. CASE hand # NULL
  <2>1. hand \in Messages
    BY <1>5 DEF TypeOK
  <2>2. Contents = << hand >> \o queue
        /\ Contents' = << hand >> \o Append(queue, b)
    BY <1>2, <1>5, ContentsIs DEF Contents, InHand, Begun
  <2>3. Contents' = Append(Contents, b) /\ Len(Contents) = Len(queue) + 1
    BY <1>1, <1>3, <2>1, <2>2, InFront
  <2> QED
    BY <1>1, <1>3, <2>3, ConstantsOK DEF Channel!Take
<1> QED
  BY <1>4, <1>5

LEMMA HandleMsgDelivers ==
  ASSUME Inv, HandleMsg
  PROVE  Channel!Deliver
<1> USE DEF Inv, HandleMsg
<1>1. Begun /\ Begun' /\ hand # NULL /\ hand \in Messages
  BY DEF Lifecycle, Begun, TypeOK
<1>2. queue \in Seq(Messages)
  BY DEF TypeOK
<1>3. Contents = << hand >> \o queue
  BY <1>1, ContentsIs
<1>4. Contents' = << >> \o queue
  BY <1>1 DEF Contents, InHand, Begun
<1>5. Contents' = queue
  BY <1>2, <1>4, ConcatEmptySeq
<1> QED
  BY <1>1, <1>2, <1>3, <1>5, InFront DEF Channel!Deliver

LEMMA MsgrcvStutters ==
  ASSUME Inv, Msgrcv
  PROVE  Contents' = Contents
<1> USE DEF Inv, Msgrcv
<1>1. queue \in Seq(Messages) /\ queue # << >> /\ Head(queue) \in Messages
  BY HeadTailProperties DEF TypeOK
<1>2. Begun /\ Begun' /\ hand = NULL /\ hand' # NULL
  BY <1>1, MessagesAreNotNull DEF Lifecycle, Begun
<1>3. Contents = queue
  BY <1>2, ContentsIs
<1>4. Contents' = << Head(queue) >> \o Tail(queue)
  BY <1>2 DEF Contents, InHand, Begun
<1> QED
  BY <1>1, <1>3, <1>4, HeadThenTail

LEMMA RemoveQueueEmpties ==
  ASSUME Inv, RemoveQueue
  PROVE  Channel!Empty \/ Channel!EmptyButFirst
<1> USE DEF Inv, RemoveQueue, Up
<1>1. Begun /\ Begun' /\ queue' = << >> /\ hand' = hand
  BY DEF Begun
<1>2. queue \in Seq(Messages)
  BY DEF TypeOK
<1>3. CASE hand = NULL
  <2>1. Contents' = << >> \o << >>
    BY <1>1, <1>3 DEF Contents, InHand, Begun
  <2>2. Contents' = << >>
    BY <2>1, ConcatEmptySeq, EmptySeq
  <2> QED
    BY <2>2 DEF Channel!Empty
<1>4. CASE hand # NULL
  <2>1. hand \in Messages
    BY <1>4 DEF TypeOK
  <2>2. Contents = << hand >> \o queue /\ Contents' = << hand >> \o << >>
    BY <1>1, <1>4, ContentsIs DEF Contents, InHand, Begun
  <2>3. Contents # << >> /\ Contents' = << Head(Contents) >>
    BY <1>2, <2>1, <2>2, InFront
  <2> QED
    BY <2>3 DEF Channel!EmptyButFirst
<1> QED
  BY <1>3, <1>4

LEMMA InitImplements == Init => Channel!Init
  BY DEF Init, Channel!Init, Contents

LEMMA StepImplements ==
  Inv /\ Bounded /\ [Next]_vars => [Channel!Next]_(Channel!vars)
<1> SUFFICES ASSUME Inv, Bounded, [Next]_vars
             PROVE  Channel!Next \/ UNCHANGED Channel!vars
  OBVIOUS
<1>1. ASSUME NEW s \in Senders, Msgsnd(s) PROVE Channel!Next
  BY <1>1, MsgsndTakes, BufIsMessage DEF Channel!Next, Msgsnd, Inv
<1>2. CASE HandleMsg
  BY <1>2, HandleMsgDelivers DEF Channel!Next
<1>3. CASE Msgrcv
  BY <1>3, MsgrcvStutters DEF Channel!vars, Msgrcv
<1>4. CASE RemoveQueue
  BY <1>4, RemoveQueueEmpties DEF Channel!Next
<1>5. CASE Restart
  BY <1>5 DEF Channel!Next, Channel!Empty, Contents, Restart
<1>6. CASE MsgQueueCreate
  <2>1. Contents = << >> /\ hand = NULL /\ Contents' = << >> \o << >>
    BY <1>6 DEF MsgQueueCreate, FreshQueue, Contents, InHand, Inv, Lifecycle,
                Begun
  <2>2. Contents' = << >>
    BY <2>1, ConcatEmptySeq, EmptySeq
  <2> QED
    BY <1>6, <2>1, <2>2 DEF Channel!vars, MsgQueueCreate
<1>7. CASE MsgQueueCreateFails
  BY <1>7 DEF Channel!vars, MsgQueueCreateFails, Contents
<1>8. CASE StopRunning \/ JoinAndFree
  BY <1>8 DEF Channel!vars, StopRunning, JoinAndFree, Contents, InHand, Up
<1>9. ASSUME NEW s \in Senders, MsgSend(s) \/ GiveUp(s)
      PROVE  UNCHANGED Channel!vars
  BY <1>9 DEF Channel!vars, MsgSend, GiveUp, Contents, InHand
<1>10. CASE CheckRunning \/ MsgrcvFails \/ MsgrcvInterrupted \/ UNCHANGED vars
  BY <1>10 DEF Channel!vars, CheckRunning, MsgrcvFails, MsgrcvInterrupted,
               vars, Contents, InHand
<1> QED
  BY <1>1, <1>2, <1>3, <1>4, <1>5, <1>6, <1>7, <1>8, <1>9, <1>10
  DEF Next, SenderStep, MsgsndFails, MsgsndErrs, ReceiverStep, DestroyStep,
      Finished

\* Messages are handled once each, in the order msgsnd accepted them, and no
\* message of an earlier incarnation is handled, for any number of senders
\* and messages and any capacity.
THEOREM QueueImplementsFifoChannel == Spec => ImplementsFifoChannel
  BY InitImplements, StepImplements, QueueInvariant, BoundedHolds, PTL
  DEF Spec, ImplementsFifoChannel, Channel!Spec

=============================================================================
