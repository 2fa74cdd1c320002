------------------------------ MODULE MsgQueue ------------------------------
(***************************************************************************)
(* src/utils/msg_queue.c: a System V message queue between the threads of  *)
(* one process, and the thread that receives from it.                      *)
(*                                                                         *)
(* A message carries a pointer to a buffer that msg_send has allocated and *)
(* that the receiving thread frees.  The queue lives in the kernel: it     *)
(* outlives the process that made it, whose pointers then mean nothing.    *)
(* The process may be killed at any moment and started again; a new        *)
(* incarnation finds what the last one left behind.                        *)
(*                                                                         *)
(* A signal that is handled on one of the threads ends its msgsnd or       *)
(* msgrcv if that is blocked (EINTR, which is not restarted).  Messages of *)
(* another size than msg_t (E2BIG), which only some other program could    *)
(* send, and a removal by some other program are left out, and the thread  *)
(* that receives is taken to start: nobody looks at what pthread_create    *)
(* returns.                                                                *)
(*                                                                         *)
(* Under the key IPC_PRIVATE, which COMPONENT is in main.c, a queue is new *)
(* and no later incarnation finds it: the behaviours of this module in     *)
(* which the process dies without a queue.                                 *)
(***************************************************************************)
EXTENDS Integers, Sequences, FiniteSets

CONSTANTS
  Senders,      \* the threads that call msg_send
  NULL,
  Capacity,     \* messages the kernel's queue holds
  MaxSends,     \* bound: calls of msg_send by each thread and incarnation
  MaxStarts     \* bound: incarnations of the process

ASSUME ConstantsOK ==
  /\ NULL \notin [by : Senders, n : Nat, in : Nat]
  /\ Capacity \in Nat \ {0}
  /\ MaxSends \in Nat
  /\ MaxStarts \in Nat \ {0}

VARIABLES
  life,       \* the msg_queue_t: none, up, flagged, removed, freed, failed
  starts,     \* incarnations so far
  isRunning,  \* is_running
  exists,     \* the kernel has a queue under the key
  queue,      \* what that queue holds, oldest first
  sender,     \* where each sender is
  sent,       \* calls each sender has made in this incarnation
  receiver,   \* where the receiving thread is
  hand,       \* the message it holds, or NULL
  heap,       \* the buffers allocated by this incarnation and not yet freed
  taken,      \* history: the messages msgsnd has accepted
  handled,    \* history: the messages on_msg was called with
  fault       \* "none", or the undefined behaviour the program ran into

kernel == <<exists, queue>>
threads == <<sender, sent, receiver, hand>>
history == <<taken, handled>>
vars == <<life, starts, isRunning, kernel, threads, heap, history, fault>>

\* The buffer of a sender's n-th call, and of its current one.
BufOf(s, n) == [by |-> s, n |-> n, in |-> starts]
Buf(s) == BufOf(s, sent[s])

\* The process has a sound msg_queue_t.
Up == fault = "none" /\ life \notin {"none", "freed", "failed"}

SenderGoto(s, from, to) ==
  /\ fault = "none"
  /\ sender[s] = from
  /\ sender' = [sender EXCEPT ![s] = to]

ReceiverGoto(from, to) ==
  /\ fault = "none"
  /\ receiver = from
  /\ receiver' = to

Free(b) ==
  IF b \in heap THEN heap' = heap \ {b} /\ UNCHANGED fault
                ELSE fault' = "bad_pointer" /\ UNCHANGED heap

-----------------------------------------------------------------------------
(* Creating                                                                *)

Init ==
  /\ life = "none"
  /\ starts = 1
  /\ isRunning = FALSE
  /\ exists = FALSE
  /\ queue = << >>
  /\ sender = [s \in Senders |-> "idle"]
  /\ sent = [s \in Senders |-> 0]
  /\ receiver = "none"
  /\ hand = NULL
  /\ heap = {}
  /\ taken = {}
  /\ handled = << >>
  /\ fault = "none"

\* Mutant: the queue that is found under the key is used as it is.
FreshQueueKept ==
  /\ exists' = TRUE
  /\ queue' = IF exists THEN queue ELSE << >>

\* A queue that is found under the key is removed, with what it holds, and a
\* new one is made.
FreshQueue ==
  /\ exists' = TRUE
  /\ queue' = << >>

MsgQueueCreate ==
  /\ life = "none"
  /\ FreshQueue
  /\ life' = "up"
  /\ isRunning' = TRUE
  /\ receiver' = "check"
  /\ UNCHANGED <<starts, sender, sent, hand, heap, history, fault>>

\* malloc or msgget fails; the old queue may be gone already.
MsgQueueCreateFails ==
  /\ life = "none"
  /\ life' = "failed"
  /\ \/ UNCHANGED kernel
     \/ exists' = FALSE /\ queue' = << >>
  /\ UNCHANGED <<starts, isRunning, threads, heap, history, fault>>

-----------------------------------------------------------------------------
(* msg_send                                                                *)

\* The copy of the data is allocated.  The caller has got the queue id at some
\* time since the queue was made; it may have been removed since.
MsgSend(s) ==
  /\ life \notin {"none", "failed"}
  /\ sent[s] < MaxSends
  /\ SenderGoto(s, "idle", "sending")
  /\ sent' = [sent EXCEPT ![s] = @ + 1]
  /\ heap' = heap \cup {BufOf(s, sent[s] + 1)}
  /\ UNCHANGED <<life, starts, isRunning, kernel, receiver, hand, history,
                 fault>>

\* Mutant: the copy is freed once it is in the queue.
MsgsndFrees(s) ==
  /\ SenderGoto(s, "sending", "idle")
  /\ exists
  /\ Len(queue) < Capacity
  /\ queue' = Append(queue, Buf(s))
  /\ taken' = taken \cup {Buf(s)}
  /\ heap' = heap \ {Buf(s)}
  /\ UNCHANGED <<life, starts, isRunning, exists, sent, receiver, hand,
                 handled, fault>>

\* Mutant: a full queue loses its oldest message.
MsgsndOverwrites(s) ==
  /\ SenderGoto(s, "sending", "idle")
  /\ exists
  /\ queue' = Append(IF Len(queue) < Capacity THEN queue ELSE Tail(queue),
                     Buf(s))
  /\ taken' = taken \cup {Buf(s)}
  /\ UNCHANGED <<life, starts, isRunning, exists, sent, receiver, hand, heap,
                 handled, fault>>

\* msgsnd blocks while the queue is full.
Msgsnd(s) ==
  /\ SenderGoto(s, "sending", "idle")
  /\ exists
  /\ Len(queue) < Capacity
  /\ queue' = Append(queue, Buf(s))
  /\ taken' = taken \cup {Buf(s)}
  /\ UNCHANGED <<life, starts, isRunning, exists, sent, receiver, hand, heap,
                 handled, fault>>

\* msg_send frees the copy, and the message is lost.
GiveUp(s) ==
  /\ SenderGoto(s, "sending", "idle")
  /\ Free(Buf(s))
  /\ UNCHANGED <<life, starts, isRunning, kernel, sent, receiver, hand,
                 history>>

\* The queue was removed before the call or while it was blocked.
MsgsndFails(s) == ~exists /\ GiveUp(s)

\* A signal was handled while msgsnd was blocked, or the kernel has no memory
\* for the message.
MsgsndErrs(s) == exists /\ GiveUp(s)

-----------------------------------------------------------------------------
(* The receiving thread                                                    *)

CheckRunning ==
  /\ ReceiverGoto("check", IF isRunning THEN "receive" ELSE "ended")
  /\ fault' = IF life = "freed" THEN "use_after_free" ELSE "none"
  /\ UNCHANGED <<life, starts, isRunning, kernel, sender, sent, hand, heap,
                 history>>

\* Mutant: the message that is received stays in the queue.
MsgrcvKeeps ==
  /\ ReceiverGoto("receive", "handle")
  /\ exists
  /\ queue # << >>
  /\ hand' = Head(queue)
  /\ UNCHANGED <<life, starts, isRunning, kernel, sender, sent, heap, history,
                 fault>>

\* msgrcv blocks while the queue is empty.
Msgrcv ==
  /\ ReceiverGoto("receive", "handle")
  /\ exists
  /\ queue # << >>
  /\ hand' = Head(queue)
  /\ queue' = Tail(queue)
  /\ UNCHANGED <<life, starts, isRunning, exists, sender, sent, heap, history,
                 fault>>

\* Mutant: a msgrcv that fails is taken for a message.
MsgrcvFailsFallsThrough ==
  /\ ~exists
  /\ ReceiverGoto("receive", "ended") \/ ReceiverGoto("receive", "handle")
  /\ UNCHANGED <<life, starts, isRunning, kernel, sender, sent, hand, heap,
                 history, fault>>

\* EIDRM, when it was blocked during the removal, ends the thread; EINVAL,
\* when it came later, takes it round the loop again.
MsgrcvFails ==
  /\ ~exists
  /\ ReceiverGoto("receive", "ended") \/ ReceiverGoto("receive", "check")
  /\ UNCHANGED <<life, starts, isRunning, kernel, sender, sent, hand, heap,
                 history, fault>>

\* A signal was handled while msgrcv was blocked: round the loop again.
MsgrcvInterrupted ==
  /\ exists
  /\ queue = << >>
  /\ ReceiverGoto("receive", "check")
  /\ UNCHANGED <<life, starts, isRunning, kernel, sender, sent, hand, heap,
                 history, fault>>

\* on_msg is given the buffer, which is read, and then freed.
HandleMsg ==
  /\ ReceiverGoto("handle", "check")
  /\ Free(hand)
  /\ handled' = Append(handled, hand)
  /\ hand' = NULL
  /\ UNCHANGED <<life, starts, isRunning, kernel, sender, sent, taken>>

-----------------------------------------------------------------------------
(* Destroying, dying and starting again                                    *)

StopRunning ==
  /\ Up
  /\ life = "up"
  /\ life' = "flagged"
  /\ isRunning' = FALSE
  /\ UNCHANGED <<starts, kernel, threads, heap, history, fault>>

\* Mutant: the queue is left in the kernel.
RemoveQueueNever ==
  /\ Up
  /\ life = "flagged"
  /\ life' = "removed"
  /\ UNCHANGED <<starts, isRunning, kernel, threads, heap, history, fault>>

RemoveQueue ==
  /\ Up
  /\ life = "flagged"
  /\ life' = "removed"
  /\ exists' = FALSE
  /\ queue' = << >>
  /\ UNCHANGED <<starts, isRunning, threads, heap, history, fault>>

\* Mutant: the msg_queue_t is freed without waiting for the thread.
NoJoin ==
  /\ Up
  /\ life = "removed"
  /\ life' = "freed"
  /\ UNCHANGED <<starts, isRunning, kernel, threads, heap, history, fault>>

JoinAndFree ==
  /\ Up
  /\ life = "removed"
  /\ receiver = "ended"
  /\ life' = "freed"
  /\ UNCHANGED <<starts, isRunning, kernel, threads, heap, history, fault>>

\* The process is killed, or exits, and is started again.  The kernel keeps
\* the queue.
Restart ==
  /\ starts < MaxStarts
  /\ fault = "none"
  /\ life' = "none"
  /\ starts' = starts + 1
  /\ isRunning' = FALSE
  /\ sender' = [s \in Senders |-> "idle"]
  /\ sent' = [s \in Senders |-> 0]
  /\ receiver' = "none"
  /\ hand' = NULL
  /\ heap' = {}
  /\ UNCHANGED <<kernel, history, fault>>

\* The process has ended in order, or failed, for the last time.
Finished ==
  /\ fault # "none" \/ life = "failed"
       \/ (life = "freed" /\ \A s \in Senders : sender[s] = "idle")
  /\ UNCHANGED vars

SenderStep(s) == Msgsnd(s) \/ MsgsndFails(s)
ReceiverStep == CheckRunning \/ Msgrcv \/ MsgrcvFails \/ HandleMsg
DestroyStep == RemoveQueue \/ JoinAndFree

Next ==
  \/ MsgQueueCreate
  \/ MsgQueueCreateFails
  \/ \E s \in Senders : MsgSend(s) \/ SenderStep(s) \/ MsgsndErrs(s)
  \/ ReceiverStep
  \/ MsgrcvInterrupted
  \/ StopRunning
  \/ DestroyStep
  \/ Restart
  \/ Finished

\* Threads run; nobody has to call msg_send or msg_queue_destroy, and no
\* signal has to come.
Fairness ==
  /\ \A s \in Senders : WF_vars(SenderStep(s))
  /\ WF_vars(ReceiverStep)
  /\ WF_vars(DestroyStep)

Spec == Init /\ [][Next]_vars /\ Fairness

-----------------------------------------------------------------------------
(* Properties                                                              *)

Messages == [by : Senders, n : 1 .. MaxSends, in : 1 .. MaxStarts]
Held == {queue[i] : i \in DOMAIN queue}

\* Every variable has its type.
TypeOK ==
  /\ life \in {"none", "up", "flagged", "removed", "freed", "failed"}
  /\ starts \in Nat
  /\ isRunning \in BOOLEAN
  /\ exists \in BOOLEAN
  /\ queue \in Seq(Messages)
  /\ sender \in [Senders -> {"idle", "sending"}]
  /\ sent \in [Senders -> 0 .. MaxSends]
  /\ receiver \in {"none", "check", "receive", "handle", "ended"}
  /\ hand \in Messages \cup {NULL}
  /\ heap \subseteq Messages
  /\ taken \subseteq Messages
  /\ handled \in Seq(Messages)
  /\ fault \in {"none", "bad_pointer", "use_after_free"}

Sending == {Buf(s) : s \in {t \in Senders : sender[t] = "sending"}}
AtReceiver == {hand} \ {NULL}

\* A buffer that a sender, the queue or the receiver holds is allocated, and
\* by this incarnation: nobody frees it under the other, two never hold the
\* same, and what an earlier incarnation has left in the kernel under the same
\* key is never received ("delete old msg", msg_queue.c:85).  None leaks
\* before the queue is removed.  So no thread frees a buffer that is not its
\* process's, nor looks at a msg_queue_t that msg_queue_destroy has freed.
BuffersHaveOneOwner ==
  /\ fault = "none"
  /\ Up => /\ Held \cup Sending \cup AtReceiver \subseteq heap
           /\ Held \cap Sending = {}
           /\ AtReceiver \cap (Held \cup Sending) = {}
           /\ life \in {"up", "flagged"} =>
                heap \subseteq Held \cup Sending \cup AtReceiver

\* Message a was accepted of an earlier incarnation, or of an earlier call of
\* the same thread.
Earlier(a, b) ==
  \/ a.in < b.in
  \/ a.in = b.in /\ (a.by = b.by => a.n < b.n)

\* Every thread's messages are handled once each and in the order of its calls,
\* whatever the others send in between, and nothing is handled again, or out
\* of turn, after the process has died and started over.  Only what msgsnd has
\* accepted is handled.
EachHandledOnceInOrder ==
  /\ \A i, j \in DOMAIN handled : i < j => Earlier(handled[i], handled[j])
  /\ \A i \in DOMAIN handled : handled[i] \in taken

\* msg_queue_destroy returns, wherever the receiver is: blocked on an empty
\* queue, about to look at is_running, or in on_msg.
DestroyReturns ==
  life = "flagged" ~> life \in {"freed", "none"}

\* A sender that is blocked on a full queue gets room, or is turned away when
\* the queue is removed.
SendersReturn ==
  \A s \in Senders : sender[s] = "sending" ~> sender[s] = "idle"

\* Nobody is stuck in the queue's functions: no sender and not the caller of
\* msg_queue_destroy.
CallsReturn == SendersReturn /\ DestroyReturns

\* A message that was accepted is handled, unless the queue is destroyed or
\* the process dies.
AcceptedAreHandled ==
  \A m \in Messages :
    m \in taken ~> \/ m \in {handled[i] : i \in DOMAIN handled}
                   \/ life # "up"
                   \/ starts # m.in

InHand == IF hand = NULL THEN << >> ELSE << hand >>

\* After a restart nothing of the earlier queue will be delivered.
Contents == IF life \in {"none", "failed"} THEN << >> ELSE InHand \o queue

Channel == INSTANCE FifoChannel WITH
  Messages  <- Messages,
  Bound     <- Capacity + 1,
  taken     <- taken,
  contents  <- Contents,
  delivered <- handled

\* Messages are handled once each and in the order msgsnd accepted them, and
\* at most one more than the kernel's queue holds is under way.
ImplementsFifoChannel == Channel!Spec

=============================================================================
