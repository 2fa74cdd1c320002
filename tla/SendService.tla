---------------------------- MODULE SendService ----------------------------
(***************************************************************************)
(* What a blocking send to an event-loop thread promises its callers.      *)
(*                                                                         *)
(* A client asks for its payload to be sent and is blocked until the       *)
(* outcome is known.  Calls are served one at a time: the transport holds  *)
(* at most one payload, it is the payload of a client that is still        *)
(* blocked, and that client returns only after the transport has reported  *)
(* on it, or after the call was given up before anything was handed over.  *)
(*                                                                         *)
(* This module stands for no code of its own.  UdpSocket, TcpClient and    *)
(* TcpServer implement it.                                                 *)
(***************************************************************************)
EXTENDS Naturals, Sequences

CONSTANTS
  Clients,   \* the threads that may call
  Payloads,  \* what a call may ask to have sent
  None       \* what a thread outside a call asks for

VARIABLES
  status,    \* how far the call of each client has got
  payload,   \* what the call of each client asks for
  transport  \* what has been handed over and not been reported on yet

vars == <<status, payload, transport>>

Statuses == {"idle", "asked", "carried", "reported", "refused"}

Letter(c) == [client |-> c, payload |-> payload[c]]

Move(c, from, to) ==
  /\ status[c] = from
  /\ status' = [status EXCEPT ![c] = to]

-----------------------------------------------------------------------------

Init ==
  /\ status = [c \in Clients |-> "idle"]
  /\ payload = [c \in Clients |-> None]
  /\ transport = << >>

Ask(c, p) ==
  /\ Move(c, "idle", "asked")
  /\ payload' = [payload EXCEPT ![c] = p]
  /\ UNCHANGED transport

\* The payload of c is handed over.  Nobody else's is under way.
Carry(c) ==
  /\ transport = << >>
  /\ Move(c, "asked", "carried")
  /\ transport' = << Letter(c) >>
  /\ UNCHANGED payload

Report(c) ==
  /\ transport = << Letter(c) >>
  /\ Move(c, "carried", "reported")
  /\ transport' = << >>
  /\ UNCHANGED payload

\* There was no memory for the request: the call fails, and returns.
GiveUp(c) ==
  /\ transport = << >>
  /\ Move(c, "asked", "reported")
  /\ UNCHANGED <<payload, transport>>

\* The transport does not take the request: no report will ever come.
Refuse(c) ==
  /\ transport = << >>
  /\ Move(c, "asked", "refused")
  /\ UNCHANGED <<payload, transport>>

Return(c) ==
  /\ Move(c, "reported", "idle")
  /\ payload' = [payload EXCEPT ![c] = None]
  /\ UNCHANGED transport

Next ==
  \E c \in Clients :
    \/ \E p \in Payloads : Ask(c, p)
    \/ Carry(c)
    \/ Report(c)
    \/ GiveUp(c)
    \/ Refuse(c)
    \/ Return(c)

Spec == Init /\ [][Next]_vars

=============================================================================
