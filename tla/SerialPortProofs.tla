-------------------------- MODULE SerialPortProofs --------------------------
(***************************************************************************)
(* Proofs about SerialPort, for any number of writers, descriptors, calls, *)
(* closes and bytes, and any settings asked for.                           *)
(***************************************************************************)
EXTENDS SerialPort, TLAPS

\* The life of the serial_t tells what has become of its descriptor and of the
\* handles of the loop.
Ownership ==
  /\ life \in {"open", "freed"} => fd \in Fds
  /\ life = "open" => /\ table[fd] = "device"
                      /\ poller \in {"active", "stopped"}
  /\ life # "open" => poller \in {"none", "closing", "gone"}
  /\ life \notin {"open", "freed"} => ~closePending /\ Quiet /\ closes = 0
  /\ life = "none" => \A f \in Fds : table[f] # "device"

\* A writer is inside a call only while the port is open.
Order ==
  orderly => /\ fault = "none" /\ ~strays
             /\ closes = 0 => life # "freed" /\ ~closePending
             /\ closes > 0 => Quiet
             /\ life = "freed" => ~closePending
             /\ \A w \in Writers :
                  pc[w] = "write" => life = "open" /\ held[w] = fd

Inv == TypeOK /\ Ownership /\ DescriptorIsGivenBack /\ Order

USE DEF portVars, closeVars, inputVars, writeVars, Touch, Stopped,
        FreeFds, IsLowest, NoFd, Strays, MayClose, Quiet

-----------------------------------------------------------------------------
(* Types                                                                   *)

LEMMA TermiosType ==
  ASSUME NEW r \in RequestType
  PROVE  Termios(r) \in Settings
<1>1. get_baudrate(r.speed) \in Speeds
  BY DEF get_baudrate, Speeds
<1> HIDE DEF get_baudrate
<1> QED
  BY <1>1 DEF Termios, Settings, RequestType

LEMMA InitInv == Init => Inv
<1> SUFFICES ASSUME Init PROVE Inv
  OBVIOUS
<1> USE ConstantsOK DEF Init
<1>1. DefaultSettings \in Settings
  BY DEF DefaultSettings, Settings, Speeds
<1>2. TypeOK
  <2>1. table \in [Fds -> {"free", "device", "other"}]
    OBVIOUS
  <2>2. pc \in [Writers -> {"idle", "write"}]
    OBVIOUS
  <2>3. held \in [Writers -> Fds \cup {NoFd}]
    OBVIOUS
  <2>4. calls \in [Writers -> 0 .. MaxCalls]
    OBVIOUS
  <2>5. orderly \in BOOLEAN
    OBVIOUS
  <2> QED
    BY <1>1, <2>1, <2>2, <2>3, <2>4, <2>5 DEF TypeOK
<1>3. \A f \in Fds : table[f] # "device"
  OBVIOUS
<1>4. Ownership /\ DescriptorIsGivenBack /\ Order
  BY <1>3 DEF Ownership, DescriptorIsGivenBack, Order
<1> QED
  BY <1>2, <1>4 DEF Inv

\* Starting, and the files of others.
LEMMA OpeningInv ==
  ASSUME Inv, SerialRun \/ SerialRunFails \/ SerialRunStarves \/ OtherOpens
  PROVE  Inv'
<1> USE ConstantsOK DEF Inv
<1>1. CASE SerialRun
  <2> USE <1>1 DEF SerialRun
  <2>1. PICK f \in Fds : /\ table[f] = "free"
                         /\ fd' = f
                         /\ table' = [table EXCEPT ![f] = "device"]
    OBVIOUS
  <2>2. TypeOK'
    BY <2>1 DEF TypeOK
  <2>3. \A g \in Fds : table'[g] = IF g = f THEN "device" ELSE table[g]
    BY <2>1 DEF TypeOK
  <2> QED
    BY <2>1, <2>2, <2>3 DEF Ownership, DescriptorIsGivenBack, Order
<1>2. CASE SerialRunFails
  BY <1>2 DEF SerialRunFails, TypeOK, Ownership, DescriptorIsGivenBack, Order
<1>3. CASE SerialRunStarves
  <2> USE <1>3 DEF SerialRunStarves
  <2>1. PICK f \in Fds : table' = [table EXCEPT ![f] = "device"]
    OBVIOUS
  <2>2. TypeOK'
    BY <2>1 DEF TypeOK
  <2> QED
    BY <2>2 DEF Ownership, DescriptorIsGivenBack, Order
<1>4. CASE OtherOpens
  <2> USE <1>4 DEF OtherOpens
  <2>1. PICK f \in Fds : /\ table[f] = "free"
                         /\ table' = [table EXCEPT ![f] = "other"]
    OBVIOUS
  <2>2. TypeOK'
    BY <2>1 DEF TypeOK
  <2>3. \A g \in Fds : table'[g] = IF g = f THEN "other" ELSE table[g]
    BY <2>1 DEF TypeOK
  <2> QED
    BY <2>1, <2>2, <2>3 DEF Ownership, DescriptorIsGivenBack, Order
<1> QED
  BY <1>1, <1>2, <1>3, <1>4

\* What neither opens nor closes and leaves the writers where they are.
LEMMA UsingInv ==
  ASSUME Inv,
         \/ \E r \in Requests : SetOpt(r)
         \/ SetOptFails
         \/ ByteArrives
         \/ SerialPollEv
         \/ PollError
         \/ LoopSend
         \/ CloseCb
  PROVE  Inv'
<1> USE ConstantsOK DEF Inv
<1>1. CASE \E r \in Requests : SetOpt(r)
  <2>1. PICK r \in Requests : SetOpt(r)
    BY <1>1
  <2>2. settings' \in Settings
    BY <2>1, TermiosType DEF SetOpt
  <2>3. TypeOK'
    BY <2>1, <2>2 DEF SetOpt, TypeOK
  <2> QED
    BY <2>1, <2>3 DEF SetOpt, Ownership, DescriptorIsGivenBack, Order
<1>2. CASE SetOptFails \/ ByteArrives
  BY <1>2 DEF SetOptFails, ByteArrives, TypeOK, Ownership,
              DescriptorIsGivenBack, Order
<1>3. CASE SerialPollEv
  <2>1. input' \in Nat
    BY <1>3 DEF SerialPollEv, Bufferful, TypeOK
  <2>2. fault' = fault
    BY <1>3 DEF SerialPollEv, Ownership
  <2>3. TypeOK'
    BY <1>3, <2>1, <2>2 DEF SerialPollEv, TypeOK
  <2> QED
    BY <1>3, <2>2, <2>3 DEF SerialPollEv, Ownership, DescriptorIsGivenBack,
                            Order
<1>4. CASE PollError \/ CloseCb
  BY <1>4 DEF PollError, CloseCb, TypeOK, Ownership, DescriptorIsGivenBack,
              Order
<1>5. CASE LoopSend
  <2>1. strays' = strays
    BY <1>5 DEF LoopSend, Ownership, TypeOK
  <2> QED
    BY <1>5, <2>1 DEF LoopSend, TypeOK, Ownership, DescriptorIsGivenBack,
                      Order
<1> QED
  BY <1>1, <1>2, <1>3, <1>4, <1>5

LEMMA CallInv ==
  ASSUME Inv, NEW w \in Writers, Call(w)
  PROVE  Inv'
<1> USE ConstantsOK DEF Inv, Call
<1>1. fd \in Fds
  BY DEF Ownership
<1>2. /\ pc' = [pc EXCEPT ![w] = "write"]
      /\ held' = [held EXCEPT ![w] = fd]
  OBVIOUS
<1>3. TypeOK'
  BY <1>1 DEF TypeOK
<1>4. ASSUME orderly PROVE closes = 0 /\ life = "open" /\ fault' = fault
  BY <1>4 DEF Order, TypeOK
<1>5. Order'
  BY <1>2, <1>4 DEF Order, TypeOK
<1>6. Ownership' /\ DescriptorIsGivenBack'
  BY DEF Ownership, DescriptorIsGivenBack
<1> QED
  BY <1>3, <1>5, <1>6

LEMMA WriteInv ==
  ASSUME Inv, NEW w \in Writers, Write(w)
  PROVE  Inv'
<1> USE ConstantsOK DEF Inv, Write
<1>1. TypeOK'
  BY DEF TypeOK
<1>2. ASSUME orderly PROVE ~strays'
  BY <1>2 DEF Order, Ownership, TypeOK
<1>3. \A v \in Writers : /\ pc'[v] = IF v = w THEN "idle" ELSE pc[v]
                         /\ v # w => held'[v] = held[v]
  BY DEF TypeOK
<1>4. Order'
  BY <1>2, <1>3 DEF Order
<1>5. Ownership' /\ DescriptorIsGivenBack'
  BY <1>3 DEF Ownership, DescriptorIsGivenBack
<1> QED
  BY <1>1, <1>4, <1>5

-----------------------------------------------------------------------------
(* Closing                                                                 *)

\* close_handle gives the descriptor back, unless it is 0.
LEMMA CloseHandleInv ==
  ASSUME Inv, CloseHandle, life \in {"open", "freed"}, fd' = fd,
         orderly' = orderly, orderly => Quiet /\ closes' > 0,
         orderly => fault' = "none", fault' \in {"none", "use_after_free"},
         closes' \in Nat, UNCHANGED <<inputVars, settings, writeVars>>
  PROVE  Inv'
<1> USE ConstantsOK DEF Inv, CloseHandle
<1>1. fd \in Fds /\ fd \in Nat
  BY DEF Ownership
<1>2. table' \in [Fds -> {"free", "device", "other"}]
  BY <1>1 DEF TypeOK
<1>3. \A f \in Fds : table'[f] = IF f = fd /\ fd > 0 THEN "free" ELSE table[f]
  BY <1>1 DEF TypeOK
<1>4. TypeOK'
  BY <1>2 DEF TypeOK
<1>5. Ownership'
  BY <1>1 DEF Ownership
<1>6. DescriptorIsGivenBack'
  BY <1>1, <1>3 DEF DescriptorIsGivenBack
<1>7. Order'
  BY DEF Order
<1> QED
  BY <1>4, <1>5, <1>6, <1>7

LEMMA CloseInv ==
  ASSUME Inv, CloseFromLoop \/ CloseFromThread \/ AsyncCloseCb
  PROVE  Inv'
<1> USE ConstantsOK DEF Inv
<1>1. CASE CloseFromLoop
  <2> USE <1>1 DEF CloseFromLoop
  <2>1. closes' = closes + 1 /\ closes' \in Nat /\ closes' > 0
    BY DEF TypeOK
  <2>2. orderly => closes = 0 /\ Quiet /\ fault' = "none"
    BY DEF Order, TypeOK
  <2>3. fault' \in {"none", "use_after_free"}
    BY DEF TypeOK
  <2>4. CASE CloseHandle
    BY <2>1, <2>2, <2>3, <2>4, CloseHandleInv
  <2>5. CASE life = "freed" /\ UNCHANGED <<life, poller, table, closePending>>
    BY <2>1, <2>2, <2>3, <2>5
    DEF TypeOK, Ownership, DescriptorIsGivenBack, Order
  <2> QED
    BY <2>4, <2>5
<1>2. CASE CloseFromThread
  <2> USE <1>2 DEF CloseFromThread
  <2>1. closes' = closes + 1 /\ closes' \in Nat /\ closes' > 0
    BY DEF TypeOK
  <2>2. orderly => life = "open" /\ Quiet /\ fault' = "none"
    BY DEF Order, TypeOK
  <2>3. TypeOK'
    BY <2>1 DEF TypeOK
  <2>4. Order'
    BY <2>1, <2>2 DEF Order
  <2>5. Ownership' /\ DescriptorIsGivenBack'
    BY DEF Ownership, DescriptorIsGivenBack
  <2> QED
    BY <2>3, <2>4, <2>5
<1>3. CASE AsyncCloseCb
  <2> USE <1>3 DEF AsyncCloseCb
  <2>1. life \in {"open", "freed"}
    BY DEF Ownership, TypeOK
  <2>2. orderly => closes > 0 /\ Quiet /\ fault' = "none"
    BY DEF Order, TypeOK
  <2>3. closes' \in Nat /\ fault' \in {"none", "use_after_free"}
    BY DEF TypeOK
  <2> QED
    BY <2>1, <2>2, <2>3, CloseHandleInv
<1> QED
  BY <1>1, <1>2, <1>3

LEMMA NextInv ==
  ASSUME Inv, [Next]_vars
  PROVE  Inv'
<1>1. CASE Finished \/ UNCHANGED vars
  <2>1. UNCHANGED vars
    BY <1>1 DEF Finished
  <2> QED
    BY <2>1 DEF Inv, vars, TypeOK, Ownership, DescriptorIsGivenBack, Order
<1> QED
  BY <1>1, OpeningInv, UsingInv, CallInv, WriteInv, CloseInv DEF Next

-----------------------------------------------------------------------------
(* What follows                                                            *)

\* The invariant holds in every state a port can reach, in any use.
THEOREM PortInvariant == Spec => []Inv
<1> QED
  BY InitInv, NextInv, PTL DEF Spec

\* Every variable of the serial port has its type, always.
THEOREM PortTypesHold == Spec => []TypeOK
<1>1. Inv => TypeOK
  BY DEF Inv
<1> QED
  BY <1>1, PortInvariant, PTL

\* A port that is closed once and after its writers is not used once
\* close_handle has freed it, and nothing that is sent ends up in another file.
THEOREM OrderlyUseIsSafe == Spec => []NothingOutlivesClose
<1>1. Inv => NothingOutlivesClose
  BY DEF Inv, Order, NothingOutlivesClose
<1> QED
  BY <1>1, PortInvariant, PTL

\* However calls of serial_close race with each other and with the writers, the
\* loop never polls a descriptor that was given back, and none is kept but for
\* the two cases of DescriptorIsGivenBack.
THEOREM DescriptorsHaveOneLife == Spec => []DescriptorHasOneLife
<1>1. Inv => DescriptorHasOneLife
  BY DEF Inv, Ownership, DescriptorHasOneLife, PolledIsTheDevice
<1> QED
  BY <1>1, PortInvariant, PTL

=============================================================================
