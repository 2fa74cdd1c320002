----------------------------- MODULE SerialPort -----------------------------
(***************************************************************************)
(* One serial_t of src/communication/serial/serial.c: a terminal device    *)
(* that the event loop polls, that any thread writes to without a lock,    *)
(* and that the loop thread closes, itself or woken by another thread.     *)
(*                                                                         *)
(* What threads share is a number, the file descriptor.  The process has   *)
(* other files, which are given the lowest number that is free: also one   *)
(* that a writer still holds in its hand after the device was closed.      *)
(*                                                                         *)
(* Received bytes are counted.  A callback of the loop is a single step:   *)
(* on_data comes last in it, so that what the user calls there (to answer, *)
(* or to close) may as well come after it.                                 *)
(***************************************************************************)
EXTENDS Integers

CONSTANTS
  Writers,       \* foreign threads that call serial_send
  Loop,          \* the event-loop thread
  Fds,           \* descriptor numbers of this process
  Requests,      \* what serial_set_opt is called with
  Orders,        \* the values "orderly" may have
  MAX_BUF_LEN,
  MaxInput,      \* bound: bytes that arrive
  MaxCalls,      \* bound: calls made by each writer
  MaxCloses,     \* bound: calls of serial_close, in disorderly use
  AllocFails     \* TRUE: malloc and calloc may fail

Threads == Writers \cup {Loop}
NoFd == -1

RequestType == [speed : Nat, databits : Nat, parity : {"O", "E", "N", "?"},
                stopbits : Nat]

ASSUME ConstantsOK ==
  /\ Loop \notin Writers
  /\ Fds \subseteq Nat /\ Fds # {}
  /\ Requests \subseteq RequestType
  /\ Orders \subseteq BOOLEAN
  /\ MAX_BUF_LEN \in Nat \ {0}
  /\ MaxInput \in Nat /\ MaxCalls \in Nat /\ MaxCloses \in Nat
  /\ AllocFails \in BOOLEAN

VARIABLES
  orderly,       \* the port is closed once, when no writer is inside a call,
                 \* and none calls afterwards
  life,          \* the serial_t: none, open, freed; failed, or starved when
                 \* there was no memory for the handles of the loop
  fd,            \* fd
  table,         \* what each number stands for: free, device, other
  poller,        \* the uv_poll_t: none, active, stopped, closing, gone; the
                 \* uv_async_t comes and goes with it
  closePending,  \* async_close has been signalled
  closes,        \* calls of serial_close so far
  input,         \* bytes in the device that nobody has read
  arrived,       \* bytes that have ever arrived
  settings,      \* the termios of the device
  pc, held,      \* where each writer is, and the descriptor it has read
  calls,         \* calls each writer has made
  strays,        \* history: data went to some other file
  fault

portVars == <<life, fd, poller>>
closeVars == <<closePending, closes>>
inputVars == <<input, arrived>>
writeVars == <<pc, held, calls, strays>>
vars == <<orderly, portVars, table, closeVars, inputVars, settings, writeVars,
          fault>>

Quiet == \A w \in Writers : pc[w] = "idle"
Stopped == orderly /\ closes > 0

\* A thread reads the serial_t.
Touch == fault' = IF life = "freed" THEN "use_after_free" ELSE fault

\* The number that the next open returns.
FreeFds == {f \in Fds : table[f] = "free"}
IsLowest(f) == f \in FreeFds /\ \A g \in FreeFds : f <= g

-----------------------------------------------------------------------------
(* Starting                                                                *)

DefaultSettings ==
  [speed |-> 38400, bits |-> 8, parity |-> "N", stop |-> 1, strip |-> FALSE]

\* Number 0 may be free: not every process has a standard input.
Init ==
  /\ orderly \in Orders
  /\ life = "none"
  /\ fd = NoFd
  /\ table \in [Fds -> {"free", "other"}]
  /\ FreeFds # {}
  /\ \A f \in Fds : f > 0 => table[f] = "free"
  /\ poller = "none"
  /\ closePending = FALSE
  /\ closes = 0
  /\ input = 0
  /\ arrived = 0
  /\ settings = DefaultSettings
  /\ pc = [w \in Writers |-> "idle"]
  /\ held = [w \in Writers |-> NoFd]
  /\ calls = [w \in Writers |-> 0]
  /\ strays = FALSE
  /\ fault = "none"

SerialRun ==
  /\ life = "none"
  /\ life' = "open"
  /\ \E f \in Fds : /\ IsLowest(f)
                   /\ fd' = f
                   /\ table' = [table EXCEPT ![f] = "device"]
  /\ poller' = "active"
  /\ UNCHANGED <<orderly, closeVars, inputVars, settings, writeVars, fault>>

\* No memory for the serial_t, or no such device.
SerialRunFails ==
  /\ life = "none"
  /\ life' = "failed"
  /\ UNCHANGED <<orderly, fd, poller, table, closeVars, inputVars, settings,
                 writeVars, fault>>

\* No memory for the uv_poll_t or the uv_async_t: the serial_t is freed, and
\* the descriptor in it is forgotten.
SerialRunStarves ==
  /\ AllocFails
  /\ life = "none"
  /\ life' = "starved"
  /\ \E f \in Fds : IsLowest(f) /\ table' = [table EXCEPT ![f] = "device"]
  /\ UNCHANGED <<orderly, fd, poller, closeVars, inputVars, settings,
                 writeVars, fault>>

\* Some other part of the process opens a file.
OtherOpens ==
  /\ fault = "none"
  /\ life # "none"
  /\ \E f \in Fds : IsLowest(f) /\ table' = [table EXCEPT ![f] = "other"]
  /\ UNCHANGED <<orderly, portVars, closeVars, inputVars, settings, writeVars,
                 fault>>

-----------------------------------------------------------------------------
(* serial_set_opt                                                          *)

Speeds == {150, 200, 300, 600, 1200, 1800, 2400, 4800, 9600, 19200, 38400,
           57600, 115200, 460800}

\* Mutant: a speed that is not known is handed on.
get_baudrateAsIs(bauds) == bauds

get_baudrate(bauds) == IF bauds \in Speeds THEN bauds ELSE 115200

\* What the flags come to that serial_set_opt puts together from a termios of
\* zeros: CSIZE cleared is CS5, and INPCK | ISTRIP go with every parity.
Termios(r) ==
  [ speed |-> get_baudrate(r.speed),
    bits |-> IF r.databits \in {7, 8} THEN r.databits ELSE 5,
    parity |-> IF r.parity \in {"O", "E"} THEN r.parity ELSE "N",
    stop |-> IF r.stopbits = 2 THEN 2 ELSE 1,
    strip |-> r.parity \in {"O", "E"} ]

\* It is called after serial_run, by the same thread.  tcflush throws away
\* what has arrived before tcsetattr succeeds ...
SetOpt(r) ==
  /\ fault = "none"
  /\ life = "open"
  /\ closes = 0
  /\ settings' = Termios(r)
  /\ input' = 0
  /\ UNCHANGED <<orderly, portVars, table, closeVars, arrived, writeVars,
                 fault>>

\* Mutant: a device that cannot be set is closed at once.
SetOptFailsClosing ==
  /\ fault = "none"
  /\ life = "open"
  /\ closes = 0
  /\ table' = [table EXCEPT ![fd] = "free"]
  /\ UNCHANGED <<orderly, portVars, closeVars, inputVars, settings, writeVars,
                 fault>>

\* ... or fails.  When tcgetattr fails, nothing is flushed.
SetOptFails ==
  /\ fault = "none"
  /\ life = "open"
  /\ closes = 0
  /\ input' = 0
  /\ UNCHANGED <<orderly, portVars, table, closeVars, arrived, settings,
                 writeVars, fault>>

-----------------------------------------------------------------------------
(* Receiving                                                               *)

ByteArrives ==
  /\ fault = "none"
  /\ life = "open"
  /\ arrived < MaxInput
  /\ arrived' = arrived + 1
  /\ input' = input + 1
  /\ UNCHANGED <<orderly, portVars, table, closeVars, settings, writeVars,
                 fault>>

\* Mutant: it waits until there is a bufferful.
SerialPollEvFull ==
  /\ fault = "none"
  /\ poller = "active"
  /\ input >= MAX_BUF_LEN
  /\ input' = input - MAX_BUF_LEN
  /\ UNCHANGED <<orderly, portVars, table, closeVars, arrived, settings,
                 writeVars, fault>>

\* What one read returns.
Bufferful == IF input < MAX_BUF_LEN THEN input ELSE MAX_BUF_LEN

\* serial_poll_ev: what is there is read, up to a bufferful, and given to
\* on_data.  The loop calls again for the rest.
SerialPollEv ==
  /\ fault = "none"
  /\ poller = "active"
  /\ input > 0
  /\ input' = input - Bufferful
  /\ Touch
  /\ UNCHANGED <<orderly, portVars, table, closeVars, arrived, settings,
                 writeVars>>

\* libuv stops polling a device that is in error before it says so, and
\* serial_poll_ev only logs it.
PollError ==
  /\ fault = "none"
  /\ poller = "active"
  /\ poller' = "stopped"
  /\ UNCHANGED <<orderly, life, fd, table, closeVars, inputVars, settings,
                 writeVars, fault>>

-----------------------------------------------------------------------------
(* serial_send                                                             *)

\* Where write(f) goes.
Strays(f) == strays' = (strays \/ table[f] = "other")

\* A writer reads the descriptor from the serial_t ...
Call(w) ==
  /\ fault = "none"
  /\ life \in {"open", "freed"}
  /\ ~Stopped
  /\ pc[w] = "idle"
  /\ calls[w] < MaxCalls
  /\ calls' = [calls EXCEPT ![w] = @ + 1]
  /\ pc' = [pc EXCEPT ![w] = "write"]
  /\ held' = [held EXCEPT ![w] = fd]
  /\ Touch
  /\ UNCHANGED <<orderly, portVars, table, closeVars, inputVars, settings,
                 strays>>

\* ... and writes to it.
Write(w) ==
  /\ fault = "none"
  /\ pc[w] = "write"
  /\ pc' = [pc EXCEPT ![w] = "idle"]
  /\ held' = [held EXCEPT ![w] = NoFd]
  /\ Strays(held[w])
  /\ UNCHANGED <<orderly, portVars, table, closeVars, inputVars, settings,
                 calls, fault>>

\* The same on the loop thread, where nothing comes in between.
LoopSend ==
  /\ fault = "none"
  /\ life = "open"
  /\ Strays(fd)
  /\ UNCHANGED <<orderly, portVars, table, closeVars, inputVars, settings, pc,
                 held, calls, fault>>

-----------------------------------------------------------------------------
(* serial_close                                                            *)

\* Mutant: the poll handle is not stopped.
CloseHandlePolling ==
  /\ life' = "freed"
  /\ table' = IF fd > 0 THEN [table EXCEPT ![fd] = "free"] ELSE table
  /\ closePending' = FALSE
  /\ UNCHANGED poller

\* Mutant: the descriptor is left to the system.
CloseHandleKeeps ==
  /\ life' = "freed"
  /\ poller' = "closing"
  /\ closePending' = FALSE
  /\ UNCHANGED table

\* The handles of the loop are closed, then the descriptor, and the serial_t
\* is freed.  Number 0 counts as no descriptor.
CloseHandle ==
  /\ life' = "freed"
  /\ poller' = "closing"
  /\ table' = IF fd > 0 THEN [table EXCEPT ![fd] = "free"] ELSE table
  /\ closePending' = FALSE

MayClose ==
  /\ fault = "none"
  /\ life \in {"open", "freed"}
  /\ closes < IF orderly THEN 1 ELSE MaxCloses
  /\ orderly => Quiet

\* A second call on the loop thread closes what was freed.
CloseFromLoop ==
  /\ MayClose
  /\ closes' = closes + 1
  /\ Touch
  /\ \/ life = "open" /\ CloseHandle
     \/ life = "freed" /\ UNCHANGED <<life, poller, table, closePending>>
  /\ UNCHANGED <<orderly, fd, inputVars, settings, writeVars>>

\* Mutant: thread_id is not looked at.
CloseFromThreadItself ==
  /\ MayClose
  /\ closes' = closes + 1
  /\ life = "open"
  /\ life' = "freed"
  /\ closePending' = TRUE
  /\ UNCHANGED <<orderly, fd, poller, table, inputVars, settings, writeVars,
                 fault>>

CloseFromThread ==
  /\ MayClose
  /\ closes' = closes + 1
  /\ Touch
  /\ closePending' = (closePending \/ life = "open")
  /\ UNCHANGED <<orderly, portVars, table, inputVars, settings, writeVars>>

\* Mutant: the data pointer of async_close was never set.
AsyncCloseCbNoData ==
  /\ fault = "none"
  /\ closePending
  /\ closePending' = FALSE
  /\ UNCHANGED <<orderly, portVars, table, closes, inputVars, settings,
                 writeVars, fault>>

AsyncCloseCb ==
  /\ fault = "none"
  /\ closePending
  /\ Touch
  /\ CloseHandle
  /\ UNCHANGED <<orderly, fd, closes, inputVars, settings, writeVars>>

\* libuv is done with the handles, and close_cb frees them.
CloseCb ==
  /\ fault = "none"
  /\ poller = "closing"
  /\ poller' = "gone"
  /\ UNCHANGED <<orderly, life, fd, table, closeVars, inputVars, settings,
                 writeVars, fault>>

-----------------------------------------------------------------------------

Finished ==
  /\ \/ fault # "none"
     \/ life \in {"failed", "starved"}
     \/ poller = "gone" /\ Quiet
  /\ UNCHANGED vars

Next ==
  \/ SerialRun
  \/ SerialRunFails
  \/ SerialRunStarves
  \/ OtherOpens
  \/ \E r \in Requests : SetOpt(r)
  \/ SetOptFails
  \/ ByteArrives
  \/ SerialPollEv
  \/ PollError
  \/ \E w \in Writers : Call(w) \/ Write(w)
  \/ LoopSend
  \/ CloseFromLoop
  \/ CloseFromThread
  \/ AsyncCloseCb
  \/ CloseCb
  \/ Finished

\* Writers do not stay inside write, and the loop serves what is due.
Fairness ==
  /\ \A w \in Writers : WF_vars(Write(w))
  /\ WF_vars(SerialPollEv)
  /\ WF_vars(AsyncCloseCb)
  /\ WF_vars(CloseCb)

Spec == Init /\ [][Next]_vars /\ Fairness

-----------------------------------------------------------------------------
(* Properties                                                              *)

Settings == [speed : Speeds, bits : {5, 7, 8}, parity : {"O", "E", "N"},
             stop : {1, 2}, strip : BOOLEAN]

\* Every variable has its type.
TypeOK ==
  /\ orderly \in BOOLEAN
  /\ life \in {"none", "open", "freed", "failed", "starved"}
  /\ fd \in Fds \cup {NoFd}
  /\ table \in [Fds -> {"free", "device", "other"}]
  /\ poller \in {"none", "active", "stopped", "closing", "gone"}
  /\ closePending \in BOOLEAN
  /\ closes \in Nat
  /\ input \in Nat /\ arrived \in Nat
  /\ settings \in Settings
  /\ pc \in [Writers -> {"idle", "write"}]
  /\ held \in [Writers -> Fds \cup {NoFd}]
  /\ calls \in [Writers -> 0 .. MaxCalls]
  /\ strays \in BOOLEAN
  /\ fault \in {"none", "use_after_free"}

\* In orderly use nobody reads a serial_t that close_handle has freed, and what
\* is sent goes to the device, and not to a file that was given the number
\* after close_handle had given it back.
NothingOutlivesClose == orderly => fault = "none" /\ ~strays

\* The loop polls a descriptor only as long as it is the device's, however
\* calls of serial_close race: uv_poll_stop comes before close.
PolledIsTheDevice == poller = "active" => table[fd] = "device"

\* The descriptor is given back when the port is closed or has not been
\* opened, but for two cases: it has the number 0, or serial_run ran out of
\* memory after it had opened the device.
DescriptorIsGivenBack ==
  \A f \in Fds :
    table[f] = "device" => \/ life = "open" /\ f = fd
                           \/ life = "starved"
                           \/ life = "freed" /\ f = 0

\* The number in the serial_t, the device and the loop agree about when it may
\* be used.
DescriptorHasOneLife == PolledIsTheDevice /\ DescriptorIsGivenBack

\* Bytes that have arrived are read in the end, unless the device was in
\* error, whereupon libuv polls it no more, or the port is closed.
InputIsRead == input > 0 ~> (input = 0 \/ poller # "active")

\* A port that was asked to close is closed, with the handles of the loop
\* freed, from whichever thread the call came.
CloseCompletes ==
  closes > 0 ~> \/ life = "freed" /\ poller = "gone"
                \/ fault # "none"

=============================================================================
