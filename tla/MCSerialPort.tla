---------------------------- MODULE MCSerialPort ----------------------------
EXTENDS SerialPort

Ask(speed, databits, parity, stopbits) ==
  [speed |-> speed, databits |-> databits, parity |-> parity,
   stopbits |-> stopbits]

\* Every parity, every width, both numbers of stop bits, and a speed and a
\* width that serial_set_opt does not know.
SomeRequests ==
  { Ask(115200, 8, "N", 1), Ask(9600, 7, "E", 2), Ask(460800, 8, "O", 2),
    Ask(230400, 5, "?", 1) }
=============================================================================
