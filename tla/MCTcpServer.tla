---------------------------- MODULE MCTcpServer ----------------------------
EXTENDS TcpServer

CONSTANTS c1, c2, c3, s1, s2

Nobody == [ conns |-> {c1, c2, c3}, leavers |-> {}, senders |-> {},
            modes |-> {}, loopConns |-> {}, loopSends |-> 0,
            closer |-> {}, orderly |-> TRUE ]

\* Clients come and go; the loop thread answers two of them, and closes.
Sessioning ==
  [Nobody EXCEPT !.leavers = {c1, c2, c3}, !.loopConns = {c1, c2},
                 !.loopSends = 2, !.closer = {"loop"}]

\* Foreign threads send; the peers stay, and a thread closes.
Sending ==
  [Nobody EXCEPT !.conns = {c1, c2}, !.senders = {s1, s2}, !.modes = Modes,
                 !.closer = {"thread"}]

\* Everything at once, closed at any moment from either side.
Racing ==
  [Nobody EXCEPT !.conns = {c1, c2}, !.leavers = {c1}, !.senders = {s1},
                 !.modes = Modes, !.loopConns = {c1}, !.loopSends = 1,
                 !.closer = {"loop", "thread"}, !.orderly = FALSE]

\* One client leaves while a thread closes.
Leaving ==
  [Nobody EXCEPT !.conns = {c1}, !.leavers = {c1}, !.closer = {"thread"}]

\* The only client leaves while threads send to it and walk over the
\* connections.
Walked ==
  [Nobody EXCEPT !.conns = {c1}, !.leavers = {c1}, !.senders = {s1, s2},
                 !.modes = Modes, !.closer = {"loop"}]

AllUses == {Sessioning, Sending, Racing, Leaving, Walked}
CloseRace == {Leaving}
WalkRace == {Walked}
=============================================================================
