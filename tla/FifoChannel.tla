---------------------------- MODULE FifoChannel ----------------------------
(***************************************************************************)
(* What a message queue promises: it takes each message once, holds a      *)
(* bounded number, and delivers what it has taken in that order, none      *)
(* twice.  It may be emptied at a stroke, when it is removed; what it then *)
(* held is never delivered.                                                *)
(*                                                                         *)
(* This module stands for no code of its own.  MsgQueue implements it.     *)
(***************************************************************************)
EXTENDS Naturals, Sequences

CONSTANTS
  Messages,   \* what may be sent
  Bound       \* how many messages may be under way

VARIABLES
  taken,      \* the messages ever accepted
  contents,   \* those under way, oldest first
  delivered   \* those handed to the receiver, oldest first

vars == <<taken, contents, delivered>>

Init ==
  /\ taken = {}
  /\ contents = << >>
  /\ delivered = << >>

Take(m) ==
  /\ m \notin taken
  /\ Len(contents) < Bound
  /\ taken' = taken \cup {m}
  /\ contents' = Append(contents, m)
  /\ UNCHANGED delivered

Deliver ==
  /\ contents # << >>
  /\ contents' = Tail(contents)
  /\ delivered' = Append(delivered, Head(contents))
  /\ UNCHANGED taken

Empty ==
  /\ contents' = << >>
  /\ UNCHANGED <<taken, delivered>>

\* The removal may find the oldest message already with the receiver.
EmptyButFirst ==
  /\ contents # << >>
  /\ contents' = << Head(contents) >>
  /\ UNCHANGED <<taken, delivered>>

Next ==
  \/ \E m \in Messages : Take(m)
  \/ Deliver
  \/ Empty
  \/ EmptyButFirst

Spec == Init /\ [][Next]_vars

=============================================================================
