---------------------------- MODULE CommandChannel ----------------------------
(***************************************************************************)
(* What the way of an MQTT command to the network task promises: whole     *)
(* messages only, each at most once, in the order the broker sent them;    *)
(* one that finds no room is dropped, and a new client starts empty.       *)
(***************************************************************************)
EXTENDS Naturals, Sequences

CONSTANTS Messages,   \* the numbers of the messages, in the broker's order
          Room

VARIABLES waiting,    \* the numbers of the messages that can be taken
          taken,      \* the number of the message taken last, 0 before any
          session     \* the client that brings them, 0 when there is none

Init == waiting = <<>> /\ taken = 0 /\ session = 0

Put(m) ==
  /\ Len(waiting) < Room
  /\ taken < m /\ \A i \in DOMAIN waiting : waiting[i] < m
  /\ waiting' = Append(waiting, m)
  /\ UNCHANGED <<taken, session>>

Take ==
  /\ waiting # <<>>
  /\ taken' = Head(waiting) /\ waiting' = Tail(waiting)
  /\ UNCHANGED session

\* The client goes or another one comes: what it brought is forgotten.
Renew ==
  /\ session' # session
  /\ waiting' = <<>>
  /\ UNCHANGED taken

Next == (\E m \in Messages : Put(m)) \/ Take \/ Renew

Spec == Init /\ [][Next]_<<waiting, taken, session>>
=============================================================================
