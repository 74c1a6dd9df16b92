----------------------------- MODULE MCMqttPlane -----------------------------
(* A small instance of the MQTT side, one kind of load after the other.    *)
EXTENDS MqttPlane

Load(m, e, c, s, n) ==
  [messages |-> m, logs |-> e, changes |-> c, switches |-> s, clients |-> n]

\* Messages over two clients; events of several loggers; states over stops and
\* starts; a message and a state with two stops; a message and an event.
MCBudgets == {Load(4, 0, 0, 1, 2), Load(0, 4, 0, 1, 1), Load(0, 0, 2, 2, 2),
              Load(1, 0, 1, 2, 2), Load(1, 1, 0, 2, 2)}
=============================================================================
