------------------------------ MODULE MqttPlane ------------------------------
(***************************************************************************)
(* MQTT between four parties: the task of the ESP-MQTT client calls        *)
(* handleEvent; the network task polls (commands, connection, state,       *)
(* events); the main task stores the state to publish and asks for it to   *)
(* be published; any task may log an event.  They share atomics and short  *)
(* locked regions only, and every one of these is a step of its own.       *)
(*                                                                         *)
(* The ESP-MQTT library is external: it runs one callback at a time, ends  *)
(* the callback before stop or destroy returns, reports a connection when  *)
(* it is up and when it is down, and never connects twice.  A message has  *)
(* two fragments.  Left out: discovery and availability messages, pauses   *)
(* for OTA, waiting for the time before TLS, the counts kept for the log,  *)
(* what a command does, and the length of every delay.                     *)
(***************************************************************************)
EXTENDS Naturals, Sequences, FiniteSets

CONSTANTS Slots,      \* kSlotCount of the command ring: one more than it holds
          EventRoom,  \* kCapacity of the event queue
          Budgets     \* bounds: what happens from outside, one of these

Lefts == [messages : Nat, logs : Nat, changes : Nat, switches : Nat, clients : Nat]

ASSUME SlotsAssumption == Slots \in Nat \ {0, 1} /\ EventRoom \in Nat \ {0}
ASSUME BudgetsAssumption == Budgets \subseteq Lefts

VARIABLES
  at,        \* where the network task is in MqttManager::poll
  mgr,       \* the fields of MqttManager that only the network task uses
  client,    \* the library's client: which one, its link, its subscription
  active,    \* mqtt_active_client_
  signal,    \* mqtt_connection_signal_; history: its client was not active
  callback,  \* handleEvent: the event it is called with and how far it is
  incoming,  \* the message of which fragments arrive: number, size accepted
  ring,      \* MqttCommandIngressQueue
  out,       \* the message popped last
  ui,        \* the main task: the newest state, publish_after_update_
  snapshot,  \* the stored state
  requested, \* publish_requested_
  published, \* the state in hand and the state published last
  events,    \* MqttEventQueue, loggers past its check, the entry peeked at; history:
             \* what was ever stored, and how often into a full queue
  sent,      \* history: events that were published
  left       \* what is left of the budget

netVars  == <<at, mgr>>
linkVars == <<client, active, signal, callback>>
cmdVars  == <<incoming, ring, out>>
uiVars   == <<ui, snapshot, requested>>
evVars   == <<events, sent>>
vars == <<netVars, linkVars, cmdVars, uiVars, published, evVars, left>>

NoSignal == [kind |-> "None", stray |-> FALSE]
Idle == callback.kind = "none"
Call(kind) == callback' = [kind |-> kind, step |-> "enters"]
Return == callback' = [kind |-> "none", step |-> "enters"]
Spend(what) == left[what] > 0 /\ left' = [left EXCEPT ![what] = @ - 1]

-----------------------------------------------------------------------------
(* The client task.                                                        *)

LinkUp ==
  /\ Idle /\ client.link = "starting"
  /\ client' = [client EXCEPT !.link = "up"] /\ Call("Connected")
  /\ UNCHANGED <<netVars, active, signal, cmdVars, uiVars, published, evVars, left>>

LinkDown ==
  /\ Idle /\ client.link \in {"starting", "up"}
  /\ client' = [client EXCEPT !.link = "down"] /\ Call("Disconnected")
  /\ UNCHANGED <<netVars, active, signal, cmdVars, uiVars, published, evVars, left>>

\* The broker's next message: the fragments come one after the other.
Arrive ==
  /\ Idle /\ client.link = "up" /\ client.subscribed
  /\ \/ /\ incoming.part = 1 /\ Call("Data")
        /\ incoming' = [incoming EXCEPT !.part = 2]
        /\ UNCHANGED left
     \/ /\ incoming.part = 2 /\ Call("Data") /\ Spend("messages")
        /\ \E fits \in BOOLEAN :
             incoming' = [number |-> incoming.number + 1, part |-> 1, fits |-> fits]
  /\ UNCHANGED <<netVars, client, active, signal, ring, out, uiVars, published, evVars>>

\* The check of mqtt_active_client_: the event of another client is ignored.
EnterEvent ==
  /\ ~Idle /\ callback.step = "enters"
  /\ IF active = client.gen THEN callback' = [callback EXCEPT !.step = "runs"] ELSE Return
  /\ UNCHANGED <<netVars, client, active, signal, cmdVars, uiVars, published, evVars, left>>

StoreSignal ==
  /\ callback.step = "runs" /\ callback.kind \in {"Connected", "Disconnected"}
  /\ signal' = [kind |-> callback.kind, stray |-> active # client.gen]
  /\ Return
  /\ UNCHANGED <<netVars, client, active, cmdVars, uiVars, published, evVars, left>>

Advance(i) == (i + 1) % Slots
Full == Advance(ring.head) = ring.tail

OnlyRing == UNCHANGED <<netVars, client, active, signal, incoming, out, uiVars, published,
                        evVars, left>>

\* Mutant: the free slot is not looked for.
PushOverFull ==
  /\ callback.step = "runs" /\ callback.kind = "Data" /\ incoming.part = 1
  /\ \/ /\ incoming.fits
        /\ ring' = [ring EXCEPT !.slots[ring.head] = <<incoming.number>>,
                                !.message = "assembling"]
     \/ /\ ~incoming.fits
        /\ ring' = [ring EXCEPT !.message = "dropping"]
  /\ Return
  /\ OnlyRing

\* pushFragment, offset 0: a message that is too long or finds no room is
\* dropped, and so are the fragments that follow.
PushFirst ==
  /\ callback.step = "runs" /\ callback.kind = "Data" /\ incoming.part = 1
  /\ \/ /\ incoming.fits /\ ~Full
        /\ ring' = [ring EXCEPT !.slots[ring.head] = <<incoming.number>>,
                                !.message = "assembling"]
     \/ /\ ~incoming.fits \/ Full
        /\ ring' = [ring EXCEPT !.message = "dropping"]
  /\ Return
  /\ OnlyRing

PushRest ==
  /\ callback.step = "runs" /\ callback.kind = "Data" /\ incoming.part = 2
  /\ \/ /\ ring.message = "assembling"
        /\ ring' = [ring EXCEPT !.slots[ring.head] = Append(@, incoming.number),
                                !.message = "none"]
        /\ callback' = [callback EXCEPT !.step = "publishes"]
     \/ /\ ring.message # "assembling"
        /\ ring' = [ring EXCEPT !.message = "none"]
        /\ Return
  /\ OnlyRing

PublishHead ==
  /\ callback.step = "publishes"
  /\ ring' = [ring EXCEPT !.head = Advance(@)]
  /\ Return
  /\ OnlyRing

-----------------------------------------------------------------------------
(* The network task between two polls.                                     *)

\* stopClient asks the client to disconnect; its answer is the event.
Stopped(m) ==
  IF m.manualStop THEN m
  ELSE [m EXCEPT !.manualStop = TRUE, !.connecting = FALSE, !.connected = FALSE]
StopSignal(m) == signal' = IF m.manualStop THEN signal ELSE NoSignal

StopClientOf(m) ==
  IF client.gen # 0 THEN mgr' = Stopped(m) /\ StopSignal(m)
                    ELSE mgr' = m /\ UNCHANGED signal

OnlyManager == UNCHANGED <<client, active, callback, cmdVars, uiVars, published, evVars>>

SyncWithWifi ==
  /\ at = "rest" /\ Spend("switches")
  /\ \/ mgr.enabled /\ StopClientOf([mgr EXCEPT !.enabled = FALSE])
     \/ ~mgr.enabled /\ mgr' = [mgr EXCEPT !.enabled = TRUE] /\ UNCHANGED signal
  /\ OnlyManager /\ UNCHANGED at

RequestReconnect ==
  /\ at = "rest" /\ Spend("switches")
  /\ StopClientOf(mgr)
  /\ OnlyManager /\ UNCHANGED at

ApplySavedSettings ==
  /\ at = "rest" /\ Spend("switches")
  /\ StopClientOf([mgr EXCEPT !.wanted = FALSE])
  /\ OnlyManager /\ UNCHANGED at

Go(next) == at' = next
OnlyAt(next) == Go(next) /\ UNCHANGED <<mgr, linkVars, cmdVars, uiVars, published, evVars, left>>

\* Without a lease of the wake guard the commands wait for the next poll.
BeginPoll == at = "rest" /\ \E next \in {"commands", "signal"} : OnlyAt(next)

-----------------------------------------------------------------------------
(* poll: commands, connection signal, destruction.                         *)

Pop ==
  /\ at = "commands" /\ ring.tail # ring.head
  /\ out' = ring.slots[ring.tail]
  /\ Go("advance")
  /\ UNCHANGED <<mgr, linkVars, incoming, ring, uiVars, published, evVars, left>>

PopAdvances ==
  /\ at = "advance"
  /\ ring' = [ring EXCEPT !.tail = Advance(@)]
  /\ Go("commands")
  /\ UNCHANGED <<mgr, linkVars, incoming, out, uiVars, published, evVars, left>>

\* The ring is empty, or a full ring's worth was taken.
NoMoreCommands == at = "commands" /\ OnlyAt("signal")

TakeSignal ==
  /\ at = "signal"
  /\ signal' = NoSignal
  /\ \/ /\ signal.kind = "Connected"
        /\ mgr' = [mgr EXCEPT !.connected = TRUE, !.connecting = FALSE, !.wanted = TRUE,
                              !.misled = signal.stray]
        /\ client' = [client EXCEPT !.subscribed = @ \/ client.link = "up"]
     \/ /\ signal.kind = "Disconnected"
        /\ mgr' = [mgr EXCEPT !.connected = FALSE, !.connecting = FALSE,
                              !.needsDestroy = TRUE, !.manualStop = FALSE]
        /\ UNCHANGED client
     \/ signal.kind = "None" /\ UNCHANGED <<mgr, client>>
  /\ Go(IF mgr'.needsDestroy /\ client.gen # 0 THEN "stop" ELSE "consume")
  /\ UNCHANGED <<active, callback, cmdVars, uiVars, published, evVars, left>>

\* esp_mqtt_client_stop returns when the client's task has ended.
StopTask ==
  /\ at = "stop" /\ Idle
  /\ client' = [client EXCEPT !.link = "down"]
  /\ Go("destroy")
  /\ UNCHANGED <<mgr, active, signal, callback, cmdVars, uiVars, published, evVars, left>>
BeginDestroy ==
  /\ at = "destroy"
  /\ signal' = NoSignal /\ active' = 0
  /\ Go("join")
  /\ UNCHANGED <<mgr, client, callback, cmdVars, uiVars, published, evVars, left>>

EmptyRing == [slots |-> ring.slots, head |-> 0, tail |-> 0, message |-> "none"]

\* destroyClient: the ring is emptied when no callback can be in it any more.
EndDestroy ==
  /\ at \in {"join", "rejoin"} /\ Idle
  /\ \/ /\ client' = [gen |-> 0, link |-> "none", subscribed |-> FALSE]
        /\ mgr' = [mgr EXCEPT !.connected = FALSE, !.connecting = FALSE,
                              !.manualStop = FALSE, !.needsDestroy = FALSE]
        /\ ring' = EmptyRing
        /\ incoming' = [incoming EXCEPT !.part = 2]
        /\ Go(IF at = "join" THEN "consume" ELSE "start")
     \/ /\ mgr' = [mgr EXCEPT !.needsDestroy = TRUE]
        /\ UNCHANGED <<client, ring, incoming>>
        /\ Go("rest")
  /\ UNCHANGED <<active, signal, callback, out, uiVars, published, evVars, left>>

-----------------------------------------------------------------------------
(* poll: the state to publish, the connection attempt, the publication.    *)

ConsumePublishRequest ==
  /\ at = "consume"
  /\ requested' = FALSE
  /\ mgr' = [mgr EXCEPT !.wanted = @ \/ requested]
  /\ Go("snapshot")
  /\ UNCHANGED <<linkVars, cmdVars, ui, snapshot, published, evVars, left>>

\* Then the client is stopped if MQTT is off or the network is gone.
TakeSnapshot ==
  /\ at = "snapshot"
  /\ published' = [published EXCEPT !.inHand = snapshot]
  /\ \/ Go("disabled")
     \/ mgr.enabled /\ Go(IF mgr.connected THEN "publish" ELSE "connect")
  /\ UNCHANGED <<mgr, linkVars, cmdVars, uiVars, evVars, left>>

StopDisabled ==
  /\ at = "disabled"
  /\ StopClientOf(mgr)
  /\ Go("rest")
  /\ OnlyManager /\ UNCHANGED left

\* While a client is connecting, before the retry is due or while the web is
\* being served nothing is done.
NoAttempt == at = "connect" /\ OnlyAt("rest")

\* Mutant: the signal of the previous client is left for the new one.
ConnectKeepsSignal ==
  /\ at = "connect" /\ ~mgr.connecting
  /\ active' = 0
  /\ Go("rejoin")
  /\ UNCHANGED <<mgr, client, signal, callback, cmdVars, uiVars, published, evVars, left>>

BeginConnect ==
  /\ at = "connect" /\ ~mgr.connecting
  /\ signal' = NoSignal /\ active' = 0
  /\ Go("rejoin")
  /\ UNCHANGED <<mgr, client, callback, cmdVars, uiVars, published, evVars, left>>

\* The rest of connectTransport: the client starts, or there is none.
StartClient ==
  /\ at = "start"
  /\ \/ /\ Spend("clients")
        /\ client' = [gen |-> left.clients, link |-> "starting", subscribed |-> FALSE]
        /\ active' = left.clients
        /\ mgr' = [mgr EXCEPT !.connecting = TRUE, !.manualStop = FALSE]
     \/ UNCHANGED <<client, active, mgr, left>>
  /\ Go("rest")
  /\ UNCHANGED <<signal, callback, cmdVars, uiVars, published, evVars>>

OnlyPublisher == UNCHANGED <<client, active, callback, cmdVars, uiVars, left>>

\* The web is being served: the publication waits for a later poll.
PausePublish == at = "publish" /\ OnlyAt("rest")

ForceReconnect ==
  /\ at = "publish"
  /\ mgr' = [mgr EXCEPT !.connected = FALSE, !.connecting = FALSE, !.needsDestroy = TRUE]
  /\ Go("rest")
  /\ OnlyPublisher /\ UNCHANGED <<signal, published, evVars>>

\* Asked for, or the interval is over.  A failure is made good by the interval,
\* and one too many stops the client.
PublishState ==
  /\ at = "publish"
  /\ \/ /\ client.link = "up"
        /\ published' = [published EXCEPT !.last = published.inHand]
        /\ mgr' = [mgr EXCEPT !.wanted = FALSE, !.late = FALSE]
        /\ UNCHANGED signal
     \/ /\ LET failed == [mgr EXCEPT !.wanted = FALSE, !.late = TRUE]
           IN \/ mgr' = failed /\ UNCHANGED signal
              \/ mgr' = Stopped(failed) /\ StopSignal(failed)
        /\ UNCHANGED published
  /\ Go("events")
  /\ OnlyPublisher /\ UNCHANGED evVars

NothingToPublish == at = "publish" /\ ~mgr.wanted /\ OnlyAt("events")

-----------------------------------------------------------------------------
(* publishQueuedEvents, with the capture paused from its start to its end. *)

Capturing == at \notin {"peek", "send", "discard"}

BeginEvents == at = "events" /\ mgr.connected /\ OnlyAt("peek")
SkipEvents == at = "events" /\ OnlyAt("rest")

PeekEvent ==
  /\ at = "peek"
  /\ \/ events.queue = <<>> /\ Go("rest") /\ UNCHANGED events
     \/ /\ events.queue # <<>> /\ Go("send")
        /\ events' = [events EXCEPT !.peeked = Head(events.queue)]
  /\ OnlyPublisher /\ UNCHANGED <<mgr, signal, published, sent>>

\* Mutant: an event that could not be published is discarded like one that was.
PublishAndForget ==
  /\ at = "send"
  /\ \/ /\ client.link = "up"
        /\ sent' = sent \union {events.peeked}
        /\ Go("discard")
        /\ UNCHANGED <<mgr, signal>>
     \/ /\ mgr' = Stopped(mgr) /\ StopSignal(mgr)
        /\ Go("discard")
        /\ UNCHANGED sent
  /\ OnlyPublisher /\ UNCHANGED <<published, events>>

PublishEvent ==
  /\ at = "send"
  /\ \/ /\ client.link = "up"
        /\ sent' = sent \union {events.peeked}
        /\ Go("discard")
        /\ UNCHANGED <<mgr, signal>>
     \/ /\ mgr' = Stopped(mgr) /\ StopSignal(mgr)
        /\ Go("rest")
        /\ UNCHANGED sent
  /\ OnlyPublisher /\ UNCHANGED <<published, events>>

\* Then the next, or the poll's limit is reached.
DiscardEvent ==
  /\ at = "discard"
  /\ events' = [events EXCEPT !.queue = IF @ = <<>> THEN @ ELSE Tail(@)]
  /\ \E next \in {"peek", "rest"} : Go(next)
  /\ OnlyPublisher /\ UNCHANGED <<mgr, signal, published, sent>>

-----------------------------------------------------------------------------
(* The loggers and the main task.                                          *)

\* enqueueIfCapturing: the check and the store are two steps.
LogEvent ==
  /\ Spend("logs")
  /\ events' = [events EXCEPT !.passed = IF Capturing THEN @ \union {left.logs} ELSE @]
  /\ UNCHANGED <<netVars, linkVars, cmdVars, uiVars, published, sent>>

StoreEvent ==
  /\ \E e \in events.passed :
       LET full == Len(events.queue) = EventRoom
       IN events' = [events EXCEPT
            !.queue = Append(IF full THEN Tail(@) ELSE @, e),
            !.passed = @ \ {e}, !.stored = @ \cup {e},
            !.overwrites = IF full THEN @ + 1 ELSE @]
  /\ UNCHANGED <<netVars, linkVars, cmdVars, uiVars, published, sent, left>>

\* Mutant: the request is released before the state is stored.
RequestAtOnce ==
  /\ ui.at = "rest" /\ Spend("changes")
  /\ ui' = [ui EXCEPT !.state = @ + 1]
  /\ requested' = TRUE
  /\ UNCHANGED <<netVars, linkVars, cmdVars, snapshot, published, evVars>>

ChangeState ==
  /\ ui.at = "rest" /\ Spend("changes")
  /\ ui' = [ui EXCEPT !.state = @ + 1, !.after = TRUE]
  /\ UNCHANGED <<netVars, linkVars, cmdVars, snapshot, requested, published, evVars>>

StoreSnapshot ==
  /\ ui.at = "rest" /\ (snapshot # ui.state \/ ui.after)
  /\ snapshot' = ui.state
  /\ ui' = [ui EXCEPT !.at = "release"]
  /\ UNCHANGED <<netVars, linkVars, cmdVars, requested, published, evVars, left>>

ReleaseRequest ==
  /\ ui.at = "release"
  /\ requested' = (requested \/ ui.after)
  /\ ui' = [ui EXCEPT !.at = "rest", !.after = FALSE]
  /\ UNCHANGED <<netVars, linkVars, cmdVars, snapshot, published, evVars, left>>

-----------------------------------------------------------------------------
Init ==
  /\ at = "rest"
  /\ mgr = [enabled |-> FALSE, connected |-> FALSE, connecting |-> FALSE,
            manualStop |-> FALSE, needsDestroy |-> FALSE, wanted |-> FALSE,
            late |-> FALSE, misled |-> FALSE]
  /\ client = [gen |-> 0, link |-> "none", subscribed |-> FALSE]
  /\ active = 0
  /\ signal = NoSignal
  /\ callback = [kind |-> "none", step |-> "enters"]
  /\ incoming = [number |-> 0, part |-> 2, fits |-> FALSE]
  /\ ring = [slots |-> [i \in 0 .. Slots - 1 |-> <<>>], head |-> 0, tail |-> 0,
             message |-> "none"]
  /\ out = <<>>
  /\ ui = [at |-> "rest", state |-> 0, after |-> FALSE]
  /\ snapshot = 0 /\ requested = FALSE
  /\ published = [inHand |-> 0, last |-> 0]
  /\ events = [queue |-> <<>>, passed |-> {}, peeked |-> 0, stored |-> {},
               overwrites |-> 0]
  /\ sent = {}
  /\ left \in Budgets

ClientTask == \/ LinkUp \/ LinkDown \/ Arrive \/ EnterEvent \/ StoreSignal
              \/ PushFirst \/ PushRest \/ PublishHead
Between == SyncWithWifi \/ RequestReconnect \/ ApplySavedSettings \/ BeginPoll
Poll == \/ Pop \/ PopAdvances \/ NoMoreCommands \/ TakeSignal
        \/ StopTask \/ BeginDestroy \/ EndDestroy
        \/ ConsumePublishRequest \/ TakeSnapshot \/ StopDisabled
        \/ NoAttempt \/ BeginConnect \/ StartClient
        \/ PausePublish \/ ForceReconnect \/ PublishState \/ NothingToPublish
Events == BeginEvents \/ SkipEvents \/ PeekEvent \/ PublishEvent \/ DiscardEvent
Others == LogEvent \/ StoreEvent \/ ChangeState \/ StoreSnapshot \/ ReleaseRequest

Next == ClientTask \/ Between \/ Poll \/ Events \/ Others

Spec == Init /\ [][Next]_vars

-----------------------------------------------------------------------------
(* Properties.                                                             *)

\* The number of a slot's message, 0 unless it is the whole of one message.
WholeIn(slot) == IF Len(slot) = 2 /\ slot[1] = slot[2] THEN slot[1] ELSE 0
Held == (ring.head + Slots - ring.tail) % Slots
HeldNumbers == [i \in 1 .. Held |-> WholeIn(ring.slots[(ring.tail + i - 1) % Slots])]

\* The fragments, the ring with its two indices, the copy before the tail
\* advances and the reset between two clients implement CommandChannel: the
\* network task sees whole messages, each once, in the order of the broker.
Commands == INSTANCE CommandChannel WITH
  Messages <- UNION {1 .. b.messages : b \in Budgets}, Room <- Slots - 1,
  waiting <- IF at = "advance" THEN SubSeq(HeldNumbers, 2, Held) ELSE HeldNumbers,
  taken <- IF out = <<>> THEN 0 ELSE WholeIn(out),
  session <- client.gen
ImplementsCommandChannel == Commands!Spec

\* The belief rests on an event of an earlier client, which was stored after
\* the signal had been cleared for the new one; or the client has been asked to
\* disconnect and its event is still to come.
Misled == mgr.misled \/ mgr.manualStop

\* Once the events are taken in, the manager believes it is connected exactly
\* when its client is, and then it has subscribed, whatever was stopped,
\* destroyed and started in between.
SessionIsReal ==
  /\ at = "rest" /\ Idle /\ signal.kind = "None"
  /\ ~mgr.needsDestroy /\ ~Misled
  => (mgr.connected <=> client.link = "up" /\ client.subscribed)

\* While connected, a state that was to be published has been, or something is
\* left that will have it published: a request on its way, or the interval
\* after a publication that failed.
StateIsNotForgotten ==
  mgr.connected /\ ~Misled
    => \/ published.last = ui.state
       \/ ui.after \/ requested \/ mgr.wanted \/ mgr.late

Queued == {events.queue[i] : i \in DOMAIN events.queue}

\* A store into a full queue costs one event, and nothing else does: not a
\* failed publication, a stop in the middle, nor a logger that overwrites the
\* event in hand, after which the front that is discarded is another, unpublished
\* one.  And no event is published twice.
EventsNotLost ==
  /\ Cardinality(events.stored \ (sent \cup Queued)) <= events.overwrites
  /\ at = "send" => events.peeked \notin sent
=============================================================================
