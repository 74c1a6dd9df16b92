---------------------------- MODULE MqttPlaneProofs ----------------------------
(***************************************************************************)
(* Theorems of MqttPlane for any size of the ring and of the event queue,  *)
(* and any loads: what the manager believes of its connection is true, no  *)
(* state is forgotten and no event but for a store into a full queue, and  *)
(* the ring with its two indices      *)
(* carries whole messages in the order of the broker.                      *)
(***************************************************************************)
EXTENDS MqttPlane, SequenceTheorems, FiniteSetTheorems, TLAPS

Places == {"rest", "commands", "advance", "signal", "stop", "destroy", "join", "rejoin", "consume",
           "snapshot", "disabled", "connect", "start", "publish", "events", "peek", "send",
           "discard"}
Mgrs == [enabled : BOOLEAN, connected : BOOLEAN, connecting : BOOLEAN, manualStop : BOOLEAN,
         needsDestroy : BOOLEAN, wanted : BOOLEAN, late : BOOLEAN, misled : BOOLEAN]
Clients == [gen : Nat, link : {"none", "starting", "up", "down"}, subscribed : BOOLEAN]
Signals == [kind : {"None", "Connected", "Disconnected"}, stray : BOOLEAN]
Callbacks == [kind : {"none", "Connected", "Disconnected", "Data"},
              step : {"enters", "runs", "publishes"}]
Indices == 0 .. Slots - 1
Rings == [slots : [Indices -> Seq(Nat)], head : Indices, tail : Indices,
          message : {"none", "assembling", "dropping"}]

NetTypes == at \in Places /\ mgr \in Mgrs
LinkTypes == client \in Clients /\ active \in Nat /\ signal \in Signals /\ callback \in Callbacks
CmdTypes == /\ incoming \in [number : Nat, part : {1, 2}, fits : BOOLEAN]
            /\ ring \in Rings /\ out \in Seq(Nat)
UiTypes == /\ ui \in [at : {"rest", "release"}, state : Nat, after : BOOLEAN]
           /\ snapshot \in Nat /\ requested \in BOOLEAN
           /\ published \in [inHand : Nat, last : Nat]
EvTypes == /\ events \in [queue : Seq(Nat), passed : SUBSET Nat, peeked : Nat,
                           stored : SUBSET Nat, overwrites : Nat]
           /\ sent \subseteq Nat

TypeInv == NetTypes /\ LinkTypes /\ CmdTypes /\ UiTypes /\ EvTypes /\ left \in Lefts

-----------------------------------------------------------------------------
(* Types.                                                                  *)

LEMMA SpendTypes ==
  ASSUME left \in Lefts, NEW what \in {"messages", "logs", "changes", "switches", "clients"},
         Spend(what)
  PROVE  left' \in Lefts /\ left[what] \in Nat \ {0}
BY DEF Spend, Lefts

LEMMA AdvanceTypes == \A i \in Indices : Advance(i) \in Indices
BY SlotsAssumption DEF Advance, Indices

LEMMA StopTypes ==
  ASSUME NEW m \in Mgrs, signal \in Signals
  PROVE  /\ Stopped(m) \in Mgrs
         /\ StopSignal(m) => signal' \in Signals
         /\ StopClientOf(m) => mgr' \in Mgrs /\ signal' \in Signals
<1>1. Stopped(m) \in Mgrs
  <2>1. [m EXCEPT !.manualStop = TRUE, !.connecting = FALSE, !.connected = FALSE] \in Mgrs
    BY DEF Mgrs
  <2> QED  BY <2>1 DEF Stopped
<1>2. StopSignal(m) => signal' \in Signals  BY DEF StopSignal, Signals, NoSignal
<1> QED  BY <1>1, <1>2 DEF StopClientOf

LEMMA RingSlot ==
  ASSUME NEW r \in Rings, NEW s \in Seq(Nat), NEW m \in {"none", "assembling", "dropping"}
  PROVE  /\ [r EXCEPT !.slots[r.head] = s, !.message = m] \in Rings
         /\ [r EXCEPT !.slots[r.head] = s, !.message = m].slots = [r.slots EXCEPT ![r.head] = s]
         /\ [r EXCEPT !.slots[r.head] = s, !.message = m].head = r.head
         /\ [r EXCEPT !.slots[r.head] = s, !.message = m].tail = r.tail
         /\ [r EXCEPT !.slots[r.head] = s, !.message = m].message = m
<1> DEFINE f == [r.slots EXCEPT ![r.head] = s]
           q == [r EXCEPT !.slots = f]
<1>1. f \in [Indices -> Seq(Nat)]  BY DEF Rings
<1>2. [r EXCEPT !.slots[r.head] = s, !.message = m] = [q EXCEPT !.message = m]  OBVIOUS
<1> HIDE DEF f
<1>3. q \in Rings /\ q.slots = f /\ q.head = r.head /\ q.tail = r.tail  BY <1>1 DEF Rings
<1> HIDE DEF q
<1>4. /\ [q EXCEPT !.message = m] \in Rings /\ [q EXCEPT !.message = m].slots = f
      /\ [q EXCEPT !.message = m].head = r.head /\ [q EXCEPT !.message = m].tail = r.tail
      /\ [q EXCEPT !.message = m].message = m
  BY <1>3 DEF Rings
<1> QED  BY <1>2, <1>4 DEF f

LEMMA ClientTaskTypes == ASSUME TypeInv, ClientTask PROVE TypeInv'
<1> USE DEF TypeInv, LinkTypes
<1>1. CASE LinkUp \/ LinkDown
  <2>1. client' \in Clients  BY <1>1 DEF LinkUp, LinkDown, Clients
  <2>2. callback' \in Callbacks  BY <1>1 DEF LinkUp, LinkDown, Callbacks, Call
  <2> QED
    BY <1>1, <2>1, <2>2 DEF LinkUp, LinkDown, netVars, cmdVars, uiVars, evVars, NetTypes, CmdTypes,
       UiTypes, EvTypes
<1>2. CASE Arrive
  <2>1. callback' \in Callbacks /\ incoming' \in [number : Nat, part : {1, 2}, fits : BOOLEAN]
    BY <1>2 DEF Arrive, Call, Callbacks, CmdTypes
  <2>2. left' \in Lefts  BY <1>2, SpendTypes DEF Arrive
  <2> QED  BY <1>2, <2>1, <2>2 DEF Arrive, netVars, uiVars, evVars, NetTypes, CmdTypes, UiTypes, EvTypes
<1>3. CASE EnterEvent \/ StoreSignal
  <2>1. callback' \in Callbacks
    <3>1. callback' \in {[callback EXCEPT !.step = "runs"], [kind |-> "none", step |-> "enters"]}
      BY <1>3 DEF EnterEvent, StoreSignal, Return
    <3>2. CASE callback' = [callback EXCEPT !.step = "runs"]  BY <3>2 DEF Callbacks
    <3>3. CASE callback' = [kind |-> "none", step |-> "enters"]  BY <3>3 DEF Callbacks
    <3> QED  BY <3>1, <3>2, <3>3
  <2>2. signal' \in Signals
    <3>1. CASE EnterEvent  BY <3>1 DEF EnterEvent
    <3>2. CASE StoreSignal
      <4>1. callback.kind \in {"Connected", "Disconnected"} => [kind |-> callback.kind, stray |-> active # client.gen] \in Signals
        BY DEF Signals
      <4> QED  BY <3>2, <4>1 DEF StoreSignal
    <3> QED  BY <1>3, <3>1, <3>2
  <2> QED
    BY <1>3, <2>1, <2>2 DEF EnterEvent, StoreSignal, netVars, cmdVars, uiVars, evVars, NetTypes,
       CmdTypes, UiTypes, EvTypes
<1>4. CASE PushFirst \/ PushRest \/ PublishHead
  <2>1. callback' \in Callbacks
    BY <1>4 DEF PushFirst, PushRest, PublishHead, Return, Callbacks
  <2>2. ring \in Rings /\ incoming.number \in Nat  BY DEF CmdTypes
  <2>3. ring' \in Rings
    <3>1. CASE PushFirst
      <4>1. <<incoming.number>> \in Seq(Nat)  BY <2>2
      <4>2. [ring EXCEPT !.message = "dropping"] \in Rings  BY <2>2 DEF Rings
      <4>3. [ring EXCEPT !.slots[ring.head] = <<incoming.number>>, !.message = "assembling"] \in Rings
        BY <2>2, <4>1, RingSlot
      <4> QED  BY <3>1, <4>2, <4>3 DEF PushFirst
    <3>2. CASE PushRest
      <4>1. Append(ring.slots[ring.head], incoming.number) \in Seq(Nat)
        BY <2>2 DEF Rings
      <4>2. [ring EXCEPT !.message = "none"] \in Rings  BY <2>2 DEF Rings
      <4> DEFINE s == Append(ring.slots[ring.head], incoming.number)
      <4>3. [ring EXCEPT !.slots[ring.head] = s, !.message = "none"] \in Rings
        <5> HIDE DEF s
        <5> QED  BY <2>2, <4>1, RingSlot DEF s
      <4>4. [ring EXCEPT !.slots[ring.head] = Append(@, incoming.number), !.message = "none"]
              = [ring EXCEPT !.slots[ring.head] = s, !.message = "none"]
        OBVIOUS
      <4> HIDE DEF s
      <4> QED  BY <3>2, <4>2, <4>3, <4>4 DEF PushRest
    <3>3. CASE PublishHead
      BY <2>2, <3>3, AdvanceTypes DEF PublishHead, Rings
    <3> QED  BY <1>4, <3>1, <3>2, <3>3
  <2> QED
    BY <1>4, <2>1, <2>3 DEF PushFirst, PushRest, PublishHead, OnlyRing, netVars, uiVars, evVars,
       NetTypes, CmdTypes, UiTypes, EvTypes
<1> QED  BY <1>1, <1>2, <1>3, <1>4 DEF ClientTask

LEMMA BetweenTypes == ASSUME TypeInv, Between PROVE TypeInv'
<1> USE DEF TypeInv, LinkTypes
<1>1. CASE BeginPoll
  BY <1>1 DEF BeginPoll, OnlyAt, Go, linkVars, cmdVars, uiVars, evVars, NetTypes, Places, CmdTypes,
     UiTypes, EvTypes
<1>2. CASE SyncWithWifi \/ RequestReconnect \/ ApplySavedSettings
  <2>1. left' \in Lefts
    BY <1>2, SpendTypes DEF SyncWithWifi, RequestReconnect, ApplySavedSettings
  <2>2. /\ mgr \in Mgrs /\ [mgr EXCEPT !.enabled = FALSE] \in Mgrs
        /\ [mgr EXCEPT !.wanted = FALSE] \in Mgrs /\ [mgr EXCEPT !.enabled = TRUE] \in Mgrs
    BY DEF NetTypes, Mgrs
  <2>3. mgr' \in Mgrs /\ signal' \in Signals
    BY <1>2, <2>2, StopTypes DEF SyncWithWifi, RequestReconnect, ApplySavedSettings
  <2> QED
    BY <1>2, <2>1, <2>3 DEF SyncWithWifi, RequestReconnect, ApplySavedSettings, OnlyManager, cmdVars,
       uiVars, evVars, NetTypes, CmdTypes, UiTypes, EvTypes
<1> QED  BY <1>1, <1>2 DEF Between

LEMMA PollTypes == ASSUME TypeInv, Poll PROVE TypeInv'
<1> USE DEF TypeInv, LinkTypes
<1>1. CASE NoMoreCommands \/ NoAttempt \/ PausePublish \/ NothingToPublish
  BY <1>1 DEF NoMoreCommands, NoAttempt, PausePublish, NothingToPublish, OnlyAt, Go, linkVars,
     cmdVars, uiVars, evVars, NetTypes, Places, CmdTypes, UiTypes, EvTypes
<1>2. CASE Pop \/ PopAdvances
  <2>1. out' \in Seq(Nat) /\ ring' \in Rings
    BY <1>2, AdvanceTypes DEF Pop, PopAdvances, CmdTypes, Rings
  <2> QED
    BY <1>2, <2>1 DEF Pop, PopAdvances, Go, linkVars, uiVars, evVars, NetTypes, Places, CmdTypes,
       UiTypes, EvTypes
<1>3. CASE TakeSignal
  <2>1. mgr' \in Mgrs /\ client' \in Clients /\ signal' \in Signals
    BY <1>3 DEF TakeSignal, NetTypes, Mgrs, Clients, Signals, NoSignal
  <2> QED
    BY <1>3, <2>1 DEF TakeSignal, Go, cmdVars, uiVars, evVars, NetTypes, Places, CmdTypes, UiTypes,
       EvTypes
<1>4. CASE StopTask \/ BeginDestroy \/ BeginConnect
  <2>1. client' \in Clients /\ signal' \in Signals /\ active' \in Nat
    <3>1. CASE StopTask  BY <3>1 DEF StopTask, Clients
    <3>2. CASE BeginDestroy \/ BeginConnect
      <4>1. client' = client /\ signal' = NoSignal /\ active' = 0
        BY <3>2 DEF BeginDestroy, BeginConnect
      <4> QED  BY <4>1 DEF NoSignal, Signals
    <3> QED  BY <1>4, <3>1, <3>2
  <2> QED
    BY <1>4, <2>1 DEF StopTask, BeginDestroy, BeginConnect, Go, cmdVars, uiVars, evVars, NetTypes,
       Places, CmdTypes, UiTypes, EvTypes
<1>5. CASE EndDestroy
  <2>1. mgr' \in Mgrs
    <3>1. /\ [mgr EXCEPT !.connected = FALSE, !.connecting = FALSE, !.manualStop = FALSE,
                         !.needsDestroy = FALSE] \in Mgrs
          /\ [mgr EXCEPT !.needsDestroy = TRUE] \in Mgrs
      BY DEF NetTypes, Mgrs
    <3> DEFINE m == [mgr EXCEPT !.connected = FALSE, !.connecting = FALSE, !.manualStop = FALSE,
                                !.needsDestroy = FALSE]
               n == [mgr EXCEPT !.needsDestroy = TRUE]
    <3>2. mgr' \in {m, n}  BY <1>5 DEF EndDestroy
    <3> HIDE DEF m, n
    <3> QED  BY <3>1, <3>2 DEF m, n
  <2>2. client' \in Clients
    <3>1. [gen |-> 0, link |-> "none", subscribed |-> FALSE] \in Clients  BY DEF Clients
    <3> QED  BY <1>5, <3>1 DEF EndDestroy
  <2>3. ring' \in Rings
    BY <1>5, SlotsAssumption DEF EndDestroy, EmptyRing, CmdTypes, Rings, Indices
  <2>4. incoming' \in [number : Nat, part : {1, 2}, fits : BOOLEAN]
    BY <1>5 DEF EndDestroy, CmdTypes
  <2> QED
    BY <1>5, <2>1, <2>2, <2>3, <2>4 DEF EndDestroy, Go, uiVars, evVars, NetTypes, Places, CmdTypes,
       UiTypes, EvTypes
<1>6. CASE ConsumePublishRequest \/ TakeSnapshot
  <2>1. mgr' \in Mgrs
    BY <1>6 DEF ConsumePublishRequest, TakeSnapshot, NetTypes, UiTypes, Mgrs
  <2> QED
    BY <1>6, <2>1 DEF ConsumePublishRequest, TakeSnapshot, Go, linkVars, cmdVars, uiVars, evVars,
       NetTypes, Places, CmdTypes, UiTypes, EvTypes
<1>7. CASE StopDisabled
  <2>1. mgr' \in Mgrs /\ signal' \in Signals
    BY <1>7, StopTypes DEF StopDisabled, NetTypes
  <2> QED
    BY <1>7, <2>1 DEF StopDisabled, OnlyManager, Go, cmdVars, uiVars, evVars, NetTypes, Places,
       CmdTypes, UiTypes, EvTypes
<1>8. CASE StartClient
  <2>1. mgr' \in Mgrs  BY <1>8 DEF StartClient, NetTypes, Mgrs
  <2>2. left' \in Lefts /\ left.clients \in Nat
    BY <1>8, SpendTypes DEF StartClient, Lefts
  <2>3. client' \in Clients /\ active' \in Nat
    <3>1. [gen |-> left.clients, link |-> "starting", subscribed |-> FALSE] \in Clients
      BY <2>2 DEF Clients
    <3> QED  BY <1>8, <2>2, <3>1 DEF StartClient
  <2> QED
    BY <1>8, <2>1, <2>2, <2>3 DEF StartClient, Go, cmdVars, uiVars, evVars, NetTypes, Places, CmdTypes, UiTypes,
       EvTypes
<1>9. CASE ForceReconnect \/ PublishState
  <2>1. mgr \in Mgrs /\ [mgr EXCEPT !.wanted = FALSE, !.late = TRUE] \in Mgrs
        /\ [mgr EXCEPT !.wanted = FALSE, !.late = FALSE] \in Mgrs
        /\ [mgr EXCEPT !.connected = FALSE, !.connecting = FALSE, !.needsDestroy = TRUE] \in Mgrs
    BY DEF NetTypes, Mgrs
  <2>2. mgr' \in Mgrs /\ signal' \in Signals
    BY <1>9, <2>1, StopTypes DEF ForceReconnect, PublishState
  <2>3. published' \in [inHand : Nat, last : Nat]
    BY <1>9 DEF ForceReconnect, PublishState, UiTypes
  <2> QED
    BY <1>9, <2>2, <2>3 DEF ForceReconnect, PublishState, OnlyPublisher, Go, cmdVars, uiVars, evVars,
       NetTypes, Places, CmdTypes, UiTypes, EvTypes
<1> QED  BY <1>1, <1>2, <1>3, <1>4, <1>5, <1>6, <1>7, <1>8, <1>9 DEF Poll

Evs == [queue : Seq(Nat), passed : SUBSET Nat, peeked : Nat, stored : SUBSET Nat, overwrites : Nat]

\* What is stored, and what it leaves of the queue.
LEMMA StoreTypes ==
  ASSUME events \in Evs, StoreEvent
  PROVE  /\ events' \in Evs /\ events'.peeked = events.peeked
         /\ \E e \in events.passed :
              /\ events'.queue = Append(IF Len(events.queue) = EventRoom THEN Tail(events.queue)
                                        ELSE events.queue, e)
              /\ events'.passed = events.passed \ {e} /\ events'.stored = events.stored \cup {e}
              /\ events'.overwrites = IF Len(events.queue) = EventRoom THEN events.overwrites + 1
                                      ELSE events.overwrites
<1>1. PICK e \in events.passed :
        LET full == Len(events.queue) = EventRoom
        IN events' = [events EXCEPT
            !.queue = Append(IF full THEN Tail(@) ELSE @, e),
            !.passed = @ \ {e}, !.stored = @ \cup {e},
            !.overwrites = IF full THEN @ + 1 ELSE @]
  BY DEF StoreEvent
<1> DEFINE full == Len(events.queue) = EventRoom
           q == Append(IF full THEN Tail(events.queue) ELSE events.queue, e)
           p == events.passed \ {e}
           s == events.stored \cup {e}
           o == IF full THEN events.overwrites + 1 ELSE events.overwrites
<1>2. q \in Seq(Nat) /\ p \in SUBSET Nat /\ s \in SUBSET Nat /\ o \in Nat
  <2>1. full => events.queue # <<>>  BY SlotsAssumption
  <2> QED  BY <2>1 DEF Evs
<1>3. events' = [events EXCEPT !.queue = q, !.passed = p, !.stored = s, !.overwrites = o]
  BY <1>1
<1> HIDE DEF q, p, s, o
<1>4. /\ events' \in Evs
      /\ events'.peeked = events.peeked /\ events'.queue = q /\ events'.passed = p
      /\ events'.stored = s /\ events'.overwrites = o
  BY <1>2, <1>3 DEF Evs
<1> QED  BY <1>4 DEF q, p, s, o

LEMMA EventTypes == ASSUME TypeInv, Events \/ Others PROVE TypeInv'
<1> USE DEF TypeInv, LinkTypes
<1> USE DEF Evs
<1>1. CASE BeginEvents \/ SkipEvents
  BY <1>1 DEF BeginEvents, SkipEvents, OnlyAt, Go, linkVars,
     cmdVars, uiVars, evVars, NetTypes, Places, CmdTypes, UiTypes, EvTypes
<1>2. CASE PeekEvent \/ DiscardEvent
  <2>1. events' \in Evs
    <3>1. events.queue \in Seq(Nat) /\ events \in Evs  BY DEF EvTypes
    <3>2. CASE PeekEvent
      <4>1. events.queue # <<>> => Head(events.queue) \in Nat  BY <3>1
      <4> QED  BY <3>1, <3>2, <4>1 DEF PeekEvent
    <3>3. CASE DiscardEvent
      <4>1. events.queue # <<>> => Tail(events.queue) \in Seq(Nat)  BY <3>1
      <4> QED  BY <3>1, <3>3, <4>1 DEF DiscardEvent
    <3> QED  BY <1>2, <3>2, <3>3
  <2> QED
    BY <1>2, <2>1 DEF PeekEvent, DiscardEvent, OnlyPublisher, Go, cmdVars, uiVars, evVars, NetTypes,
       Places, CmdTypes, UiTypes, EvTypes
<1>3. CASE PublishEvent
  <2>1. mgr' \in Mgrs /\ signal' \in Signals /\ sent' \subseteq Nat
    BY <1>3, StopTypes DEF PublishEvent, NetTypes, EvTypes
  <2> QED
    BY <1>3, <2>1 DEF PublishEvent, OnlyPublisher, Go, cmdVars, uiVars, evVars, NetTypes, Places,
       CmdTypes, UiTypes, EvTypes
<1>4. CASE LogEvent
  <2>1. left' \in Lefts /\ left.logs \in Nat
    BY <1>4, SpendTypes DEF LogEvent
  <2>2. events' \in Evs  BY <1>4, <2>1 DEF LogEvent, EvTypes
  <2> QED
    BY <1>4, <2>1, <2>2 DEF LogEvent, netVars, linkVars, cmdVars, uiVars, evVars, NetTypes, CmdTypes,
       UiTypes, EvTypes
<1>5. CASE StoreEvent
  <2>1. events' \in Evs  BY <1>5, StoreTypes DEF EvTypes
  <2> QED
    BY <1>5, <2>1 DEF StoreEvent, netVars, linkVars, cmdVars, uiVars, evVars, NetTypes, CmdTypes,
       UiTypes, EvTypes
<1>6. CASE ChangeState \/ StoreSnapshot \/ ReleaseRequest
  <2>1. left' \in Lefts
    BY <1>6, SpendTypes DEF ChangeState, StoreSnapshot, ReleaseRequest
  <2>2. UiTypes'
    <3>1. CASE ChangeState
      <4> DEFINE Uis == [at : {"rest", "release"}, state : Nat, after : BOOLEAN]
                 u == [ui EXCEPT !.state = @ + 1]
      <4>1. u \in Uis  BY DEF UiTypes
      <4>2. ui' = [u EXCEPT !.after = TRUE]  BY <3>1 DEF ChangeState
      <4> HIDE DEF u
      <4>3. ui' \in Uis  BY <4>1, <4>2
      <4> QED  BY <3>1, <4>3 DEF ChangeState, UiTypes
    <3>2. CASE StoreSnapshot  BY <3>2 DEF StoreSnapshot, UiTypes
    <3>3. CASE ReleaseRequest  BY <3>3 DEF ReleaseRequest, UiTypes
    <3> QED  BY <1>6, <3>1, <3>2, <3>3
  <2> QED
    BY <1>6, <2>1, <2>2 DEF ChangeState, StoreSnapshot, ReleaseRequest, netVars, linkVars, cmdVars,
       evVars, NetTypes, CmdTypes, EvTypes
<1> QED  BY <1>1, <1>2, <1>3, <1>4, <1>5, <1>6 DEF Events, Others

LEMMA TypesKeep == ASSUME TypeInv, [Next]_vars PROVE TypeInv'
<1>1. CASE UNCHANGED vars
  BY <1>1 DEF vars, netVars, linkVars, cmdVars, uiVars, evVars, TypeInv, NetTypes, LinkTypes, CmdTypes,
     UiTypes, EvTypes
<1> QED  BY <1>1, ClientTaskTypes, BetweenTypes, PollTypes, EventTypes DEF Next

-----------------------------------------------------------------------------
(* The connection.                                                         *)

\* The events of the client are those of the one the manager has started.
Live == active = client.gen /\ client.gen # 0
Event == callback.kind \in {"Connected", "Disconnected"}

\* The client, its link and the event its task delivers.
LinkShape ==
  /\ active \in {0, client.gen}
  /\ client.gen = 0 <=> client.link = "none"
  /\ callback.kind \in {"Connected", "Data"} => client.link = "up"
  /\ callback.kind = "Disconnected" => client.link = "down"
  /\ client.gen = 0 => Idle
  /\ Idle => callback.step = "enters"
  /\ callback.step = "publishes" => callback.kind = "Data"
  /\ signal.kind # "None" /\ ~signal.stray => Live

\* Where the network task is tells what it has seen and done.
PlaceShape ==
  /\ client.gen = 0 /\ mgr.connected => mgr.misled
  /\ at = "connect" => ~mgr.connected
  /\ client.gen # 0 /\ ~Live => at \in {"join", "rejoin"} \/ mgr.needsDestroy
  /\ at \in {"stop", "destroy", "join"} => mgr.needsDestroy
  /\ at = "stop" => client.gen # 0
  /\ at \in {"join", "rejoin"} => active = 0
  /\ at = "start" => client.gen = 0 /\ ~mgr.connected /\ ~mgr.needsDestroy

\* A signal on its way is the link's latest; without one the belief is right.
Belief ==
  Live /\ ~mgr.needsDestroy =>
    /\ signal.kind = "Connected" /\ ~signal.stray /\ callback.kind # "Disconnected"
         => client.link = "up"
    /\ signal.kind = "Disconnected" /\ ~signal.stray => client.link = "down"
    /\ signal.kind = "None" /\ ~Event =>
         /\ client.link = "up" /\ ~Misled => mgr.connected /\ client.subscribed
         /\ client.link # "up" /\ ~Misled => ~mgr.connected

SessionInv == LinkShape /\ PlaceShape /\ Belief

\* Whatever the step is, what it stops it stops like this.
LEMMA StopKeeps ==
  ASSUME TypeInv, SessionInv, NEW m \in Mgrs, m.connected = mgr.connected,
         m.manualStop = mgr.manualStop, m.needsDestroy = mgr.needsDestroy, m.misled = mgr.misled,
         StopClientOf(m) \/ (mgr' = Stopped(m) /\ StopSignal(m)),
         UNCHANGED <<client, active, callback>>
  PROVE  LinkShape' /\ Belief'
         /\ (client'.gen = 0 /\ mgr'.connected => mgr'.misled)
         /\ mgr'.needsDestroy = mgr.needsDestroy /\ (mgr'.connected => mgr.connected)
<1> USE DEF TypeInv, SessionInv
<1>1. \/ mgr' = m /\ signal' = signal
      \/ /\ mgr' = [m EXCEPT !.manualStop = TRUE, !.connecting = FALSE, !.connected = FALSE]
         /\ ~m.manualStop /\ signal' = NoSignal
  BY DEF StopClientOf, Stopped, StopSignal
<1>2. /\ mgr'.needsDestroy = mgr.needsDestroy /\ mgr'.misled = mgr.misled
      /\ \/ mgr'.connected = mgr.connected /\ mgr'.manualStop = mgr.manualStop /\ signal' = signal
         \/ mgr'.connected = FALSE /\ mgr'.manualStop = TRUE /\ signal' = NoSignal
  BY <1>1 DEF Mgrs
<1>3. LinkShape'  BY <1>2 DEF LinkShape, Live, Idle, NoSignal
<1>4. Belief'  BY <1>2 DEF Belief, Live, Event, Misled, NoSignal
<1> QED  BY <1>2, <1>3, <1>4 DEF PlaceShape

LEMMA SessionOfClientTask == ASSUME TypeInv, SessionInv, ClientTask PROVE SessionInv'
<1> USE DEF TypeInv, SessionInv
<1>1. CASE LinkUp
  <2>1. /\ client'.gen = client.gen /\ client'.link = "up" /\ client'.subscribed = client.subscribed
        /\ callback'.kind = "Connected" /\ callback'.step = "enters"
        /\ UNCHANGED <<at, mgr, active, signal>>
    BY <1>1 DEF LinkUp, Call, netVars, LinkTypes, Clients
  <2>2. Idle /\ client.link = "starting"  BY <1>1 DEF LinkUp
  <2>3. LinkShape'  BY <2>1, <2>2 DEF LinkShape, Live, Idle
  <2>4. PlaceShape'  BY <2>1, <2>2 DEF PlaceShape, Live
  <2>5. Belief'  BY <2>1, <2>2 DEF Belief, Live, Event, Misled, Idle
  <2> QED  BY <2>3, <2>4, <2>5
<1>2. CASE LinkDown
  <2>1. /\ client'.gen = client.gen /\ client'.link = "down"
        /\ callback'.kind = "Disconnected" /\ callback'.step = "enters"
        /\ UNCHANGED <<at, mgr, active, signal>>
    BY <1>2 DEF LinkDown, Call, netVars, LinkTypes, Clients
  <2>2. Idle /\ client.link # "none"  BY <1>2 DEF LinkDown
  <2>3. LinkShape'  BY <2>1, <2>2 DEF LinkShape, Live, Idle
  <2>4. PlaceShape'  BY <2>1, <2>2 DEF PlaceShape, Live
  <2>5. Belief'  BY <2>1, <2>2 DEF Belief, Live, Event, Misled, Idle
  <2> QED  BY <2>3, <2>4, <2>5
<1>3. CASE Arrive
  <2>1. /\ callback'.kind = "Data" /\ callback'.step = "enters"
        /\ UNCHANGED <<at, mgr, client, active, signal>>
        /\ Idle /\ client.link = "up"
    BY <1>3 DEF Arrive, Call, netVars
  <2>2. LinkShape'  BY <2>1 DEF LinkShape, Live, Idle
  <2>3. PlaceShape'  BY <2>1 DEF PlaceShape, Live
  <2>4. Belief'  BY <2>1 DEF Belief, Live, Event, Misled, Idle
  <2> QED  BY <2>2, <2>3, <2>4
<1>4. CASE EnterEvent
  <2>1. /\ UNCHANGED <<at, mgr, client, active, signal>>
        /\ \/ active = client.gen /\ callback' = [callback EXCEPT !.step = "runs"]
           \/ active # client.gen /\ Return
    BY <1>4 DEF EnterEvent, netVars
  <2>2. /\ callback' \in Callbacks
        /\ \/ active = client.gen /\ callback'.kind = callback.kind /\ callback'.step = "runs"
           \/ active # client.gen /\ callback'.kind = "none" /\ callback'.step = "enters"
    <3>1. CASE active = client.gen /\ callback' = [callback EXCEPT !.step = "runs"]
      BY <3>1 DEF LinkTypes, Callbacks
    <3>2. CASE active # client.gen /\ Return  BY <3>2 DEF Return, Callbacks
    <3> QED  BY <2>1, <3>1, <3>2
  <2>3. ~Idle  BY <1>4 DEF EnterEvent
  <2>4. LinkShape'  BY <2>1, <2>2, <2>3 DEF LinkShape, Live, Idle
  <2>5. PlaceShape'  BY <2>1 DEF PlaceShape, Live
  <2>6. Belief'  BY <2>1, <2>2 DEF Belief, Live, Event, Misled
  <2> QED  BY <2>4, <2>5, <2>6
<1>5. CASE StoreSignal
  <2>1. /\ UNCHANGED <<at, mgr, client, active>>
        /\ signal'.kind = callback.kind /\ signal'.stray = (active # client.gen)
        /\ callback.step = "runs" /\ Event
        /\ callback'.kind = "none" /\ callback'.step = "enters"
    BY <1>5 DEF StoreSignal, Return, Event, netVars
  <2>2. LinkShape'  BY <2>1 DEF LinkShape, Live, Idle, Event
  <2>3. PlaceShape'  BY <2>1 DEF PlaceShape, Live
  <2>4. Belief'  BY <2>1 DEF Belief, Live, Event, Misled, LinkShape
  <2> QED  BY <2>2, <2>3, <2>4
<1>6. CASE PushFirst \/ PushRest \/ PublishHead
  <2>1. UNCHANGED <<at, mgr, client, active, signal>> /\ callback.kind = "Data"
    BY <1>6 DEF PushFirst, PushRest, PublishHead, OnlyRing, netVars, LinkShape
  <2>2. \/ callback'.kind = "Data" /\ callback'.step = "publishes"
        \/ callback'.kind = "none" /\ callback'.step = "enters"
    <3>1. callback' = [callback EXCEPT !.step = "publishes"] \/ Return
      BY <1>6 DEF PushFirst, PushRest, PublishHead
    <3> QED  BY <2>1, <3>1 DEF Return, LinkTypes, Callbacks
  <2>3. LinkShape'  BY <2>1, <2>2 DEF LinkShape, Live, Idle
  <2>4. PlaceShape'  BY <2>1 DEF PlaceShape, Live
  <2>5. Belief'  BY <2>1, <2>2 DEF Belief, Live, Event, Misled
  <2> QED  BY <2>3, <2>4, <2>5
<1> QED  BY <1>1, <1>2, <1>3, <1>4, <1>5, <1>6 DEF ClientTask

LEMMA SessionOfBetween == ASSUME TypeInv, SessionInv, Between PROVE SessionInv'
<1> USE DEF TypeInv, SessionInv
<1>1. CASE BeginPoll
  <2>1. at' \in {"commands", "signal"} /\ UNCHANGED <<mgr, client, active, signal, callback>>
    BY <1>1 DEF BeginPoll, OnlyAt, Go, linkVars
  <2>2. LinkShape' /\ Belief'  BY <2>1 DEF LinkShape, Belief, Live, Event, Misled, Idle
  <2>3. PlaceShape'  BY <1>1, <2>1 DEF BeginPoll, PlaceShape, Live
  <2> QED  BY <2>2, <2>3
<1>2. CASE SyncWithWifi \/ RequestReconnect \/ ApplySavedSettings
  <2> DEFINE off == [mgr EXCEPT !.enabled = FALSE]
             on == [mgr EXCEPT !.enabled = TRUE]
             none == [mgr EXCEPT !.wanted = FALSE]
             Alike(m) == /\ m \in Mgrs /\ m.connected = mgr.connected
                         /\ m.manualStop = mgr.manualStop
                         /\ m.needsDestroy = mgr.needsDestroy /\ m.misled = mgr.misled
  <2>1. Alike(mgr) /\ Alike(off) /\ Alike(on) /\ Alike(none)  BY DEF NetTypes, Mgrs
  <2>2. UNCHANGED <<at, client, active, callback>> /\ at = "rest"
    BY <1>2 DEF SyncWithWifi, RequestReconnect, ApplySavedSettings, OnlyManager
  <2>3. \/ StopClientOf(off) \/ StopClientOf(mgr) \/ StopClientOf(none)
        \/ mgr' = on /\ signal' = signal
    BY <1>2 DEF SyncWithWifi, RequestReconnect, ApplySavedSettings
  <2> DEFINE Kept == /\ LinkShape' /\ Belief'
                     /\ (client'.gen = 0 /\ mgr'.connected => mgr'.misled)
                     /\ mgr'.needsDestroy = mgr.needsDestroy
  <2> HIDE DEF off, on, none
  <2>4. ASSUME NEW m \in {off, mgr, none}, StopClientOf(m) PROVE Kept
    BY <2>1, <2>2, <2>4, StopKeeps
  <2>5. ASSUME mgr' = on, signal' = signal PROVE Kept
    BY <2>1, <2>2, <2>5 DEF LinkShape, Belief, PlaceShape, Live, Event, Misled, Idle
  <2>6. Kept  BY <2>3, <2>4, <2>5
  <2>7. PlaceShape'  BY <2>2, <2>6 DEF PlaceShape, Live
  <2> QED  BY <2>6, <2>7
<1> QED  BY <1>1, <1>2 DEF Between

\* Steps that leave the connection as it is, and go where nothing is promised.
Onward == {"rest", "commands", "advance", "signal", "consume", "snapshot", "disabled", "publish",
           "events", "peek", "send", "discard"}
LEMMA SessionOnward ==
  ASSUME SessionInv, at' \in Onward, UNCHANGED <<client, active, signal, callback>>,
         mgr'.connected = mgr.connected, mgr'.manualStop = mgr.manualStop,
         mgr'.needsDestroy = mgr.needsDestroy, mgr'.misled = mgr.misled,
         at \notin {"join", "rejoin"}
  PROVE  SessionInv'
<1> USE DEF SessionInv
<1>1. LinkShape' /\ Belief'  BY DEF LinkShape, Belief, Live, Event, Misled, Idle
<1>2. PlaceShape'  BY DEF PlaceShape, Live, Onward
<1> QED  BY <1>1, <1>2

LEMMA SessionOfEvents == ASSUME TypeInv, SessionInv, Events \/ Others PROVE SessionInv'
<1> USE DEF TypeInv
<1>1. CASE BeginEvents \/ SkipEvents \/ PeekEvent \/ DiscardEvent
  BY <1>1, SessionOnward DEF BeginEvents, SkipEvents, PeekEvent, DiscardEvent, OnlyAt, Go,
     OnlyPublisher, linkVars, Onward
<1>2. CASE PublishEvent
  <2>1. UNCHANGED <<client, active, callback>> /\ at = "send" /\ at' \in {"discard", "rest"}
    BY <1>2 DEF PublishEvent, Go, OnlyPublisher
  <2>2. CASE UNCHANGED <<mgr, signal>>  BY <2>1, <2>2, SessionOnward DEF Onward
  <2>3. CASE mgr' = Stopped(mgr) /\ StopSignal(mgr)
    <3>1. /\ LinkShape' /\ Belief' /\ (client'.gen = 0 /\ mgr'.connected => mgr'.misled)
          /\ mgr'.needsDestroy = mgr.needsDestroy
      BY <2>1, <2>3, StopKeeps DEF NetTypes
    <3>2. PlaceShape'  BY <2>1, <3>1 DEF PlaceShape, SessionInv, Live
    <3> QED  BY <3>1, <3>2 DEF SessionInv
  <2> QED  BY <1>2, <2>2, <2>3 DEF PublishEvent
<1>3. CASE Others
  <2>1. UNCHANGED <<at, mgr, client, active, signal, callback>>
    BY <1>3 DEF Others, LogEvent, StoreEvent, ChangeState, StoreSnapshot, ReleaseRequest, netVars,
       linkVars
  <2> QED
    BY <2>1 DEF SessionInv, LinkShape, PlaceShape, Belief, Live, Event, Misled, Idle
<1> QED  BY <1>1, <1>2, <1>3 DEF Events

LEMMA SessionOfPoll == ASSUME TypeInv, SessionInv, Poll PROVE SessionInv'
<1> USE DEF TypeInv
<1>1. CASE \/ NoMoreCommands \/ NoAttempt \/ PausePublish \/ NothingToPublish
           \/ Pop \/ PopAdvances
  BY <1>1, SessionOnward DEF NoMoreCommands, NoAttempt, PausePublish, NothingToPublish, Pop,
     PopAdvances, OnlyAt, Go, linkVars, Onward
<1>2. CASE TakeSignal
  <2>1. /\ UNCHANGED <<active, callback>> /\ signal'.kind = "None" /\ at = "signal"
        /\ at' = IF mgr'.needsDestroy /\ client.gen # 0 THEN "stop" ELSE "consume"
    BY <1>2 DEF TakeSignal, Go, NoSignal
  <2>2. CASE signal.kind = "Connected"
    <3>1. /\ mgr' = [mgr EXCEPT !.connected = TRUE, !.connecting = FALSE, !.wanted = TRUE,
                                !.misled = signal.stray]
          /\ client' = [client EXCEPT !.subscribed = @ \/ client.link = "up"]
      BY <1>2, <2>2 DEF TakeSignal
    <3>2. /\ mgr'.misled = signal.stray /\ mgr'.needsDestroy = mgr.needsDestroy
          /\ mgr'.connected /\ mgr'.manualStop = mgr.manualStop
      BY <3>1 DEF NetTypes, Mgrs
    <3>3. /\ client'.gen = client.gen /\ client'.link = client.link
          /\ client.link = "up" => client'.subscribed
      BY <3>1 DEF LinkTypes, Clients
    <3>4. LinkShape'  BY <2>1, <3>3 DEF SessionInv, LinkShape, Live, Idle
    <3>5. PlaceShape'
      BY <2>1, <2>2, <3>2, <3>3 DEF SessionInv, PlaceShape, LinkShape, Live
    <3>6. Belief'
      BY <2>1, <2>2, <3>2, <3>3 DEF SessionInv, Belief, Live, Event, Misled
    <3> QED  BY <3>4, <3>5, <3>6 DEF SessionInv
  <2>3. CASE signal.kind = "Disconnected"
    <3>1. /\ mgr' = [mgr EXCEPT !.connected = FALSE, !.connecting = FALSE,
                                !.needsDestroy = TRUE, !.manualStop = FALSE]
          /\ client' = client
      BY <1>2, <2>3 DEF TakeSignal
    <3>2. mgr'.needsDestroy /\ ~mgr'.connected  BY <3>1 DEF NetTypes, Mgrs
    <3> QED
      BY <2>1, <3>1, <3>2 DEF SessionInv, LinkShape, PlaceShape, Belief, Live, Event, Misled, Idle
  <2>4. CASE signal.kind = "None"
    <3>1. UNCHANGED <<mgr, client>>  BY <1>2, <2>4 DEF TakeSignal
    <3> QED
      BY <2>1, <2>4, <3>1 DEF SessionInv, LinkShape, PlaceShape, Belief, Live, Event, Misled, Idle
  <2> QED  BY <1>2, <2>2, <2>3, <2>4 DEF TakeSignal
<1>3. CASE StopTask
  <2>1. /\ client'.gen = client.gen /\ client'.link = "down" /\ Idle
        /\ UNCHANGED <<mgr, active, signal, callback>> /\ at = "stop" /\ at' = "destroy"
    BY <1>3 DEF StopTask, Go, LinkTypes, Clients
  <2> QED
    BY <2>1 DEF SessionInv, LinkShape, PlaceShape, Belief, Live, Event, Misled, Idle
<1>4. CASE BeginDestroy \/ BeginConnect
  <2>1. /\ signal'.kind = "None" /\ active' = 0 /\ UNCHANGED <<mgr, client, callback>>
        /\ \/ at = "destroy" /\ at' = "join"
           \/ at = "connect" /\ at' = "rejoin"
    BY <1>4 DEF BeginDestroy, BeginConnect, NoSignal, Go
  <2> QED
    BY <2>1 DEF SessionInv, LinkShape, PlaceShape, Belief, Live, Event, Misled, Idle
<1>5. CASE EndDestroy
  <2>1. /\ Idle /\ active = 0 /\ UNCHANGED <<active, signal, callback>>
        /\ at' \in {"consume", "start", "rest"}
    BY <1>5 DEF EndDestroy, Go, SessionInv, PlaceShape
  <2>2. \/ /\ client' = [gen |-> 0, link |-> "none", subscribed |-> FALSE]
           /\ mgr' = [mgr EXCEPT !.connected = FALSE, !.connecting = FALSE,
                                 !.manualStop = FALSE, !.needsDestroy = FALSE]
        \/ mgr' = [mgr EXCEPT !.needsDestroy = TRUE] /\ client' = client /\ at' = "rest"
    BY <1>5 DEF EndDestroy, Go
  <2>3. \/ client'.gen = 0 /\ client'.link = "none" /\ ~mgr'.connected /\ ~mgr'.needsDestroy
        \/ /\ mgr'.needsDestroy /\ mgr'.connected = mgr.connected /\ mgr'.misled = mgr.misled
           /\ client' = client /\ at' = "rest"
    <3>1. ASSUME mgr' = [mgr EXCEPT !.connected = FALSE, !.connecting = FALSE,
                                    !.manualStop = FALSE, !.needsDestroy = FALSE]
          PROVE  ~mgr'.connected /\ ~mgr'.needsDestroy
      BY <3>1 DEF NetTypes, Mgrs
    <3>2. ASSUME mgr' = [mgr EXCEPT !.needsDestroy = TRUE]
          PROVE  mgr'.needsDestroy /\ mgr'.connected = mgr.connected /\ mgr'.misled = mgr.misled
      BY <3>2 DEF NetTypes, Mgrs
    <3> QED  BY <2>2, <3>1, <3>2
  <2>4. ~Live /\ (signal.kind # "None" => signal.stray)
    BY <2>1 DEF Live, SessionInv, LinkShape
  <2>5. LinkShape'  BY <2>1, <2>3, <2>4 DEF SessionInv, LinkShape, Live, Idle
  <2>6. PlaceShape'  BY <2>1, <2>3 DEF SessionInv, PlaceShape, Live
  <2>7. Belief'  BY <2>1, <2>3 DEF Belief, Live
  <2> QED  BY <2>5, <2>6, <2>7 DEF SessionInv
<1>6. CASE ConsumePublishRequest
  <2>1. mgr' = [mgr EXCEPT !.wanted = @ \/ requested]  BY <1>6 DEF ConsumePublishRequest
  <2>2. /\ mgr'.connected = mgr.connected /\ mgr'.manualStop = mgr.manualStop
        /\ mgr'.needsDestroy = mgr.needsDestroy /\ mgr'.misled = mgr.misled
    BY <2>1 DEF NetTypes, Mgrs
  <2> QED
    BY <1>6, <2>2, SessionOnward DEF ConsumePublishRequest, Go, linkVars, Onward
<1>7. CASE TakeSnapshot
  <2>1. /\ UNCHANGED <<mgr, client, active, signal, callback>> /\ at = "snapshot"
        /\ at' \in {"disabled", "publish", "connect"} /\ (at' = "connect" => ~mgr.connected)
    BY <1>7 DEF TakeSnapshot, Go, linkVars
  <2> QED
    BY <2>1 DEF SessionInv, LinkShape, PlaceShape, Belief, Live, Event, Misled, Idle
<1>8. CASE StopDisabled
  <2>1. /\ LinkShape' /\ Belief' /\ (client'.gen = 0 /\ mgr'.connected => mgr'.misled)
        /\ mgr'.needsDestroy = mgr.needsDestroy
    BY <1>8, StopKeeps DEF StopDisabled, OnlyManager, NetTypes
  <2>2. PlaceShape'
    BY <1>8, <2>1 DEF StopDisabled, OnlyManager, Go, SessionInv, PlaceShape, Live
  <2> QED  BY <2>1, <2>2 DEF SessionInv
<1>9. CASE StartClient
  <2>1. /\ UNCHANGED <<signal, callback>> /\ at = "start" /\ at' = "rest"
        /\ client.gen = 0 /\ ~mgr.connected
    BY <1>9 DEF StartClient, Go, SessionInv, PlaceShape
  <2>2. CASE UNCHANGED <<client, active, mgr>>
    BY <2>1, <2>2 DEF SessionInv, LinkShape, PlaceShape, Belief, Live, Event, Misled, Idle
  <2>3. CASE /\ Spend("clients") /\ active' = left.clients
             /\ client' = [gen |-> left.clients, link |-> "starting", subscribed |-> FALSE]
             /\ mgr' = [mgr EXCEPT !.connecting = TRUE, !.manualStop = FALSE]
    <3>1. left.clients \in Nat \ {0}  BY <2>3, SpendTypes
    <3>2. /\ client'.gen = active' /\ active' # 0 /\ client'.link = "starting"
          /\ mgr'.connected = mgr.connected /\ mgr'.needsDestroy = mgr.needsDestroy
      BY <2>3, <3>1 DEF NetTypes, Mgrs
    <3>3. Idle /\ (signal.kind # "None" => signal.stray)
      BY <2>1 DEF SessionInv, LinkShape, Live
    <3>4. LinkShape'  BY <2>1, <3>2, <3>3 DEF SessionInv, LinkShape, Live, Idle
    <3>5. PlaceShape'  BY <2>1, <3>2 DEF PlaceShape, Live
    <3>6. Belief'  BY <2>1, <3>2, <3>3 DEF Belief, Live, Event, Misled
    <3> QED  BY <3>4, <3>5, <3>6 DEF SessionInv
  <2> QED  BY <1>9, <2>2, <2>3 DEF StartClient
<1>10. CASE ForceReconnect
  <2>1. /\ mgr'.needsDestroy /\ ~mgr'.connected /\ at = "publish" /\ at' = "rest"
        /\ UNCHANGED <<client, active, signal, callback>>
    BY <1>10 DEF ForceReconnect, Go, OnlyPublisher, NetTypes, Mgrs
  <2> QED
    BY <2>1 DEF SessionInv, LinkShape, PlaceShape, Belief, Live, Event, Misled, Idle
<1>11. CASE PublishState
  <2>1. /\ UNCHANGED <<client, active, callback>> /\ at = "publish" /\ at' = "events"
    BY <1>11 DEF PublishState, Go, OnlyPublisher
  <2> DEFINE done == [mgr EXCEPT !.wanted = FALSE, !.late = FALSE]
             failed == [mgr EXCEPT !.wanted = FALSE, !.late = TRUE]
             Alike(m) == /\ m \in Mgrs /\ m.connected = mgr.connected
                         /\ m.manualStop = mgr.manualStop
                         /\ m.needsDestroy = mgr.needsDestroy /\ m.misled = mgr.misled
  <2>2. Alike(done) /\ Alike(failed)  BY DEF NetTypes, Mgrs
  <2>3. \/ mgr' \in {done, failed} /\ signal' = signal
        \/ mgr' = Stopped(failed) /\ StopSignal(failed)
    BY <1>11 DEF PublishState
  <2> HIDE DEF done, failed
  <2>4. CASE mgr' \in {done, failed} /\ signal' = signal
    BY <2>1, <2>2, <2>4, SessionOnward DEF Onward
  <2>5. CASE mgr' = Stopped(failed) /\ StopSignal(failed)
    <3>1. /\ LinkShape' /\ Belief' /\ (client'.gen = 0 /\ mgr'.connected => mgr'.misled)
          /\ mgr'.needsDestroy = mgr.needsDestroy
      BY <2>1, <2>2, <2>5, StopKeeps
    <3>2. PlaceShape'  BY <2>1, <3>1 DEF SessionInv, PlaceShape, Live
    <3> QED  BY <3>1, <3>2 DEF SessionInv
  <2> QED  BY <2>3, <2>4, <2>5
<1> QED  BY <1>1, <1>2, <1>3, <1>4, <1>5, <1>6, <1>7, <1>8, <1>9, <1>10, <1>11 DEF Poll

LEMMA SessionKeeps == ASSUME TypeInv, SessionInv, [Next]_vars PROVE SessionInv'
<1>1. CASE UNCHANGED vars
  BY <1>1 DEF vars, netVars, linkVars, SessionInv, LinkShape, PlaceShape, Belief, Live, Event, Misled,
     Idle
<1> QED  BY <1>1, SessionOfClientTask, SessionOfBetween, SessionOfPoll, SessionOfEvents DEF Next

LEMMA SessionTells == ASSUME TypeInv, SessionInv PROVE SessionIsReal
<1>1. ASSUME at = "rest", Idle, signal.kind = "None", ~mgr.needsDestroy, ~Misled
      PROVE  mgr.connected <=> client.link = "up" /\ client.subscribed
  <2>1. CASE client.gen = 0
    BY <1>1, <2>1 DEF SessionInv, LinkShape, PlaceShape, Misled
  <2>2. CASE client.gen # 0
    <3>1. Live  BY <1>1, <2>2 DEF SessionInv, PlaceShape
    <3> QED  BY <1>1, <3>1 DEF SessionInv, Belief, Event, Idle
  <2> QED  BY <2>1, <2>2
<1> QED  BY <1>1 DEF SessionIsReal

-----------------------------------------------------------------------------
(* The state to publish.                                                   *)

\* What is stored is the newest state, or its request is still to be released;
\* what is in hand for publication is what is stored, or it is asked for again.
Stored == ui.at = "release" \/ ~ui.after => snapshot = ui.state
InHand == at = "publish" => published.inHand = snapshot \/ ui.after \/ requested
StateInv == Stored /\ InHand /\ StateIsNotForgotten

Believed == mgr.connected /\ ~Misled

\* Steps that take nothing away from what will have the state published.
LEMMA StateStays ==
  ASSUME TypeInv, StateInv, UNCHANGED <<ui, snapshot, requested, published>>,
         (at' = at) \/ (at' # "publish"),
         Believed' => \/ mgr'.wanted
                      \/ Believed /\ (mgr.wanted => mgr'.wanted) /\ (mgr.late => mgr'.late)
  PROVE  StateInv'
BY DEF StateInv, Stored, InHand, StateIsNotForgotten, Believed

\* A stop makes the manager believe less, and keeps what is to be published.
LEMMA StopBelieves ==
  ASSUME NEW m \in Mgrs, m.connected = mgr.connected, m.manualStop = mgr.manualStop,
         m.misled = mgr.misled,
         StopClientOf(m) \/ (mgr' = Stopped(m) /\ StopSignal(m))
  PROVE  /\ Believed' => Believed /\ mgr' = m
         /\ client.gen # 0 \/ mgr' = Stopped(m) => ~Believed'
<1>1. \/ mgr' = m /\ (m.manualStop \/ (client.gen = 0 /\ StopClientOf(m)))
      \/ mgr' = [m EXCEPT !.manualStop = TRUE, !.connecting = FALSE, !.connected = FALSE]
  BY DEF StopClientOf, Stopped
<1>2. CASE mgr' = m /\ m.manualStop  BY <1>2 DEF Believed, Misled
<1>3. CASE mgr' = m /\ ~m.manualStop /\ client.gen = 0
  <2>1. Stopped(m) # m  
    <3>1. Stopped(m).manualStop  BY <1>3 DEF Stopped, Mgrs
    <3> QED  BY <1>3, <3>1
  <2> QED  BY <1>3, <2>1 DEF Believed, Misled
<1>4. CASE mgr' = [m EXCEPT !.manualStop = TRUE, !.connecting = FALSE, !.connected = FALSE]
  <2>1. mgr'.manualStop  BY <1>4 DEF Mgrs
  <2> QED  BY <2>1 DEF Believed, Misled
<1> QED  BY <1>1, <1>2, <1>3, <1>4

LEMMA StateOfNet ==
  ASSUME TypeInv, SessionInv, StateInv, ClientTask \/ Between \/ Events
  PROVE  StateInv'
<1> USE DEF TypeInv
<1>1. CASE ClientTask
  BY <1>1, StateStays DEF ClientTask, LinkUp, LinkDown, Arrive, EnterEvent, StoreSignal, PushFirst,
     PushRest, PublishHead, OnlyRing, netVars, uiVars, Believed, Misled
<1>2. CASE \/ BeginPoll \/ BeginEvents \/ SkipEvents \/ PeekEvent \/ DiscardEvent
  BY <1>2, StateStays DEF BeginPoll, BeginEvents, SkipEvents, PeekEvent, DiscardEvent, OnlyAt, Go,
     OnlyPublisher, uiVars, Believed, Misled
<1>3. CASE SyncWithWifi \/ RequestReconnect
  <2> DEFINE off == [mgr EXCEPT !.enabled = FALSE]
             on == [mgr EXCEPT !.enabled = TRUE]
             Alike(m) == /\ m \in Mgrs /\ m.connected = mgr.connected
                         /\ m.manualStop = mgr.manualStop /\ m.misled = mgr.misled
                         /\ m.wanted = mgr.wanted /\ m.late = mgr.late
  <2>1. Alike(mgr) /\ Alike(off) /\ Alike(on)  BY DEF NetTypes, Mgrs
  <2>2. UNCHANGED <<at, ui, snapshot, requested, published>>
    BY <1>3 DEF SyncWithWifi, RequestReconnect, OnlyManager, uiVars
  <2>3. StopClientOf(off) \/ StopClientOf(mgr) \/ mgr' = on
    BY <1>3 DEF SyncWithWifi, RequestReconnect
  <2> HIDE DEF off, on
  <2>4. ASSUME NEW m \in {off, mgr}, StopClientOf(m) PROVE StateInv'
    <3>1. Believed' => Believed /\ mgr' = m  BY <2>1, <2>4, StopBelieves
    <3> QED  BY <2>1, <2>2, <3>1, StateStays
  <2>5. ASSUME mgr' = on PROVE StateInv'
    BY <2>1, <2>2, <2>5, StateStays DEF Believed, Misled
  <2> QED  BY <2>3, <2>4, <2>5
<1>4. CASE ApplySavedSettings
  <2> DEFINE m == [mgr EXCEPT !.wanted = FALSE]
  <2>1. /\ m \in Mgrs /\ m.connected = mgr.connected /\ m.manualStop = mgr.manualStop
        /\ m.misled = mgr.misled
    BY DEF NetTypes, Mgrs
  <2>2. UNCHANGED <<at, ui, snapshot, requested, published>> /\ StopClientOf(m)
    BY <1>4 DEF ApplySavedSettings, OnlyManager, uiVars
  <2> HIDE DEF m
  <2>3. ~Believed'
    <3>1. CASE client.gen # 0  BY <2>1, <2>2, <3>1, StopBelieves
    <3>2. CASE client.gen = 0
      <4>1. mgr' = m  BY <2>2, <3>2 DEF StopClientOf
      <4> QED  BY <2>1, <3>2, <4>1 DEF SessionInv, PlaceShape, Believed, Misled
    <3> QED  BY <3>1, <3>2
  <2> QED  BY <2>2, <2>3, StateStays
<1>5. CASE PublishEvent
  <2>1. UNCHANGED <<ui, snapshot, requested, published>> /\ at' # "publish"
    BY <1>5 DEF PublishEvent, Go, OnlyPublisher, uiVars
  <2>2. mgr' = mgr \/ ~Believed'  BY <1>5, StopBelieves DEF PublishEvent, NetTypes
  <2> QED  BY <2>1, <2>2, StateStays DEF Believed, Misled
<1> QED  BY <1>1, <1>2, <1>3, <1>4, <1>5 DEF Between, Events

LEMMA StateOfOthers == ASSUME TypeInv, StateInv, Others PROVE StateInv'
<1> USE DEF TypeInv
<1>1. CASE LogEvent \/ StoreEvent
  BY <1>1, StateStays DEF LogEvent, StoreEvent, netVars, uiVars, Believed, Misled
<1>2. CASE ChangeState
  <2>1. ui'.after /\ ui'.at # "release" /\ UNCHANGED <<at, snapshot, requested, published, mgr>>
    BY <1>2 DEF ChangeState, netVars, UiTypes
  <2> QED  BY <2>1 DEF StateInv, Stored, InHand, StateIsNotForgotten
<1>3. CASE StoreSnapshot
  <2>1. /\ ui'.after = ui.after /\ ui'.state = ui.state /\ snapshot' = ui.state
        /\ UNCHANGED <<at, requested, published, mgr>>
    BY <1>3 DEF StoreSnapshot, netVars, UiTypes
  <2> QED  BY <2>1 DEF StateInv, Stored, InHand, StateIsNotForgotten, Misled
<1>4. CASE ReleaseRequest
  <2>1. /\ ~ui'.after /\ ui'.state = ui.state /\ requested' = (requested \/ ui.after)
        /\ ui.at = "release" /\ ui'.at = "rest" /\ UNCHANGED <<at, snapshot, published, mgr>>
    BY <1>4 DEF ReleaseRequest, netVars, UiTypes
  <2> QED  BY <2>1 DEF StateInv, Stored, InHand, StateIsNotForgotten, Misled
<1> QED  BY <1>1, <1>2, <1>3, <1>4 DEF Others

LEMMA StateOfPoll == ASSUME TypeInv, SessionInv, StateInv, Poll PROVE StateInv'
<1> USE DEF TypeInv
<1>1. CASE \/ NoMoreCommands \/ NoAttempt \/ PausePublish \/ NothingToPublish
           \/ Pop \/ PopAdvances \/ StopTask \/ BeginDestroy \/ BeginConnect
  BY <1>1, StateStays DEF NoMoreCommands, NoAttempt, PausePublish, NothingToPublish, Pop,
     PopAdvances, StopTask, BeginDestroy, BeginConnect, OnlyAt, Go, uiVars, Believed, Misled
<1>2. CASE TakeSignal
  <2>1. UNCHANGED <<ui, snapshot, requested, published>> /\ at' # "publish"
    BY <1>2 DEF TakeSignal, Go, uiVars
  <2>2. mgr' = mgr \/ mgr'.wanted \/ ~mgr'.connected
    <3>1. \/ mgr' = mgr
          \/ mgr' = [mgr EXCEPT !.connected = TRUE, !.connecting = FALSE, !.wanted = TRUE,
                                !.misled = signal.stray]
          \/ mgr' = [mgr EXCEPT !.connected = FALSE, !.connecting = FALSE,
                                !.needsDestroy = TRUE, !.manualStop = FALSE]
      BY <1>2 DEF TakeSignal
    <3> QED  BY <3>1 DEF NetTypes, Mgrs
  <2> QED  BY <2>1, <2>2, StateStays DEF Believed, Misled
<1>3. CASE EndDestroy
  <2>1. UNCHANGED <<ui, snapshot, requested, published>> /\ at' # "publish"
    BY <1>3 DEF EndDestroy, Go, uiVars
  <2>2. \/ ~mgr'.connected
        \/ /\ mgr'.connected = mgr.connected /\ mgr'.misled = mgr.misled
           /\ mgr'.manualStop = mgr.manualStop /\ mgr'.wanted = mgr.wanted
           /\ mgr'.late = mgr.late
    <3>1. \/ mgr' = [mgr EXCEPT !.connected = FALSE, !.connecting = FALSE, !.manualStop = FALSE,
                                !.needsDestroy = FALSE]
          \/ mgr' = [mgr EXCEPT !.needsDestroy = TRUE]
      BY <1>3 DEF EndDestroy
    <3>2. CASE mgr' = [mgr EXCEPT !.needsDestroy = TRUE]  BY <3>2 DEF NetTypes, Mgrs
    <3> QED  BY <3>1, <3>2 DEF NetTypes, Mgrs
  <2> QED  BY <2>1, <2>2, StateStays DEF Believed, Misled
<1>4. CASE ConsumePublishRequest
  <2>1. mgr' = [mgr EXCEPT !.wanted = @ \/ requested]  BY <1>4 DEF ConsumePublishRequest
  <2>2. /\ mgr'.connected = mgr.connected /\ mgr'.manualStop = mgr.manualStop
        /\ mgr'.misled = mgr.misled /\ mgr'.late = mgr.late
        /\ mgr.wanted \/ requested => mgr'.wanted
    BY <2>1 DEF NetTypes, Mgrs, UiTypes
  <2> QED
    BY <1>4, <2>2 DEF ConsumePublishRequest, Go, StateInv, Stored, InHand, StateIsNotForgotten,
       Misled
<1>5. CASE TakeSnapshot
  <2>1. published'.inHand = snapshot /\ published'.last = published.last
        /\ UNCHANGED <<mgr, ui, snapshot, requested>>
    BY <1>5 DEF TakeSnapshot, uiVars, UiTypes
  <2> QED  BY <2>1 DEF StateInv, Stored, InHand, StateIsNotForgotten, Misled
<1>6. CASE StopDisabled
  <2>1. UNCHANGED <<ui, snapshot, requested, published>> /\ at' # "publish"
    BY <1>6 DEF StopDisabled, Go, OnlyManager, uiVars
  <2>2. Believed' => Believed /\ mgr' = mgr
    BY <1>6, StopBelieves DEF StopDisabled, NetTypes
  <2> QED  BY <2>1, <2>2, StateStays
<1>7. CASE StartClient \/ ForceReconnect
  <2>1. UNCHANGED <<ui, snapshot, requested, published>> /\ at' # "publish"
    BY <1>7 DEF StartClient, ForceReconnect, Go, OnlyPublisher, cmdVars, uiVars
  <2>2. ~mgr'.connected
    BY <1>7 DEF StartClient, ForceReconnect, SessionInv, PlaceShape, NetTypes, Mgrs
  <2> QED  BY <2>1, <2>2, StateStays DEF Believed
<1>8. CASE PublishState
  <2>1. /\ UNCHANGED <<ui, snapshot, requested>> /\ at = "publish" /\ at' = "events"
    BY <1>8 DEF PublishState, Go, OnlyPublisher, uiVars
  <2> DEFINE failed == [mgr EXCEPT !.wanted = FALSE, !.late = TRUE]
  <2>2. \/ published'.last = published.inHand
        \/ published' = published /\ mgr' \in {failed, Stopped(failed)}
    BY <1>8 DEF PublishState, UiTypes
  <2>3. mgr' = failed => mgr'.late  BY DEF NetTypes, Mgrs
  <2>4. mgr' = Stopped(failed) => mgr'.late
    <3>1. failed \in Mgrs /\ failed.late  BY DEF NetTypes, Mgrs
    <3> HIDE DEF failed
    <3>2. [failed EXCEPT !.manualStop = TRUE, !.connecting = FALSE, !.connected = FALSE].late
      BY <3>1 DEF Mgrs
    <3> QED  BY <3>1, <3>2 DEF Stopped
  <2> HIDE DEF failed
  <2>5. StateIsNotForgotten'
    BY <2>1, <2>2, <2>3, <2>4 DEF StateInv, Stored, InHand, StateIsNotForgotten
  <2> QED  BY <2>1, <2>5 DEF StateInv, Stored, InHand
<1> QED  BY <1>1, <1>2, <1>3, <1>4, <1>5, <1>6, <1>7, <1>8 DEF Poll

LEMMA StateKeeps == ASSUME TypeInv, SessionInv, StateInv, [Next]_vars PROVE StateInv'
<1>1. CASE UNCHANGED vars
  BY <1>1 DEF vars, netVars, uiVars, StateInv, Stored, InHand, StateIsNotForgotten, Misled
<1> QED  BY <1>1, StateOfNet, StateOfPoll, StateOfOthers DEF Next

-----------------------------------------------------------------------------
(* The events.                                                             *)

SetOf(q) == {q[i] : i \in DOMAIN q}
Distinct(q) == \A i, j \in DOMAIN q : q[i] = q[j] => i = j
InHandNow == at \in {"send", "discard"}

\* Neither published nor waiting any more.
Lost == events.stored \ (sent \cup Queued)

\* An event is numbered when it is logged, and stored at most once.
EventShape ==
  /\ Len(events.queue) <= EventRoom /\ Distinct(events.queue)
  /\ IsFiniteSet(events.stored)
  /\ \A n \in events.passed \cup events.stored : left.logs < n
  /\ events.passed \cap events.stored = {}
  /\ Queued \subseteq events.stored /\ sent \subseteq events.stored

\* The entry in hand is the oldest one or has been overwritten.  Overwritten and
\* then published after all it is not lost, which makes up for the entry that
\* is discarded in its place.
HandInv ==
  /\ InHandNow => /\ events.peeked \in events.stored
                  /\ events.peeked \in Queued => Head(events.queue) = events.peeked
  /\ at = "send" => events.peeked \notin sent
  /\ at = "discard" => events.peeked \in sent
  /\ Queued \cap sent \subseteq (IF at = "discard" THEN {events.peeked} ELSE {})
  /\ Cardinality(Lost) <= events.overwrites
  /\ at = "discard" /\ events.peeked \notin Queued => Cardinality(Lost) + 1 <= events.overwrites

EventInv == EventShape /\ HandInv

LEMMA TailOf ==
  ASSUME NEW q \in Seq(Nat), q # <<>>, Distinct(q)
  PROVE  /\ Tail(q) \in Seq(Nat) /\ Len(Tail(q)) = Len(q) - 1
         /\ Head(q) \in SetOf(q) /\ Distinct(Tail(q))
         /\ SetOf(Tail(q)) = SetOf(q) \ {Head(q)}
<1>1. Len(q) \in Nat \ {0} /\ DOMAIN q = 1 .. Len(q)  OBVIOUS
<1>2. Tail(q) \in Seq(Nat) /\ Len(Tail(q)) = Len(q) - 1 /\ Head(q) = q[1]  OBVIOUS
<1>3. DOMAIN Tail(q) = 1 .. (Len(q) - 1)  BY <1>2
<1>4. \A i \in DOMAIN Tail(q) : i + 1 \in DOMAIN q /\ Tail(q)[i] = q[i + 1]
  BY <1>1, <1>2, <1>3
<1>5. \A i \in DOMAIN q : i = 1 \/ (i - 1 \in DOMAIN Tail(q) /\ Tail(q)[i - 1] = q[i])
  BY <1>1, <1>2, <1>3
<1>6. Distinct(Tail(q))
  <2> SUFFICES ASSUME NEW i \in DOMAIN Tail(q), NEW j \in DOMAIN Tail(q), Tail(q)[i] = Tail(q)[j]
               PROVE  i = j
    BY DEF Distinct
  <2>1. i + 1 = j + 1  BY <1>4 DEF Distinct
  <2> QED  BY <1>3, <2>1
<1>7. 1 \in DOMAIN q  BY <1>1
<1>8. SetOf(Tail(q)) \subseteq SetOf(q) \ {q[1]}
  <2> SUFFICES ASSUME NEW i \in DOMAIN Tail(q)  PROVE Tail(q)[i] \in SetOf(q) /\ Tail(q)[i] # q[1]
    BY DEF SetOf
  <2>1. i + 1 # 1  BY <1>3
  <2> QED  BY <1>4, <1>7, <2>1 DEF SetOf, Distinct
<1>9. SetOf(q) \ {q[1]} \subseteq SetOf(Tail(q))  BY <1>5 DEF SetOf
<1> QED  BY <1>2, <1>6, <1>7, <1>8, <1>9 DEF SetOf

LEMMA AppendTo ==
  ASSUME NEW q \in Seq(Nat), NEW e \in Nat, e \notin SetOf(q), Distinct(q)
  PROVE  /\ Append(q, e) \in Seq(Nat) /\ Len(Append(q, e)) = Len(q) + 1
         /\ Distinct(Append(q, e)) /\ SetOf(Append(q, e)) = SetOf(q) \cup {e}
         /\ q # <<>> => Head(Append(q, e)) = Head(q)
<1> DEFINE a == Append(q, e)
<1>1. /\ a \in Seq(Nat) /\ Len(a) = Len(q) + 1 /\ DOMAIN a = 1 .. (Len(q) + 1)
      /\ DOMAIN q = 1 .. Len(q) /\ Len(q) \in Nat
      /\ a[Len(q) + 1] = e /\ \A i \in DOMAIN q : a[i] = q[i]
      /\ q # <<>> => Head(a) = Head(q)
  OBVIOUS
<1> HIDE DEF a
<1>2. DOMAIN a = DOMAIN q \cup {Len(q) + 1} /\ Len(q) + 1 \notin DOMAIN q  BY <1>1
<1>3. SetOf(a) = SetOf(q) \cup {e}
  <2>1. SetOf(a) \subseteq SetOf(q) \cup {e}  BY <1>1, <1>2 DEF SetOf
  <2>2. SetOf(q) \cup {e} \subseteq SetOf(a)  BY <1>1, <1>2 DEF SetOf
  <2> QED  BY <2>1, <2>2
<1>4. Distinct(a)
  <2> SUFFICES ASSUME NEW i \in DOMAIN a, NEW j \in DOMAIN a, a[i] = a[j]  PROVE i = j
    BY DEF Distinct
  <2>1. CASE i \in DOMAIN q /\ j \in DOMAIN q  BY <1>1, <2>1 DEF Distinct
  <2>2. \A k \in DOMAIN q : a[k] # e  BY <1>1 DEF SetOf
  <2>3. i \in DOMAIN q \/ i = Len(q) + 1  BY <1>2
  <2>4. j \in DOMAIN q \/ j = Len(q) + 1  BY <1>2
  <2> QED  BY <1>1, <2>1, <2>2, <2>3, <2>4
<1> QED  BY <1>1, <1>3, <1>4 DEF a

LEMMA QueuedIs == Queued = SetOf(events.queue) /\ Queued' = SetOf(events'.queue)
BY DEF Queued, SetOf

\* Counting with one element more or less.
LEMMA OneMore ==
  ASSUME NEW S, IsFiniteSet(S), NEW T, NEW x, T \subseteq S \cup {x}
  PROVE  /\ IsFiniteSet(T) /\ Cardinality(S) \in Nat /\ Cardinality(T) \in Nat
         /\ Cardinality(T) <= Cardinality(S) + 1
<1>1. /\ Cardinality(S) \in Nat /\ IsFiniteSet(S \cup {x}) /\ Cardinality(S \cup {x}) \in Nat
      /\ Cardinality(S \cup {x}) <= Cardinality(S) + 1
  BY FS_AddElement, FS_CardinalityType
<1>2. IsFiniteSet(T) /\ Cardinality(T) \in Nat /\ Cardinality(T) <= Cardinality(S \cup {x})
  BY <1>1, FS_Subset, FS_CardinalityType
<1> QED  BY <1>1, <1>2

LEMMA LostCounts ==
  ASSUME EventShape
  PROVE  IsFiniteSet(Lost) /\ Cardinality(Lost) \in Nat
<1>1. IsFiniteSet(Lost)  BY FS_Subset DEF EventShape, Lost
<1> QED  BY <1>1, FS_CardinalityType

\* Steps that leave the queue alone, and do not come between peek and discard.
LEMMA EventsElsewhere ==
  ASSUME TypeInv, TypeInv', EventInv, left'.logs <= left.logs,
         UNCHANGED <<events, sent>>, (at' = at) \/ (~InHandNow /\ ~InHandNow')
  PROVE  EventInv'
<1>1. Queued' = Queued /\ Lost' = Lost  BY DEF Queued, Lost
<1>2. EventShape'
  <2>1. \A n \in events.passed \cup events.stored : left'.logs < n
    BY DEF EventInv, EventShape, TypeInv, EvTypes, Lefts
  <2> QED  BY <1>1, <2>1 DEF EventInv, EventShape
<1>3. HandInv'  BY <1>1 DEF EventInv, HandInv, InHandNow
<1> QED  BY <1>2, <1>3 DEF EventInv

LEMMA EventsOfStore ==
  ASSUME TypeInv, TypeInv', EventInv, StoreEvent
  PROVE  EventInv'
<1> USE DEF TypeInv, EvTypes, EventInv
<1> DEFINE q == events.queue
           full == Len(q) = EventRoom
<1>1. PICK e \in events.passed :
        /\ events'.queue = Append(IF full THEN Tail(q) ELSE q, e)
        /\ events'.passed = events.passed \ {e} /\ events'.stored = events.stored \cup {e}
        /\ events'.overwrites = IF full THEN events.overwrites + 1 ELSE events.overwrites
  <2>1. events \in Evs  BY DEF Evs
  <2> QED  BY <2>1, StoreTypes
<1>2. /\ events'.peeked = events.peeked /\ at' = at /\ sent' = sent /\ left' = left
      /\ InHandNow' = InHandNow
  <2>1. events \in Evs  BY DEF Evs
  <2> QED  BY <2>1, StoreTypes DEF StoreEvent, netVars, InHandNow
<1>3. /\ q \in Seq(Nat) /\ e \in Nat /\ Len(q) <= EventRoom /\ EventRoom \in Nat \ {0}
      /\ Distinct(q) /\ Queued = SetOf(q) /\ e \notin events.stored /\ e \notin Queued /\ e \notin sent
      /\ Queued \subseteq events.stored /\ sent \subseteq events.stored
  BY SlotsAssumption, QueuedIs DEF EventShape
<1>4. IsFiniteSet(events.stored \cup {e})  BY FS_AddElement DEF EventShape
<1>5. /\ \A n \in events'.passed \cup events'.stored : left'.logs < n
      /\ events'.passed \cap events'.stored = {}
  BY <1>1, <1>2 DEF EventShape
<1>6. IsFiniteSet(Lost) /\ Cardinality(Lost) \in Nat /\ events.overwrites \in Nat
  BY LostCounts
<1>7. InHandNow => events.peeked \in events.stored /\ events.peeked # e
  BY <1>3 DEF HandInv
<1>8. CASE full
  <2> DEFINE h == Head(q)
  <2>1. q # <<>>  BY <1>3, <1>8
  <2>2. /\ Tail(q) \in Seq(Nat) /\ Len(Tail(q)) = Len(q) - 1 /\ h \in Queued
        /\ Distinct(Tail(q)) /\ SetOf(Tail(q)) = Queued \ {h}
    BY <1>3, <2>1, TailOf
  <2>3. /\ events'.queue = Append(Tail(q), e) /\ events'.overwrites = events.overwrites + 1
    BY <1>1, <1>8
  <2>4. /\ Len(events'.queue) <= EventRoom /\ Distinct(events'.queue)
        /\ Queued' = (Queued \ {h}) \cup {e}
    <3>1. e \notin SetOf(Tail(q))  BY <1>3, <2>2
    <3>2. /\ Len(events'.queue) = Len(Tail(q)) + 1 /\ Distinct(events'.queue)
          /\ SetOf(events'.queue) = SetOf(Tail(q)) \cup {e}
      <4> DEFINE r == Tail(q)
      <4>1. r \in Seq(Nat) /\ e \in Nat /\ e \notin SetOf(r) /\ Distinct(r)  BY <1>3, <2>2, <3>1
      <4> HIDE DEF r
      <4>2. /\ Len(Append(r, e)) = Len(r) + 1 /\ Distinct(Append(r, e))
            /\ SetOf(Append(r, e)) = SetOf(r) \cup {e}
        BY <4>1, AppendTo
      <4> QED  BY <2>3, <4>2 DEF r
    <3>3. Len(events'.queue) <= EventRoom  BY <1>3, <1>8, <2>2, <3>2
    <3> QED  BY <2>2, <3>2, <3>3, QueuedIs
  <2> HIDE DEF h
  <2>5. EventShape'  BY <1>1, <1>2, <1>3, <1>4, <1>5, <2>2, <2>4 DEF EventShape
  <2>6. Lost' \subseteq Lost \cup {h} /\ (h \in sent => Lost' \subseteq Lost)
    BY <1>1, <1>2, <2>4 DEF Lost
  <2>7. Cardinality(Lost') \in Nat /\ Cardinality(Lost') <= Cardinality(Lost) + 1
    BY <1>6, <2>6, OneMore
  <2>8. h \in sent => Cardinality(Lost') <= Cardinality(Lost)
    BY <1>6, <2>6, FS_Subset
  <2>9. /\ Queued' \cap sent \subseteq Queued \cap sent
    BY <1>3, <2>4
  <2>10. InHandNow => events.peeked \notin Queued'
    BY <1>3, <1>7, <2>4 DEF HandInv, h
  <2>11. at = "discard" => Cardinality(Lost') + 1 <= events'.overwrites
    <3>1. CASE at = "discard" /\ events.peeked \in Queued
      <4>1. h = events.peeked /\ h \in sent  BY <3>1 DEF HandInv, InHandNow, h
      <4> QED  BY <1>6, <2>3, <2>7, <2>8, <4>1 DEF HandInv
    <3>2. CASE at = "discard" /\ events.peeked \notin Queued
      BY <1>6, <2>3, <2>7, <3>2 DEF HandInv
    <3> QED  BY <3>1, <3>2
  <2>12. Cardinality(Lost') <= events'.overwrites  BY <1>6, <2>3, <2>7 DEF HandInv
  <2>13. HandInv'
    BY <1>1, <1>2, <2>9, <2>10, <2>11, <2>12 DEF HandInv, InHandNow
  <2> QED  BY <2>5, <2>13
<1>9. CASE ~full
  <2>1. events'.queue = Append(q, e) /\ events'.overwrites = events.overwrites  BY <1>1, <1>9
  <2>2. /\ Len(events'.queue) <= EventRoom /\ Distinct(events'.queue)
        /\ Queued' = Queued \cup {e} /\ (q # <<>> => Head(events'.queue) = Head(q))
    BY <1>3, <1>9, <2>1, AppendTo, QueuedIs
  <2>3. EventShape'  BY <1>1, <1>2, <1>3, <1>4, <1>5, <2>2 DEF EventShape
  <2>4. Lost' = Lost  BY <1>1, <1>2, <1>3, <2>2 DEF Lost
  <2>5. Queued' \cap sent = Queued \cap sent  BY <1>3, <2>2
  <2>6. Queued # {} => q # <<>>  BY <1>3 DEF SetOf
  <2>7. InHandNow => /\ events.peeked \in Queued' <=> events.peeked \in Queued
                     /\ events.peeked \in Queued' => Head(events'.queue) = events.peeked
    BY <1>7, <2>2, <2>6 DEF HandInv
  <2>8. HandInv'
    BY <1>1, <1>2, <2>1, <2>4, <2>5, <2>7 DEF HandInv, InHandNow
  <2> QED  BY <2>3, <2>8
<1> QED  BY <1>8, <1>9

LEMMA EventsOfDiscard ==
  ASSUME TypeInv, TypeInv', EventInv, DiscardEvent
  PROVE  EventInv'
<1> USE DEF TypeInv, EvTypes, EventInv
<1> DEFINE q == events.queue
<1>1. /\ at = "discard" /\ at' \in {"peek", "rest"} /\ sent' = sent /\ left' = left
      /\ events'.queue = IF q = <<>> THEN q ELSE Tail(q)
      /\ events'.passed = events.passed /\ events'.stored = events.stored
      /\ events'.overwrites = events.overwrites
  BY DEF DiscardEvent, Go, OnlyPublisher
<1>2. /\ q \in Seq(Nat) /\ Len(q) <= EventRoom /\ EventRoom \in Nat /\ Distinct(q)
      /\ Queued = SetOf(q)
  BY SlotsAssumption, QueuedIs DEF EventShape
<1>3. IsFiniteSet(Lost) /\ Cardinality(Lost) \in Nat /\ events.overwrites \in Nat
  BY LostCounts
<1>4. ~InHandNow' /\ at' # "send" /\ at' # "discard"  BY <1>1 DEF InHandNow
<1>5. CASE q = <<>>
  <2>1. Queued' = Queued /\ Lost' = Lost /\ events'.queue = q
    BY <1>1, <1>5, QueuedIs DEF Lost
  <2>2. EventShape'  BY <1>1, <2>1 DEF EventShape
  <2>3. Queued = {}  BY <1>2, <1>5 DEF SetOf
  <2>4. HandInv'  BY <1>1, <1>4, <2>1, <2>3 DEF HandInv
  <2> QED  BY <2>2, <2>4
<1>6. CASE q # <<>>
  <2> DEFINE h == Head(q)
  <2>1. /\ Len(Tail(q)) = Len(q) - 1 /\ h \in Queued
        /\ Distinct(events'.queue) /\ Queued' = Queued \ {h} /\ events'.queue = Tail(q)
    BY <1>1, <1>2, <1>6, TailOf, QueuedIs
  <2>2. Len(events'.queue) <= EventRoom  BY <1>2, <2>1
  <2> HIDE DEF h
  <2>3. EventShape'  BY <1>1, <2>1, <2>2 DEF EventShape
  <2>4. Lost' \subseteq Lost \cup {h} /\ (h \in sent => Lost' \subseteq Lost)
    BY <1>1, <2>1 DEF Lost
  <2>5. Queued' \cap sent' = {}
    <3>1. Queued \cap sent \subseteq {events.peeked}  BY <1>1 DEF HandInv
    <3>2. events.peeked \in Queued => h = events.peeked  BY <1>1 DEF HandInv, InHandNow, h
    <3> QED  BY <1>1, <2>1, <3>1, <3>2
  <2>6. Cardinality(Lost') <= events'.overwrites
    <3>1. CASE events.peeked \in Queued
      <4>1. h \in sent  BY <1>1, <3>1 DEF HandInv, InHandNow, h
      <4>2. Cardinality(Lost') \in Nat /\ Cardinality(Lost') <= Cardinality(Lost)
        BY <1>3, <2>4, <4>1, FS_Subset, FS_CardinalityType
      <4> QED  BY <1>1, <1>3, <4>2 DEF HandInv
    <3>2. CASE events.peeked \notin Queued
      <4>1. Cardinality(Lost') \in Nat /\ Cardinality(Lost') <= Cardinality(Lost) + 1
        BY <1>3, <2>4, OneMore
      <4> QED  BY <1>1, <1>3, <3>2, <4>1 DEF HandInv
    <3> QED  BY <3>1, <3>2
  <2>7. HandInv'  BY <1>4, <2>5, <2>6 DEF HandInv
  <2> QED  BY <2>3, <2>7
<1> QED  BY <1>5, <1>6

LEMMA EventsOfPublish ==
  ASSUME TypeInv, TypeInv', EventInv, PublishEvent
  PROVE  EventInv'
<1> USE DEF TypeInv, EvTypes, EventInv
<1> DEFINE p == events.peeked
<1>1. /\ events' = events /\ left' = left /\ at = "send" /\ Queued' = Queued
      /\ \/ at' = "discard" /\ sent' = sent \cup {p}
         \/ at' = "rest" /\ sent' = sent
  BY DEF PublishEvent, Go, OnlyPublisher, Queued
<1>2. /\ p \in events.stored /\ p \notin sent /\ Queued \cap sent = {}
      /\ p \in Queued => Head(events.queue) = p
  BY <1>1 DEF HandInv, InHandNow
<1>3. IsFiniteSet(Lost) /\ Cardinality(Lost) \in Nat /\ events.overwrites \in Nat
  BY LostCounts
<1>4. EventShape'  BY <1>1, <1>2 DEF EventShape
<1>5. CASE at' = "discard" /\ sent' = sent \cup {p}
  <2>1. Lost' = Lost \ {p}  BY <1>1, <1>5 DEF Lost
  <2>2. Cardinality(Lost') \in Nat /\ Cardinality(Lost') <= Cardinality(Lost)
    BY <1>3, <2>1, FS_Subset, FS_CardinalityType
  <2>3. p \notin Queued => Cardinality(Lost') + 1 <= Cardinality(Lost)
    <3> HAVE p \notin Queued
    <3>1. p \in Lost  BY <1>2 DEF Lost
    <3>2. Cardinality(Lost \ {p}) = IF p \in Lost THEN Cardinality(Lost) - 1 ELSE Cardinality(Lost)
      <4> HIDE DEF p
      <4> QED  BY <1>3, FS_RemoveElement
    <3> QED  BY <1>3, <2>1, <3>1, <3>2
  <2>4. Queued' \cap sent' \subseteq {p}  BY <1>1, <1>2, <1>5
  <2>5. Cardinality(Lost') <= events'.overwrites
    BY <1>1, <1>3, <2>2 DEF HandInv
  <2>6. p \notin Queued => Cardinality(Lost') + 1 <= events'.overwrites
    BY <1>1, <1>3, <2>2, <2>3 DEF HandInv
  <2>7. HandInv'  BY <1>1, <1>2, <1>5, <2>4, <2>5, <2>6 DEF HandInv
  <2> QED  BY <1>4, <2>7
<1>6. CASE at' = "rest" /\ sent' = sent
  <2>1. Lost' = Lost  BY <1>1, <1>6 DEF Lost
  <2>2. HandInv'  BY <1>1, <1>2, <1>6, <2>1 DEF HandInv, InHandNow
  <2> QED  BY <1>4, <2>2
<1> QED  BY <1>1, <1>5, <1>6

LEMMA EventsOfPeek ==
  ASSUME TypeInv, TypeInv', EventInv, PeekEvent
  PROVE  EventInv'
<1> USE DEF TypeInv, EvTypes
<1>1. CASE events.queue = <<>>
  <2>1. UNCHANGED <<events, sent, left>> /\ at' = "rest" /\ at = "peek"
    BY <1>1 DEF PeekEvent, Go, OnlyPublisher
  <2> QED  BY <2>1, EventsElsewhere DEF InHandNow, Lefts
<1>2. CASE events.queue # <<>>
  <2> DEFINE h == Head(events.queue)
  <2>1. /\ events'.queue = events.queue /\ events'.peeked = h
        /\ events'.passed = events.passed /\ events'.stored = events.stored
        /\ events'.overwrites = events.overwrites
        /\ at = "peek" /\ at' = "send" /\ sent' = sent /\ left' = left
    BY <1>2 DEF PeekEvent, Go, OnlyPublisher
  <2>2. h \in Queued  BY <1>2, TailOf, QueuedIs DEF EventInv, EventShape
  <2>3. Queued' = Queued /\ Lost' = Lost  BY <2>1 DEF Queued, Lost
  <2>4. EventShape'  BY <2>1, <2>3 DEF EventInv, EventShape
  <2>5. Queued \cap sent = {}  BY <2>1 DEF EventInv, HandInv
  <2>6. h \in events.stored /\ h \notin sent  BY <2>2, <2>5 DEF EventInv, EventShape
  <2>7. HandInv'
    <3>1. Cardinality(Lost) <= events.overwrites  BY DEF EventInv, HandInv
    <3> HIDE DEF h
    <3>2. events'.peeked \in Queued' => Head(events'.queue) = events'.peeked  BY <2>1 DEF h
    <3> QED  BY <2>1, <2>3, <2>5, <2>6, <3>1, <3>2 DEF HandInv, InHandNow
  <2> QED  BY <2>4, <2>7 DEF EventInv
<1> QED  BY <1>1, <1>2

LEMMA EventsOfLog ==
  ASSUME TypeInv, TypeInv', EventInv, LogEvent
  PROVE  EventInv'
<1> USE DEF TypeInv, EvTypes
<1>1. /\ events'.queue = events.queue /\ events'.peeked = events.peeked
      /\ events'.stored = events.stored /\ events'.overwrites = events.overwrites
      /\ events'.passed \subseteq events.passed \cup {left.logs}
      /\ sent' = sent /\ at' = at
  BY DEF LogEvent, netVars
<1>2. left.logs \in Nat \ {0} /\ left'.logs = left.logs - 1  BY DEF LogEvent, Spend, Lefts
<1>3. Queued' = Queued /\ Lost' = Lost  BY <1>1 DEF Queued, Lost
<1>4. EventShape'
  <2>1. \A n \in events'.passed \cup events'.stored : left'.logs < n
    BY <1>1, <1>2 DEF EventInv, EventShape
  <2>2. left.logs \notin events.stored  BY <1>2 DEF EventInv, EventShape
  <2>3. events'.passed \cap events'.stored = {}  BY <1>1, <2>2 DEF EventInv, EventShape
  <2> QED  BY <1>1, <1>3, <2>1, <2>3 DEF EventInv, EventShape
<1>5. HandInv'  BY <1>1, <1>3 DEF EventInv, HandInv, InHandNow
<1> QED  BY <1>4, <1>5 DEF EventInv

LEMMA EventsOfEvents ==
  ASSUME TypeInv, TypeInv', EventInv, Events \/ Others
  PROVE  EventInv'
<1>1. CASE BeginEvents \/ SkipEvents
  <2>1. UNCHANGED <<events, sent, left>> /\ ~InHandNow /\ ~InHandNow'
    BY <1>1 DEF BeginEvents, SkipEvents, OnlyAt, Go, evVars, InHandNow
  <2> QED  BY <2>1, EventsElsewhere DEF TypeInv, Lefts
<1>2. CASE PeekEvent  BY <1>2, EventsOfPeek
<1>3. CASE PublishEvent  BY <1>3, EventsOfPublish
<1>4. CASE DiscardEvent  BY <1>4, EventsOfDiscard
<1>5. CASE LogEvent  BY <1>5, EventsOfLog
<1>6. CASE StoreEvent  BY <1>6, EventsOfStore
<1>7. CASE ChangeState \/ StoreSnapshot \/ ReleaseRequest
  <2>1. UNCHANGED <<events, sent, at>>
    BY <1>7 DEF ChangeState, StoreSnapshot, ReleaseRequest, netVars, evVars
  <2>2. left'.logs <= left.logs
    BY <1>7 DEF ChangeState, StoreSnapshot, ReleaseRequest, Spend, TypeInv, Lefts
  <2> QED  BY <2>1, <2>2, EventsElsewhere
<1> QED  BY <1>1, <1>2, <1>3, <1>4, <1>5, <1>6, <1>7 DEF Events, Others

LEMMA EventsOfNet ==
  ASSUME TypeInv, TypeInv', EventInv, ClientTask \/ Between \/ Poll
  PROVE  EventInv'
<1>1. UNCHANGED <<events, sent>> /\ ((at' = at) \/ (~InHandNow /\ ~InHandNow'))
  <2>1. CASE ClientTask
    BY <2>1 DEF ClientTask, LinkUp, LinkDown, Arrive, EnterEvent, StoreSignal, PushFirst, PushRest,
       PublishHead, OnlyRing, netVars, evVars
  <2>2. CASE Between
    BY <2>2 DEF Between, SyncWithWifi, RequestReconnect, ApplySavedSettings, BeginPoll, OnlyManager,
       OnlyAt, Go, evVars, InHandNow
  <2>3. CASE Poll
    BY <2>3 DEF Poll, Pop, PopAdvances, NoMoreCommands, TakeSignal, StopTask, BeginDestroy,
       EndDestroy, ConsumePublishRequest, TakeSnapshot, StopDisabled, NoAttempt, BeginConnect,
       StartClient, PausePublish, ForceReconnect, PublishState, NothingToPublish, OnlyManager,
       OnlyPublisher, OnlyAt, Go, evVars, InHandNow
  <2> QED  BY <2>1, <2>2, <2>3
<1>2. left'.logs <= left.logs
  <2>1. CASE Arrive \/ SyncWithWifi \/ RequestReconnect \/ ApplySavedSettings \/ StartClient
    BY <2>1 DEF Arrive, SyncWithWifi, RequestReconnect, ApplySavedSettings, StartClient, Spend,
       TypeInv, Lefts
  <2>2. ~(Arrive \/ SyncWithWifi \/ RequestReconnect \/ ApplySavedSettings \/ StartClient)
          => left' = left
    <3>1. CASE ClientTask
      BY <3>1 DEF ClientTask, LinkUp, LinkDown, EnterEvent, StoreSignal, PushFirst, PushRest,
         PublishHead, OnlyRing
    <3>2. CASE Between  BY <3>2 DEF Between, BeginPoll, OnlyAt
    <3>3. CASE Poll
      BY <3>3 DEF Poll, Pop, PopAdvances, NoMoreCommands, TakeSignal, StopTask, BeginDestroy,
         EndDestroy, ConsumePublishRequest, TakeSnapshot, StopDisabled, NoAttempt, BeginConnect,
         PausePublish, ForceReconnect, PublishState, NothingToPublish, OnlyPublisher, OnlyAt
    <3> QED  BY <3>1, <3>2, <3>3
  <2>3. left' = left => left'.logs <= left.logs  BY DEF TypeInv, Lefts
  <2> QED  BY <2>1, <2>2, <2>3
<1> QED  BY <1>1, <1>2, EventsElsewhere

LEMMA EventsKeep == ASSUME TypeInv, TypeInv', EventInv, [Next]_vars PROVE EventInv'
<1>1. CASE UNCHANGED vars
  <2>1. UNCHANGED <<events, sent, at>> /\ left'.logs <= left.logs
    BY <1>1 DEF vars, netVars, evVars, TypeInv, Lefts
  <2> QED  BY <2>1, EventsElsewhere
<1> QED  BY <1>1, EventsOfEvents, EventsOfNet DEF Next

-----------------------------------------------------------------------------
(* The ring: its two indices, and the numbers it holds between them.       *)

LEMMA Wraps == \A x \in 0 .. 2 * Slots - 1 : x % Slots = IF x < Slots THEN x ELSE x - Slots
BY SlotsAssumption

HeldOf(h, t) == (h + Slots - t) % Slots

LEMMA HeldIs ==
  ASSUME NEW h \in Indices, NEW t \in Indices
  PROVE  HeldOf(h, t) = IF t <= h THEN h - t ELSE h + Slots - t
BY Wraps, SlotsAssumption DEF HeldOf, Indices

LEMMA AdvanceIs == \A i \in Indices : Advance(i) = IF i + 1 = Slots THEN 0 ELSE i + 1
BY Wraps, SlotsAssumption DEF Advance, Indices

LEMMA PlaceIs ==
  ASSUME NEW t \in Indices, NEW i \in 0 .. Slots - 1
  PROVE  (t + i) % Slots = IF t + i < Slots THEN t + i ELSE t + i - Slots
BY Wraps, SlotsAssumption DEF Indices

\* The ring holds what is between tail and head, and the head is free.
LEMMA RingIndices ==
  ASSUME NEW h \in Indices, NEW t \in Indices
  PROVE  /\ HeldOf(h, t) \in 0 .. Slots - 1 /\ (HeldOf(h, t) = 0 <=> h = t)
         /\ (t + HeldOf(h, t)) % Slots = h
         /\ \A i \in 0 .. HeldOf(h, t) - 1 : (t + i) % Slots \in Indices \ {h}
<1>1. HeldOf(h, t) \in 0 .. Slots - 1 /\ (HeldOf(h, t) = 0 <=> h = t)
  BY HeldIs, SlotsAssumption DEF Indices
<1> DEFINE n == HeldOf(h, t)
<1>2. n = IF t <= h THEN h - t ELSE h + Slots - t  BY HeldIs
<1> HIDE DEF n
<1>3. (t + n) % Slots = h
  <2>1. (t + n) % Slots = IF t + n < Slots THEN t + n ELSE t + n - Slots  BY <1>1, PlaceIs DEF n
  <2> QED  BY <1>2, <2>1, SlotsAssumption DEF Indices
<1>4. ASSUME NEW i \in 0 .. n - 1 PROVE (t + i) % Slots \in Indices \ {h}
  <2>1. i \in 0 .. Slots - 1  BY <1>1, SlotsAssumption DEF n
  <2>2. (t + i) % Slots = IF t + i < Slots THEN t + i ELSE t + i - Slots  BY <2>1, PlaceIs
  <2> QED  BY <1>2, <2>1, <2>2, SlotsAssumption DEF Indices
<1> QED  BY <1>1, <1>3, <1>4 DEF n

LEMMA HeadAdvances ==
  ASSUME NEW h \in Indices, NEW t \in Indices, Advance(h) # t
  PROVE  HeldOf(Advance(h), t) = HeldOf(h, t) + 1 /\ HeldOf(h, t) + 1 \in 1 .. Slots - 1
<1>1. Advance(h) \in Indices /\ Advance(h) = IF h + 1 = Slots THEN 0 ELSE h + 1
  BY AdvanceTypes, AdvanceIs
<1>2. HeldOf(h, t) = IF t <= h THEN h - t ELSE h + Slots - t  BY HeldIs
<1>3. HeldOf(Advance(h), t) = IF t <= Advance(h) THEN Advance(h) - t ELSE Advance(h) + Slots - t
  BY <1>1, HeldIs
<1> QED  BY <1>1, <1>2, <1>3, SlotsAssumption DEF Indices

LEMMA TailAdvances ==
  ASSUME NEW h \in Indices, NEW t \in Indices, h # t
  PROVE  /\ HeldOf(h, Advance(t)) = HeldOf(h, t) - 1 /\ HeldOf(h, t) \in 1 .. Slots - 1
         /\ Advance(h) # Advance(t)
         /\ \A i \in 0 .. Slots - 2 : (Advance(t) + i) % Slots = (t + (i + 1)) % Slots
<1>1. Advance(t) \in Indices  BY AdvanceTypes
<1>2. HeldOf(h, Advance(t)) = HeldOf(h, t) - 1 /\ HeldOf(h, t) \in 1 .. Slots - 1
  BY <1>1, AdvanceIs, HeldIs, SlotsAssumption DEF Indices
<1>3. Advance(h) # Advance(t)  BY AdvanceIs, SlotsAssumption DEF Indices
<1>4. ASSUME NEW i \in 0 .. Slots - 2
      PROVE  (Advance(t) + i) % Slots = (t + (i + 1)) % Slots
  <2>1. i + 1 \in 0 .. Slots - 1 /\ i \in 0 .. Slots - 1  BY SlotsAssumption
  <2>2. (Advance(t) + i) % Slots
          = IF Advance(t) + i < Slots THEN Advance(t) + i ELSE Advance(t) + i - Slots
    BY <1>1, <2>1, PlaceIs
  <2>3. (t + (i + 1)) % Slots
          = IF t + (i + 1) < Slots THEN t + (i + 1) ELSE t + (i + 1) - Slots
    BY <2>1, PlaceIs
  <2> QED  BY <2>1, <2>2, <2>3, AdvanceIs, SlotsAssumption DEF Indices
<1> QED  BY <1>2, <1>3, <1>4

Filled == [Indices -> Seq(Nat)]
Numbers(slots, h, t) == [i \in 1 .. HeldOf(h, t) |-> WholeIn(slots[(t + i - 1) % Slots])]

LEMMA WholeTypes == \A s \in Seq(Nat) : WholeIn(s) \in Nat
BY DEF WholeIn

LEMMA WholeOfTwo ==
  ASSUME NEW n \in Nat
  PROVE  WholeIn(<<n, n>>) = n /\ Append(<<n>>, n) = <<n, n>>
<1>1. Len(<<n, n>>) = 2 /\ <<n, n>>[1] = n /\ <<n, n>>[2] = n  OBVIOUS
<1>2. Append(<<n>>, n) = <<n, n>>
  <2>1. <<n>> \in Seq(Nat) /\ <<n, n>> \in Seq(Nat) /\ Len(<<n>>) = 1 /\ <<n>>[1] = n  OBVIOUS
  <2>2. /\ Append(<<n>>, n) \in Seq(Nat) /\ Len(Append(<<n>>, n)) = 2
        /\ Append(<<n>>, n)[1] = n /\ Append(<<n>>, n)[2] = n
    BY <2>1, AppendProperties
  <2> DEFINE a == Append(<<n>>, n)
             b == <<n, n>>
  <2>3. /\ a \in Seq(Nat) /\ Len(a) = 2 /\ a[1] = n /\ a[2] = n
        /\ b \in Seq(Nat) /\ Len(b) = 2 /\ b[1] = n /\ b[2] = n
    BY <1>1, <2>1, <2>2
  <2> HIDE DEF a, b
  <2>4. \A i \in 1 .. Len(a) : a[i] = b[i]  BY <2>3
  <2>5. a = b  BY <2>3, <2>4, SeqEqual
  <2> QED  BY <2>5 DEF a, b
<1> QED  BY <1>1, <1>2 DEF WholeIn

LEMMA NumbersTypes ==
  ASSUME NEW s \in Filled, NEW h \in Indices, NEW t \in Indices
  PROVE  /\ Numbers(s, h, t) \in Seq(Nat) /\ Len(Numbers(s, h, t)) = HeldOf(h, t)
         /\ DOMAIN Numbers(s, h, t) = 1 .. HeldOf(h, t)
         /\ \A i \in 1 .. HeldOf(h, t) : Numbers(s, h, t)[i] = WholeIn(s[(t + i - 1) % Slots])
<1>1. HeldOf(h, t) \in 0 .. Slots - 1  BY RingIndices
<1>2. ASSUME NEW i \in 1 .. HeldOf(h, t) PROVE WholeIn(s[(t + i - 1) % Slots]) \in Nat
  <2>1. i - 1 \in 0 .. HeldOf(h, t) - 1 /\ t + i - 1 = t + (i - 1)
    BY <1>1, SlotsAssumption DEF Indices
  <2>2. (t + i - 1) % Slots \in Indices  BY <2>1, RingIndices
  <2>3. s[(t + i - 1) % Slots] \in Seq(Nat)  BY <2>2 DEF Filled
  <2> QED  BY <2>3, WholeTypes
<1>3. Numbers(s, h, t) \in [1 .. HeldOf(h, t) -> Nat]  BY <1>2 DEF Numbers
<1>4. HeldOf(h, t) \in Nat  BY <1>1, SlotsAssumption
<1>5. Numbers(s, h, t) \in Seq(Nat) /\ Len(Numbers(s, h, t)) = HeldOf(h, t)
  BY <1>3, <1>4, SeqDef
<1> QED  BY <1>3, <1>5 DEF Numbers

\* What is written to the free slot is not held.
LEMMA WriteFree ==
  ASSUME NEW s \in Filled, NEW h \in Indices, NEW t \in Indices, NEW v \in Seq(Nat)
  PROVE  Numbers([s EXCEPT ![h] = v], h, t) = Numbers(s, h, t)
<1> DEFINE u == [s EXCEPT ![h] = v]
<1>1. u \in Filled /\ \A i \in Indices \ {h} : u[i] = s[i]  BY DEF Filled
<1> HIDE DEF u
<1>2. ASSUME NEW i \in 1 .. HeldOf(h, t)
      PROVE  Numbers(u, h, t)[i] = Numbers(s, h, t)[i]
  <2>1. i - 1 \in 0 .. HeldOf(h, t) - 1 /\ t + i - 1 = t + (i - 1)
    BY RingIndices, SlotsAssumption DEF Indices
  <2>2. (t + i - 1) % Slots \in Indices \ {h}  BY <2>1, RingIndices
  <2> QED  BY <1>1, <2>2, NumbersTypes
<1>3. Numbers(u, h, t) = Numbers(s, h, t)
  BY <1>1, <1>2, NumbersTypes, SeqEqual
<1> QED  BY <1>3 DEF u

LEMMA NumbersPut ==
  ASSUME NEW s \in Filled, NEW h \in Indices, NEW t \in Indices, Advance(h) # t
  PROVE  Numbers(s, Advance(h), t) = Append(Numbers(s, h, t), WholeIn(s[h]))
<1> DEFINE a == Numbers(s, Advance(h), t)
           b == Numbers(s, h, t)
           n == HeldOf(h, t)
<1>1. Advance(h) \in Indices /\ HeldOf(Advance(h), t) = n + 1 /\ n \in Nat
  BY AdvanceTypes, HeadAdvances, RingIndices
<1>2. WholeIn(s[h]) \in Nat  BY WholeTypes DEF Filled
<1>3. /\ b \in Seq(Nat) /\ Len(b) = n
      /\ \A i \in 1 .. n : b[i] = WholeIn(s[(t + i - 1) % Slots])
  BY NumbersTypes
<1>4. /\ a \in Seq(Nat) /\ Len(a) = n + 1
      /\ \A i \in 1 .. n + 1 : a[i] = WholeIn(s[(t + i - 1) % Slots])
  BY <1>1, NumbersTypes
<1>5. (t + n) % Slots = h /\ t + (n + 1) - 1 = t + n
  BY <1>1, RingIndices DEF Indices
<1> HIDE DEF a, b, n
<1>6. /\ Append(b, WholeIn(s[h])) \in Seq(Nat) /\ Len(Append(b, WholeIn(s[h]))) = n + 1
      /\ \A i \in 1 .. n : Append(b, WholeIn(s[h]))[i] = b[i]
      /\ Append(b, WholeIn(s[h]))[n + 1] = WholeIn(s[h])
  BY <1>1, <1>2, <1>3, AppendProperties
<1>7. ASSUME NEW i \in 1 .. n + 1 PROVE a[i] = Append(b, WholeIn(s[h]))[i]
  <2>1. CASE i = n + 1  BY <1>1, <1>4, <1>5, <1>6, <2>1
  <2>2. CASE i # n + 1
    <3>1. i \in 1 .. n  BY <1>1, <2>2
    <3> QED  BY <1>3, <1>4, <1>6, <3>1
  <2> QED  BY <2>1, <2>2
<1>8. a = Append(b, WholeIn(s[h]))  BY <1>4, <1>6, <1>7, SeqEqual
<1> QED  BY <1>8 DEF a, b

LEMMA NumbersTake ==
  ASSUME NEW s \in Filled, NEW h \in Indices, NEW t \in Indices, h # t
  PROVE  /\ Numbers(s, h, Advance(t)) = Tail(Numbers(s, h, t))
         /\ SubSeq(Numbers(s, h, t), 2, HeldOf(h, t)) = Tail(Numbers(s, h, t))
         /\ Numbers(s, h, t) # <<>> /\ Head(Numbers(s, h, t)) = WholeIn(s[t])
<1> DEFINE a == Numbers(s, h, Advance(t))
           b == Numbers(s, h, t)
           n == HeldOf(h, t)
<1>1. /\ Advance(t) \in Indices /\ HeldOf(h, Advance(t)) = n - 1 /\ n \in 1 .. Slots - 1
      /\ \A i \in 0 .. Slots - 2 : (Advance(t) + i) % Slots = (t + (i + 1)) % Slots
  BY AdvanceTypes, TailAdvances
<1>2. /\ b \in Seq(Nat) /\ Len(b) = n
      /\ \A i \in 1 .. n : b[i] = WholeIn(s[(t + i - 1) % Slots])
  BY NumbersTypes
<1>3. /\ a \in Seq(Nat) /\ Len(a) = n - 1
      /\ \A i \in 1 .. n - 1 : a[i] = WholeIn(s[(Advance(t) + i - 1) % Slots])
  BY <1>1, NumbersTypes
<1>4. (t + 1 - 1) % Slots = t
  <2>1. t + 1 - 1 = t /\ t \in 0 .. Slots - 1  BY SlotsAssumption DEF Indices
  <2> QED  BY <2>1, Wraps, SlotsAssumption
<1> HIDE DEF a, b, n
<1>5. b # <<>> /\ Head(b) = b[1] /\ b[1] = WholeIn(s[t])
  BY <1>1, <1>2, <1>4, SlotsAssumption
<1>6. Tail(b) \in Seq(Nat) /\ Len(Tail(b)) = n - 1 /\ \A i \in 1 .. n - 1 : Tail(b)[i] = b[i + 1]
  BY <1>2, <1>5, HeadTailProperties
<1>7. ASSUME NEW i \in 1 .. n - 1 PROVE a[i] = Tail(b)[i]
  <2>1. /\ i - 1 \in 0 .. Slots - 2 /\ i + 1 \in 1 .. n /\ (i - 1) + 1 = i
        /\ Advance(t) + i - 1 = Advance(t) + (i - 1) /\ t + (i + 1) - 1 = t + i
    BY <1>1, SlotsAssumption DEF Indices
  <2>2. (Advance(t) + (i - 1)) % Slots = (t + i) % Slots  BY <1>1, <2>1
  <2>3. a[i] = WholeIn(s[(t + i) % Slots])  BY <1>3, <2>1, <2>2
  <2>4. b[i + 1] = WholeIn(s[(t + i) % Slots])  BY <1>2, <2>1
  <2> QED  BY <1>6, <2>3, <2>4
<1>8. a = Tail(b)  BY <1>3, <1>6, <1>7, SeqEqual
<1>9. SubSeq(b, 2, n) = Tail(b)  BY <1>2, <1>5, TailIsSubSeq
<1> QED  BY <1>5, <1>8, <1>9 DEF a, b, n

-----------------------------------------------------------------------------
(* The ring carries the messages as CommandChannel promises.               *)

Taken == IF out = <<>> THEN 0 ELSE WholeIn(out)
Waiting == IF at = "advance" THEN SubSeq(HeldNumbers, 2, Held) ELSE HeldNumbers
Numbered == UNION {1 .. b.messages : b \in Budgets}

\* Fragments are taken from the client in use, or from one that was in use when
\* its callback began.
Listens == Live \/ callback.step = "runs"
Assembling == Listens /\ ring.message = "assembling"

\* The message that is coming in may still get its place.
Filling == incoming.part = 1 \/ Assembling \/ callback.step = "publishes"
Before(n) == n < incoming.number \/ (n = incoming.number /\ ~Filling)

\* The head's slot holds what has arrived of the message that is assembled.
FreeSlot ==
  /\ Assembling => /\ ring.slots[ring.head] = <<incoming.number>> /\ ~Full
                   /\ incoming.part = 1 <=> callback.kind # "Data"
  /\ callback.step = "publishes" =>
       /\ ring.slots[ring.head] = <<incoming.number, incoming.number>> /\ ~Full
       /\ incoming.part = 2 /\ ring.message # "assembling"

RingInv ==
  /\ at = "advance" => ring.head # ring.tail
  /\ Before(Taken) /\ \A i \in DOMAIN HeldNumbers : Before(HeldNumbers[i])
  /\ FreeSlot
  /\ client.gen = 0 => ring.head = ring.tail /\ ring.message = "none"
  /\ \E b \in Budgets : incoming.number + left.messages <= b.messages

LEMMA RingTypes ==
  ASSUME TypeInv
  PROVE  /\ ring.slots \in Filled /\ ring.head \in Indices /\ ring.tail \in Indices
         /\ Held = HeldOf(ring.head, ring.tail)
         /\ HeldNumbers = Numbers(ring.slots, ring.head, ring.tail)
         /\ Taken \in Nat /\ HeldNumbers \in Seq(Nat) /\ Len(HeldNumbers) = Held
         /\ DOMAIN HeldNumbers = 1 .. Held /\ Held \in 0 .. Slots - 1
         /\ Held = 0 <=> ring.head = ring.tail
<1>1. ring.slots \in Filled /\ ring.head \in Indices /\ ring.tail \in Indices
  BY DEF TypeInv, CmdTypes, Rings, Filled
<1>2. Held = HeldOf(ring.head, ring.tail)  BY DEF Held, HeldOf
<1>3. HeldNumbers = Numbers(ring.slots, ring.head, ring.tail)
  BY DEF HeldNumbers, Numbers, Held, HeldOf
<1>4. Taken \in Nat  BY WholeTypes DEF Taken, TypeInv, CmdTypes
<1> QED  BY <1>1, <1>2, <1>3, <1>4, NumbersTypes, RingIndices

\* The numbers that can be taken: all that is held, but for the oldest one
\* while it is being taken.
LEMMA WaitingIs ==
  ASSUME TypeInv, at = "advance" => ring.head # ring.tail
  PROVE  /\ Waiting \in Seq(Nat) /\ Len(Waiting) <= Held
         /\ at = "advance" => Waiting = Tail(HeldNumbers) /\ HeldNumbers # <<>>
         /\ at # "advance" => Waiting = HeldNumbers
         /\ \A i \in DOMAIN Waiting : \E j \in DOMAIN HeldNumbers : Waiting[i] = HeldNumbers[j]
<1>1. CASE at # "advance"  BY <1>1, RingTypes DEF Waiting
<1>2. CASE at = "advance"
  <2>1. Waiting = Tail(HeldNumbers) /\ HeldNumbers # <<>>
    BY <1>2, RingTypes, NumbersTake DEF Waiting
  <2>2. /\ Tail(HeldNumbers) \in Seq(Nat) /\ Len(Tail(HeldNumbers)) = Len(HeldNumbers) - 1
        /\ \A i \in 1 .. Len(Tail(HeldNumbers)) : Tail(HeldNumbers)[i] = HeldNumbers[i + 1]
    BY <2>1, RingTypes, HeadTailProperties
  <2>3. Held \in Nat /\ Len(HeldNumbers) = Held /\ DOMAIN HeldNumbers = 1 .. Held
    BY RingTypes, SlotsAssumption
  <2>4. DOMAIN Waiting = 1 .. Len(Waiting)  BY <2>1, <2>2
  <2>5. ASSUME NEW i \in DOMAIN Waiting
        PROVE  \E j \in DOMAIN HeldNumbers : Waiting[i] = HeldNumbers[j]
    <3>1. i + 1 \in DOMAIN HeldNumbers /\ Waiting[i] = HeldNumbers[i + 1]
      BY <2>1, <2>2, <2>3, <2>4
    <3> QED  BY <3>1
  <2> QED  BY <1>2, <2>1, <2>2, <2>3, <2>5
<1> QED  BY <1>1, <1>2

\* The three steps of the channel, in the words of the ring.
Mapped == <<Waiting, Taken, client.gen>>

LEMMA PutMaps ==
  ASSUME NEW n \in Numbered, Len(Waiting) < Slots - 1, Taken < n,
         \A i \in DOMAIN Waiting : Waiting[i] < n,
         Waiting' = Append(Waiting, n), Taken' = Taken, client'.gen = client.gen
  PROVE  Commands!Next
<1>1. Commands!Put(n)  BY DEF Commands!Put, Waiting, Taken
<1> QED  BY <1>1 DEF Commands!Next, Numbered

LEMMA TakeMaps ==
  ASSUME Waiting # <<>>, Taken' = Head(Waiting), Waiting' = Tail(Waiting),
         client'.gen = client.gen
  PROVE  Commands!Next
<1>1. Commands!Take  BY DEF Commands!Take, Waiting, Taken
<1> QED  BY <1>1 DEF Commands!Next

LEMMA RenewMaps ==
  ASSUME client'.gen # client.gen, Waiting' = <<>>, Taken' = Taken
  PROVE  Commands!Next
<1>1. Commands!Renew  BY DEF Commands!Renew, Waiting, Taken
<1> QED  BY <1>1 DEF Commands!Next

\* Steps that leave the ring alone, and give its head no new message.
LEMMA RingRests ==
  ASSUME TypeInv, RingInv, UNCHANGED <<ring, out, incoming>>, client'.gen = client.gen,
         left'.messages = left.messages,
         (at' = at) \/ (at # "advance" /\ at' # "advance"),
         Assembling' => Assembling /\ (callback'.kind # "Data" <=> callback.kind # "Data"),
         callback'.step = "publishes" <=> callback.step = "publishes"
  PROVE  RingInv' /\ UNCHANGED Mapped
<1>1. /\ HeldNumbers' = HeldNumbers /\ Held' = Held /\ Full' = Full /\ Taken' = Taken
      /\ Waiting' = Waiting
  BY DEF HeldNumbers, Held, Full, Advance, Taken, Waiting
<1>2. \A n : Before(n) => Before(n)'
  BY DEF Before, Filling
<1>3. FreeSlot'  BY <1>1 DEF RingInv, FreeSlot
<1>4. UNCHANGED Mapped  BY <1>1 DEF Mapped
<1> QED  BY <1>1, <1>2, <1>3, <1>4 DEF RingInv

\* What is left of the messages, after a step that spends something else.
LEMMA SpendOther ==
  ASSUME left \in Lefts, NEW what \in {"logs", "changes", "switches", "clients"}, Spend(what)
  PROVE  left'.messages = left.messages
BY DEF Spend, Lefts

LEMMA RingOfOthers ==
  ASSUME TypeInv, RingInv, Between \/ Events \/ Others
  PROVE  RingInv' /\ UNCHANGED Mapped
<1>1. UNCHANGED <<ring, out, incoming, client, active, callback>>
  BY DEF Between, SyncWithWifi, RequestReconnect, ApplySavedSettings, BeginPoll, Events, BeginEvents,
     SkipEvents, PeekEvent, PublishEvent, DiscardEvent, Others, LogEvent, StoreEvent, ChangeState,
     StoreSnapshot, ReleaseRequest, OnlyManager, OnlyPublisher, OnlyAt, cmdVars, linkVars
<1>2. (at' = at) \/ (at # "advance" /\ at' # "advance")
  BY DEF Between, SyncWithWifi, RequestReconnect, ApplySavedSettings, BeginPoll, Events, BeginEvents,
     SkipEvents, PeekEvent, PublishEvent, DiscardEvent, Others, LogEvent, StoreEvent, ChangeState,
     StoreSnapshot, ReleaseRequest, OnlyAt, Go, netVars
<1>3. left' = left \/ \E what \in {"logs", "changes", "switches", "clients"} : Spend(what)
  BY DEF Between, SyncWithWifi, RequestReconnect, ApplySavedSettings, BeginPoll, Events, BeginEvents,
     SkipEvents, PeekEvent, PublishEvent, DiscardEvent, Others, LogEvent, StoreEvent, ChangeState,
     StoreSnapshot, ReleaseRequest, OnlyPublisher, OnlyAt
<1>4. left'.messages = left.messages  BY <1>3, SpendOther DEF TypeInv
<1>5. Assembling' => Assembling  BY <1>1 DEF Assembling, Listens, Live
<1> QED  BY <1>1, <1>2, <1>4, <1>5, RingRests

LEMMA RingOfCallback ==
  ASSUME TypeInv, SessionInv, RingInv, LinkUp \/ LinkDown \/ EnterEvent \/ StoreSignal
  PROVE  RingInv' /\ UNCHANGED Mapped
<1> USE DEF TypeInv
<1>1. UNCHANGED <<at, active, ring, out, incoming, left>>
  BY DEF LinkUp, LinkDown, EnterEvent, StoreSignal, netVars, cmdVars
<1>2. CASE LinkUp \/ LinkDown
  <2>1. /\ client'.gen = client.gen /\ callback'.kind # "Data" /\ callback'.step = "enters"
    BY <1>2 DEF LinkUp, LinkDown, Call, LinkTypes, Clients
  <2>2. callback.kind = "none" /\ callback.step = "enters"
    BY <1>2 DEF LinkUp, LinkDown, Idle, SessionInv, LinkShape
  <2>3. Assembling' => Assembling  BY <1>1, <2>1, <2>2 DEF Assembling, Listens, Live
  <2> QED  BY <1>1, <2>1, <2>2, <2>3, RingRests
<1>3. CASE EnterEvent
  <2>1. UNCHANGED client /\ callback.step = "enters" /\ ~Idle  BY <1>3 DEF EnterEvent
  <2>2. CASE active = client.gen
    <3>1. callback'.kind = callback.kind /\ callback'.step = "runs"
      BY <1>3, <2>2 DEF EnterEvent, LinkTypes, Callbacks
    <3>2. Live  BY <2>1, <2>2 DEF Live, SessionInv, LinkShape
    <3>3. Assembling' => Assembling  BY <1>1, <2>1, <3>2 DEF Assembling, Listens
    <3> QED  BY <1>1, <2>1, <3>1, <3>3, RingRests
  <2>3. CASE active # client.gen
    <3>1. callback'.step = "enters"  BY <1>3, <2>3 DEF EnterEvent, Return
    <3>2. ~Assembling'  BY <1>1, <2>1, <2>3, <3>1 DEF Assembling, Listens, Live
    <3> QED  BY <1>1, <2>1, <3>1, <3>2, RingRests
  <2> QED  BY <2>2, <2>3
<1>4. CASE StoreSignal
  <2>1. /\ UNCHANGED client /\ callback.step = "runs" /\ callback.kind # "Data"
        /\ callback'.kind = "none" /\ callback'.step = "enters"
    BY <1>4 DEF StoreSignal, Return
  <2>2. Assembling' => Assembling  BY <1>1, <2>1 DEF Assembling, Listens
  <2> QED  BY <1>1, <2>1, <2>2, RingRests
<1> QED  BY <1>2, <1>3, <1>4

\* The next fragment: of the message that is coming in, or of the next one.
LEMMA RingOfArrive ==
  ASSUME TypeInv, SessionInv, RingInv, Arrive
  PROVE  RingInv' /\ UNCHANGED Mapped
<1> USE DEF TypeInv
<1>1. /\ UNCHANGED <<at, client, active, ring, out>> /\ callback'.kind = "Data"
      /\ callback'.step = "enters"
  BY DEF Arrive, netVars, Call
<1>2. callback.kind = "none" /\ callback.step = "enters"
  BY DEF Arrive, Idle, SessionInv, LinkShape
<1>3. /\ HeldNumbers' = HeldNumbers /\ Held' = Held /\ Full' = Full /\ Taken' = Taken
      /\ Waiting' = Waiting
  BY <1>1 DEF HeldNumbers, Held, Full, Advance, Taken, Waiting
<1>4. UNCHANGED Mapped  BY <1>1, <1>3 DEF Mapped
<1>5. Assembling' <=> Assembling  BY <1>1, <1>2 DEF Assembling, Listens, Live
<1>6. CASE incoming.part = 1
  <2>1. /\ incoming'.number = incoming.number /\ incoming'.part = 2 /\ left' = left
    BY <1>6 DEF Arrive, CmdTypes
  <2>2. \A n : Before(n) => Before(n)'
    BY <1>1, <1>6, <2>1 DEF Before, Filling
  <2>3. FreeSlot'  BY <1>1, <1>2, <1>3, <1>5, <1>6, <2>1 DEF RingInv, FreeSlot
  <2> QED  BY <1>1, <1>3, <1>4, <2>1, <2>2, <2>3 DEF RingInv
<1>7. CASE incoming.part = 2
  <2>1. incoming'.number = incoming.number + 1 /\ incoming'.part = 1
    BY <1>7 DEF Arrive, CmdTypes
  <2>2. left'.messages = left.messages - 1 /\ left.messages \in Nat
    BY <1>7 DEF Arrive, Spend, Lefts
  <2>3. \A n \in Nat : Before(n) => Before(n)'
    BY <2>1 DEF Before, CmdTypes
  <2>4. ~Assembling  BY <1>2, <1>7 DEF RingInv, FreeSlot
  <2>5. FreeSlot'  BY <1>1, <1>5, <2>4 DEF FreeSlot
  <2>6. \E b \in Budgets : incoming'.number + left'.messages <= b.messages
    <3>1. PICK b \in Budgets : incoming.number + left.messages <= b.messages  BY DEF RingInv
    <3>2. incoming.number + 1 + (left.messages - 1) = incoming.number + left.messages
      BY <2>2 DEF CmdTypes
    <3> QED  BY <2>1, <2>2, <3>1, <3>2
  <2>7. Taken \in Nat /\ \A i \in DOMAIN HeldNumbers : HeldNumbers[i] \in Nat  BY RingTypes
  <2> QED  BY <1>1, <1>3, <1>4, <2>3, <2>5, <2>6, <2>7 DEF RingInv
<1> QED  BY <1>6, <1>7 DEF CmdTypes

\* Writing to the head's slot changes nothing of what is held.
LEMMA WriteKeeps ==
  ASSUME TypeInv, TypeInv', NEW s \in Seq(Nat),
         ring'.slots = [ring.slots EXCEPT ![ring.head] = s] \/ ring'.slots = ring.slots,
         ring'.head = ring.head, ring'.tail = ring.tail, UNCHANGED <<at, out>>
  PROVE  /\ HeldNumbers' = HeldNumbers /\ Held' = Held /\ Full' = Full /\ Taken' = Taken
         /\ Waiting' = Waiting
<1>1. HeldNumbers' = Numbers(ring'.slots, ring'.head, ring'.tail)
  BY DEF HeldNumbers, Numbers, Held, HeldOf
<1>2. Numbers(ring'.slots, ring.head, ring.tail) = Numbers(ring.slots, ring.head, ring.tail)
  BY RingTypes, WriteFree
<1>3. HeldNumbers' = HeldNumbers  BY <1>1, <1>2, RingTypes
<1> QED  BY <1>3 DEF Held, Full, Advance, Taken, Waiting

LEMMA RingOfFirst ==
  ASSUME TypeInv, TypeInv', SessionInv, RingInv, PushFirst
  PROVE  RingInv' /\ UNCHANGED Mapped
<1>1. /\ UNCHANGED <<at, client, active, out, incoming, left>> /\ incoming.part = 1
      /\ callback.kind = "Data" /\ callback.step = "runs"
      /\ callback'.kind = "none" /\ callback'.step = "enters"
  BY DEF PushFirst, OnlyRing, netVars, Return
<1>2. ring \in Rings /\ <<incoming.number>> \in Seq(Nat)  BY DEF TypeInv, CmdTypes
<1>3. /\ ring'.head = ring.head /\ ring'.tail = ring.tail
      /\ \/ /\ ring'.slots = [ring.slots EXCEPT ![ring.head] = <<incoming.number>>]
            /\ ring'.message = "assembling" /\ ~Full
         \/ ring'.slots = ring.slots /\ ring'.message = "dropping"
  <2>1. CASE /\ ring' = [ring EXCEPT !.slots[ring.head] = <<incoming.number>>,
                                     !.message = "assembling"]
             /\ ~Full
    <3>1. /\ ring'.slots = [ring.slots EXCEPT ![ring.head] = <<incoming.number>>]
          /\ ring'.head = ring.head /\ ring'.tail = ring.tail /\ ring'.message = "assembling"
      BY <1>2, <2>1, RingSlot
    <3> QED  BY <2>1, <3>1
  <2>2. CASE ring' = [ring EXCEPT !.message = "dropping"]
    BY <1>2, <2>2 DEF Rings
  <2> QED  BY <2>1, <2>2 DEF PushFirst
<1>4. /\ HeldNumbers' = HeldNumbers /\ Held' = Held /\ Full' = Full /\ Taken' = Taken
      /\ Waiting' = Waiting
  BY <1>1, <1>2, <1>3, WriteKeeps
<1>5. \A n : Before(n) => Before(n)'  BY <1>1 DEF Before, Filling
<1>6. FreeSlot'
  <2>1. CASE ring'.message = "assembling"
    <3>1. ring'.slots[ring'.head] = <<incoming.number>> /\ ~Full
      BY <1>2, <1>3, <2>1 DEF Rings
    <3> QED  BY <1>1, <1>4, <3>1 DEF FreeSlot
  <2>2. CASE ring'.message # "assembling"  BY <1>1, <2>2 DEF FreeSlot, Assembling
  <2> QED  BY <2>1, <2>2
<1>7. client'.gen # 0  BY <1>1 DEF SessionInv, LinkShape, Idle
<1>8. UNCHANGED Mapped  BY <1>1, <1>4 DEF Mapped
<1> QED  BY <1>1, <1>3, <1>4, <1>5, <1>6, <1>7, <1>8 DEF RingInv

LEMMA RingOfRest ==
  ASSUME TypeInv, TypeInv', SessionInv, RingInv, PushRest
  PROVE  RingInv' /\ UNCHANGED Mapped
<1>1. /\ UNCHANGED <<at, client, active, out, incoming, left>> /\ incoming.part = 2
      /\ callback.kind = "Data" /\ callback.step = "runs"
  BY DEF PushRest, OnlyRing, netVars
<1>2. /\ ring \in Rings /\ incoming.number \in Nat /\ callback \in Callbacks
      /\ Append(ring.slots[ring.head], incoming.number) \in Seq(Nat)
  BY DEF TypeInv, CmdTypes, LinkTypes, Rings
<1> DEFINE s == Append(ring.slots[ring.head], incoming.number)
<1>3. /\ ring'.head = ring.head /\ ring'.tail = ring.tail /\ ring'.message = "none"
      /\ \/ /\ ring'.slots = [ring.slots EXCEPT ![ring.head] = s] /\ ring.message = "assembling"
            /\ callback'.step = "publishes"
         \/ /\ ring'.slots = ring.slots /\ ring.message # "assembling"
            /\ callback'.step = "enters"
  <2>1. CASE ring.message = "assembling"
    <3>1. /\ ring' = [ring EXCEPT !.slots[ring.head] = s, !.message = "none"]
          /\ callback' = [callback EXCEPT !.step = "publishes"]
      BY <2>1 DEF PushRest
    <3>2. callback'.step = "publishes"  BY <1>2, <3>1 DEF Callbacks
    <3> HIDE DEF s
    <3>3. s \in Seq(Nat)  BY <1>2 DEF s
    <3>4. /\ ring'.slots = [ring.slots EXCEPT ![ring.head] = s]
          /\ ring'.head = ring.head /\ ring'.tail = ring.tail /\ ring'.message = "none"
      BY <1>2, <3>1, <3>3, RingSlot
    <3> QED  BY <2>1, <3>2, <3>4
  <2>2. CASE ring.message # "assembling"
    <3>1. ring' = [ring EXCEPT !.message = "none"] /\ Return  BY <2>2 DEF PushRest
    <3> QED  BY <1>2, <2>2, <3>1 DEF Rings, Return
  <2> QED  BY <2>1, <2>2
<1> HIDE DEF s
<1>4. /\ HeldNumbers' = HeldNumbers /\ Held' = Held /\ Full' = Full /\ Taken' = Taken
      /\ Waiting' = Waiting
  BY <1>1, <1>2, <1>3, WriteKeeps DEF s
<1>5. Assembling <=> ring.message = "assembling"  BY <1>1 DEF Assembling, Listens
<1>6. \A n : Before(n) => Before(n)'
  <2>1. Filling' => Filling  BY <1>1, <1>3, <1>5 DEF Filling, Assembling
  <2> QED  BY <1>1, <2>1 DEF Before
<1>7. FreeSlot'
  <2>1. ~Assembling'  BY <1>3 DEF Assembling
  <2>2. ASSUME callback'.step = "publishes"
        PROVE  ring'.slots[ring'.head] = <<incoming.number, incoming.number>> /\ ~Full
    <3>1. ring.message = "assembling" /\ ring'.slots = [ring.slots EXCEPT ![ring.head] = s]
      BY <1>3, <2>2
    <3>2. ring.slots[ring.head] = <<incoming.number>> /\ ~Full
      BY <1>5, <3>1 DEF RingInv, FreeSlot
    <3>3. s = <<incoming.number, incoming.number>>  BY <1>2, <3>2, WholeOfTwo DEF s
    <3> QED  BY <1>2, <1>3, <3>1, <3>2, <3>3 DEF Rings
  <2> QED  BY <1>1, <1>3, <1>4, <2>1, <2>2 DEF FreeSlot
<1>8. client'.gen # 0  BY <1>1 DEF SessionInv, LinkShape, Idle
<1>9. UNCHANGED Mapped  BY <1>1, <1>4 DEF Mapped
<1> QED  BY <1>1, <1>3, <1>4, <1>6, <1>7, <1>8, <1>9 DEF RingInv

LEMMA PublishMaps ==
  ASSUME TypeInv, TypeInv', SessionInv, RingInv, PublishHead
  PROVE  RingInv' /\ Commands!Next
<1> DEFINE n == incoming.number
           h == ring.head
           t == ring.tail
<1>1. /\ UNCHANGED <<at, client, active, out, incoming, left>> /\ callback.step = "publishes"
      /\ callback'.kind = "none" /\ callback'.step = "enters"
  BY DEF PublishHead, OnlyRing, netVars, Return
<1>2. /\ ring.slots[h] = <<n, n>> /\ ~Full /\ incoming.part = 2 /\ ring.message # "assembling"
  BY <1>1 DEF RingInv, FreeSlot
<1>3. ring \in Rings /\ ring.slots \in Filled /\ h \in Indices /\ t \in Indices /\ n \in Nat
  BY DEF TypeInv, CmdTypes, Rings, Filled
<1>4. /\ ring'.slots = ring.slots /\ ring'.head = Advance(h) /\ ring'.tail = t
      /\ ring'.message = ring.message
  BY <1>3 DEF PublishHead, Rings
<1>5. Advance(h) # t  BY <1>2 DEF Full
<1>6. WholeIn(ring.slots[h]) = n  BY <1>2, <1>3, WholeOfTwo
<1>7. HeldNumbers' = Append(HeldNumbers, n)
  <2>1. HeldNumbers' = Numbers(ring'.slots, ring'.head, ring'.tail)
    BY DEF HeldNumbers, Numbers, Held, HeldOf
  <2>2. Numbers(ring.slots, Advance(h), t) = Append(Numbers(ring.slots, h, t), n)
    BY <1>3, <1>5, <1>6, NumbersPut
  <2> QED  BY <1>4, <2>1, <2>2, RingTypes
<1>8. Held < Slots - 1 /\ Advance(h) \in Indices
  BY <1>3, <1>5, HeadAdvances, RingTypes, AdvanceTypes, SlotsAssumption
<1>9. at = "advance" => h # t  BY DEF RingInv
<1>10. /\ Waiting \in Seq(Nat) /\ Len(Waiting) < Slots - 1
       /\ at = "advance" => Waiting = Tail(HeldNumbers) /\ HeldNumbers # <<>>
       /\ at # "advance" => Waiting = HeldNumbers
       /\ \A i \in DOMAIN Waiting : \E j \in DOMAIN HeldNumbers : Waiting[i] = HeldNumbers[j]
  <2>1. /\ Waiting \in Seq(Nat) /\ Len(Waiting) <= Held
        /\ at = "advance" => Waiting = Tail(HeldNumbers) /\ HeldNumbers # <<>>
        /\ at # "advance" => Waiting = HeldNumbers
        /\ \A i \in DOMAIN Waiting : \E j \in DOMAIN HeldNumbers : Waiting[i] = HeldNumbers[j]
    BY <1>9, WaitingIs
  <2> QED  BY <1>8, <2>1, RingTypes, SlotsAssumption
<1>11. Waiting' = Append(Waiting, n)
  <2>1. CASE at = "advance"
    <3>1. Waiting' = Tail(HeldNumbers')
      <4>1. Held' = HeldOf(Advance(h), t) /\ HeldNumbers' = Numbers(ring.slots, Advance(h), t)
        BY <1>4 DEF HeldNumbers, Numbers, Held, HeldOf
      <4>2. SubSeq(Numbers(ring.slots, Advance(h), t), 2, HeldOf(Advance(h), t))
              = Tail(Numbers(ring.slots, Advance(h), t))
        BY <1>3, <1>5, <1>8, NumbersTake
      <4> QED  BY <1>1, <2>1, <4>1, <4>2 DEF Waiting
    <3>2. Tail(Append(HeldNumbers, n)) = Append(Tail(HeldNumbers), n)
      BY <1>10, <2>1, RingTypes, HeadTailAppend
    <3> QED  BY <1>7, <1>10, <2>1, <3>1, <3>2
  <2>2. CASE at # "advance"  BY <1>1, <1>7, <1>10, <2>2 DEF Waiting
  <2> QED  BY <2>1, <2>2
<1>12. Taken' = Taken /\ Taken \in Nat  BY <1>1, RingTypes DEF Taken
<1>13. Filling /\ ~Filling' /\ ~Assembling'
  BY <1>1, <1>2, <1>4 DEF Filling, Assembling
<1>14. Taken < n /\ \A i \in DOMAIN HeldNumbers : HeldNumbers[i] < n
  BY <1>13 DEF RingInv, Before
<1>15. n \in Numbered
  <2>1. PICK b \in Budgets : n + left.messages <= b.messages  BY DEF RingInv
  <2>2. left.messages \in Nat /\ b.messages \in Nat
    BY BudgetsAssumption DEF TypeInv, Lefts
  <2>3. n \in 1 .. b.messages  BY <1>3, <1>12, <1>14, <2>1, <2>2
  <2> QED  BY <2>3 DEF Numbered
<1>16. Commands!Next
  <2>1. \A i \in DOMAIN Waiting : Waiting[i] < n  BY <1>10, <1>14
  <2> QED  BY <1>1, <1>10, <1>11, <1>12, <1>14, <1>15, <2>1, PutMaps
<1>17. (\A i \in DOMAIN HeldNumbers : Before(HeldNumbers[i]))'
  <2>1. HeldNumbers \in Seq(Nat)  BY RingTypes
  <2>2. ASSUME NEW i \in DOMAIN Append(HeldNumbers, n)
        PROVE  Append(HeldNumbers, n)[i] <= n
    <3>1. i = Len(HeldNumbers) + 1 \/ i \in DOMAIN HeldNumbers  BY <1>3, <2>1, <2>2
    <3>2. CASE i = Len(HeldNumbers) + 1  BY <1>3, <2>1, <3>2, AppendProperties
    <3>3. CASE i \in DOMAIN HeldNumbers
      <4>1. Append(HeldNumbers, n)[i] = HeldNumbers[i] /\ HeldNumbers[i] \in Nat
        BY <1>3, <2>1, <3>3, AppendTo
      <4> QED  BY <1>3, <1>14, <3>3, <4>1
    <3> QED  BY <3>1, <3>2, <3>3
  <2>3. \A i \in DOMAIN Append(HeldNumbers, n) : Append(HeldNumbers, n)[i] \in Nat
    <3>1. Append(HeldNumbers, n) \in Seq(Nat)  BY <1>3, <2>1, AppendTo
    <3> QED  BY <3>1
  <2> QED  BY <1>1, <1>3, <1>7, <1>13, <2>2, <2>3 DEF Before
<1>18. Before(Taken)'  BY <1>1, <1>3, <1>12, <1>14 DEF Before
<1>19. FreeSlot'  BY <1>1, <1>13 DEF FreeSlot
<1>20. client'.gen # 0  BY <1>1 DEF SessionInv, LinkShape, Idle
<1>21. at' = "advance" => ring'.head # ring'.tail  BY <1>4, <1>5
<1> QED  BY <1>1, <1>16, <1>17, <1>18, <1>19, <1>20, <1>21 DEF RingInv

LEMMA PopMaps ==
  ASSUME TypeInv, TypeInv', SessionInv, RingInv, Pop
  PROVE  RingInv' /\ Commands!Next
<1>1. /\ UNCHANGED <<client, active, callback, ring, incoming, left>> /\ at = "commands"
      /\ at' = "advance" /\ ring.tail # ring.head /\ out' = ring.slots[ring.tail]
  BY DEF Pop, Go, linkVars
<1>2. /\ HeldNumbers # <<>> /\ Head(HeldNumbers) = WholeIn(ring.slots[ring.tail])
      /\ SubSeq(HeldNumbers, 2, Held) = Tail(HeldNumbers) /\ HeldNumbers \in Seq(Nat)
  BY <1>1, RingTypes, NumbersTake
<1>3. Taken' = WholeIn(ring.slots[ring.tail])
  <2>1. WholeIn(<<>>) = 0  BY DEF WholeIn
  <2> QED  BY <1>1, <2>1 DEF Taken
<1>4. Waiting = HeldNumbers  BY <1>1 DEF Waiting
<1>5. HeldNumbers' = HeldNumbers /\ Held' = Held /\ Full' = Full
  BY <1>1 DEF HeldNumbers, Held, Full, Advance
<1>6. Waiting' = Tail(HeldNumbers)  BY <1>1, <1>2, <1>5 DEF Waiting
<1>7. Commands!Next
  BY <1>1, <1>2, <1>3, <1>4, <1>6, TakeMaps
<1>8. Assembling' <=> Assembling  BY <1>1 DEF Assembling, Listens, Live
<1>9. \A n : Before(n) => Before(n)'  BY <1>1, <1>8 DEF Before, Filling
<1>10. Before(WholeIn(ring.slots[ring.tail]))
  <2>1. 1 \in DOMAIN HeldNumbers /\ Head(HeldNumbers) = HeldNumbers[1]  BY <1>2
  <2> QED  BY <1>2, <2>1 DEF RingInv
<1>11. FreeSlot'  BY <1>1, <1>5, <1>8 DEF RingInv, FreeSlot
<1>12. Before(Taken)'  BY <1>3, <1>9, <1>10 DEF Before
<1> QED  BY <1>1, <1>5, <1>7, <1>9, <1>11, <1>12 DEF RingInv

LEMMA RingOfAdvance ==
  ASSUME TypeInv, TypeInv', SessionInv, RingInv, PopAdvances
  PROVE  RingInv' /\ UNCHANGED Mapped
<1> DEFINE h == ring.head
           t == ring.tail
<1>1. /\ UNCHANGED <<client, active, callback, out, incoming, left>> /\ at = "advance"
      /\ at' = "commands"
  BY DEF PopAdvances, Go, linkVars
<1>2. ring \in Rings /\ ring.slots \in Filled /\ h \in Indices /\ t \in Indices /\ h # t
  BY <1>1 DEF TypeInv, CmdTypes, Rings, Filled, RingInv
<1>3. /\ ring'.slots = ring.slots /\ ring'.head = h /\ ring'.tail = Advance(t)
      /\ ring'.message = ring.message
  BY <1>2 DEF PopAdvances, Rings
<1>4. HeldNumbers' = Tail(HeldNumbers) /\ HeldNumbers # <<>>
  <2>1. HeldNumbers' = Numbers(ring'.slots, ring'.head, ring'.tail)
    BY DEF HeldNumbers, Numbers, Held, HeldOf
  <2> QED  BY <1>2, <1>3, <2>1, NumbersTake, RingTypes
<1>5. Waiting = Tail(HeldNumbers)  BY <1>1, <1>2, WaitingIs
<1>6. Waiting' = Waiting /\ Taken' = Taken  BY <1>1, <1>4, <1>5 DEF Waiting, Taken
<1>7. UNCHANGED Mapped  BY <1>1, <1>6 DEF Mapped
<1>8. Assembling' <=> Assembling  BY <1>1, <1>3 DEF Assembling, Listens, Live
<1>9. \A n : Before(n) => Before(n)'  BY <1>1, <1>8 DEF Before, Filling
<1>10. (\A i \in DOMAIN HeldNumbers : Before(HeldNumbers[i]))'
  <2>1. HeldNumbers \in Seq(Nat)  BY RingTypes
  <2>2. ASSUME NEW i \in DOMAIN Tail(HeldNumbers)
        PROVE  \E j \in DOMAIN HeldNumbers : Tail(HeldNumbers)[i] = HeldNumbers[j]
    <3>1. /\ Tail(HeldNumbers) \in Seq(Nat) /\ Len(Tail(HeldNumbers)) = Len(HeldNumbers) - 1
          /\ \A k \in 1 .. Len(Tail(HeldNumbers)) : Tail(HeldNumbers)[k] = HeldNumbers[k + 1]
      BY <1>4, <2>1, HeadTailProperties
    <3>2. i \in 1 .. Len(Tail(HeldNumbers)) /\ i + 1 \in DOMAIN HeldNumbers
      BY <2>1, <2>2, <3>1
    <3> QED  BY <3>1, <3>2
  <2> QED  BY <1>4, <1>9, <2>2 DEF RingInv
<1>11. Full' => Full
  BY <1>2, <1>3, TailAdvances DEF Full, Advance
<1>12. FreeSlot'  BY <1>1, <1>3, <1>8, <1>11 DEF RingInv, FreeSlot
<1>13. client'.gen # 0  BY <1>1, <1>2 DEF RingInv
<1> QED  BY <1>1, <1>6, <1>7, <1>9, <1>10, <1>12, <1>13 DEF RingInv

\* The ring is empty, and has nothing of a message that is still to be finished.
LEMMA EmptyMaps ==
  ASSUME TypeInv, ring.head = ring.tail, at # "advance"
  PROVE  HeldNumbers = <<>> /\ Waiting = <<>>
<1>1. HeldNumbers = <<>>  BY RingTypes
<1> QED  BY <1>1 DEF Waiting

LEMMA DestroyMaps ==
  ASSUME TypeInv, TypeInv', SessionInv, RingInv, EndDestroy
  PROVE  RingInv' /\ (Commands!Next \/ UNCHANGED Mapped)
<1> USE DEF TypeInv
<1>1. /\ UNCHANGED <<active, callback, out, left>> /\ at # "advance" /\ at' # "advance"
      /\ callback.kind = "none" /\ callback.step = "enters"
  BY DEF EndDestroy, Go, Idle, SessionInv, LinkShape
<1>2. CASE UNCHANGED <<client, ring, incoming>>
  <2>1. Assembling' => Assembling  BY <1>1, <1>2 DEF Assembling, Listens, Live
  <2> QED  BY <1>1, <1>2, <2>1, RingRests
<1>3. CASE /\ client' = [gen |-> 0, link |-> "none", subscribed |-> FALSE]
           /\ ring' = EmptyRing /\ incoming' = [incoming EXCEPT !.part = 2]
  <2>1. /\ client'.gen = 0 /\ incoming'.number = incoming.number /\ incoming'.part = 2
        /\ ring'.head = 0 /\ ring'.tail = 0 /\ ring'.message = "none"
    BY <1>3 DEF EmptyRing, CmdTypes
  <2>2. Held' = 0
    BY <2>1, Wraps, SlotsAssumption DEF Held
  <2>3. HeldNumbers' = <<>>  BY <2>2 DEF HeldNumbers
  <2>4. Waiting' = <<>> /\ Taken' = Taken /\ Taken \in Nat
    BY <1>1, <2>3, RingTypes DEF Waiting, Taken
  <2>5. ~Filling' /\ ~Assembling'  BY <1>1, <2>1 DEF Filling, Assembling
  <2>6. Before(Taken)'  BY <2>1, <2>4, <2>5 DEF RingInv, Before
  <2>7. FreeSlot'  BY <1>1, <2>5 DEF FreeSlot
  <2>8. RingInv'  BY <1>1, <2>1, <2>3, <2>6, <2>7 DEF RingInv
  <2>9. CASE client.gen # 0  BY <2>1, <2>4, <2>8, <2>9, RenewMaps
  <2>10. CASE client.gen = 0
    <3>1. Waiting = <<>>  BY <1>1, <2>10, EmptyMaps DEF RingInv
    <3> QED  BY <2>1, <2>4, <2>8, <2>10, <3>1 DEF Mapped
  <2> QED  BY <2>9, <2>10
<1> QED  BY <1>2, <1>3 DEF EndDestroy

LEMMA StartMaps ==
  ASSUME TypeInv, TypeInv', SessionInv, RingInv, StartClient
  PROVE  RingInv' /\ (Commands!Next \/ UNCHANGED Mapped)
<1> USE DEF TypeInv
<1>1. /\ UNCHANGED <<callback, ring, out, incoming>> /\ at = "start" /\ at' = "rest"
      /\ client.gen = 0 /\ callback.step = "enters"
      /\ ring.head = ring.tail /\ ring.message = "none"
  BY DEF StartClient, Go, cmdVars, SessionInv, LinkShape, PlaceShape, RingInv
<1>2. CASE UNCHANGED <<client, active, mgr, left>>
  <2>1. Assembling' => Assembling  BY <1>1 DEF Assembling
  <2> QED  BY <1>1, <1>2, <2>1, RingRests
<1>3. CASE /\ Spend("clients")
           /\ client' = [gen |-> left.clients, link |-> "starting", subscribed |-> FALSE]
  <2>1. client'.gen # 0  BY <1>3, SpendTypes
  <2>2. left'.messages = left.messages  BY <1>3, SpendOther
  <2>3. /\ HeldNumbers' = HeldNumbers /\ Full' = Full /\ Taken' = Taken /\ Waiting' = Waiting
    BY <1>1 DEF HeldNumbers, Held, Full, Advance, Taken, Waiting
  <2>4. Waiting = <<>>  BY <1>1, EmptyMaps
  <2>5. Commands!Next  BY <1>1, <2>1, <2>3, <2>4, RenewMaps
  <2>6. ~Assembling /\ ~Assembling'  BY <1>1 DEF Assembling
  <2>7. \A n : Before(n) => Before(n)'  BY <1>1, <2>6 DEF Before, Filling
  <2>8. FreeSlot'  BY <1>1, <2>6 DEF FreeSlot
  <2> QED  BY <1>1, <2>1, <2>2, <2>3, <2>5, <2>7, <2>8 DEF RingInv
<1> QED  BY <1>2, <1>3 DEF StartClient

LEMMA RingOfPoll ==
  ASSUME TypeInv, TypeInv', SessionInv, RingInv, Poll
  PROVE  RingInv' /\ (Commands!Next \/ UNCHANGED Mapped)
<1> USE DEF TypeInv
<1>1. CASE Pop  BY <1>1, PopMaps
<1>2. CASE PopAdvances  BY <1>2, RingOfAdvance
<1>3. CASE EndDestroy  BY <1>3, DestroyMaps
<1>4. CASE StartClient  BY <1>4, StartMaps
<1>5. CASE TakeSignal \/ StopTask
  <2>1. /\ UNCHANGED <<active, callback, ring, out, incoming, left>> /\ at # "advance"
        /\ at' # "advance" /\ client'.gen = client.gen
    BY <1>5 DEF TakeSignal, StopTask, Go, cmdVars, LinkTypes, Clients
  <2>2. Assembling' => Assembling  BY <2>1 DEF Assembling, Listens, Live
  <2> QED  BY <2>1, <2>2, RingRests
<1>6. CASE BeginDestroy \/ BeginConnect
  <2>1. /\ UNCHANGED <<client, callback, ring, out, incoming, left>> /\ at # "advance"
        /\ at' # "advance" /\ active' = 0
    BY <1>6 DEF BeginDestroy, BeginConnect, Go, cmdVars
  <2>2. Assembling' => Assembling  BY <2>1 DEF Assembling, Listens, Live
  <2> QED  BY <2>1, <2>2, RingRests
<1>7. CASE \/ NoMoreCommands \/ ConsumePublishRequest \/ TakeSnapshot \/ StopDisabled
           \/ NoAttempt \/ PausePublish \/ ForceReconnect \/ PublishState \/ NothingToPublish
  <2>1. /\ UNCHANGED <<client, active, callback, ring, out, incoming, left>> /\ at # "advance"
        /\ at' # "advance"
    BY <1>7 DEF NoMoreCommands, ConsumePublishRequest, TakeSnapshot, StopDisabled, NoAttempt,
       PausePublish, ForceReconnect, PublishState, NothingToPublish, OnlyAt, OnlyManager,
       OnlyPublisher, Go, linkVars, cmdVars
  <2>2. Assembling' => Assembling  BY <2>1 DEF Assembling, Listens, Live
  <2> QED  BY <2>1, <2>2, RingRests
<1> QED  BY <1>1, <1>2, <1>3, <1>4, <1>5, <1>6, <1>7 DEF Poll

LEMMA RingKeeps ==
  ASSUME TypeInv, SessionInv, RingInv, [Next]_vars
  PROVE  RingInv' /\ (Commands!Next \/ UNCHANGED Mapped)
<1>1. TypeInv'  BY TypesKeep
<1>2. CASE UNCHANGED vars
  <2>1. UNCHANGED <<at, client, active, callback, ring, out, incoming, left>>
    BY <1>2 DEF vars, netVars, linkVars, cmdVars
  <2>2. Assembling' => Assembling  BY <2>1 DEF Assembling, Listens, Live
  <2> QED  BY <2>1, <2>2, RingRests
<1>3. CASE ClientTask
  <2>1. CASE LinkUp \/ LinkDown \/ EnterEvent \/ StoreSignal  BY <2>1, RingOfCallback
  <2>2. CASE Arrive  BY <2>2, RingOfArrive
  <2>3. CASE PushFirst  BY <1>1, <2>3, RingOfFirst
  <2>4. CASE PushRest  BY <1>1, <2>4, RingOfRest
  <2>5. CASE PublishHead  BY <1>1, <2>5, PublishMaps
  <2> QED  BY <1>3, <2>1, <2>2, <2>3, <2>4, <2>5 DEF ClientTask
<1>4. CASE Poll  BY <1>1, <1>4, RingOfPoll
<1>5. CASE Between \/ Events \/ Others  BY <1>5, RingOfOthers
<1> QED  BY <1>2, <1>3, <1>4, <1>5 DEF Next

-----------------------------------------------------------------------------
(* The theorems.                                                           *)

Inv == TypeInv /\ SessionInv /\ StateInv /\ EventInv /\ RingInv

LEMMA InitHolds == ASSUME Init PROVE Inv /\ Commands!Init
<1> USE DEF Init
<1>1. TypeInv
  <2>1. NetTypes  BY DEF NetTypes, Places, Mgrs
  <2>2. LinkTypes  BY DEF LinkTypes, Clients, Signals, Callbacks, NoSignal
  <2>3. CmdTypes
    <3>1. [i \in 0 .. Slots - 1 |-> <<>>] \in [Indices -> Seq(Nat)]  BY DEF Indices
    <3>2. 0 \in Indices  BY SlotsAssumption DEF Indices
    <3>3. ring \in Rings  BY <3>1, <3>2 DEF Rings
    <3> QED  BY <3>3 DEF CmdTypes
  <2>4. UiTypes  BY DEF UiTypes
  <2>5. EvTypes  BY DEF EvTypes
  <2>6. left \in Lefts  BY BudgetsAssumption
  <2> QED  BY <2>1, <2>2, <2>3, <2>4, <2>5, <2>6 DEF TypeInv
<1>2. SessionInv
  BY DEF SessionInv, LinkShape, PlaceShape, Belief, Live, Event, Misled, Idle, NoSignal
<1>3. StateInv  BY DEF StateInv, Stored, InHand, StateIsNotForgotten
<1>4. EventInv
  <2>1. Queued = {} /\ Lost = {}  BY DEF Queued, Lost
  <2>2. IsFiniteSet({}) /\ Cardinality({}) = 0  BY FS_EmptySet
  <2>3. EventShape  BY <2>1, <2>2, SlotsAssumption DEF EventShape, Distinct
  <2>4. HandInv  BY <2>1, <2>2 DEF HandInv, InHandNow
  <2> QED  BY <2>3, <2>4 DEF EventInv
<1>5. HeldNumbers = <<>> /\ Waiting = <<>> /\ Taken = 0
  BY <1>1, EmptyMaps DEF Taken
<1>6. RingInv
  <2>1. ~Assembling /\ ~Filling  BY DEF Assembling, Filling
  <2>2. FreeSlot  BY <2>1 DEF FreeSlot
  <2>3. Before(Taken) /\ \A i \in DOMAIN HeldNumbers : Before(HeldNumbers[i])
    BY <1>5, <2>1 DEF Before
  <2>4. \E b \in Budgets : incoming.number + left.messages <= b.messages
    <3>1. left.messages \in Nat  BY <1>1 DEF TypeInv, Lefts
    <3> QED  BY <3>1
  <2> QED  BY <2>2, <2>3, <2>4 DEF RingInv
<1>7. Commands!Init  BY <1>5 DEF Commands!Init, Waiting, Taken
<1> QED  BY <1>1, <1>2, <1>3, <1>4, <1>6, <1>7 DEF Inv

\* The strengthening from which all the rest follows holds in every state.
THEOREM Invariance == Spec => []Inv
<1>1. Init => Inv  BY InitHolds
<1>2. Inv /\ [Next]_vars => Inv'
  BY TypesKeep, SessionKeeps, StateKeeps, EventsKeep, RingKeeps DEF Inv
<1> QED  BY <1>1, <1>2, PTL DEF Spec

\* Every variable keeps its type, the two indices of the ring and the length
\* of what it holds included.
THEOREM TypesHold == Spec => []TypeInv
<1>1. Inv => TypeInv  BY DEF Inv
<1> QED  BY <1>1, Invariance, PTL

\* handleEvent stores the connection's events in one atomic signal, and poll
\* takes them in while it stops, destroys and starts clients: when none is on
\* its way, what the manager believes is what its client's link is.
THEOREM SessionHolds == Spec => []SessionIsReal
<1>1. Inv => SessionIsReal  BY SessionTells DEF Inv
<1> QED  BY <1>1, Invariance, PTL

\* The main task stores a state and then releases its request; poll takes the
\* request and then the state: in no order of these is the newest state
\* forgotten while the manager is connected.
THEOREM StateHolds == Spec => []StateIsNotForgotten
<1>1. Inv => StateIsNotForgotten  BY DEF Inv, StateInv
<1> QED  BY <1>1, Invariance, PTL

\* publishQueuedEvents peeks, publishes and discards in three locked regions,
\* and loggers that passed the check store between them, also into a full queue,
\* where the front that is discarded is not the event that was published.  Such
\* a store costs one event, the one overwritten or the one discarded, and
\* nothing but a store into a full queue costs any.
THEOREM EventsHold == Spec => []EventsNotLost
<1>1. Inv => EventsNotLost  BY DEF Inv, EventInv, HandInv, Lost, EventsNotLost
<1> QED  BY <1>1, Invariance, PTL

\* The fragments, the ring without a lock, the copy taken before the tail moves
\* and the reset between two clients are one channel of whole messages.
THEOREM RingImplementsChannel == Spec => ImplementsCommandChannel
<1>1. Init => Commands!Init  BY InitHolds
<1>2. Inv /\ [Next]_vars => [Commands!Next]_<<
          IF at = "advance" THEN SubSeq(HeldNumbers, 2, Held) ELSE HeldNumbers,
          IF out = <<>> THEN 0 ELSE WholeIn(out), client.gen>>
  BY RingKeeps DEF Inv, Mapped, Waiting, Taken
<1> QED  BY <1>1, <1>2, Invariance, PTL DEF Spec, ImplementsCommandChannel, Commands!Spec
=============================================================================
