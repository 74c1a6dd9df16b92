---------------------------- MODULE NetworkPlane ----------------------------
(***************************************************************************)
(* The Wi-Fi side of the network plane.  Three parties meet here: the      *)
(* touch screen queues commands and draws a view of the network that runs  *)
(* ahead of it; the setup portal saves new settings, which the UI stores   *)
(* and leaves in a slot; the network task carries out the commands, then   *)
(* takes the slot, polls the station and runs what the web deferred.       *)
(*                                                                         *)
(* Left out: the scan list, mDNS, host names and signal strength, the      *)
(* MQTT slot and switch (they share nothing with these variables), and the *)
(* number of attempts made, which only chooses the length of a wait.  A    *)
(* wait is "waiting" or "due"; what the radio answers is a choice.  The    *)
(* settings of an enterprise network are complete, as the portal demands.  *)
(***************************************************************************)
EXTENDS Naturals, Sequences

CONSTANTS Ssids,       \* names of networks
          NoSsid,      \* the empty name
          Capacity,    \* kCapacity of the command queue
          MaxPresses,  \* bound: commands asked for at the screen
          MaxSaves     \* bound: settings saved at the portal

ASSUME NamesAssumption == NoSsid \notin Ssids
ASSUME BoundsAssumption ==
  Capacity \in Nat \ {0} /\ MaxPresses \in Nat /\ MaxSaves \in Nat

VARIABLES wifi,      \* the settings AuraNetworkManager works with
          stored,    \* the settings StorageManager keeps; it retries a failed write
          sta,       \* the station: its state, the network it was given, its retry
          known,     \* wifi_state_last_: the state last told to the callback
          mqttOn,    \* mqtt_enabled_, for a user who wants MQTT
          queue,     \* the command queue
          slot,      \* the saved settings nobody has taken: none or one
          task,      \* where the network task is in its pass
          snap,      \* the connectivity snapshot others read
          override,  \* the switch position the screen shows meanwhile: none or one
          web,       \* how far the portal's save is, and its settings
          start,     \* the deferred start of the station
          presses, saves,
          crossed,   \* history: a command met a save, or a forget was not written
          flipped,   \* history: the switch was set against the override
          wavered    \* history: the state has left the one last told to the callback

netVars == <<wifi, stored, sta, known, mqttOn, slot, task, snap, start, crossed, flipped, wavered>>
vars == <<wifi, stored, sta, known, mqttOn, queue, slot, task, snap, override,
          web, start, presses, saves, crossed, flipped, wavered>>

Settings == [ssid : Ssids \union {NoSsid}, enabled : BOOLEAN]
Stations == [state : {"OFF", "CONNECTING", "CONNECTED", "AP_CONFIG"},
             link : Ssids \union {NoSsid},
             retry : {"none", "waiting", "due"}]
Commands == [type : {"SetWifiEnabled"}, value : BOOLEAN]
              \union [type : {"Reconnect", "ToggleApMode", "Clear"}, value : {FALSE}]

TypeOK ==
  /\ wifi \in Settings /\ stored \in Settings
  /\ sta \in Stations
  /\ known \in {"OFF", "CONNECTING", "CONNECTED", "AP_CONFIG"}
  /\ mqttOn \in BOOLEAN
  /\ queue \in Seq(Commands) /\ Len(queue) <= Capacity
  /\ slot \in SUBSET Settings /\ \A s, t \in slot : s = t
  /\ task \in {"commands", "poll", "deferred"}
  /\ snap \in [ssid : Ssids \union {NoSsid}, enabled : BOOLEAN, apMode : BOOLEAN]
  /\ override \in SUBSET BOOLEAN /\ override # BOOLEAN
  /\ web \in [at : {"idle", "asked", "stored", "published"}, saves : Settings]
  /\ start \in {"none", "waiting", "due"}
  /\ presses \in 0 .. MaxPresses /\ saves \in 0 .. MaxSaves
  /\ crossed \in BOOLEAN /\ flipped \in BOOLEAN /\ wavered \in BOOLEAN

-----------------------------------------------------------------------------
(* AuraNetworkManager: the station and the access point.                   *)

\* Mutant: an attempt that cannot start is not tried again.
StartStaGivesUp(w) ==
  \/ w.ssid = NoSsid /\ UNCHANGED sta
  \/ /\ w.ssid # NoSsid
     /\ sta' \in {[sta EXCEPT !.state = "OFF"],
                  [sta EXCEPT !.state = "CONNECTING", !.link = w.ssid]}

\* startSta: without a name nothing happens; an attempt that cannot start
\* (little heap, an interface that does not come up) is tried again later.
StartSta(w) ==
  \/ w.ssid = NoSsid /\ UNCHANGED sta
  \/ /\ w.ssid # NoSsid
     /\ sta' \in {[sta EXCEPT !.state = "OFF", !.retry = "waiting"],
                  [sta EXCEPT !.state = "CONNECTING", !.link = w.ssid]}

\* connectSta clears the retry first.
ConnectSta(w) ==
  \/ w.ssid = NoSsid /\ sta' = [sta EXCEPT !.retry = "none"]
  \/ /\ w.ssid # NoSsid
     /\ sta' \in {[sta EXCEPT !.state = "OFF", !.retry = "waiting"],
                  [sta EXCEPT !.state = "CONNECTING", !.link = w.ssid, !.retry = "none"]}

\* startAp: when softAP fails the station keeps its association if it has one.
ApFails ==
  \/ sta' = [sta EXCEPT !.state = "OFF", !.retry = "none"]
  \/ /\ sta.state \in {"CONNECTING", "CONNECTED"}
     /\ sta' = [sta EXCEPT !.state = "CONNECTED"]

StartAp == \/ sta' = [sta EXCEPT !.state = "AP_CONFIG", !.retry = "none"]
           \/ ApFails

ShutdownWifi == sta' = [sta EXCEPT !.state = "OFF", !.retry = "none"]

\* A command changes stored settings while a save is under way: one of the
\* two will be lost to the RAM copy.
Crosses == crossed' = (crossed \/ slot # {} \/ web.at = "stored")

SetEnabled(on) ==
  \/ on = wifi.enabled /\ UNCHANGED <<wifi, stored, sta, crossed>>
  \/ /\ on # wifi.enabled
     /\ wifi' = [wifi EXCEPT !.enabled = on]
     /\ stored' = [stored EXCEPT !.enabled = on]
     /\ Crosses
     /\ \/ on /\ wifi.ssid # NoSsid /\ StartSta(wifi')
        \/ on /\ wifi.ssid = NoSsid /\ StartAp
        \/ ~on /\ ShutdownWifi

\* Mutant: the switch the access point turns on is not written.
StartApUnsaved ==
  /\ wifi' = [wifi EXCEPT !.enabled = TRUE]
  /\ UNCHANGED <<stored, crossed>>
  /\ StartAp

StartApOnDemand ==
  /\ wifi' = [wifi EXCEPT !.enabled = TRUE]
  /\ IF wifi.enabled THEN UNCHANGED <<stored, crossed>>
     ELSE stored' = [stored EXCEPT !.enabled = TRUE] /\ Crosses
  /\ StartAp

\* Mutant: the station is not disconnected.
ClearKeepsStation ==
  /\ wifi' = [wifi EXCEPT !.ssid = NoSsid]
  /\ \/ stored' = [stored EXCEPT !.ssid = NoSsid] /\ Crosses
     \/ UNCHANGED stored /\ crossed' = TRUE
  /\ UNCHANGED sta

\* clearCredentials: the RAM copy is emptied whether or not the empty settings
\* could be written.
ClearCredentials ==
  /\ wifi' = [wifi EXCEPT !.ssid = NoSsid]
  /\ \/ stored' = [stored EXCEPT !.ssid = NoSsid] /\ Crosses
     \/ UNCHANGED stored /\ crossed' = TRUE
  /\ \/ wifi.enabled /\ (   sta' = [sta EXCEPT !.state = "AP_CONFIG", !.retry = "none"]
                         \/ ShutdownWifi)
     \/ ~wifi.enabled /\ ShutdownWifi

-----------------------------------------------------------------------------
(* The network task: commands, saved settings, poll, deferred actions.     *)

Execute(c) ==
  \/ c.type = "SetWifiEnabled" /\ SetEnabled(c.value)
  \/ /\ c.type = "Reconnect"
     /\ \/ ~wifi.enabled /\ SetEnabled(TRUE)
        \/ wifi.enabled /\ wifi.ssid = NoSsid /\ StartApOnDemand
        \/ /\ wifi.enabled /\ wifi.ssid # NoSsid
           /\ ConnectSta(wifi) /\ UNCHANGED <<wifi, stored, crossed>>
  \/ /\ c.type = "ToggleApMode"
     /\ \/ /\ sta.state = "AP_CONFIG" /\ wifi.ssid # NoSsid
           /\ ConnectSta(wifi) /\ UNCHANGED <<wifi, stored, crossed>>
        \/ sta.state = "AP_CONFIG" /\ wifi.ssid = NoSsid /\ SetEnabled(FALSE)
        \/ sta.state # "AP_CONFIG" /\ StartApOnDemand
  \/ c.type = "Clear" /\ ClearCredentials

\* MqttManager::syncWithWifi.
SyncMqtt == mqttOn' = (wifi'.enabled /\ sta'.state = "CONNECTED")

Wavers == wavered' = (wavered \/ sta'.state # known)

Flips ==
  flipped' = (flipped \/ (wifi'.enabled # wifi.enabled /\ override = {wifi.enabled}))

UpdateSnapshot ==
  snap' = [ssid |-> wifi'.ssid, enabled |-> wifi'.enabled,
           apMode |-> wifi'.enabled /\ sta'.state = "AP_CONFIG"]

CarryOut ==
  /\ task = "commands" /\ queue # <<>>
  /\ Execute(Head(queue))
  /\ SyncMqtt /\ Wavers /\ Flips
  /\ queue' = Tail(queue)
  /\ UNCHANGED <<known, slot, task, snap, override, web, start, presses, saves>>

\* applySavedWiFiSettings touches no state: the start that follows is deferred.
ApplySaved ==
  /\ task = "commands" /\ queue = <<>>
  /\ IF slot = {} THEN UNCHANGED <<wifi, sta>>
     ELSE /\ wifi' \in slot
          /\ sta' = [sta EXCEPT !.retry = "none"]
  /\ slot' = {}
  /\ Flips
  /\ UpdateSnapshot
  /\ task' = "poll"
  /\ wavered' = (wavered \/ wifi'.enabled # wifi.enabled)
  /\ UNCHANGED <<stored, known, mqttOn, queue, override, web, start, presses, saves,
                 crossed>>

PollConnecting ==
  /\ sta.state = "CONNECTING"
  /\ sta' \in {[sta EXCEPT !.state = "CONNECTED", !.retry = "none"],
               [sta EXCEPT !.state = "OFF", !.retry = "waiting"],
               sta}

\* Mutant: a retry does not look at the switch.
PollRetryAlways ==
  /\ sta.state = "OFF" /\ sta.retry = "due"
  /\ \/ wifi.ssid = NoSsid /\ sta' = [sta EXCEPT !.retry = "none"]
     \/ /\ wifi.ssid # NoSsid
        /\ sta' \in {[sta EXCEPT !.retry = "waiting"],
                     [sta EXCEPT !.state = "CONNECTING", !.link = wifi.ssid, !.retry = "none"]}

PollRetry ==
  /\ sta.state = "OFF" /\ wifi.enabled /\ sta.retry = "due"
  /\ \/ wifi.ssid = NoSsid /\ sta' = [sta EXCEPT !.retry = "none"]
     \/ /\ wifi.ssid # NoSsid
        /\ sta' \in {[sta EXCEPT !.retry = "waiting"],
                     [sta EXCEPT !.state = "CONNECTING", !.link = wifi.ssid, !.retry = "none"]}

\* A link is given up after three bad checks in a row, 5 s apart: never in the
\* pass that found the station connected.
PollConnected ==
  /\ sta.state = "CONNECTED"
  /\ \/ UNCHANGED sta
     \/ /\ known = "CONNECTED"
        /\ sta' = [sta EXCEPT !.state = "OFF", !.retry = "waiting"]

Poll ==
  /\ task = "poll"
  /\ \/ PollConnecting \/ PollRetry \/ PollConnected
     \/ /\ ~(sta.state \in {"CONNECTING", "CONNECTED"})
        /\ ~(sta.state = "OFF" /\ wifi.enabled /\ sta.retry = "due")
        /\ UNCHANGED sta
  /\ task' = "deferred"
  /\ Wavers
  /\ UNCHANGED <<wifi, stored, known, mqttOn, queue, slot, snap, override, web,
                 start, presses, saves, crossed, flipped>>

\* Mutant: the callback comes before the deferred start.
CallbackFirst ==
  /\ task = "deferred"
  /\ \/ start = "due" /\ start' = "none" /\ ConnectSta(wifi)
     \/ start # "due" /\ UNCHANGED <<start, sta>>
  /\ known' = sta.state /\ wavered' = FALSE
  /\ mqttOn' = IF sta.state # known THEN wifi.enabled /\ sta.state = "CONNECTED" ELSE mqttOn
  /\ task' = "commands"
  /\ snap' = [ssid |-> wifi.ssid, enabled |-> wifi.enabled,
              apMode |-> wifi.enabled /\ sta'.state = "AP_CONFIG"]
  /\ UNCHANGED <<wifi, stored, queue, slot, override, web, presses, saves, crossed, flipped>>

\* pollDeferred, then the state callback, then the snapshot.
RunDeferred ==
  /\ task = "deferred"
  /\ \/ start = "due" /\ start' = "none" /\ ConnectSta(wifi)
     \/ start # "due" /\ UNCHANGED <<start, sta>>
  /\ IF sta'.state # known
     THEN /\ known' = sta'.state /\ wavered' = FALSE
          /\ mqttOn' = (wifi.enabled /\ sta'.state = "CONNECTED")
     ELSE UNCHANGED <<known, mqttOn, wavered>>
  /\ task' = "commands"
  /\ snap' = [ssid |-> wifi.ssid, enabled |-> wifi.enabled,
              apMode |-> wifi.enabled /\ sta'.state = "AP_CONFIG"]
  /\ UNCHANGED <<wifi, stored, queue, slot, override, web, presses, saves, crossed, flipped>>

-----------------------------------------------------------------------------
(* The screen.                                                             *)

\* refreshConnectivitySnapshot: the override ends when the network agrees.
Refreshed == override \ {snap.enabled}
Shows(on) == \/ Refreshed = {on}
             \/ Refreshed = {} /\ snap.enabled = on

\* Mutant: the queue has no end.
EnqueueAlways(type, on) == queue' = Append(queue, [type |-> type, value |-> on])

Enqueue(type, on) ==
  queue' = IF Len(queue) < Capacity
           THEN Append(queue, [type |-> type, value |-> on]) ELSE queue

Pressed == /\ presses < MaxPresses /\ presses' = presses + 1
           /\ UNCHANGED netVars /\ UNCHANGED <<web, saves>>

\* Mutant: the override stays when the command was dropped.
PressKeepsOverride(on) ==
  /\ Pressed
  /\ Shows(~on)
  /\ Enqueue("SetWifiEnabled", on)
  /\ override' = {on} \ {snap.enabled}

PressSwitch(on) ==
  /\ Pressed
  /\ Shows(~on)
  /\ Enqueue("SetWifiEnabled", on)
  /\ override' = IF Len(queue) < Capacity THEN {on} \ {snap.enabled} ELSE {}

\* The buttons follow the view of an earlier tick, and their handlers look at
\* nothing: a press may come in any state.
PressReconnect ==
  /\ Pressed
  /\ Enqueue("Reconnect", FALSE)
  /\ UNCHANGED override

PressApMode ==
  /\ Pressed
  /\ Enqueue("ToggleApMode", FALSE)
  /\ UNCHANGED override

PressForget ==
  /\ Pressed
  /\ Enqueue("Clear", FALSE)
  /\ UNCHANGED override

RefreshView ==
  /\ override # Refreshed
  /\ override' = Refreshed
  /\ UNCHANGED netVars /\ UNCHANGED <<queue, web, presses, saves>>

-----------------------------------------------------------------------------
(* The portal's save, by way of the bridge and the UI.                     *)

OnlyWeb == UNCHANGED <<wifi, sta, known, mqttOn, queue, task, snap, override, presses,
                       flipped, wavered>>

PortalSaves(ssid) ==
  /\ web.at = "idle" /\ saves < MaxSaves
  /\ snap.apMode
  /\ web' = [at |-> "asked", saves |-> [ssid |-> ssid, enabled |-> TRUE]]
  /\ saves' = saves + 1
  /\ OnlyWeb /\ UNCHANGED <<stored, slot, start, crossed>>

\* The bridge's timeout: the update is cancelled, never applied.
PortalGivesUp ==
  /\ web.at = "asked"
  /\ web' = [web EXCEPT !.at = "idle"]
  /\ OnlyWeb /\ UNCHANGED <<stored, slot, start, saves, crossed>>

UiStores ==
  /\ web.at = "asked"
  /\ \/ stored' = web.saves /\ web' = [web EXCEPT !.at = "stored"]
     \/ UNCHANGED stored /\ web' = [web EXCEPT !.at = "idle"]
  /\ OnlyWeb /\ UNCHANGED <<slot, start, saves, crossed>>

UiPublishes ==
  /\ web.at = "stored"
  /\ slot' = {web.saves}
  /\ web' = [web EXCEPT !.at = "published"]
  /\ OnlyWeb /\ UNCHANGED <<stored, start, saves, crossed>>

PortalReplies ==
  /\ web.at = "published"
  /\ web' = [web EXCEPT !.at = "idle"]
  /\ start' = "waiting"
  /\ OnlyWeb /\ UNCHANGED <<stored, slot, saves, crossed>>

-----------------------------------------------------------------------------
(* Time.                                                                   *)

RetryComesDue ==
  /\ sta.retry = "waiting"
  /\ sta' = [sta EXCEPT !.retry = "due"]
  /\ UNCHANGED <<wifi, stored, known, mqttOn, queue, slot, task, snap, override,
                 web, start, presses, saves, crossed, flipped, wavered>>

\* The 200 ms of the start run out while the task waits for its next pass or
\* carries out commands: a pass is never that long between taking the slot and
\* running what is deferred.
StartComesDue ==
  /\ start = "waiting" /\ task = "commands"
  /\ start' = "due"
  /\ OnlyWeb /\ UNCHANGED <<stored, slot, web, saves, crossed>>

-----------------------------------------------------------------------------
Init ==
  /\ wifi \in {[ssid |-> n, enabled |-> e] :
                 n \in {NoSsid} \union Ssids, e \in BOOLEAN}
  /\ stored = wifi
  /\ sta \in {[state |-> s, link |-> NoSsid, retry |-> r] :
                s \in {"OFF", "AP_CONFIG"}, r \in {"none", "waiting"}}
  /\ IF wifi.enabled /\ wifi.ssid # NoSsid
     THEN sta.state = "OFF" /\ sta.retry = "waiting"
     ELSE sta.retry = "none" /\ (sta.state = "AP_CONFIG" => wifi.enabled)
  /\ known = sta.state
  /\ mqttOn = FALSE
  /\ queue = <<>> /\ slot = {} /\ task = "commands"
  /\ snap = [ssid |-> wifi.ssid, enabled |-> wifi.enabled,
             apMode |-> wifi.enabled /\ sta.state = "AP_CONFIG"]
  /\ override = {}
  /\ web = [at |-> "idle", saves |-> wifi]
  /\ start = "none"
  /\ presses = 0 /\ saves = 0 /\ crossed = FALSE /\ flipped = FALSE /\ wavered = FALSE

Next ==
  \/ CarryOut \/ ApplySaved \/ Poll \/ RunDeferred
  \/ \E on \in BOOLEAN : PressSwitch(on)
  \/ PressReconnect \/ PressApMode \/ PressForget \/ RefreshView
  \/ \E n \in Ssids : PortalSaves(n)
  \/ PortalGivesUp \/ UiStores \/ UiPublishes \/ PortalReplies
  \/ RetryComesDue \/ StartComesDue

Spec == Init /\ [][Next]_vars

Fairness ==
  /\ WF_vars(CarryOut \/ ApplySaved \/ Poll \/ RunDeferred)
  /\ WF_vars(RefreshView)
  /\ WF_vars(UiStores \/ UiPublishes)
  /\ WF_vars(PortalReplies)
  /\ WF_vars(RetryComesDue) /\ WF_vars(StartComesDue)
FairSpec == Spec /\ Fairness

-----------------------------------------------------------------------------
(* Properties.                                                             *)

\* Nothing of a save is between the store and the network task.
Rest == queue = <<>> /\ slot = {} /\ web.at # "stored"

\* The settings the radio runs with are the ones that will be read at the next
\* start, whichever of the screen and the portal changed them last.  Excepted
\* is a command that met a save (the slot is taken after the commands, so it
\* undoes them in RAM only) and a forget that could not be written.
SettingsAgree == Rest /\ ~crossed => wifi = stored

\* A connected station is connected to the network of the current settings:
\* no command, save, retry or deferred start leaves it on an earlier one.
LinkIsConfigured ==
  Rest /\ web.at = "idle" /\ start = "none" /\ sta.state = "CONNECTED"
    => sta.link = wifi.ssid

\* While the user has Wi-Fi off nothing turns the radio on, but for the start
\* the web deferred, which does not look at the switch.
RadioStaysOff ==
  [][~wifi'.enabled /\ sta.state = "OFF" /\ sta'.state # "OFF"
       => start = "due" /\ start' = "none"]_vars

\* Enabled, with a network to join, off, and nothing that would start it.
Stranded == /\ wifi.enabled /\ wifi.ssid # NoSsid
            /\ sta.state = "OFF" /\ sta.retry = "none"
            /\ web.at # "published" /\ start = "none"

\* Whatever fails, an enabled station with a network to join keeps a retry or a
\* start pending.  Excepted is an access point asked for at the screen that
\* does not come up: the code then waits for the user.
NeverStranded ==
  [][Stranded' /\ ~Stranded
       => task = "commands" /\ queue # <<>> /\ Head(queue).type = "ToggleApMode"]_vars

\* Between two passes MQTT runs exactly when Wi-Fi is enabled and connected.
\* Excepted is a state that was left and regained between two callbacks, and a
\* save that turned on the switch of a station already connected.
MqttFollowsWifi ==
  task = "commands" /\ ~wavered
    => mqttOn = (wifi.enabled /\ sta.state = "CONNECTED")

\* The switch position the screen shows in place of the network's own ends,
\* also when the command was dropped or another one overtook it, unless the
\* network's switch has meanwhile been set against it.
OverrideEnds == override # {} ~> override = {} \/ flipped
=============================================================================
