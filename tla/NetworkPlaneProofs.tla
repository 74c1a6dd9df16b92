-------------------------- MODULE NetworkPlaneProofs --------------------------
(***************************************************************************)
(* The safety properties of the network plane for any networks, any        *)
(* capacity of the queue and any number of presses and saves.  Three       *)
(* invariants carry them: where the newest settings are while a save is    *)
(* under way, what MQTT was last told, and why a station on an earlier     *)
(* network, or one without a retry, will still be started.                 *)
(***************************************************************************)
EXTENDS NetworkPlane, TLAPS

\* While no command met a save, flash is ahead of RAM by the saved settings
\* only, and those are with the UI or in the slot.
SavedInv ==
  ~crossed =>
    /\ web.at = "stored" => stored = web.saves
    /\ web.at # "stored" /\ slot # {} => slot = {stored}
    /\ web.at # "stored" /\ slot = {} => wifi = stored

\* A state that has not wavered is the one last told, and MQTT follows it.
ToldInv ==
  ~wavered => /\ sta.state = known
              /\ mqttOn = (wifi.enabled /\ known = "CONNECTED")

Linked == sta.state \in {"CONNECTING", "CONNECTED"}
StartToCome == web.at = "published" \/ start # "none"

\* Saved settings are followed by a start that finds them applied, and a
\* station on another network than the configured one waits for that start.
LinkInv ==
  /\ web.at # "idle" => web.saves.ssid # NoSsid
  /\ \A s \in slot : s.ssid # NoSsid
  /\ slot # {} => StartToCome
  /\ start = "due" /\ task # "commands" /\ slot # {} => web.at = "published"
  /\ Linked => wifi.ssid # NoSsid
  /\ Linked => sta.link = wifi.ssid \/ StartToCome

Inv == TypeOK /\ SavedInv /\ ToldInv /\ LinkInv

Screen ==
  \/ \E on \in BOOLEAN : PressSwitch(on)
  \/ PressReconnect \/ PressApMode \/ PressForget \/ RefreshView
Portal ==
  \/ \E n \in Ssids : PortalSaves(n)
  \/ PortalGivesUp \/ UiStores \/ UiPublishes \/ PortalReplies

-----------------------------------------------------------------------------
(* What a change of the station may be.                                    *)

LEMMA StartStaTyped ==
  ASSUME NEW w \in Settings, sta \in Stations, StartSta(w) \/ ConnectSta(w)
  PROVE  /\ sta' \in Stations
         /\ w.ssid = NoSsid => sta'.state = sta.state /\ sta'.link = sta.link
         /\ w.ssid # NoSsid =>
              \/ sta'.state = "OFF" /\ sta'.retry = "waiting"
              \/ sta'.state = "CONNECTING" /\ sta'.link = w.ssid
BY DEF StartSta, ConnectSta, Stations, Settings

LEMMA StartApTyped ==
  ASSUME sta \in Stations, StartAp
  PROVE  /\ sta' \in Stations
         /\ \/ sta'.state \in {"OFF", "AP_CONFIG"}
            \/ /\ sta.state \in {"CONNECTING", "CONNECTED"}
               /\ sta'.state = "CONNECTED" /\ sta'.link = sta.link
BY DEF StartAp, ApFails, Stations

LEMMA ShutdownTyped ==
  ASSUME sta \in Stations, ShutdownWifi
  PROVE  sta' \in Stations /\ sta'.state = "OFF"
BY DEF ShutdownWifi, Stations

\* What a command does to the settings and the station, for all commands.
Effect ==
  /\ wifi' \in Settings /\ stored' \in Settings /\ sta' \in Stations /\ crossed' \in BOOLEAN
  /\ \/ wifi' = wifi /\ stored' = stored
     \/ crossed' = TRUE
     \/ /\ slot = {} /\ web.at # "stored"
        /\ wifi = stored => wifi' = stored'
  /\ crossed => crossed'
  /\ wifi'.ssid \in {wifi.ssid, NoSsid}
  /\ wifi'.ssid = NoSsid /\ wifi.ssid # NoSsid => sta'.state \in {"OFF", "AP_CONFIG"}
  /\ \/ sta'.state = sta.state /\ sta'.link = sta.link
     \/ sta'.state \in {"OFF", "AP_CONFIG"}
     \/ sta'.state = "CONNECTING" /\ sta'.link = wifi'.ssid /\ wifi'.ssid # NoSsid
     \/ sta'.state = "CONNECTED" /\ Linked /\ sta'.link = sta.link
  /\ ~wifi'.enabled => sta'.state = "OFF" \/ sta.state # "OFF"

LEMMA SetEnabledEffect ==
  ASSUME TypeOK, NEW on \in BOOLEAN, SetEnabled(on)
  PROVE  Effect
<1> USE DEF TypeOK
<1>1. CASE on = wifi.enabled /\ UNCHANGED <<wifi, stored, sta, crossed>>
  BY <1>1 DEF Effect, Stations
<1>2. CASE /\ on # wifi.enabled
           /\ wifi' = [wifi EXCEPT !.enabled = on]
           /\ stored' = [stored EXCEPT !.enabled = on]
           /\ Crosses
           /\ \/ on /\ wifi.ssid # NoSsid /\ StartSta(wifi')
              \/ on /\ wifi.ssid = NoSsid /\ StartAp
              \/ ~on /\ ShutdownWifi
  <2>1. /\ wifi' \in Settings /\ stored' \in Settings
        /\ wifi'.ssid = wifi.ssid /\ wifi'.enabled = on
        /\ wifi = stored => wifi' = stored'
    BY <1>2 DEF Settings
  <2>0. crossed' \in BOOLEAN  BY <1>2 DEF Crosses
  <2>2. crossed' = TRUE \/ (slot = {} /\ web.at # "stored")  BY <1>2 DEF Crosses
  <2>3. crossed => crossed'  BY <1>2 DEF Crosses
  <2>4. CASE on /\ wifi.ssid # NoSsid /\ StartSta(wifi')
    <3>1. sta' \in Stations /\ (\/ sta'.state = "OFF"
                                \/ sta'.state = "CONNECTING" /\ sta'.link = wifi'.ssid)
      BY <2>1, <2>4, StartStaTyped
    <3> QED  BY <2>0, <2>1, <2>2, <2>3, <2>4, <3>1 DEF Effect
  <2>5. CASE on /\ wifi.ssid = NoSsid /\ StartAp
    BY <2>0, <2>1, <2>2, <2>3, <2>5, StartApTyped DEF Effect, Linked
  <2>6. CASE ~on /\ ShutdownWifi
    BY <2>0, <2>1, <2>2, <2>3, <2>6, ShutdownTyped DEF Effect
  <2> QED  BY <1>2, <2>4, <2>5, <2>6
<1> QED  BY <1>1, <1>2 DEF SetEnabled

LEMMA StartApOnDemandEffect ==
  ASSUME TypeOK, StartApOnDemand
  PROVE  Effect
<1> USE DEF TypeOK
<1>1. /\ wifi' \in Settings /\ wifi'.ssid = wifi.ssid /\ wifi'.enabled = TRUE
  BY DEF StartApOnDemand, Settings
<1>2. StartAp  BY DEF StartApOnDemand
<1>3. CASE wifi.enabled
  <2>1. wifi' = wifi  BY <1>3 DEF StartApOnDemand, Settings
  <2>2. stored' = stored /\ crossed' = crossed  BY <1>3 DEF StartApOnDemand
  <2> QED  BY <1>1, <1>2, <2>1, <2>2, StartApTyped DEF Effect, Linked
<1>4. CASE ~wifi.enabled
  <2>1. stored' = [stored EXCEPT !.enabled = TRUE] /\ Crosses
    BY <1>4 DEF StartApOnDemand
  <2>2. stored' \in Settings  BY <2>1 DEF Settings
  <2>3. wifi = stored => wifi' = stored'  BY <2>1 DEF StartApOnDemand
  <2>4. crossed' \in BOOLEAN /\ (crossed => crossed')  BY <2>1 DEF Crosses
  <2>5. crossed' = TRUE \/ (slot = {} /\ web.at # "stored")  BY <2>1 DEF Crosses
  <2> QED  BY <1>1, <1>2, <2>2, <2>3, <2>4, <2>5, StartApTyped DEF Effect, Linked
<1> QED  BY <1>3, <1>4

LEMMA ClearEffect ==
  ASSUME TypeOK, ClearCredentials
  PROVE  Effect
<1> USE DEF TypeOK
<1>1. /\ wifi' \in Settings /\ wifi'.ssid = NoSsid /\ wifi'.enabled = wifi.enabled
  BY DEF ClearCredentials, Settings
<1>2. sta' \in Stations /\ sta'.state \in {"OFF", "AP_CONFIG"}
  BY ShutdownTyped DEF ClearCredentials, Stations
<1>3. ~wifi'.enabled => sta'.state = "OFF"
  BY <1>1, ShutdownTyped DEF ClearCredentials
<1>4. CASE stored' = [stored EXCEPT !.ssid = NoSsid] /\ Crosses
  <2>1. stored' \in Settings  BY <1>4 DEF Settings
  <2>2. wifi = stored => wifi' = stored'  BY <1>4 DEF ClearCredentials
  <2>3. crossed' \in BOOLEAN /\ (crossed => crossed')  BY <1>4 DEF Crosses
  <2>4. crossed' = TRUE \/ (slot = {} /\ web.at # "stored")  BY <1>4 DEF Crosses
  <2> QED  BY <1>1, <1>2, <1>3, <2>1, <2>2, <2>3, <2>4 DEF Effect
<1>5. CASE stored' = stored /\ crossed' = TRUE
  BY <1>1, <1>2, <1>3, <1>5 DEF Effect
<1> QED  BY <1>4, <1>5 DEF ClearCredentials

LEMMA ConnectEffect ==
  ASSUME TypeOK, ConnectSta(wifi), UNCHANGED <<wifi, stored, crossed>>,
         wifi.enabled \/ sta.state # "OFF"
  PROVE  Effect
<1> USE DEF TypeOK
<1>1. wifi' = wifi /\ stored' = stored /\ crossed' = crossed  OBVIOUS
<1>2. /\ sta' \in Stations
      /\ \/ sta'.state = sta.state /\ sta'.link = sta.link
         \/ sta'.state = "OFF"
         \/ sta'.state = "CONNECTING" /\ sta'.link = wifi.ssid /\ wifi.ssid # NoSsid
  BY StartStaTyped
<1> QED  BY <1>1, <1>2 DEF Effect

LEMMA ExecuteEffect ==
  ASSUME TypeOK, NEW c \in Commands, Execute(c)
  PROVE  Effect
<1>1. c.type \in {"SetWifiEnabled", "Reconnect", "ToggleApMode", "Clear"} /\ c.value \in BOOLEAN
  BY DEF Commands
<1>2. CASE c.type = "SetWifiEnabled"
  BY <1>1, <1>2, SetEnabledEffect DEF Execute
<1>3. CASE c.type = "Reconnect"
  BY <1>3, SetEnabledEffect, StartApOnDemandEffect, ConnectEffect DEF Execute
<1>4. CASE c.type = "ToggleApMode"
  BY <1>4, SetEnabledEffect, StartApOnDemandEffect, ConnectEffect DEF Execute
<1>5. CASE c.type = "Clear"
  BY <1>5, ClearEffect DEF Execute
<1> QED  BY <1>1, <1>2, <1>3, <1>4, <1>5

-----------------------------------------------------------------------------
(* Each action keeps the invariant.                                        *)

LEMMA HeadAndTail ==
  ASSUME NEW q \in Seq(Commands), q # <<>>, Len(q) <= Capacity
  PROVE  Head(q) \in Commands /\ Tail(q) \in Seq(Commands) /\ Len(Tail(q)) <= Capacity
BY BoundsAssumption

LEMMA FlagsTyped ==
  /\ Wavers => wavered' \in BOOLEAN
  /\ Flips => flipped' \in BOOLEAN
  /\ SyncMqtt => mqttOn' \in BOOLEAN
BY DEF Wavers, Flips, SyncMqtt

LEMMA CarryOutKeeps == ASSUME Inv, CarryOut PROVE Inv'
<1> USE DEF Inv
<1>1. /\ Head(queue) \in Commands /\ Tail(queue) \in Seq(Commands)
      /\ Len(Tail(queue)) <= Capacity
  BY HeadAndTail DEF CarryOut, TypeOK
<1>2. Effect  BY <1>1, ExecuteEffect DEF CarryOut
<1>3. /\ queue' = Tail(queue) /\ known' = known /\ slot' = slot /\ task' = task
      /\ snap' = snap /\ override' = override /\ web' = web /\ start' = start
      /\ presses' = presses /\ saves' = saves
  BY DEF CarryOut
<1>4. TypeOK'
  <2>1. wavered' \in BOOLEAN /\ flipped' \in BOOLEAN /\ mqttOn' \in BOOLEAN
    BY FlagsTyped DEF CarryOut
  <2> QED  BY <1>1, <1>2, <1>3, <2>1 DEF TypeOK, Effect
<1>5. SavedInv'  BY <1>2, <1>3 DEF Effect, SavedInv, TypeOK
<1>6. ToldInv'
  <2>1. wavered' = FALSE => sta'.state = known'  BY <1>3 DEF CarryOut, Wavers
  <2>2. mqttOn' = (wifi'.enabled /\ sta'.state = "CONNECTED")  BY DEF CarryOut, SyncMqtt
  <2> QED  BY <1>4, <2>1, <2>2 DEF ToldInv, TypeOK
<1>7. LinkInv'  BY <1>2, <1>3 DEF Effect, LinkInv, Linked, StartToCome
<1> QED  BY <1>4, <1>5, <1>6, <1>7

LEMMA ApplySavedKeeps == ASSUME Inv, ApplySaved PROVE Inv'
<1> USE DEF Inv
<1>1. /\ stored' = stored /\ known' = known /\ mqttOn' = mqttOn /\ queue' = queue
      /\ override' = override /\ web' = web /\ start' = start /\ presses' = presses
      /\ saves' = saves /\ crossed' = crossed /\ slot' = {} /\ task' = "poll"
  BY DEF ApplySaved
<1>2. /\ wifi' \in Settings /\ sta' \in Stations
      /\ sta'.state = sta.state /\ sta'.link = sta.link
      /\ slot = {} => wifi' = wifi
      /\ slot # {} => wifi' \in slot
  BY DEF ApplySaved, TypeOK, Stations
<1>3. TypeOK'
  <2>1. wavered' \in BOOLEAN /\ flipped' \in BOOLEAN
    BY FlagsTyped DEF ApplySaved
  <2>2. snap' \in [ssid : Ssids \union {NoSsid}, enabled : BOOLEAN, apMode : BOOLEAN]
    BY <1>2 DEF ApplySaved, UpdateSnapshot, Settings
  <2> QED  BY <1>1, <1>2, <2>1, <2>2 DEF TypeOK
<1>4. SavedInv'  BY <1>1, <1>2 DEF SavedInv, TypeOK
<1>5. ToldInv'
  <2>1. ~wavered' => ~wavered /\ wifi'.enabled = wifi.enabled  BY DEF ApplySaved
  <2> QED  BY <1>1, <1>2, <2>1 DEF ToldInv
<1>6. LinkInv'  BY <1>1, <1>2 DEF LinkInv, Linked, StartToCome
<1> QED  BY <1>3, <1>4, <1>5, <1>6

LEMMA PollKeeps == ASSUME Inv, Poll PROVE Inv'
<1> USE DEF Inv
<1>1. /\ wifi' = wifi /\ stored' = stored /\ known' = known /\ mqttOn' = mqttOn
      /\ queue' = queue /\ slot' = slot /\ snap' = snap /\ override' = override
      /\ web' = web /\ start' = start /\ presses' = presses /\ saves' = saves
      /\ crossed' = crossed /\ flipped' = flipped /\ task' = "deferred" /\ task = "poll"
  BY DEF Poll
<1>2. /\ sta' \in Stations
      /\ \/ sta'.state = "OFF"
         \/ sta'.state = sta.state /\ sta'.link = sta.link
         \/ sta'.state = "CONNECTED" /\ Linked /\ sta'.link = sta.link
         \/ sta'.state = "CONNECTING" /\ sta'.link = wifi.ssid /\ wifi.ssid # NoSsid
  BY DEF Poll, PollConnecting, PollRetry, PollConnected, TypeOK, Stations, Settings, Linked
<1>3. TypeOK'
  <2>1. wavered' \in BOOLEAN  BY FlagsTyped DEF Poll
  <2> QED  BY <1>1, <1>2, <2>1 DEF TypeOK
<1>4. SavedInv'  BY <1>1 DEF SavedInv
<1>5. ToldInv'
  <2>1. ~wavered' => ~wavered /\ sta'.state = known  BY DEF Poll, Wavers
  <2> QED  BY <1>1, <2>1 DEF ToldInv
<1>6. LinkInv'  BY <1>1, <1>2 DEF LinkInv, Linked, StartToCome
<1> QED  BY <1>3, <1>4, <1>5, <1>6

LEMMA RunDeferredKeeps == ASSUME Inv, RunDeferred PROVE Inv'
<1> USE DEF Inv
<1>1. /\ wifi' = wifi /\ stored' = stored /\ queue' = queue /\ slot' = slot
      /\ override' = override /\ web' = web /\ presses' = presses /\ saves' = saves
      /\ crossed' = crossed /\ flipped' = flipped /\ task' = "commands"
      /\ task = "deferred"
  BY DEF RunDeferred
<1>2. \/ start = "due" /\ start' = "none" /\ ConnectSta(wifi)
      \/ start # "due" /\ start' = start /\ sta' = sta
  BY DEF RunDeferred
<1>3. /\ sta' \in Stations
      /\ \/ sta'.state = sta.state /\ sta'.link = sta.link
              /\ (start' = start \/ wifi.ssid = NoSsid)
         \/ sta'.state = "OFF"
         \/ sta'.state = "CONNECTING" /\ sta'.link = wifi.ssid /\ wifi.ssid # NoSsid
  BY <1>2, StartStaTyped DEF TypeOK
<1>4. \/ /\ sta'.state # known /\ known' = sta'.state /\ wavered' = FALSE
         /\ mqttOn' = (wifi.enabled /\ sta'.state = "CONNECTED")
      \/ /\ sta'.state = known /\ known' = known /\ mqttOn' = mqttOn /\ wavered' = wavered
  BY DEF RunDeferred
<1>5. TypeOK'
  <2>1. known' \in {"OFF", "CONNECTING", "CONNECTED", "AP_CONFIG"} /\ wavered' \in BOOLEAN
    BY <1>3, <1>4 DEF TypeOK, Stations
  <2>2. mqttOn' \in BOOLEAN  BY <1>4 DEF TypeOK
  <2>3. snap' \in [ssid : Ssids \union {NoSsid}, enabled : BOOLEAN, apMode : BOOLEAN]
    BY DEF RunDeferred, TypeOK, Settings
  <2>4. start' \in {"none", "waiting", "due"}  BY <1>2 DEF TypeOK
  <2> QED  BY <1>1, <1>3, <2>1, <2>2, <2>3, <2>4 DEF TypeOK
<1>6. SavedInv'  BY <1>1 DEF SavedInv
<1>7. ToldInv'  BY <1>1, <1>4 DEF ToldInv
<1>8. LinkInv'  BY <1>1, <1>2, <1>3 DEF LinkInv, Linked, StartToCome
<1> QED  BY <1>5, <1>6, <1>7, <1>8

LEMMA EnqueueTyped ==
  ASSUME queue \in Seq(Commands), Len(queue) <= Capacity,
         NEW type, NEW on, [type |-> type, value |-> on] \in Commands, Enqueue(type, on)
  PROVE  queue' \in Seq(Commands) /\ Len(queue') <= Capacity
BY BoundsAssumption DEF Enqueue

LEMMA OverrideTyped ==
  ASSUME override \in SUBSET BOOLEAN, override # BOOLEAN,
         override' \in SUBSET override \/ \E on \in BOOLEAN : override' \in SUBSET {on}
  PROVE  override' \in SUBSET BOOLEAN /\ override' # BOOLEAN
OBVIOUS

LEMMA ScreenKeeps == ASSUME Inv, Screen PROVE Inv'
<1> USE DEF Inv
<1>1. UNCHANGED netVars /\ UNCHANGED <<web, saves>>
  BY DEF Screen, PressSwitch, PressReconnect, PressApMode, PressForget, RefreshView, Pressed
<1>2. /\ wifi' = wifi /\ stored' = stored /\ sta' = sta /\ known' = known
      /\ mqttOn' = mqttOn /\ slot' = slot /\ task' = task /\ snap' = snap
      /\ start' = start /\ crossed' = crossed /\ flipped' = flipped
      /\ wavered' = wavered /\ web' = web /\ saves' = saves
  BY <1>1 DEF netVars
<1>3. presses' \in 0 .. MaxPresses
  <2>1. presses' = presses \/ (presses < MaxPresses /\ presses' = presses + 1)
    BY DEF Screen, PressSwitch, PressReconnect, PressApMode, PressForget, RefreshView, Pressed
  <2>2. presses \in 0 .. MaxPresses /\ MaxPresses \in Nat  BY BoundsAssumption DEF TypeOK
  <2> QED  BY <2>1, <2>2
<1>4. queue' \in Seq(Commands) /\ Len(queue') <= Capacity
  <2>1. ASSUME NEW type, NEW on, [type |-> type, value |-> on] \in Commands,
               Enqueue(type, on)
        PROVE  queue' \in Seq(Commands) /\ Len(queue') <= Capacity
    BY <2>1, EnqueueTyped DEF TypeOK
  <2>2. CASE \E on \in BOOLEAN : PressSwitch(on)
    <3>1. PICK on \in BOOLEAN : PressSwitch(on)  BY <2>2
    <3>2. [type |-> "SetWifiEnabled", value |-> on] \in Commands  BY DEF Commands
    <3> QED  BY <2>1, <3>1, <3>2 DEF PressSwitch
  <2>3. CASE PressReconnect \/ PressApMode \/ PressForget
    <3>1. PICK type \in {"Reconnect", "ToggleApMode", "Clear"} : Enqueue(type, FALSE)
      BY <2>3 DEF PressReconnect, PressApMode, PressForget
    <3>2. [type |-> type, value |-> FALSE] \in Commands  BY DEF Commands
    <3> QED  BY <2>1, <3>1, <3>2
  <2>4. CASE RefreshView  BY <2>4 DEF RefreshView, TypeOK
  <2> QED  BY <2>2, <2>3, <2>4 DEF Screen
<1>5. override' \in SUBSET BOOLEAN /\ override' # BOOLEAN
  <2>1. override' \in SUBSET override \/ \E on \in BOOLEAN : override' \in SUBSET {on}
    <3>1. ASSUME NEW on \in BOOLEAN, PressSwitch(on) PROVE override' \in SUBSET {on}
      BY <3>1 DEF PressSwitch
    <3>2. ASSUME PressReconnect \/ PressApMode \/ PressForget \/ RefreshView
          PROVE  override' \in SUBSET override
      BY <3>2 DEF PressReconnect, PressApMode, PressForget, RefreshView, Refreshed
    <3> QED  BY <3>1, <3>2 DEF Screen
  <2>2. override \in SUBSET BOOLEAN /\ override # BOOLEAN  BY DEF TypeOK
  <2> QED  BY <2>1, <2>2, OverrideTyped
<1>6. TypeOK'  BY <1>2, <1>3, <1>4, <1>5 DEF TypeOK
<1>7. SavedInv' /\ ToldInv' /\ LinkInv'
  BY <1>2 DEF SavedInv, ToldInv, LinkInv, Linked, StartToCome
<1> QED  BY <1>6, <1>7

LEMMA PortalKeeps == ASSUME Inv, Portal PROVE Inv'
<1> USE DEF Inv
<1>1. /\ wifi' = wifi /\ sta' = sta /\ known' = known /\ mqttOn' = mqttOn
      /\ queue' = queue /\ task' = task /\ snap' = snap /\ override' = override
      /\ presses' = presses /\ flipped' = flipped /\ wavered' = wavered /\ crossed' = crossed
  BY DEF Portal, PortalSaves, PortalGivesUp, UiStores, UiPublishes, PortalReplies, OnlyWeb
<1>2. ToldInv'  BY <1>1 DEF ToldInv
<1>3. CASE \E n \in Ssids : PortalSaves(n)
  <2>1. PICK n \in Ssids : PortalSaves(n)  BY <1>3
  <2>2. /\ web' = [at |-> "asked", saves |-> [ssid |-> n, enabled |-> TRUE]]
        /\ saves' = saves + 1 /\ saves < MaxSaves /\ web.at = "idle"
        /\ stored' = stored /\ slot' = slot /\ start' = start
    BY <2>1 DEF PortalSaves
  <2>3. n # NoSsid  BY NamesAssumption
  <2>4. TypeOK'  BY <1>1, <2>2, BoundsAssumption DEF TypeOK, Settings
  <2> QED  BY <1>1, <1>2, <2>2, <2>3, <2>4 DEF SavedInv, LinkInv, Linked, StartToCome
<1>4. CASE PortalGivesUp
  <2>1. /\ web.at = "asked" /\ web' = [web EXCEPT !.at = "idle"] /\ stored' = stored
        /\ slot' = slot /\ start' = start /\ saves' = saves
    BY <1>4 DEF PortalGivesUp
  <2>2. TypeOK'  BY <1>1, <2>1 DEF TypeOK
  <2> QED  BY <1>1, <1>2, <2>1, <2>2 DEF TypeOK, SavedInv, LinkInv, Linked, StartToCome
<1>5. CASE UiStores
  <2>1. /\ web.at = "asked" /\ slot' = slot /\ start' = start /\ saves' = saves
        /\ \/ stored' = web.saves /\ web' = [web EXCEPT !.at = "stored"]
           \/ stored' = stored /\ web' = [web EXCEPT !.at = "idle"]
    BY <1>5 DEF UiStores
  <2>2. TypeOK'  BY <1>1, <2>1 DEF TypeOK
  <2> QED  BY <1>1, <1>2, <2>1, <2>2 DEF TypeOK, SavedInv, LinkInv, Linked, StartToCome
<1>6. CASE UiPublishes
  <2>1. /\ web.at = "stored" /\ web' = [web EXCEPT !.at = "published"] /\ stored' = stored
        /\ slot' = {web.saves} /\ start' = start /\ saves' = saves
    BY <1>6 DEF UiPublishes
  <2>2. web.saves \in Settings  BY DEF TypeOK
  <2>3. TypeOK'  BY <1>1, <2>1, <2>2 DEF TypeOK
  <2> QED  BY <1>1, <1>2, <2>1, <2>3 DEF TypeOK, SavedInv, LinkInv, Linked, StartToCome
<1>7. CASE PortalReplies
  <2>1. /\ web.at = "published" /\ web' = [web EXCEPT !.at = "idle"] /\ stored' = stored
        /\ slot' = slot /\ start' = "waiting" /\ saves' = saves
    BY <1>7 DEF PortalReplies
  <2>2. TypeOK'  BY <1>1, <2>1 DEF TypeOK
  <2> QED  BY <1>1, <1>2, <2>1, <2>2 DEF TypeOK, SavedInv, LinkInv, Linked, StartToCome
<1> QED  BY <1>3, <1>4, <1>5, <1>6, <1>7 DEF Portal

LEMMA RetryDueKeeps == ASSUME Inv, RetryComesDue PROVE Inv'
<1> USE DEF Inv
<1>1. /\ UNCHANGED <<wifi, stored, known, mqttOn, queue, slot, task, snap, override, web, start,
                     presses, saves, crossed, flipped, wavered>>
      /\ sta' = [sta EXCEPT !.retry = "due"]
  BY DEF RetryComesDue
<1>2. sta' \in Stations /\ sta'.state = sta.state /\ sta'.link = sta.link
  BY <1>1 DEF TypeOK, Stations
<1>3. TypeOK'  BY <1>1, <1>2 DEF TypeOK
<1> QED  BY <1>1, <1>2, <1>3 DEF SavedInv, ToldInv, LinkInv, Linked, StartToCome

LEMMA StartDueKeeps == ASSUME Inv, StartComesDue PROVE Inv'
<1> USE DEF Inv
<1>1. /\ wifi' = wifi /\ sta' = sta /\ known' = known /\ mqttOn' = mqttOn
      /\ queue' = queue /\ task' = task /\ snap' = snap /\ override' = override
      /\ presses' = presses /\ flipped' = flipped /\ wavered' = wavered /\ crossed' = crossed
      /\ stored' = stored /\ slot' = slot /\ web' = web /\ saves' = saves
      /\ start = "waiting" /\ task = "commands" /\ start' = "due"
  BY DEF StartComesDue, OnlyWeb
<1>2. TypeOK'  BY <1>1 DEF TypeOK
<1> QED  BY <1>1, <1>2 DEF SavedInv, ToldInv, LinkInv, Linked, StartToCome

LEMMA StutterKeeps == ASSUME Inv, UNCHANGED vars PROVE Inv'
BY DEF vars, Inv, TypeOK, SavedInv, ToldInv, LinkInv, Linked, StartToCome

LEMMA InitInv == ASSUME Init PROVE Inv
<1>1. /\ wifi \in Settings /\ stored = wifi /\ sta \in Stations
      /\ sta.state \in {"OFF", "AP_CONFIG"} /\ known = sta.state
  BY DEF Init, Settings, Stations
<1>2. TypeOK
  <2>1. snap \in [ssid : Ssids \union {NoSsid}, enabled : BOOLEAN, apMode : BOOLEAN]
    BY <1>1 DEF Init, Settings
  <2>2. queue \in Seq(Commands) /\ Len(queue) <= Capacity
    BY BoundsAssumption DEF Init
  <2>3. override \in SUBSET BOOLEAN /\ override # BOOLEAN  BY DEF Init
  <2>4. presses \in 0 .. MaxPresses /\ saves \in 0 .. MaxSaves
    BY BoundsAssumption DEF Init
  <2> QED  BY <1>1, <2>1, <2>2, <2>3, <2>4 DEF Init, TypeOK
<1> QED  BY <1>1, <1>2 DEF Init, Inv, SavedInv, ToldInv, LinkInv, Linked, StartToCome

LEMMA NextKeeps == ASSUME Inv, [Next]_vars PROVE Inv'
<1>1. CASE CarryOut \/ ApplySaved \/ Poll \/ RunDeferred
  BY <1>1, CarryOutKeeps, ApplySavedKeeps, PollKeeps, RunDeferredKeeps
<1>2. CASE Screen  BY <1>2, ScreenKeeps
<1>3. CASE Portal  BY <1>3, PortalKeeps
<1>4. CASE RetryComesDue \/ StartComesDue  BY <1>4, RetryDueKeeps, StartDueKeeps
<1>5. CASE UNCHANGED vars  BY <1>5, StutterKeeps
<1> QED  BY <1>1, <1>2, <1>3, <1>4, <1>5 DEF Next, Screen, Portal

-----------------------------------------------------------------------------
(* The theorems.                                                           *)

\* The inductive invariant: whatever the screen, the portal and the radio do,
\* the network task knows where the newest settings are and who starts the
\* station with them.
THEOREM Invariance == Spec => []Inv
<1>1. Init => Inv  BY InitInv
<1>2. Inv /\ [Next]_vars => Inv'  BY NextKeeps
<1> QED  BY <1>1, <1>2, PTL DEF Spec

\* The fields keep their types, the queue its capacity and the slot one save.
THEOREM NetworkTypes == Spec => []TypeOK
<1>1. Inv => TypeOK  BY DEF Inv
<1> QED  BY <1>1, Invariance, PTL

\* RAM and flash agree once a save is through, unless a command met it.
THEOREM SettingsDoAgree == Spec => []SettingsAgree
<1>1. Inv => SettingsAgree  BY DEF Inv, SavedInv, SettingsAgree, Rest
<1> QED  BY <1>1, Invariance, PTL

\* A connected station is on the configured network.
THEOREM LinkStaysConfigured == Spec => []LinkIsConfigured
<1>1. Inv => LinkIsConfigured
  BY DEF Inv, LinkInv, Linked, StartToCome, LinkIsConfigured
<1> QED  BY <1>1, Invariance, PTL

\* Between two passes MQTT follows the switch and the station.
THEOREM MqttDoesFollow == Spec => []MqttFollowsWifi
<1>1. Inv => MqttFollowsWifi  BY DEF Inv, ToldInv, MqttFollowsWifi
<1> QED  BY <1>1, Invariance, PTL

LEMMA OffStaysOff ==
  ASSUME Inv, [Next]_vars, ~wifi'.enabled, sta.state = "OFF", sta'.state # "OFF"
  PROVE  start = "due" /\ start' = "none"
<1> USE DEF Inv
<1>1. CASE CarryOut
  <2>1. Head(queue) \in Commands  BY <1>1, HeadAndTail DEF CarryOut, TypeOK
  <2>2. Effect  BY <1>1, <2>1, ExecuteEffect DEF CarryOut
  <2> QED  BY <2>2 DEF Effect
<1>2. CASE ApplySaved
  <2>1. sta'.state = sta.state  BY <1>2 DEF ApplySaved, TypeOK, Stations
  <2> QED  BY <2>1
<1>3. CASE Poll
  <2>1. wifi' = wifi  BY <1>3 DEF Poll
  <2>2. sta' = sta  BY <1>3, <2>1 DEF Poll, PollConnecting, PollRetry, PollConnected
  <2> QED  BY <2>2
<1>4. CASE RunDeferred  BY <1>4 DEF RunDeferred
<1>5. CASE Screen
  <2>1. UNCHANGED netVars
    BY <1>5 DEF Screen, PressSwitch, PressReconnect, PressApMode, PressForget, RefreshView,
                Pressed
  <2> QED  BY <2>1 DEF netVars
<1>6. CASE Portal
  BY <1>6 DEF Portal, PortalSaves, PortalGivesUp, UiStores, UiPublishes, PortalReplies, OnlyWeb
<1>7. CASE RetryComesDue
  <2>1. sta'.state = sta.state  BY <1>7 DEF RetryComesDue, TypeOK, Stations
  <2> QED  BY <2>1
<1>8. CASE StartComesDue  BY <1>8 DEF StartComesDue, OnlyWeb
<1>9. CASE UNCHANGED vars  BY <1>9 DEF vars
<1> QED  BY <1>1, <1>2, <1>3, <1>4, <1>5, <1>6, <1>7, <1>8, <1>9 DEF Next, Screen, Portal

\* With the switch off only the start that the web deferred turns the radio on.
THEOREM RadioDoesStayOff == Spec => RadioStaysOff
<1>1. Inv /\ [Next]_vars =>
        [~wifi'.enabled /\ sta.state = "OFF" /\ sta'.state # "OFF"
           => start = "due" /\ start' = "none"]_vars
  BY OffStaysOff
<1> QED  BY <1>1, Invariance, PTL DEF Spec, RadioStaysOff

LEMMA StarterTyped ==
  ASSUME NEW w \in Settings, w.ssid # NoSsid, sta \in Stations, StartSta(w) \/ ConnectSta(w)
  PROVE  sta'.state # "OFF" \/ sta'.retry # "none"
BY StartStaTyped

\* SetEnabled and connectSta leave no station stranded that was not.
LEMMA SetEnabledRetries ==
  ASSUME TypeOK, NEW on \in BOOLEAN, SetEnabled(on), wifi'.enabled, wifi'.ssid # NoSsid,
         sta'.state = "OFF", sta'.retry = "none"
  PROVE  wifi' = wifi /\ sta' = sta
<1>1. CASE on = wifi.enabled /\ UNCHANGED <<wifi, stored, sta, crossed>>  BY <1>1
<1>2. CASE on # wifi.enabled /\ wifi' = [wifi EXCEPT !.enabled = on]
  <2>1. wifi' \in Settings /\ wifi'.enabled = on /\ wifi'.ssid = wifi.ssid
    BY <1>2 DEF TypeOK, Settings
  <2>2. StartSta(wifi')  BY <1>2, <2>1 DEF SetEnabled
  <2> QED  BY <2>1, <2>2, StarterTyped DEF TypeOK
<1> QED  BY <1>1, <1>2 DEF SetEnabled

LEMMA StrandedOnlyByToggle ==
  ASSUME Inv, [Next]_vars, Stranded', ~Stranded
  PROVE  task = "commands" /\ queue # <<>> /\ Head(queue).type = "ToggleApMode"
<1> USE DEF Inv
<1>1. CASE CarryOut
  <2>0. /\ task = "commands" /\ queue # <<>> /\ Execute(Head(queue))
        /\ web' = web /\ start' = start
    BY <1>1 DEF CarryOut
  <2>1. Head(queue) \in Commands  BY <2>0, HeadAndTail DEF TypeOK
  <2>2. /\ wifi'.enabled /\ wifi'.ssid # NoSsid /\ sta'.state = "OFF" /\ sta'.retry = "none"
        /\ ~(wifi' = wifi /\ sta' = sta)
    BY <2>0 DEF Stranded
  <2>3. ASSUME NEW on \in BOOLEAN, SetEnabled(on) PROVE FALSE
    BY <2>2, <2>3, SetEnabledRetries
  <2>4. CASE Head(queue).type = "SetWifiEnabled"
    <3>1. Head(queue).value \in BOOLEAN  BY <2>1 DEF Commands
    <3> QED  BY <2>0, <2>3, <2>4, <3>1 DEF Execute
  <2>5. CASE Head(queue).type = "Reconnect"
    <3>1. CASE SetEnabled(TRUE)  BY <2>3, <3>1
    <3>2. CASE wifi.ssid = NoSsid /\ StartApOnDemand
      <4>1. wifi'.ssid = wifi.ssid  BY <3>2 DEF StartApOnDemand, TypeOK, Settings
      <4> QED  BY <2>2, <3>2, <4>1
    <3>3. CASE wifi.ssid # NoSsid /\ ConnectSta(wifi)
      BY <2>2, <3>3, StarterTyped DEF TypeOK
    <3> QED  BY <2>0, <2>5, <3>1, <3>2, <3>3 DEF Execute
  <2>6. CASE Head(queue).type = "ToggleApMode"  BY <2>0, <2>6
  <2>7. CASE Head(queue).type = "Clear"
    <3>1. wifi' = [wifi EXCEPT !.ssid = NoSsid]  BY <2>0, <2>7 DEF Execute, ClearCredentials
    <3>2. wifi'.ssid = NoSsid  BY <3>1 DEF TypeOK, Settings
    <3> QED  BY <2>2, <3>2
  <2> QED  BY <2>1, <2>4, <2>5, <2>6, <2>7 DEF Commands
<1>2. CASE ApplySaved
  <2>1. /\ web' = web /\ start' = start
        /\ \/ slot = {} /\ wifi' = wifi /\ sta' = sta
           \/ slot # {}
    BY <1>2 DEF ApplySaved
  <2> QED  BY <2>1 DEF Stranded, LinkInv, StartToCome
<1>3. CASE Poll
  <2>1. wifi' = wifi /\ web' = web /\ start' = start  BY <1>3 DEF Poll
  <2>2. \/ sta' = sta \/ sta'.state # "OFF" \/ sta'.retry # "none" \/ wifi.ssid = NoSsid
    BY <1>3 DEF Poll, PollConnecting, PollRetry, PollConnected, TypeOK, Stations
  <2> QED  BY <2>1, <2>2 DEF Stranded
<1>4. CASE RunDeferred
  <2>1. wifi' = wifi /\ web' = web  BY <1>4 DEF RunDeferred
  <2>2. (start' = start /\ sta' = sta) \/ ConnectSta(wifi)  BY <1>4 DEF RunDeferred
  <2> QED  BY <2>1, <2>2, StarterTyped DEF Stranded, TypeOK
<1>5. CASE Screen
  <2>1. UNCHANGED netVars /\ web' = web
    BY <1>5 DEF Screen, PressSwitch, PressReconnect, PressApMode, PressForget, RefreshView,
                Pressed
  <2> QED  BY <2>1 DEF netVars, Stranded
<1>6. CASE Portal
  <2>1. wifi' = wifi /\ sta' = sta
    BY <1>6 DEF Portal, PortalSaves, PortalGivesUp, UiStores, UiPublishes, PortalReplies, OnlyWeb
  <2>2. CASE PortalReplies  BY <2>1, <2>2 DEF PortalReplies, Stranded
  <2>3. CASE ~PortalReplies
    <3>1. start' = start /\ web.at # "published"
      BY <1>6, <2>3 DEF Portal, PortalSaves, PortalGivesUp, UiStores, UiPublishes
    <3> QED  BY <2>1, <3>1 DEF Stranded
  <2> QED  BY <2>2, <2>3
<1>7. CASE RetryComesDue
  <2>1. sta'.retry = "due"  BY <1>7 DEF RetryComesDue, TypeOK, Stations
  <2> QED  BY <2>1 DEF Stranded
<1>8. CASE StartComesDue  BY <1>8 DEF StartComesDue, Stranded
<1>9. CASE UNCHANGED vars  BY <1>9 DEF vars, Stranded
<1> QED  BY <1>1, <1>2, <1>3, <1>4, <1>5, <1>6, <1>7, <1>8, <1>9 DEF Next, Screen, Portal

\* An enabled station with a network to join keeps a retry or a start pending.
THEOREM NobodyIsStranded == Spec => NeverStranded
<1>1. Inv /\ [Next]_vars =>
        [Stranded' /\ ~Stranded
           => task = "commands" /\ queue # <<>> /\ Head(queue).type = "ToggleApMode"]_vars
  BY StrandedOnlyByToggle
<1> QED  BY <1>1, Invariance, PTL DEF Spec, NeverStranded
=============================================================================
