# Verification of Project Aura

TLA+ models of the firmware of Project Aura, an air-quality station on an ESP32-S3 (`src/src/`), checked with TLC
and proved about with TLAPS. The firmware is a concurrent program on two cores: it guards hardware, persistent
settings, its network and a firmware update with hand-written synchronisation (single atomics, one-slot mailboxes,
rings, time-outs), and it must come back from a reset at any moment. The models cover that.

- [1 The system](#1-the-system): the parts, their state, how they interact, what is hard
- [2 The modules](#2-the-modules): how each corresponds to the code
- [3 The runs](#3-the-runs): what each checks, its bounds, the fairness it assumes
- [4 The proofs](#4-the-proofs)
- [5 Where the code and its own text disagree](#5-where-the-code-and-its-own-text-disagree)
- [6 The plan](#6-the-plan) and what is not modelled

`PROJECT.json` is the index: components, runs, the lines each definition models, hazards, mutants, theorems.

## 1 The system

### Tasks

| task | runs | talks to |
| --- | --- | --- |
| main (`loop()`, core 1) | UI poll, bridge, backlight owner, OTA window, restart, SD poll, storage, the state for MQTT | all |
| LVGL | `lv_timer_handler()` under the LVGL mutex; its callbacks act on the backlight, on the OTA confirmation, on restarts and on the Wi-Fi switch | main (mutex), OTA, network (queue) |
| network | `NetworkPlane`: commands, saved settings, Wi-Fi, MQTT, then `WebHandlersPollDeferred()` | main (snapshots), HTTP (deferred actions, restart controller) |
| HTTP server | one request at a time | main (bridge), OTA state, restart controller and gate |
| MQTT client | the library's task; calls `handleEvent()` | network (signal, command ring) |
| SD recovery worker, board init, restart on core 0 | short-lived | queues and atomics |

### Components

For each: its state, its operations, what is hard, and what makes it correct.

**Web/UI bridge** (`web/WebUiBridge.*`, `UiController::processWebUiBridgeCommands`). Six one-slot channels, each with
a state, an id, an update, a result and a binary semaphore under one mutex. The HTTP task posts and waits five
seconds, the main task consumes, applies and completes. Hard: a time-out that races the completion, a token that
outlives its request, ids that wrap, the poll that stops whenever a wake is under way. Correct when a reply is the
caller's own, a 504 means "never applied", and no channel stays busy.

**Wake power guard** (`core/WakePowerGuard.*`, `ui/BacklightManager.*`, parts of `UiController` and of the LVGL port).
A lock-free phase machine that closes admission to background work while the backlight rail is switched. Six
atomics, a counter of leases, time stamps modulo 2^32, a failsafe that any reader may fire. Hard: every access is a
separate atomic, commands arrive from callbacks, the display may be abandoned at any moment. Correct when no
activity overlaps the switch, quiet and settle intervals are kept, and the guard always reopens.

**OTA restart and gate** (`web/OtaDeferredRestart.*`, `web/OtaRestartGate.h`, `WebHandlersSupport.cpp`, `loop()`).
Three atomics without a lock and a gate. Handlers and callbacks schedule a restart, the network task raises it, the
main task consumes it and shuts down. Hard: the busy test reads three atomics one by one, and the stores of
`schedule()` and `poll()` interleave. Correct when shutdown and upload exclude each other and no restart is lost or
invented.

**OTA update with physical confirmation** (`web/OtaPhysicalConfirm.cpp`, `web/OtaUiLineagePolicy.h`,
`web/WebOtaHandlers.cpp`, `web/WebOtaState.cpp`, `UiController::webSetFirmwareUpdateScreen`). A confirmation with a
deadline, a preflight lease, a session, and screen commands through a one-slot mailbox with a lineage of ids. Hard:
four tasks, each with its own lock, decide and publish separately. Correct when only an image that the person at the
device allowed is written, once per consent, and the screen follows the newest confirmation and does not get stuck.

**Storage, boot and recovery** (`modules/StorageManager.*`, `core/BootPolicy.*`,
`core/BootState.*`, `LastGoodHealthPolicy.h`, the stable-boot and last-good parts of `loop()`). Each setting is a file
saved by renames (`.tmp`, `.bak`), the configuration in RAM is saved at once or later, a version that ran healthily
long enough becomes the last known good, and crashes are counted over resets. Both the main and the network task call
the setters. Hard: a reset between any two calls of the file system, a call that fails in the middle, several files that
must change together, a mutex that covers the write of the configuration but neither the change before it nor the
way back after it, a proof of health that is about one version and must not be taken over by the next. Correct when
each save is all or nothing, a refused request leaves the previous values, a crashing version never becomes the last
known good, and a crash loop ends.

**Network plane and Wi-Fi** (`core/NetworkPlane.cpp`, `core/NetworkCommandQueue.*`, `modules/NetworkManager.*`,
`core/ConnectivityRuntime.*`, the Wi-Fi parts of `UiController` and of the web handlers). A bounded command queue with
latest-value slots beside it, a station and access-point state machine with retries, a start that the web defers, a
view of the switch that runs ahead of the network. Hard: two writers of the same settings, the order between queue
and slot, a full queue, failures of the radio at each step. Correct when RAM and flash agree, the station is on the
configured network, the switch is respected, and nothing strands the device.

**MQTT** (`modules/MqttManager.*`, `core/MqttEventQueue.*`, `core/MqttCommandIngressQueue.*`,
`core/MqttRuntimeState.*`, `core/MqttClientLifecycle.h`). The callback of a library's task stores a signal and fills a ring with message fragments, the
network task connects, stops and destroys clients, publishes states and events, loggers fill an overwriting queue.
Hard: callbacks of a client that is being replaced, a ring full in the middle of a message, a peeked entry that is
overwritten, a request to publish that is consumed while the connection goes. Correct when the manager's belief is
its client's, commands arrive whole, in order, once, and nothing that must be published is forgotten.

**Settings apply and rollback** (`UiController::applyWebUiSettingsBridge`). A settings request calls setters of several
subsystems and undoes them when one fails. Hard: partial failure, a rollback that fails. Not modelled yet; the part
`StorageManager` undoes itself is.

**Shared I2C bus** (`SharedI2cRuntimeGate.h` and the policies beside it, `BoardInitTaskLifecycle.h`). A CAS gate that
admits accesses until it is disabled for good, then drains. Not modelled yet.

**Others**, mostly sequential: time and RTC arbitration, fan and DAC automation, histories, SD card recovery, sensor
drivers, touch policies, logger ring, themes and texts. They are listed in `PROJECT.json`.

### How they interact

```
 HTTP task --post/wait--> [bridge] --poll--> main task --request/process--> [wake guard] <--leases-- LVGL, network,...
   | |                                       ^ |   |
   | |  prepare, upload        one-slot screen |   +--save, poll--> [storage] --boot--> [boot policy]
   | v                             mailbox   | v                       ^
 [confirmation, session, lease] --publish----+ consume_request,        | saved settings: the UI stores,
   |  ^           ^                            tryBeginRestart         | then leaves them in a slot
   |  | buttons   | expiry, lease                 v                    |
   | LVGL      network              [restart controller, gate]   LVGL --commands--> [queue, slot] --> network task
   |                                    ^ poll       ^ schedule                       | Wi-Fi, then MQTT
   +-- deferred start of the station ---|------------|--------------------------------+
                                     network     HTTP, LVGL, main         MQTT client --signal, ring--> network
```

The bridge is served only in the phases Idle and PreQuiet of the wake guard. The OTA screen command is the last
thing the same poll serves. The busy test of the OTA handlers reads the restart gate and the restart controller. A
Wi-Fi save of the portal goes through the bridge to the main task, which writes flash and leaves the settings for
the network task; the network task writes flash too when a command changes the switch. The state of the station
drives MQTT through a callback that is called when the state differs from the one told last.

## 2 The modules

| module | models | relation |
| --- | --- | --- |
| `RequestReply` | the promise of the bridge to a caller: an abstract specification | |
| `WebUiBridge` | the bridge and the poll that serves it | refines `RequestReply` |
| `WakePowerGuard` | the guard, its readers and its owner, at the grain of one atomic access | |
| `OtaRestart` | the restart controller, the gate, the start and end of an upload, the top of `loop()`, at the grain of one atomic access | |
| `OtaUpdate` | prepare, consent, upload, screen, at the grain of one locked call | |
| `FileStore` | what the files promise under failing calls and resets: an abstract specification | |
| `AtomicFiles` | the files by renames, one action per call of the file system | refines `FileStore` |
| `StorageManager` | the settings in RAM and on flash, the last known good, the boot counters, resets | extends `AtomicFiles`, so refines `FileStore` as well |
| `NetworkPlane` | command queue, slot, station and access point, portal, view of the screen | |
| `CommandChannel` | what the way of an MQTT command promises: an abstract specification | |
| `MqttPlane` | the MQTT manager, its client, the ring, the event queue, the state to publish | refines `CommandChannel` |
| `*Proofs` | the theorems of `WebUiBridge`, `WakePowerGuard`, `OtaRestart`, `OtaUpdate`, `AtomicFiles`, `StorageManager`, `NetworkPlane`, `MqttPlane` | |
| `MC*` | instances for TLC | |

### WebUiBridge

Each block between `lock()` and `unlock()` is one action, and so is each wait on a semaphore. `Post` is the body of the
six `apply*()`; `TakeToken`, `TimeOut`, `WaitAgain` and `Return` are `waitForDeferredReply()`, with `Verdict` its
sequence of tests under the lock; `Consume`, `Apply` and `Complete` are the poll. The six channels have the same code
and are numbered in the order of the scan. An update is the ticket of the call that posted it and a result the ticket
it was computed from, so a reply that reaches the wrong caller shows. The phase of the wake guard moves freely.
`setDispatchMode(DeferredReply)` precedes the network, so the direct mode is left out.

### WakePowerGuard

Readers: `Sample` .. `Release` are `tryAcquireActivity()` with its `refresh()`, one action per load, add or CAS.
Owner: `RequestWake` .. `PollNothing` are the operations of `BacklightManager`, again split at each atomic that a
reader may change in between; the owner's own reads of stamps that only it writes are part of the action that uses
them. The owner is whoever holds the LVGL mutex: the main task in its poll, or a callback of the handler.
`Latch`, `CloseBus`, `Abort` and `AbortFails` are `quiesceLvglAndAbortBacklightWake()`. Times are `millis()` modulo
`Wrap`, sampled before they are used, so a sample may be older than the stamp it is compared with. Left out: the
inactivity time-out and the preferences of the backlight, the wake at start-up, the driver (whether it lights the
panel is a choice). `calm` is a history variable: no activity was admitted since the quiet interval was stamped.

### OtaRestart

`ClearRequest`, `SetDue`, `SetDeferred` are the three stores of `schedule()`, by any task that asks; `PollDeferred` ..
`Raise` the loads and stores of `poll()`. `Busy*` are the three loads of `isOtaBusy()`. The deadline is relative to now:
`"zero"` (the value `poll()` leaves), `"future"` or `"past"`, and `zeroReached` says how `now - 0` compares, which
changes every 2^31 ms. The SD recovery worker delays the shutdown, as `recoveryIdle()` does.

### OtaUpdate

Four tasks with a step counter each; an action is one call under its lock, so the gap between a decision and the
command that shows it is in the model. `PrepareNew`, `PrepareAgain`, `ArmPreflight`, `PublishPrepared` are
`POST /api/ota/prepare`; `UploadStart` .. `Finish` are `POST /api/ota` with the rejection, the body and the clean-up after
the response; `PollBegin` .. `HidePolled` the network task; `Clicked`, `PublishAnswer`, `ShowAnswer` the button
callbacks; `TakeCommand` .. `TryBeginRestart` `loop()`. The fields of the screen are written by `loop()` without the LVGL
mutex (`webSetFirmwareUpdateScreen` takes it only to change the page), so `ShowAnswer` and `ApplyCommand` interleave.

Abstractions: the image and the identity parser are a verdict; a deadline is a flag that time sets; the record of
earlier terminal answers is left out (it changes the wording of an answer); a display is present; ids do not wrap
(2^32 confirmations); the busy test is one step, its three loads are `OtaRestart`'s.

Timing assumptions, each a guard of the action that names it: a new confirmation does not expire before its screen
command is published (deadlines are 5 s and more); the lease of 15 s does not end inside the request that armed it;
a button's callback returns before the 1.5 s of the automatic close, and before the client has made the two
requests that a new confirmation needs after an answer. A *repeated* prepare has no such guard: it may be decided
before the deadline and published after it.

### AtomicFiles and FileStore

A path has three directory entries (the file, `.tmp`, `.bak`), and an action is one call of the file system that changes
an entry: it may fail, and a reset may come before and after it. `Open` and `Fill` are the writing of `.tmp`, `Settle`
.. `CleanBak` are `replaceFileAtomic()` statement by statement with its undo, `RmFinal` .. `RmBak` are `removeBlob()`,
`Reads` is a reader with `recoverFileAtomic()`. LittleFS is external: its rename replaces a target in one step.
`FileStore` is the promise: a save takes effect at once or not at all and its answer is the truth; an interrupted or
failed removal alone may bring back the one value the last save had replaced. Two facts of the code are in the
promise as they are: a configuration and a copy may be cut short unnoticed (`checked`), and the answer of
`removeBlob()` says that *one* of the three entries went, so it is TRUE for a stale `.tmp` or `.bak` while the file
stays.

### StorageManager

Each task has one operation in progress at most (`op`), and the operations of several tasks interleave. What holds
`persistence_mutex_` is a file job: the write of the configuration and the copy of the last known good. `SavesConfig`
starts one only when none is running (`Free`), and `poll()`, `requestSave()`, `observeLastGoodHealth()` and `begin()` wait
for it too. **Nothing else is locked.** A setter changes `config_`, saves it and puts it back in separate actions, and
the setters of another task come between any two of them, with their saves of whatever RAM holds by then.

- `SaveField` .. `UndoField`: the setters of one field, which on failure revert (`saveRtcMode()`) or mark dirty
  (`saveWiFiEnabled()`, `saveMqttEnabled()`), by any task.
- `SaveSettings` .. `SettingsReturn`: `saveWiFiSettings()`, by the main task, statement by statement: the copy of `config_`, the
  capture of each certificate, its save or removal, the fields (some of them assigned, `Mixed`, before all are), the
  save, the way back. `ClearCredentials` is the network task's call of the same.
- `PollSave`, `Request`: the debounced save and its retry. `ObserveHealthy` .. `RetryReady`: the health window and the copy.
- `Apply` .. `LoadConfig`: `BootPolicy::apply()` and `begin()` with rollback, factory reset and load; `MarkStable`. `Panic` is the
  crash of a device that runs with a bad version, `ResetAnywhere` any other reset, between any two file calls.

A configuration is two versions, that of the Wi-Fi settings and that of the other fields; version 0 is the default. A
call on a certificate is two steps, its start and its effect, so another task may write in between; two tasks that
write certificates at the same time may use the same `.tmp`, and then the certificate may be anything (`"torn"`). That a
single save of a certificate takes effect at once or not at all is what `AtomicFilesProofs` shows of `replaceFileAtomic()`.
An unreadable configuration boots with the defaults, `loaded` FALSE, and a later save overwrites it, as in the code.
The constant `RtcDataKept` says whether `RTC_DATA_ATTR` memory survives a crash reset: TRUE describes the intended
counters, FALSE the platform (section 5).

Abstractions. Durations are steps that may come at any time, so a save may always be late. A bad version in RAM or
in a certificate crashes the device before it has been healthy for the whole dwell, and no operation lasts that long
(`ObserveHealthy`, `suspect`): healthy samples can be counted for less than the dwell while either holds. `config()` hands
the configuration out without the mutex; reading a text while another task assigns it is a data race in C++, of which
the model keeps that a save may find some fields new and others old (`Mixed`), not that it may crash. A setter's other
fields are one field, of which one operation sets one version. A controlled restart does not flush a dirty
configuration (`main.cpp:786-870`), so it is `ResetAnywhere(FALSE)`. Not modelled: `clearAll()` from the factory-reset button
(it runs at boot only), and `saveMqttSettings()`, which is like `saveWiFiSettings()` with one certificate but for one way out:
when saving the certificate fails it returns (`StorageManager.cpp:528-531`) without putting it back. The atomic save
leaves the old one then; a failed removal may not.

History variables, each for an exception of a property, see section 3. `crossed`: a rollback has put back a copy of
`config_` made before another task's save (`"overtaken"`), until a save of what RAM holds or a reset. `tainted`: the last
known good was copied meanwhile. `"disturbed"`: another task has changed the Wi-Fi settings or a certificate since the
operation began. `op.since`: the failing calls before the operation began.

### NetworkPlane

`CarryOut` is one queued command with all it calls (`SetWifiEnabled`, `Reconnect`, `ToggleApMode`, `Clear`), `ApplySaved` the
slot, `Poll` the poll of `AuraNetworkManager` with the state callback and the publication of the snapshot,
`RunDeferred` the start that the web deferred. `PressSwitch` .. `RefreshView` are the screen, `PortalSaves` ..
`PortalReplies` the portal through the bridge (`PortalGivesUp` is the bridge's time-out: cancelled, never applied).
What the radio answers is a choice at each call. Attempt counters are left out: they choose the length of a wait.
Timing assumption: the 200 ms of the deferred start do not run out inside one pass between the slot and the
deferred actions (`StartComesDue`). `crossed`, `flipped` and `wavered` are history variables for the exceptions below.

### MqttPlane

The network task walks through `MqttManager::poll()` (`at`), one action per atomic access, locked region or call of the
library; `LinkUp` .. `PublishHead` are the library's task and `handleEvent()`, which checks `mqtt_active_client_` in one
step and acts in the next; `LogEvent` and `StoreEvent` a logger; `ChangeState` .. `ReleaseRequest` the main task. The
library is external: one callback at a time, a stop or a destroy waits for it, `link` is what a client's connection
really is. A message has two fragments, with offsets in the ring's slots; the ring has its two indices.
`CommandChannel` is the promise of the ring. A stop while connecting can still be followed by Connected, a
message in the ring is lost without a count when its client is destroyed, and an event logged during a
publication is dropped: the model has these behaviours because the code has them.

## 3 The runs

Every property of a passing run is broken by at least one mutant of a definition, named in `PROJECT.json` and
written beside the definition it mutates. Deadlock is checked except in the storage runs, where the instance really
rests: every version has been used up, everything is saved and the device is stable.

| run | checks | distinct states |
| --- | --- | --- |
| `bridge` | replies reach their own caller, a 504 is a cancellation, no mismatch, one owner per busy channel; the refinement of `RequestReply`; every call returns | 79 k |
| `wake_safety` | exclusion, an owner for every closure, quiet interval before the switch, settle interval kept; the failsafe fires when the owner takes no more steps | 309 k |
| `wake_live_owner` | `WakeReopens`: a live owner always reopens | 21 k |
| `restart` | shutdown and upload exclude each other, the gate is released, no restart lost or invented, the restart comes | 107 k |
| `update` | consent, session, restart after an installation, order of the screen, waiting request on the screen, "Installing" ends | 386 k |
| `storage` | setters of two tasks: RAM and flash agree, settings all or nothing, atomic saves through the refinement of `FileStore`, the last known good is no crashing version, a crash loop ends | 1.0 M |
| `network` | settings agree, the link is configured, the switch is respected, nothing strands, MQTT follows Wi-Fi, the override ends | 238 k |
| `mqtt` | belief and link agree, states and events are not forgotten, the refinement of `CommandChannel` | 2.9 M |
| `wake_latch`, `update_screen_stays`, `safe_boot_retention`, `candidate_cut` | violations, see section 5 | |

The type invariants of the proved modules are theorems; a run checks that of `NetworkPlane` as well.

### What the properties say

*Bridge.* `ReplyIsOwn`, `TimeoutIsCancellation`, `NoMismatch`, `OneOwner`: invariants over the state and a history of
answers. `ImplementsRequestReply`: the bridge refines the promise under the mapping `Status`. `EveryCallReturns`:
liveness.

*Wake.* `Exclusive` is the purpose of the guard. `ClosureHasOwner` relates the phase and the owner's flags.
`QuietBeforeSwitch` and `SettleIsKept` are action properties about what a phase change may do.

*Restart.* `ShutdownExcludesUpload` and `GateIsTheSession` are about decisions on stale reads. `RestartNotLost` says
where a scheduled restart is, at each step of each task. `RestartWasAsked` is about the zero deadline.

*Update.* `OneUploadPerConsent`: an upload is begun at most once per confirmation, and flash is written only for an
`<<id, size>>` that a click allowed. `UploadLeavesNothing`: all ways out of an upload release gate, session and owner.
`InstalledRestarts`: after a success the restart is on its way. `ScreenMovesForward`: a newer confirmation is never
replaced by an older one. `PendingIsShown`: when no command is on its way, the screen asks for the confirmation
that is waiting. `InstallingEnds`: liveness of the screen, also when the client disappears.

*Storage.* `ImplementsFileStore` as above. `RamIsOnFlash`: between operations, what the device runs with is what it would
boot with, or a save is due, for any interleaving of changes, saves, failures and rollbacks of the two tasks. One
behaviour of the code breaks it and is the exception (`crossed`): a rollback restores a copy that another task's save has
overtaken, section 5. `SettingsAllOrNothing`: settings answered "saved" have changed in RAM, on flash and in the
certificates, under any number of failures; settings refused are as before when one call has failed since they were
given (with two, the way back may fail itself). Meanwhile the other task may change, save and roll back its fields,
and its saves may carry the new settings to flash early. Exceptions: the other task changes the Wi-Fi settings too
(nothing keeps two such changes apart), and a certificate whose removal failed while `removeBlob()` answered TRUE for a
stale `.tmp`. `LastGoodIsSafe`: no mixture of saves, health samples, failed copies and resets lets one version be committed
on the health of another; what is copied is flash, whatever RAM holds, so a copy made while `crossed` holds is excepted
(`tainted`). `CrashLoopEnds`: once resets have no other causes, the device becomes stable.

*Network.* `SettingsAgree`, except when a command meets a save under way (the slot is taken after the commands, so it
undoes them in RAM only, and the next start reads the other value) or a forget could not be written.
`LinkIsConfigured` after any mixture of commands, saves, retries and deferred starts. `RadioStaysOff`, except for the
deferred start, which does not look at the switch. `NeverStranded`, except for an access point asked for at the screen
that fails (the code leaves OFF without a retry). `MqttFollowsWifi`, except when a state is left and regained between
two callbacks. `OverrideEnds`: the position shown ahead of the network ends, unless the switch has been set
against it. The exceptions are behaviours of the code, written as conditions of the properties so that all else is
checked.

*MQTT.* `SessionIsReal`: once events are taken in, the manager believes it is connected exactly when its client is and
has subscribed. Exceptions: a callback of the old client that passed the check before the clear stores its signal
after it, and a client asked to disconnect whose event is still to come; both heal. `StateIsNotForgotten`: a state to be
published has been, or something is left that will publish it. `EventsNotLost`: the events that were stored and are
neither published nor in the queue are at most as many as there were stores into a full queue, and none is published
twice. No case is excepted: a logger that was already past its check may overwrite the entry being published, and the
discard then takes another, unpublished one; that costs one event for one such store, since the overwritten entry has
been published all the same.

### Bounds, and why they are enough

| run | instance | reason |
| --- | --- | --- |
| `bridge` | 2 callers, 2 channels, ids modulo 2, 3 accepted calls | the firmware has one calling task; a second exercises the busy answer. A channel is used twice and its ids wrap; the two channels show what a poll does after the first |
| wake runs | LVGL and one background task (LVGL alone for `wake_live_owner` and `wake_latch`), clock modulo 4, failsafe 2, quiet 1, settle 1 | background tasks differ from each other in nothing; the clock wraps within a wake |
| `restart` | HTTP, network, main and one callback task; 3 restarts asked, 2 uploads | two schedules overlap a poll, one more remains; an upload before and one during a restart |
| `update` | 2 confirmations, 2 sizes, 3 requests | an older confirmation is still held by one task when the newer is created; a size that differs from the allowed one; prepare, upload and a repeated upload |
| `update_screen_stays` | 1 confirmation, 1 size, 2 requests | enough for the counterexample |
| `storage` | the main task and another, 1 certificate, 2 changes of which the second is bad, 1 failing call or reset of other cause (crashes by the bad version are not bounded), 2 crashes to a rollback, a dwell of 1 interval | each task is in a setter while the other changes, saves and rolls back; the good version becomes the last known good while the bad one is on its way; a call fails on the way out; a reset falls into a save, a rollback or a factory reset |
| `safe_boot_retention`, `candidate_cut` | the same with the main task alone | enough for the counterexamples |
| `network` | 2 networks, a queue of 2, 3 presses, 1 save | the queue overflows; a command before, between and after the steps of a save; a link on the other network |
| `mqtt` | a ring of 3 slots (2 messages), 2 events, five loads: 4 messages over 2 clients, 4 events of several loggers, 2 states over stops, and two mixtures | the ring's indices wrap and it fills in the middle of a message; the event queue overwrites; a callback of the first client meets the second |

### Fairness

- `bridge` (`FairSpec`): the HTTP task and the main task are scheduled and a timed wait ends. Nothing is assumed of the
  wake guard: the five-second wait cancels what the UI has not taken, and what the UI has taken it completes in the
  same poll.
- `wake_safety` (`LostOwnerSpec`): time passes and background tasks keep asking; *nothing* of the owner. The clock is
  coarse (no background admission is slower than one tick, seconds in the code) and a task does ask after the
  deadline and before the clock has wrapped around (strong fairness of that sample): each polls many times in 49 days.
  The safety properties of this run are proved for `Spec`, without the assumption on the clock.
- `wake_live_owner` (`LiveOwnerSpec`): the main task and the LVGL task run and each gets the mutex again and again
  (strong fairness of taking it, as FreeRTOS mutexes are handed to the waiter).
- `restart` (`FairSpec`): the scheduler runs every task, time passes and the SD worker ends (its card operations return
  or fail). Uploads are not fair: they are bounded in the instance, and in the code by the client.
- `update` (`FairSpec`): one weak fairness condition per task; a body ends, since it has a total deadline; time passes.
  The user and the clients owe nothing.
- `storage` (`FairSpec`): weak fairness of `GoesOn`: as long as an operation can go on, a dirty configuration can be
  polled, a device that runs with a bad version can crash or another can become stable (60 s), one of these happens:
  the device does not stand still while it has something to do. The tasks are scheduled and the loop runs. Saves by the user, health samples and other resets owe nothing.
- `network` (`FairSpec`): the network task, the poll of the UI and the HTTP task run, waits end. The user owes nothing.
- `mqtt`: safety only.

## 4 The proofs

The theorems hold for every value of the constants: any set of callers, tasks or paths, any number of channels, any id
range, any time constants with `0 < MinQuiet < Failsafe < Wrap`, any bounds. They rest on the named assumptions of the
modules, which TLC evaluates on its instances.

- **`WebUiBridgeProofs`**. `IndInv` (in `WebUiBridge`) adds to the types: a busy caller waits for the generation its channel
  holds, callers differ in channel and ticket, a busy channel has a caller, each state of a channel says how often its
  update was applied, the UI holds the update of a channel in flight, and a caller woken by the token finds its
  request completed and the token gone. None is inductive alone: that a reply is the caller's own rests on the
  generation not changing while it waits, which rests on only its caller freeing the channel. `Invariance` is the
  induction, one lemma per group of actions; the invariants follow. `Implementation` proves the refinement: each
  step moves one ticket one stage or stutters.
- **`WakePowerGuardProofs`**. `IndInv` adds to the types and to `Exclusive` and `OpsCounted` three parts: the mutex serialises
  the owner, the owner's flags follow the phase, and what each step of the owner has established about the quiet
  interval. The central step is the claim: when the owner's CAS sets Switching with phase PreQuiet, the counter was
  zero after the phase was PreQuiet, and an increment that comes later rechecks the phase and withdraws. The counter
  argument uses finite cardinalities. The two action properties follow from the invariant and the step.
- **`OtaRestartProofs`**. The conjunction of the properties is inductive itself, once the step each task has reached is
  part of them.
- **`OtaUpdateProofs`**. The invariant ties the step of the HTTP task to what it holds: the gate is held from the first
  step of an upload to its last, and the session is busy only after the confirmation was consumed; a confirmation was
  used at most once, only after a click allowed it for that size, and it is the newest and consumed, or older; the
  screen shows the newest lineage it accepted, or none. `ConsentIsUsedOnce`, `UploadIsCleanedUp` and
  `InstallationRestarts` follow; `ScreenNeverGoesBack` from the step. `PendingIsShown` needs a part of its own, `AskInv`:
  while a request waits, every command on its way (in the slot, in the hand of `loop()` or of the HTTP task) is its question or
  one of an older confirmation, no task still holds its id for another command, and the question has reached one of the
  places that lead to the screen. It is what excludes that a lease, an expiry or an automatic
  close, decided for an older confirmation, covers the question (`EveryRequestIsShown`).
- **`AtomicFilesProofs`**. The invariant says, for each step of `replaceFileAtomic()`, which of the three entries exist and
  what `.tmp` holds: at every step the file or its backup is complete.
  `FilesImplementStore` maps each call of the file system to one step of `FileStore`: the rename of `.tmp` to the file
  is the commit, everything else is a stutter, a removal or a return.
- **`StorageManagerProofs`**, for any number of tasks and certificates. Every action of `StorageManager` is an action of
  `AtomicFiles` under some caller, so its invariant and its refinement carry over (`StorageImplementsFileStore`). `StoreInv`
  adds to the types the shape of an operation and of a boot, and `CallShape`: one file job at most is under way, for
  the one operation that waits for it, on the path that operation calls for. `LastInv` has three parts. `RamInv` says what
  flash has while nothing is locked: when no operation is unsettled, what RAM holds (`QuietAgrees`); when one is, what
  *it* would put back, as long as no other save has overtaken its copy (`CopyAgrees`); and that a save in progress carries
  what RAM holds, or what another operation would put back (`SaveCarries`, `CopyCarried`). So a rollback that is not
  overtaken restores what is on flash, although other tasks saved before its copy and after its end. `HealthInv`: a bad
  version on flash has not been healthy for longer than it can be. `GoodInv`: no entry of the last known good, nor the
  value on its way there, is bad. `SettingsInv` follows one change of the Wi-Fi settings through `TextsFollow` (the
  certificates before the current one are saved on the way out, put back on the way back), `RamFollows` and
  `FlashFollows` (whichever task's save comes last carries the new settings, once they are assigned). That a refused
  request restores everything is an argument about *where* a failure fell: a refusal implies a failure on the way out
  (`Spent`), so with at most one since the settings were given the way back has none. The proofs take the steps of a
  certificate, of a setter, of a save and of the boot one by one: each has a lemma that says what it does to the
  operations of the other tasks.
- **`NetworkPlaneProofs`**. Three parts are added to the types: `SavedInv` says where the newest settings are while a save
  is under way (with the UI, in the slot, applied), `ToldInv` that MQTT follows the state last told, `LinkInv` that saved
  settings are followed by a start that finds them applied and that a station on another network waits for that start.
  The state properties follow; `RadioStaysOff` and `NeverStranded` are proved from the invariant and the step, one
  step of the proof per action.
- **`MqttPlaneProofs`**. `Inv` has five parts. The types include the shape of the ring. `SessionInv` relates the manager's
  belief to the client: what each step of `poll()` has stopped or destroyed, and that belief and link differ only by a
  signal or a callback on its way; `SessionIsReal` follows. `StateInv` follows the newest state through the store of
  the main task, its request and the copy in the hand of the network task. `EventInv` counts: an
  event is stored once, the lost ones (`Lost`) are no more than the stores into a full queue, and from the moment a
  published entry is found to be overwritten until the discard they are one less (`HandInv`), which pays for the entry
  the discard takes in its place. `RingInv` says that
  every message held or taken is older than the one that comes in, and that the slot at the head, which is free, holds
  exactly the parts of that one which were pushed; so what is published is whole and the newest. `RingImplementsChannel`
  proves the refinement of `CommandChannel`: publishing the head is a put, the copy is a take, a destroyed client drops
  what is in the ring, everything else stutters. The lemmas on `Numbers` (the contents of the ring as a sequence, by
  its two indices modulo `Slots`) carry it for every size of the ring. The loads are budgets in natural numbers
  (`BudgetsAssumption`), any set of them.

Every invariant and every action property of the passing runs, and all three refinements, are stated by a theorem. Only
model-checked are the seven liveness properties (`EveryCallReturns`, `LostOwnerReopens`, `WakeReopens`, `RestartComes`,
`InstallingEnds`, `CrashLoopEnds`, `OverrideEnds`), because temporal proofs under fairness need ENABLED, which is out of the
prover's reach, and the four violations.

## 5 Where the code and its own text disagree

Four runs expect a violation. Each checks one sentence of the repository.

| run | what the text says | what the code does |
| --- | --- | --- |
| `wake_latch` | the terminal latch keeps admission closed until the display is safely off | a callback of the handler still running turns the backlight off, and `cancel()` takes FailClosed back to Idle |
| `update_screen_stays` | the confirmation screen cannot remain visible indefinitely | a repeated prepare, decided before the expiry and published after it, shows the screen again with the same id; nothing hides it until the next prepare or upload |
| `safe_boot_retention` | automatic rollback to the last-known-good configuration after crashes | the boot counters are `RTC_DATA_ATTR` with initialisers, which the bootloader loads again at every reset but a wake from deep sleep; the count never reaches the limit (`BootState.cpp:26`) |
| `candidate_cut` | the last-known-good candidate is the successfully persisted configuration | `saveConfigInternal()` takes any non-zero count of written bytes for success, so a file cut short becomes the candidate (`StorageManager.cpp:1056`) |

Two more were met while modelling and have no run of their own. A reader of the wake guard whose clock sample is older
than the request's stamp sees a huge unsigned difference and reopens PreQuiet at once (`WakePowerGuard.cpp:34`); the
owner closes it again, and `QuietBeforeSwitch` holds. A `schedule()` of another task between the check and the stores
of `OtaDeferredRestart::poll()` is overtaken, so that the restart comes early, where
`test/test_ota_deferred_restart` (lines 49-56) says that a second `schedule()` replaces the first deadline; it is not lost.

A third is no disagreement: the repository knows that `persistence_mutex_` covers neither a change of `config_`, nor its
rollback, nor the certificates (`docs/POST_V1_1_5_CLEANUP_REVIEW_20260830.md:328-343`, `StorageManager.h:111-114`). The
storage model has these interleavings, and they are the exceptions of its properties:

- `saveWiFiSettings()` of the main task copies `config_`, `saveWiFiEnabled()` of the network task changes and saves it and so
  clears `dirty_`, the main task's save fails and `config_ = previous` (`StorageManager.cpp:471`): RAM has lost the other
  task's change, flash has it, nothing is due. The next save makes it permanent, the next boot brings it back.
- The other way round, the network task's save falls between the main task's assignments and its failed save: settings
  that were refused are on flash, and in force after the next boot.
- While either lasts, the last-known-good copy takes flash on the health of what RAM runs with (`LastGoodIsSafe` excepts
  it by `tainted`).
- `clearWiFiCredentials()` of the network task runs in the middle of `saveWiFiSettings()` of the main task: the certificates
  are removed, or put back, under a request that is answered "saved" or "refused" (`SettingsAllOrNothing` excepts it by
  `"disturbed"`).

All other interleavings are checked, and proved for any number of tasks.

## 6 The plan

In order of importance; a stage is done when its module is mapped, checked with mutants and, where marked, proved.

1. `WebUiBridge`, `RequestReply`: done, proved.
2. `WakePowerGuard`: done, proved.
3. `OtaRestart`: done, proved. `OtaUpdate`: done, proved.
4. Storage and boot: `FileStore`, `AtomicFiles`, `StorageManager`: done, proved.
5. `NetworkPlane`: done, proved. `MqttPlane`, `CommandChannel`: done, proved.
6. `SharedI2cRuntimeGate` and the recovery policies; `BoardInitTaskLifecycle`. To prove: no access after the disablement.
7. Settings apply and rollback of the UI, above `StorageManager`.
8. Candidates after that: SD recovery, RTC arbitration, demand curve of the DAC automation against a reference
   definition, histories as ring buffers, the logger ring, pausing of the LVGL port.

Composition: `StorageManager` extends `AtomicFiles`. `OtaUpdate` stays above `OtaRestart` (it uses the gate as one step).
`NetworkPlane` uses a save of `StorageManager` as one step that succeeds or fails, which `FileStore` justifies; `MqttPlane`
sees the station as a switch that may go at any poll. The wake guard and the bridge share the phase, which
the bridge leaves free and so over-approximates.

### Not modelled

Socket and file I/O below the calls, register protocols of the sensors and of the touch controller, display buffers,
parsing and JSON, measurement arithmetic, layouts and texts. The bulk of the lines of the repository is generated or
vendored (fonts, screens, the display panel components) and has no behaviour of this program to model. Of
the network: the scan list, mDNS, host names; of MQTT: discovery, availability and the pauses during an update; of the boot:
the cold-start restart, the start-up probes and the OTA rollback mark. The components of stages 6 to 8 are not modelled yet;
their hazards are listed in `PROJECT.json`.
