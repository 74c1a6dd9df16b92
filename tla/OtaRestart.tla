------------------------------ MODULE OtaRestart ------------------------------
(***************************************************************************)
(* The deferred restart (OtaDeferredRestart.cpp), the gate that keeps an   *)
(* upload and the restart shutdown apart (OtaRestartGate.h), the start and *)
(* the end of an upload in the HTTP task and the top of loop().  Neither   *)
(* the controller nor the gate has a lock: every action is one access to   *)
(* one atomic.                                                             *)
(*                                                                         *)
(* Http handles one request at a time, Net polls the controller, Main runs *)
(* loop(), and Callers are the tasks whose callbacks ask for a restart.    *)
(* What an upload does between its start and its end is in OtaUpdate.      *)
(* A deadline that is past stays past: Net polls it well within 2^31 ms.   *)
(***************************************************************************)
EXTENDS Naturals

CONSTANTS Http, Net, Main, Callers,
          MaxAsked,     \* bound: restarts asked for
          MaxUploads    \* bound: uploads admitted

ASSUME TasksAssumption ==
  /\ Http # Net /\ Http # Main /\ Net # Main
  /\ {Http, Net, Main} \cap Callers = {}
ASSUME BoundsAssumption == MaxAsked \in Nat /\ MaxUploads \in Nat

VARIABLES
  deferred, due, requested,  \* the atomics of Controller; due relative to now
  zeroReached,               \* deadline_reached(now, 0)
  gate,                      \* OtaRestartGate::state_
  session,                   \* the request of Http passed try_begin_upload
  pending,                   \* restart_request_pending of main.cpp
  worker,                    \* the SD recovery worker runs
  pc,                        \* where each task is
  asked, uploads,            \* what the bounds count
  promised                   \* history: a schedule() stored its deadline

controller == <<deferred, due, requested>>
counters   == <<asked, uploads>>
others     == <<zeroReached, gate, session, pending, worker>>
vars == <<controller, others, pc, counters, promised>>

Tasks == {Http, Net, Main} \cup Callers

Go(t, from, to) ==
  pc[Main] # "off" /\ pc[t] = from /\ pc' = [pc EXCEPT ![t] = to]
Goes(t, from, to) ==    \* and nothing else changes
  Go(t, from, to) /\ UNCHANGED <<controller, others, counters, promised>>

Init ==
  /\ deferred = FALSE /\ due = "zero" /\ requested = FALSE
  /\ zeroReached \in BOOLEAN
  /\ gate = "Idle" /\ session = FALSE /\ pending = FALSE /\ worker \in BOOLEAN
  /\ pc = [t \in Tasks |-> "idle"]
  /\ asked = 0 /\ uploads = 0 /\ promised = FALSE

-----------------------------------------------------------------------------
(* Controller: schedule() by any task that asks, poll() by Net.            *)

Asks(t, from) ==
  /\ asked < MaxAsked /\ asked' = asked + 1
  /\ Go(t, from, "clearRequest")
  /\ UNCHANGED <<controller, others, uploads, promised>>

RequestRestart(t) == Asks(t, "idle")

ClearRequest(t) ==
  /\ Go(t, "clearRequest", "setDue")
  /\ requested' = FALSE
  /\ UNCHANGED <<deferred, due, others, counters, promised>>

SetDue(t) ==
  /\ Go(t, "setDue", "setDeferred")
  /\ due' = "future" /\ promised' = TRUE
  /\ UNCHANGED <<deferred, requested, others, counters>>

SetDeferred(t) ==    \* the last store; an upload goes on to its cleanup
  /\ Go(t, "setDeferred", IF t = Http /\ session THEN "release" ELSE "idle")
  /\ deferred' = TRUE
  /\ UNCHANGED <<due, requested, others, counters, promised>>

Reached == due = "past" \/ (due = "zero" /\ zeroReached)

PollIgnoresFlag == Goes(Net, "idle", "loadDue")

PollDeferred == deferred /\ Goes(Net, "idle", "loadDue")

PollDue == Goes(Net, "loadDue", IF Reached THEN "clearDeferred" ELSE "idle")

ClearDeferred ==
  /\ Go(Net, "clearDeferred", "clearDue")
  /\ deferred' = FALSE
  /\ UNCHANGED <<due, requested, others, counters, promised>>

ClearDue ==
  /\ Go(Net, "clearDue", "raise")
  /\ due' = "zero"
  /\ UNCHANGED <<deferred, requested, others, counters, promised>>

Raise ==
  /\ Go(Net, "raise", "idle")
  /\ requested' = TRUE
  /\ UNCHANGED <<deferred, due, others, counters, promised>>

Elapse ==    \* millis() reaches the deadline
  /\ pc[Main] # "off" /\ due = "future" /\ due' = "past"
  /\ UNCHANGED <<deferred, requested, others, pc, counters, promised>>

HalfTurn ==    \* the sign of now - 0 changes every 2^31 ms
  /\ pc[Main] # "off" /\ zeroReached' = ~zeroReached
  /\ UNCHANGED <<controller, gate, session, pending, worker, pc, counters, promised>>

-----------------------------------------------------------------------------
(* The HTTP task: isOtaBusy(), then a handler.                             *)

BusyGate == gate = "Idle" /\ Goes(Http, "idle", "busyDeferred")
BusyDeferred ==
  Goes(Http, "busyDeferred", IF deferred THEN "idle" ELSE "busyRequested")
BusyRequested == Goes(Http, "busyRequested", IF requested THEN "idle" ELSE "admit")

SettingsRestart == Asks(Http, "admit")

OtherRequest == Goes(Http, "admit", "idle")

TryBeginUpload ==
  /\ uploads < MaxUploads
  /\ IF gate = "Idle"
       THEN /\ Go(Http, "admit", "upload")
            /\ gate' = "Upload" /\ session' = TRUE /\ uploads' = uploads + 1
       ELSE /\ Go(Http, "admit", "idle")
            /\ UNCHANGED <<gate, session, uploads>>
  /\ UNCHANGED <<controller, zeroReached, pending, worker, asked, promised>>

RefusalKeepsGate == Goes(Http, "upload", "idle")
\* reject_before_session, or handleUpdate after a failure
UploadFails == Goes(Http, "upload", "release")

\* handleUpdate after a success schedules before its cleanup
UploadSucceeds == Asks(Http, "upload")

EndUploadKeepsGate ==
  /\ Go(Http, "release", "idle")
  /\ session' = FALSE
  /\ UNCHANGED <<controller, zeroReached, gate, pending, worker, counters, promised>>

EndUpload ==
  /\ Go(Http, "release", "idle")
  /\ gate' = IF gate = "Upload" THEN "Idle" ELSE gate
  /\ session' = FALSE
  /\ UNCHANGED <<controller, zeroReached, pending, worker, counters, promised>>

-----------------------------------------------------------------------------
(* loop().                                                                 *)

ConsumeForgets ==
  /\ Go(Main, "idle", "try")
  /\ requested' = FALSE /\ pending' = requested
  /\ UNCHANGED <<deferred, due, zeroReached, gate, session, worker, counters, promised>>

ConsumeRequest ==
  /\ Go(Main, "idle", "try")
  /\ requested' = FALSE /\ pending' = (pending \/ requested)
  /\ UNCHANGED <<deferred, due, zeroReached, gate, session, worker, counters, promised>>

MayRestart == pending /\ ~worker

RestartIgnoresGate ==
  /\ MayRestart
  /\ Go(Main, "try", "shutdown") /\ gate' = "Restart" /\ pending' = FALSE
  /\ UNCHANGED <<controller, zeroReached, session, worker, counters, promised>>

TryBeginRestart ==
  /\ MayRestart
  /\ IF gate = "Idle"
       THEN Go(Main, "try", "shutdown") /\ gate' = "Restart" /\ pending' = FALSE
       ELSE Go(Main, "try", "rest") /\ UNCHANGED <<gate, pending>>
  /\ UNCHANGED <<controller, zeroReached, session, worker, counters, promised>>

NoRestart == ~MayRestart /\ Goes(Main, "try", "rest")

\* the rest of the iteration: sdCardManager.poll() may start its worker
Rest ==
  /\ Go(Main, "rest", "idle")
  /\ worker' \in {worker, worker \/ ~pending}
  /\ UNCHANGED <<controller, zeroReached, gate, session, pending, counters, promised>>

RestAsks == Asks(Main, "rest")    \* ... or a recovery asks for a restart

WorkerEnds ==
  /\ pc[Main] # "off" /\ worker /\ worker' = FALSE
  /\ UNCHANGED <<controller, zeroReached, gate, session, pending, pc, counters, promised>>

Restart == Goes(Main, "shutdown", "off")    \* safe_restart_via_core0()

Off == pc[Main] = "off" /\ UNCHANGED vars    \* the chip restarts

Schedule(t) == ClearRequest(t) \/ SetDue(t) \/ SetDeferred(t)

HttpNext ==
  \/ BusyGate \/ BusyDeferred \/ BusyRequested \/ SettingsRestart \/ OtherRequest
  \/ TryBeginUpload \/ UploadFails \/ UploadSucceeds \/ EndUpload \/ Schedule(Http)

NetNext == PollDeferred \/ PollDue \/ ClearDeferred \/ ClearDue \/ Raise

LoopNext ==
  ConsumeRequest \/ TryBeginRestart \/ NoRestart \/ Rest \/ Restart \/ Schedule(Main)

Next ==
  \/ HttpNext \/ NetNext \/ LoopNext \/ RestAsks
  \/ \E t \in Callers : RequestRestart(t) \/ Schedule(t)
  \/ Elapse \/ HalfTurn \/ WorkerEnds \/ Off

Spec == Init /\ [][Next]_vars

\* The scheduler runs every task, time passes, and the SD worker ends.
FairSpec ==
  /\ Spec
  /\ WF_vars(HttpNext) /\ WF_vars(NetNext) /\ WF_vars(LoopNext)
  /\ \A t \in Callers : WF_vars(Schedule(t))
  /\ WF_vars(Elapse) /\ WF_vars(WorkerEnds)

-----------------------------------------------------------------------------
(* Properties.                                                             *)

Uploading == {"upload", "release"}
Scheduling == {"clearRequest", "setDue", "setDeferred"}
Polling == {"loadDue", "clearDeferred", "clearDue", "raise"}
AtHttp == {"idle", "busyDeferred", "busyRequested", "admit"} \cup Uploading \cup Scheduling
AtMain == {"idle", "try", "rest", "shutdown", "off"} \cup Scheduling

TypeOK ==
  /\ deferred \in BOOLEAN /\ requested \in BOOLEAN /\ zeroReached \in BOOLEAN
  /\ due \in {"zero", "future", "past"} /\ promised \in BOOLEAN
  /\ gate \in {"Idle", "Upload", "Restart"}
  /\ session \in BOOLEAN /\ pending \in BOOLEAN /\ worker \in BOOLEAN
  /\ pc \in [Tasks -> AtHttp \cup AtMain \cup Polling]
  /\ pc[Http] \in AtHttp /\ pc[Main] \in AtMain /\ pc[Net] \in {"idle"} \cup Polling
  /\ \A t \in Callers : pc[t] \in {"idle"} \cup Scheduling
  /\ asked \in 0 .. MaxAsked /\ uploads \in 0 .. MaxUploads

\* "Upload admission and restart shutdown use one atomic gate" (main.cpp): from
\* the moment loop() shuts the device down no upload is in progress, although
\* the busy test of the upload and the test of the restart are both stale.
ShutdownExcludesUpload ==
  pc[Main] \in {"shutdown", "off"} => gate = "Restart" /\ ~session

\* Every way out of an upload releases the gate, and nothing else takes it
\* from an upload: it is held exactly while the request is in progress.
GateIsTheSession ==
  /\ gate = "Upload" <=> session
  /\ session => pc[Http] \in Uploading \cup Scheduling
  /\ pc[Http] \in Uploading => session

\* Controller has three atomics and no lock, schedule() clears the request that
\* poll() raises and poll() clears what schedule() sets: whatever the order, a
\* restart that was scheduled is on its way until the device restarts.
OnItsWay ==
  \/ deferred \/ requested \/ pending
  \/ pc[Net] \in {"clearDue", "raise"}
  \/ \E t \in Tasks : pc[t] \in {"setDue", "setDeferred"}
  \/ pc[Main] \in {"shutdown", "off"}
RestartNotLost == promised => OnItsWay

\* The zero that poll() leaves in the deadline reads as reached for half of the
\* 49 days of millis(): it starts no restart that nobody asked for.
Underway ==
  \/ OnItsWay \/ pc[Net] \in Polling
  \/ \E t \in Tasks : pc[t] = "clearRequest"
RestartWasAsked == Underway => asked > 0

\* A scheduled restart comes, uploads and the SD worker permitting.
RestartComes == promised ~> pc[Main] = "off"
=============================================================================
