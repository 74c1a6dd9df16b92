------------------------------- MODULE OtaUpdate -------------------------------
(***************************************************************************)
(* A firmware upload and the consent of the person at the device:          *)
(* OtaPhysicalConfirm.cpp, OtaUiLineagePolicy.h, WebOtaHandlers.cpp and    *)
(* the screen commands between them.  A client prepares an upload, the     *)
(* screen asks, the user allows or denies, the client uploads, the screen  *)
(* shows the installation until the upload fails or the device restarts.   *)
(*                                                                         *)
(* Four tasks: the HTTP server handles one request at a time (http), the   *)
(* network task polls what is due (net), LVGL runs the callbacks of the    *)
(* two buttons (lvgl), loop() takes the screen commands (main).  Each      *)
(* state machine is under a lock of its own, so an action is one locked    *)
(* call; the gap between a decision and the command that shows it is real. *)
(* A deadline is a flag that time sets.  The atomics of the restart are in *)
(* OtaRestart; a display is present; ids do not wrap.                      *)
(***************************************************************************)
EXTENDS Naturals

CONSTANTS Sizes,       \* declared image sizes
          MaxId,       \* bound: confirmations
          MaxRequests  \* bound: requests of the clients

ASSUME BoundsAssumption == MaxId \in Nat /\ MaxRequests \in Nat

Ids == 1 .. MaxId

VARIABLES
  conf,      \* OtaPhysicalConfirm::g_state
  lease,     \* g_ota_preflight_ui_lease
  slot,      \* WebUiBridge: the screen command not yet taken, and its lineage
  ui,        \* UiController: firmware_update_* and its lineage
  paused,    \* loop() paused LVGL and its own UI work
  gate,      \* OtaRestartGate
  restart,   \* OtaDeferredRestart and restart_request_pending
  sess,      \* WebOtaState and upload_confirm_id
  verifying, \* OtaRollback::isPendingVerify()
  http, net, lvgl, main,  \* what each task does and holds
  requests,  \* what MaxRequests bounds
  granted,   \* history: <<id, size>> the user allowed on the screen
  uses       \* history: uploads begun per confirmation

tasks == <<http, net, lvgl, main>>
screen == <<slot, ui, paused>>
system == <<gate, restart, sess, verifying>>
history == <<granted, uses>>
vars == <<conf, lease, screen, system, tasks, requests, history>>

Modes == {"Hidden", "ConfirmPending", "ConfirmAllowed", "ConfirmDenied", "Installing"}
Idle == [pc |-> "idle", id |-> 0, mode |-> "Hidden"]
NoRequest == [pc |-> "idle", id |-> 0, mode |-> "Hidden", size |-> 0]

NoSession == [id |-> 0, size |-> 0, owner |-> 0, active |-> FALSE, busy |-> FALSE,
              error |-> FALSE, success |-> FALSE, written |-> FALSE]

Init ==
  /\ conf = [state |-> "Idle", id |-> 0, size |-> 0, due |-> FALSE, observed |-> FALSE,
             next |-> 1, event |-> 0]
  /\ lease = [id |-> 0, due |-> FALSE, latest |-> 0]
  /\ slot = [pending |-> FALSE, mode |-> "Hidden", id |-> 0, latest |-> 0]
  /\ ui = [mode |-> "Hidden", id |-> 0, latest |-> 0, close |-> "no"]
  /\ paused = FALSE /\ gate = "Idle" /\ verifying \in BOOLEAN
  /\ restart = {}
  /\ sess = NoSession
  /\ http = NoRequest /\ net = Idle /\ lvgl = Idle /\ main = Idle
  /\ requests = 0 /\ granted = {} /\ uses = [i \in Ids |-> 0]
Busy == gate # "Idle" \/ sess.busy \/ restart \cap {"deferred", "requested"} # {}
On == "down" \notin restart

-----------------------------------------------------------------------------
(* OtaPhysicalConfirm: every call expires what is due first.               *)

Terminal(c, state) ==
  [c EXCEPT !.state = state, !.due = FALSE, !.observed = FALSE,
            !.event = IF state = "Expired" THEN c.id ELSE @]

Expired(c) ==
  IF c.state \in {"Pending", "Allowed"} /\ c.due THEN Terminal(c, "Expired") ELSE c

Inactive(c) ==
  \/ c.state \in {"Idle", "Consumed"}
  \/ c.state \in {"Denied", "Expired"} /\ (c.observed \/ c.due)

Created(c, size) ==
  [c EXCEPT !.state = "Pending", !.id = c.next, !.size = size, !.due = FALSE,
            !.observed = FALSE, !.next = c.next + 1]

Matches(c, id, size) == id # 0 /\ id = c.id /\ size = c.size

\* the client asked for the outcome, so a new request may follow at once
Observed(c) ==
  IF c.state \in {"Denied", "Expired"} THEN [c EXCEPT !.observed = TRUE] ELSE c

Pollable(c, id, size) == IF Matches(c, id, size) THEN Observed(c) ELSE c

ConsumedStays(c) == [c EXCEPT !.due = FALSE, !.observed = FALSE]  \* mutant: still Allowed

Consumed(c) == [c EXCEPT !.state = "Consumed", !.due = FALSE, !.observed = FALSE]

Decidable(c, id) == c.state = "Pending" /\ id # 0 /\ id = c.id

Decided(c, id, answer) ==
  IF ~Decidable(c, id) THEN c
  ELSE IF answer = "Denied" THEN Terminal(c, "Denied")
  ELSE [c EXCEPT !.state = "Allowed", !.due = FALSE, !.observed = FALSE]

-----------------------------------------------------------------------------
(* OtaUiLineagePolicy: a command of an older confirmation is dropped.      *)

AcceptsAny(latest, id) == id # 0        \* mutant: no lineage

Accepts(latest, id) == id # 0 /\ id >= latest

Published(mode, id) ==
  IF Accepts(slot.latest, id)
    THEN [pending |-> TRUE, mode |-> mode, id |-> id, latest |-> id] ELSE slot

Cancelled(id) ==
  IF id # 0 /\ lease.id = id THEN [lease EXCEPT !.id = 0, !.due = FALSE] ELSE lease

-----------------------------------------------------------------------------
(* The HTTP task: POST /api/ota/prepare.                                   *)

Request ==
  On /\ http.pc = "idle" /\ requests < MaxRequests /\ requests' = requests + 1

To(pc) == http' = [http EXCEPT !.pc = pc]

PrepareNew(size) ==
  LET c == Expired(conf) IN
  /\ Request /\ ~Busy /\ ~verifying
  /\ IF Inactive(c)
       THEN /\ c.next \in Ids
            /\ lvgl.pc = "idle"   \* two requests after an answer: its callback is over
            /\ conf' = Created(c, size)
            /\ http' = [http EXCEPT !.pc = "publish", !.mode = "ConfirmPending", !.id = c.next]
       ELSE conf' = c /\ UNCHANGED http
  /\ UNCHANGED <<lease, screen, system, net, lvgl, main, history>>

PrepareAgain(id, size) ==
  LET c == Expired(conf) IN
  /\ Request /\ ~Busy /\ ~verifying
  /\ conf' = Pollable(c, id, size)
  /\ http' = IF ~Matches(c, id, size) THEN http
             ELSE CASE c.state = "Pending" ->
                         [http EXCEPT !.pc = "publish", !.mode = "ConfirmPending", !.id = id]
                    [] c.state = "Allowed" -> [http EXCEPT !.pc = "arm", !.id = id]
                    [] OTHER -> http
  /\ UNCHANGED <<lease, screen, system, net, lvgl, main, history>>

ArmPreflight ==
  /\ On /\ http.pc = "arm"
  /\ IF Accepts(lease.latest, http.id)
       THEN /\ lease' = [id |-> http.id, due |-> FALSE, latest |-> http.id]
            /\ http' = [http EXCEPT !.pc = "publish", !.mode = "Installing"]
       ELSE http' = NoRequest /\ UNCHANGED lease
  /\ UNCHANGED <<conf, screen, system, net, lvgl, main, requests, history>>

PublishPrepared ==
  /\ On /\ http.pc = "publish"
  /\ slot' = Published(http.mode, http.id) /\ http' = NoRequest
  /\ UNCHANGED <<conf, lease, ui, paused, system, net, lvgl, main, requests, history>>

-----------------------------------------------------------------------------
(* The HTTP task: POST /api/ota.                                           *)

UploadStart(id, size) ==
  /\ Request /\ ~Busy /\ gate' = "Upload"
  /\ http' = [http EXCEPT !.pc = IF verifying THEN "reject" ELSE "consume",
                          !.id = id, !.size = size]
  /\ UNCHANGED <<conf, lease, screen, restart, sess, verifying, net, lvgl, main, history>>

\* a repeated request of the upload that failed gets its answer again
Replays ==
  /\ http.id # 0 /\ http.id = sess.id /\ http.size = sess.size /\ sess.error

ConsumeConfirm ==
  LET c == Expired(conf) IN
  /\ On /\ http.pc = "consume" /\ ~Replays
  /\ IF Matches(c, http.id, http.size) /\ c.state = "Allowed"
       THEN /\ conf' = Consumed(c) /\ To("begin")
            /\ uses' = [uses EXCEPT ![http.id] = @ + 1]
       ELSE conf' = Pollable(c, http.id, http.size) /\ To("reject") /\ UNCHANGED uses
  /\ UNCHANGED <<lease, screen, system, net, lvgl, main, requests, granted>>

Replay ==
  /\ On /\ http.pc = "consume" /\ Replays /\ To("reject")
  /\ UNCHANGED <<conf, lease, screen, system, net, lvgl, main, requests, history>>

\* reject_before_session, or an invalid size before the confirmation is read
Reject ==
  /\ On /\ http.pc \in {"reject", "consume"} /\ gate' = "Idle" /\ http' = NoRequest
  /\ UNCHANGED <<conf, lease, screen, restart, sess, verifying, net, lvgl, main, requests, history>>

CancelPreflight ==
  /\ On /\ http.pc = "begin" /\ To("install")
  /\ sess' = [sess EXCEPT !.owner = http.id]
  /\ lease' = Cancelled(http.id)
  /\ UNCHANGED <<conf, screen, gate, restart, verifying, net, lvgl, main, requests, history>>

\* beginUpload and the first command; no partition, or too large, fails it
BeginUpload ==
  /\ On /\ http.pc = "install" /\ To("body")
  /\ \E fails \in BOOLEAN :
       sess' = [sess EXCEPT !.id = http.id, !.size = http.size, !.active = ~fails,
                            !.busy = TRUE, !.error = fails, !.success = FALSE,
                            !.written = FALSE]
  /\ slot' = Published("Installing", http.id)
  /\ UNCHANGED <<conf, lease, ui, paused, gate, restart, verifying, net, lvgl, main, requests, history>>

Failed(s) == [s EXCEPT !.active = FALSE, !.error = TRUE, !.success = FALSE]

Body(s) ==
  /\ On /\ http.pc = "body" /\ sess' = s
  /\ UNCHANGED <<conf, lease, screen, gate, restart, verifying, net, lvgl, main, requests, history>>

\* the identity of the image is accepted and flash is written, or it fails
WriteChunk ==
  /\ sess.active /\ UNCHANGED http
  /\ \E s \in {[sess EXCEPT !.written = TRUE], Failed(sess)} : Body(s)

EndUpload ==
  /\ To("respond")
  /\ IF ~sess.active THEN Body(sess)
     ELSE \/ sess.written /\ Body([sess EXCEPT !.active = FALSE, !.success = TRUE])
          \/ Body(Failed(sess))

AbortUpload == To("respond") /\ Body(IF sess.active THEN Failed(sess) ELSE sess)

Respond ==
  /\ On /\ http.pc = "respond" /\ To("cleanup")
  /\ restart' = IF sess.success THEN (restart \ {"requested", "due"}) \cup {"deferred"} ELSE restart
  /\ UNCHANGED <<conf, lease, screen, gate, sess, verifying, net, lvgl, main, requests, history>>

CleanupNoHide ==                \* mutant: the screen is left to the restart
  /\ On /\ http.pc = "cleanup"
  /\ lease' = Cancelled(sess.owner)
  /\ To("finish")
  /\ UNCHANGED <<conf, screen, system, net, lvgl, main, requests, history>>

\* cleanup_after_update_response
Cleanup ==
  /\ On /\ http.pc = "cleanup"
  /\ lease' = Cancelled(sess.owner)
  /\ To(IF sess.success THEN "finish" ELSE "hide")
  /\ UNCHANGED <<conf, screen, system, net, lvgl, main, requests, history>>

HideAfterFailure ==
  /\ On /\ http.pc = "hide" /\ To("finish")
  /\ slot' = Published("Hidden", sess.owner)
  /\ UNCHANGED <<conf, lease, ui, paused, system, net, lvgl, main, requests, history>>

FinishKeepsBusy ==              \* mutant: clearBusy() is missing
  /\ On /\ http.pc = "finish" /\ http' = NoRequest /\ gate' = "Idle"
  /\ sess' = [sess EXCEPT !.owner = 0]
  /\ UNCHANGED <<conf, lease, screen, restart, verifying, net, lvgl, main, requests, history>>

Finish ==
  /\ On /\ http.pc = "finish" /\ http' = NoRequest /\ gate' = "Idle"
  /\ sess' = [sess EXCEPT !.busy = FALSE, !.owner = 0]
  /\ UNCHANGED <<conf, lease, screen, restart, verifying, net, lvgl, main, requests, history>>

\* expireTerminalResult: the retained result is forgotten
ForgetResult ==
  /\ On /\ http.pc = "idle" /\ (sess.error \/ sess.success)
  /\ sess' = NoSession
  /\ UNCHANGED <<conf, lease, screen, gate, restart, verifying, tasks, requests, history>>

-----------------------------------------------------------------------------
(* The network task: pollDeferred().                                       *)

RaisedForgets(r) == r \ {"deferred", "due"}    \* mutant: the request is not raised
Raised(r) == IF "due" \in r THEN (r \ {"deferred", "due"}) \cup {"requested"} ELSE r

\* with the end of the poll before: its restart part leaves Busy as it is
PollBegin ==
  /\ On /\ net.pc = "idle"
  /\ net' = [net EXCEPT !.pc = IF Busy THEN "expiry" ELSE "take"]
  /\ restart' = Raised(restart)
  /\ UNCHANGED <<conf, lease, screen, gate, sess, verifying, http, lvgl, main, requests, history>>

TakeDuePreflight ==
  /\ On /\ net.pc = "take"
  /\ IF lease.id # 0 /\ lease.due
       THEN /\ net' = [net EXCEPT !.pc = "hideLease", !.id = lease.id]
            /\ lease' = Cancelled(lease.id)
       ELSE net' = [net EXCEPT !.pc = "expiry"] /\ UNCHANGED lease
  /\ UNCHANGED <<conf, screen, system, http, lvgl, main, requests, history>>

PollExpired ==
  LET c == Expired(conf) IN
  /\ On /\ net.pc = "expiry"
  /\ conf' = [c EXCEPT !.event = 0]
  /\ net' = IF c.event = 0 THEN Idle
            ELSE [net EXCEPT !.pc = "hideExpired", !.id = c.event]
  /\ UNCHANGED <<lease, screen, system, http, lvgl, main, requests, history>>

HidesLatest ==                  \* mutant: the command hides whatever is newest
  /\ On /\ net.pc \in {"hideLease", "hideExpired"}
  /\ slot' = Published("Hidden", slot.latest)
  /\ net' = [Idle EXCEPT !.pc = IF net.pc = "hideLease" THEN "expiry" ELSE "idle"]
  /\ UNCHANGED <<conf, lease, ui, paused, system, http, lvgl, main, requests, history>>

HidePolled ==
  /\ On /\ net.pc \in {"hideLease", "hideExpired"}
  /\ slot' = Published("Hidden", net.id)
  /\ net' = [Idle EXCEPT !.pc = IF net.pc = "hideLease" THEN "expiry" ELSE "idle"]
  /\ UNCHANGED <<conf, lease, ui, paused, system, http, lvgl, main, requests, history>>

-----------------------------------------------------------------------------
(* LVGL: the two buttons.                                                  *)

Clicked(answer) ==
  LET c == Expired(conf) IN
  /\ On /\ lvgl.pc = "idle" /\ ~paused /\ ui.mode = "ConfirmPending" /\ ui.id # 0
  /\ conf' = Decided(c, ui.id, answer)
  /\ IF Decidable(c, ui.id)
       THEN /\ lvgl' = [pc |-> "publish", id |-> ui.id, mode |-> IF answer = "Allowed" THEN "ConfirmAllowed" ELSE "ConfirmDenied"]
            /\ granted' = IF answer = "Allowed" THEN granted \cup {<<c.id, c.size>>} ELSE granted
       ELSE UNCHANGED <<lvgl, granted>>
  /\ UNCHANGED <<lease, screen, system, http, net, main, requests, uses>>

PublishAnswer ==
  /\ On /\ lvgl.pc = "publish" /\ lvgl' = [lvgl EXCEPT !.pc = "show"]
  /\ slot' = Published(lvgl.mode, lvgl.id)
  /\ UNCHANGED <<conf, lease, ui, paused, system, http, net, main, requests, history>>

ShowAnswer ==
  /\ On /\ lvgl.pc = "show" /\ lvgl' = Idle
  /\ ui' = [ui EXCEPT !.mode = lvgl.mode,
                      !.close = IF lvgl.mode = "ConfirmDenied" THEN "set" ELSE "no"]
  /\ UNCHANGED <<conf, lease, slot, paused, system, http, net, main, requests, history>>

-----------------------------------------------------------------------------
(* loop(): UiController::poll, the OTA window, the restart.                *)

TakeCommand ==
  /\ On /\ main.pc = "idle" /\ ~paused /\ slot.pending
  /\ main' = [pc |-> "apply", id |-> slot.id, mode |-> slot.mode]
  /\ slot' = [slot EXCEPT !.pending = FALSE]
  /\ UNCHANGED <<conf, lease, ui, paused, system, http, net, lvgl, requests, history>>

\* webSetFirmwareUpdateScreen
Shown(mode, id) ==
  IF ~Accepts(ui.latest, id) THEN ui
  ELSE [mode |-> mode, id |-> IF mode = "Hidden" THEN 0 ELSE id, latest |-> id,
        close |-> IF mode = "ConfirmDenied" THEN "set" ELSE "no"]

ApplyCommand ==
  /\ On /\ main.pc = "apply" /\ main' = Idle
  /\ ui' = Shown(main.mode, main.id)
  /\ UNCHANGED <<conf, lease, slot, paused, system, http, net, lvgl, requests, history>>

AutoClose ==
  /\ On /\ main.pc = "idle" /\ ~paused /\ ui.close = "due"
  /\ ui' = Shown("Hidden", ui.id)
  /\ UNCHANGED <<conf, lease, slot, paused, system, tasks, requests, history>>

OtaWindow ==
  /\ On /\ main.pc = "idle" /\ paused # Busy /\ paused' = Busy
  /\ UNCHANGED <<conf, lease, slot, ui, system, tasks, requests, history>>

ConsumeRestart ==
  /\ On /\ "requested" \in restart
  /\ restart' = (restart \ {"requested"}) \cup {"pending"}
  /\ UNCHANGED <<conf, lease, screen, gate, sess, verifying, tasks, requests, history>>

TryBeginRestart ==
  /\ On /\ "pending" \in restart /\ gate = "Idle"
  /\ gate' = "Restart" /\ restart' = restart \cup {"down"}
  /\ UNCHANGED <<conf, lease, screen, sess, verifying, tasks, requests, history>>

-----------------------------------------------------------------------------
(* Time, and the boot that becomes valid.                                  *)

ConfirmDeadline ==  \* 5 s to 5 min: not before a new request has been published
  /\ On /\ conf.state \notin {"Idle", "Consumed"} /\ ~conf.due
  /\ conf.state = "Pending" => slot.latest = conf.id
  /\ conf' = [conf EXCEPT !.due = TRUE]
  /\ UNCHANGED <<lease, screen, system, tasks, requests, history>>

LeaseDeadline ==    \* 15 s: not before the request that armed it has shown it
  /\ On /\ lease.id # 0 /\ ~lease.due /\ http.pc # "publish"
  /\ lease' = [lease EXCEPT !.due = TRUE]
  /\ UNCHANGED <<conf, screen, system, tasks, requests, history>>

CloseDeadline ==    \* 1.5 s: not before the callback of the button has returned
  /\ On /\ ui.close = "set" /\ lvgl.pc # "show" /\ ui' = [ui EXCEPT !.close = "due"]
  /\ UNCHANGED <<conf, lease, slot, paused, system, tasks, requests, history>>

RestartDeadline ==
  /\ On /\ "deferred" \in restart /\ restart' = restart \cup {"due"}
  /\ UNCHANGED <<conf, lease, screen, gate, sess, verifying, tasks, requests, history>>

BootValid ==
  /\ On /\ verifying /\ verifying' = FALSE
  /\ UNCHANGED <<conf, lease, screen, gate, restart, sess, tasks, requests, history>>

\* the device is down for the restart
Off == ~On /\ UNCHANGED vars

-----------------------------------------------------------------------------
HttpStep ==
  \/ ArmPreflight \/ PublishPrepared \/ ConsumeConfirm \/ Replay
  \/ http.pc = "reject" /\ Reject
  \/ CancelPreflight \/ BeginUpload \/ Respond \/ Cleanup \/ HideAfterFailure \/ Finish
BodyEnds == EndUpload \/ AbortUpload
NetStep == PollBegin \/ TakeDuePreflight \/ PollExpired \/ HidePolled
LvglStep == PublishAnswer \/ ShowAnswer
MainStep ==
  TakeCommand \/ ApplyCommand \/ AutoClose \/ OtaWindow \/ ConsumeRestart \/ TryBeginRestart
Time == ConfirmDeadline \/ LeaseDeadline \/ CloseDeadline \/ RestartDeadline

Next ==
  \/ \E size \in Sizes : PrepareNew(size)
  \/ \E id \in Ids, size \in Sizes : PrepareAgain(id, size) \/ UploadStart(id, size)
  \/ HttpStep \/ Reject \/ WriteChunk \/ BodyEnds \/ ForgetResult
  \/ NetStep
  \/ \E answer \in {"Allowed", "Denied"} : Clicked(answer)
  \/ LvglStep
  \/ MainStep
  \/ Time \/ BootValid \/ Off

Spec == Init /\ [][Next]_vars

\* every task runs, time passes, a body ends (it has a total deadline); the
\* user and the clients owe nothing
FairSpec ==
  /\ Spec
  /\ WF_vars(HttpStep) /\ WF_vars(BodyEnds)
  /\ WF_vars(NetStep) /\ WF_vars(LvglStep) /\ WF_vars(MainStep)
  /\ WF_vars(Time)

-----------------------------------------------------------------------------
(* Properties.                                                             *)

Id0 == Ids \cup {0}

Confirmations ==
  [state : {"Idle", "Pending", "Allowed", "Consumed", "Denied", "Expired"},
   id : Id0, size : Sizes \cup {0}, due : BOOLEAN, observed : BOOLEAN,
   next : 1 .. MaxId + 1, event : Id0]
Leases == [id : Id0, due : BOOLEAN, latest : Id0]
Slots == [pending : BOOLEAN, mode : Modes, id : Id0, latest : Id0]
Screens == [mode : Modes, id : Id0, latest : Id0, close : {"no", "set", "due"}]
Sessions ==
  [id : Id0, size : Sizes \cup {0}, owner : Id0, active : BOOLEAN,
   busy : BOOLEAN, error : BOOLEAN, success : BOOLEAN, written : BOOLEAN]
Requests ==
  [pc : {"idle", "arm", "publish", "reject", "consume", "begin", "install",
         "body", "respond", "cleanup", "hide", "finish"},
   id : Id0, mode : Modes, size : Sizes \cup {0}]
Steps(pcs) == [pc : pcs, id : Id0, mode : Modes]
Phases == {"deferred", "due", "requested", "pending", "down"}

\* Types.
TypeOK ==
  /\ conf \in Confirmations /\ lease \in Leases /\ slot \in Slots /\ ui \in Screens
  /\ paused \in BOOLEAN /\ gate \in {"Idle", "Upload", "Restart"}
  /\ restart \subseteq Phases /\ sess \in Sessions /\ verifying \in BOOLEAN
  /\ http \in Requests
  /\ net \in Steps({"idle", "take", "hideLease", "expiry", "hideExpired"})
  /\ lvgl \in Steps({"idle", "publish", "show"})
  /\ main \in Steps({"idle", "apply"})
  /\ requests \in Nat
  /\ granted \subseteq Ids \X (Sizes \cup {0}) /\ uses \in [Ids -> Nat]

\* An image is written only for a confirmation that the person at the screen
\* allowed for that size, and one confirmation starts one upload, however often
\* the clients prepare, retry or restart the upload.
OneUploadPerConsent ==
  /\ \A i \in Ids : uses[i] <= 1
  /\ sess.written => uses[sess.id] = 1 /\ <<sess.id, sess.size>> \in granted

\* Whatever way a request ends, between requests nothing of an upload is left:
\* the gate is open, the session is not busy and owns no confirmation.
UploadLeavesNothing ==
  http.pc \in {"idle", "arm", "publish"} => gate # "Upload" /\ ~sess.busy /\ sess.owner = 0

\* An image that was installed is followed by its restart: it is deferred,
\* requested or pending until the device goes down, whatever else is asked.
InstalledRestarts ==
  sess.success /\ http.pc \notin {"body", "respond"} =>
    restart \cap {"deferred", "requested", "pending", "down"} # {}

\* The screen never goes back to an older confirmation, in whatever order the
\* HTTP, network, LVGL and main tasks publish their commands.
ScreenMovesForward ==
  [][ui'.latest >= ui.latest /\ (ui'.id # 0 => ui'.id >= ui.latest)]_vars

\* The user gets to see every request that waits for him: once no command is on
\* its way to the screen, the screen asks for that confirmation, and no lease,
\* expiry or automatic close of an older one has taken its place.
PendingIsShown ==
  /\ conf.state = "Pending" /\ ~conf.due
  /\ http.pc # "publish" /\ lvgl.pc = "idle" /\ main.pc = "idle" /\ ~slot.pending
  => ui.mode = "ConfirmPending" /\ ui.id = conf.id

\* "Installing" does not stay: the lease, the end of the upload or the restart
\* ends it, also when the client disappears after the preparation.
InstallingEnds == (ui.mode = "Installing") ~> (ui.mode # "Installing" \/ ~On)

\* OtaPhysicalConfirm.cpp: "so the confirmation screen cannot remain visible
\* indefinitely".
ConfirmationCloses == (ui.mode = "ConfirmPending") ~> (ui.mode # "ConfirmPending" \/ ~On)
=============================================================================
