---------------------------- MODULE OtaUpdateProofs ----------------------------
(***************************************************************************)
(* Theorems of OtaUpdate, for any number of confirmations, sizes and       *)
(* requests.  The invariant Inv has five parts, each with a section:       *)
(*   TypeOK, the types;                                                    *)
(*   UploadInv, what a request has done with the gate and the session at   *)
(*     each of its steps, and that an installation leads to a restart;     *)
(*   ConsentInv, how often each confirmation was used, and that a session  *)
(*     writes what its confirmation was granted for;                       *)
(*   ScreenInv, that the screen shows the newest lineage or nothing;       *)
(*   AskInv, that the question of a request that waits is published, taken *)
(*     or shown, and every other command on its way is an older one.       *)
(***************************************************************************)
EXTENDS OtaUpdate, TLAPS

LEMMA ConfirmationCalls ==
  ASSUME NEW c \in Confirmations, NEW id, NEW size, NEW answer
  PROVE  /\ Expired(c) \in Confirmations
         /\ Pollable(c, id, size) \in Confirmations
         /\ Consumed(c) \in Confirmations
         /\ Decided(c, id, answer) \in Confirmations
<1> USE DEF Confirmations
<1>1. Expired(c) \in Confirmations  BY DEF Expired, Terminal, Id0
<1>2. Pollable(c, id, size) \in Confirmations  BY DEF Pollable, Observed
<1>3. Consumed(c) \in Confirmations  BY DEF Consumed
<1>4. Decided(c, id, answer) \in Confirmations  BY DEF Decided, Terminal
<1> QED  BY <1>1, <1>2, <1>3, <1>4

LEMMA CreatedIsOne ==
  ASSUME NEW c \in Confirmations, NEW size \in Sizes, c.next \in Ids
  PROVE  Created(c, size) \in Confirmations
<1> DEFINE two == [[c EXCEPT !.state = "Pending"] EXCEPT !.id = c.next]
           four == [[two EXCEPT !.size = size] EXCEPT !.due = FALSE]
           six == [[four EXCEPT !.observed = FALSE] EXCEPT !.next = c.next + 1]
<1>1. c.next + 1 \in 1 .. MaxId + 1 /\ c.next \in Id0  BY BoundsAssumption DEF Ids, Id0
<1>2. two \in Confirmations  BY <1>1 DEF Confirmations
<1>3. four \in Confirmations
  <2> HIDE DEF two
  <2> QED  BY <1>2 DEF Confirmations
<1>4. six \in Confirmations
  <2> HIDE DEF four
  <2> QED  BY <1>1, <1>3 DEF Confirmations
<1>5. six = Created(c, size)  BY DEF Created, Confirmations
<1> QED  BY <1>4, <1>5

LEMMA RequestFields ==
  ASSUME NEW h \in Requests, NEW pc, NEW mode \in Modes, NEW id \in Id0,
         NEW size \in Sizes \cup {0},
         pc \in {"idle", "arm", "publish", "reject", "consume", "begin", "install",
                "body", "respond", "cleanup", "hide", "finish"}
  PROVE  /\ [h EXCEPT !.pc = pc] \in Requests
         /\ [h EXCEPT !.pc = pc, !.id = id] \in Requests
         /\ [h EXCEPT !.pc = pc, !.mode = mode] \in Requests
         /\ [h EXCEPT !.pc = pc, !.mode = mode, !.id = id] \in Requests
         /\ [h EXCEPT !.pc = pc, !.id = id, !.size = size] \in Requests
BY DEF Requests

LEMMA ScreenCalls ==
  ASSUME TypeOK, NEW mode \in Modes, NEW id \in Id0
  PROVE  /\ Published(mode, id) \in Slots
         /\ Cancelled(id) \in Leases
         /\ Shown(mode, id) \in Screens
<1> USE DEF TypeOK
<1>1. Published(mode, id) \in Slots  BY DEF Published, Slots
<1>2. Cancelled(id) \in Leases  BY DEF Cancelled, Leases, Id0
<1>3. Shown(mode, id) \in Screens  BY DEF Shown, Screens, Id0
<1> QED  BY <1>1, <1>2, <1>3

LEMMA InitTypes == Init => TypeOK
<1> SUFFICES ASSUME Init PROVE TypeOK  OBVIOUS
<1> USE BoundsAssumption DEF Init, Id0, Ids
<1>1. conf \in Confirmations  BY DEF Confirmations
<1>2. lease \in Leases /\ slot \in Slots /\ ui \in Screens
  BY DEF Leases, Slots, Screens, Modes
<1>3. sess \in Sessions  BY DEF Sessions, NoSession
<1>4. http \in Requests  BY DEF Requests, NoRequest, Modes
<1>5. /\ net \in Steps({"idle", "take", "hideLease", "expiry", "hideExpired"})
      /\ lvgl \in Steps({"idle", "publish", "show"})
      /\ main \in Steps({"idle", "apply"})
  BY DEF Steps, Idle, Modes
<1>6. restart \subseteq Phases /\ granted \subseteq Ids \X (Sizes \cup {0}) /\ uses \in [Ids -> Nat]
  OBVIOUS
<1> QED  BY <1>1, <1>2, <1>3, <1>4, <1>5, <1>6 DEF TypeOK

LEMMA PrepareNewTypes ==
  ASSUME TypeOK, NEW size \in Sizes, PrepareNew(size)
  PROVE  TypeOK'
<1> USE DEF TypeOK, screen, system, tasks, history
<1> DEFINE c == Expired(conf)
<1>1. c \in Confirmations  BY ConfirmationCalls
<1> HIDE DEF c
<1>2. conf' \in Confirmations
  BY <1>1, CreatedIsOne DEF PrepareNew, c
<1>3. http' \in Requests
  <2>1. CASE UNCHANGED http  BY <2>1
  <2>2. CASE c.next \in Ids
             /\ http' = [http EXCEPT !.pc = "publish", !.mode = "ConfirmPending",
                                    !.id = c.next]
    <3>1. c.next \in Id0 /\ "ConfirmPending" \in Modes /\ http.size \in Sizes \cup {0}
      BY <2>2 DEF Id0, Modes, Requests
    <3> QED  BY <2>2, <3>1, RequestFields
  <2> QED  BY <2>1, <2>2 DEF PrepareNew, c
<1> QED  BY <1>2, <1>3 DEF PrepareNew, Request

LEMMA RequestTypes ==
  ASSUME TypeOK, NEW id \in Ids, NEW size \in Sizes,
         PrepareAgain(id, size) \/ UploadStart(id, size)
  PROVE  TypeOK'
<1> USE DEF TypeOK, screen, system, tasks, history
<1>1. CASE PrepareAgain(id, size)
  <2>1. conf' \in Confirmations  BY <1>1, ConfirmationCalls DEF PrepareAgain
  <2>2. id \in Id0 /\ "ConfirmPending" \in Modes /\ 0 \in Sizes \cup {0}
    BY DEF Id0, Modes
  <2>3. /\ [http EXCEPT !.pc = "publish", !.mode = "ConfirmPending", !.id = id] \in Requests
        /\ [http EXCEPT !.pc = "arm", !.id = id] \in Requests
    BY <2>2, RequestFields
  <2>4. http' \in Requests
    BY <1>1, <2>3 DEF PrepareAgain
  <2> QED  BY <1>1, <2>1, <2>4 DEF PrepareAgain, Request
<1>2. CASE UploadStart(id, size)
  <2>1. id \in Id0 /\ size \in Sizes \cup {0} /\ "Hidden" \in Modes  BY DEF Id0, Modes
  <2>2. /\ [http EXCEPT !.pc = "reject", !.id = id, !.size = size] \in Requests
        /\ [http EXCEPT !.pc = "consume", !.id = id, !.size = size] \in Requests
    BY <2>1, RequestFields
  <2>3. http' \in Requests  BY <1>2, <2>2 DEF UploadStart
  <2> QED  BY <1>2, <2>3 DEF UploadStart, Request
<1> QED  BY <1>1, <1>2

LEMMA HttpTypes ==
  ASSUME TypeOK, HttpStep \/ Reject
  PROVE  TypeOK'
<1> USE DEF TypeOK, screen, system, tasks, history
<1>0. 0 \in Id0 /\ http.id \in Id0 /\ http.size \in Sizes \cup {0}  BY DEF Id0, Requests
<1>1. CASE ArmPreflight
  <2>1. lease' \in Leases
    <3>1. [id |-> http.id, due |-> FALSE, latest |-> http.id] \in Leases
      BY <1>0 DEF Leases
    <3> QED  BY <1>1, <3>1 DEF ArmPreflight
  <2>2. "Installing" \in Modes /\ "Hidden" \in Modes  BY DEF Modes
  <2>3. [http EXCEPT !.pc = "publish", !.mode = "Installing"] \in Requests
    BY <1>0, <2>2, RequestFields
  <2>4. NoRequest \in Requests  BY <1>0, <2>2 DEF NoRequest, Requests
  <2>5. http' \in Requests  BY <1>1, <2>3, <2>4 DEF ArmPreflight
  <2> QED  BY <1>1, <2>1, <2>5 DEF ArmPreflight
<1>2. CASE PublishPrepared
  BY <1>2, ScreenCalls DEF PublishPrepared, Requests, NoRequest, Modes, Id0
<1>3. CASE ConsumeConfirm
  <2>1. conf' \in Confirmations  BY <1>3, ConfirmationCalls DEF ConsumeConfirm
  <2>2. http' \in Requests  BY <1>3 DEF ConsumeConfirm, To, Requests
  <2>3. uses' \in [Ids -> Nat]  BY <1>3 DEF ConsumeConfirm
  <2> QED  BY <1>3, <2>1, <2>2, <2>3 DEF ConsumeConfirm
<1>4. CASE Replay
  BY <1>4 DEF Replay, Requests, To
<1>5. CASE Reject
  BY <1>5 DEF Reject, Requests, NoRequest, Modes, Id0
<1>6. CASE CancelPreflight
  BY <1>6, ScreenCalls DEF CancelPreflight, Requests, To, Sessions
<1>7. CASE BeginUpload
  BY <1>7, ScreenCalls DEF BeginUpload, Requests, To, Sessions, Modes
<1>8. CASE Respond
  BY <1>8 DEF Respond, Requests, To, Phases
<1>9. CASE Cleanup
  BY <1>9, ScreenCalls DEF Cleanup, Requests, To, Sessions
<1>10. CASE HideAfterFailure
  BY <1>10, ScreenCalls DEF HideAfterFailure, Requests, To, Sessions, Modes
<1>11. CASE Finish
  BY <1>11 DEF Finish, Requests, NoRequest, Sessions, Modes, Id0
<1> QED  BY <1>1, <1>2, <1>3, <1>4, <1>5, <1>6, <1>7, <1>8, <1>9, <1>10, <1>11 DEF HttpStep

LEMMA BodyTypes ==
  ASSUME TypeOK, WriteChunk \/ BodyEnds \/ ForgetResult
  PROVE  TypeOK'
<1> USE DEF TypeOK, screen, system, tasks, history
<1>1. CASE WriteChunk
  <2>1. sess' \in Sessions
    <3>1. CASE sess' = [sess EXCEPT !.written = TRUE]  BY <3>1 DEF Sessions
    <3>2. CASE sess' = Failed(sess)  BY <3>2 DEF Failed, Sessions
    <3> QED  BY <1>1, <3>1, <3>2 DEF WriteChunk, Body
  <2> QED  BY <1>1, <2>1 DEF WriteChunk, Body
<1>2. CASE EndUpload
  <2>1. sess' \in Sessions
    <3>1. CASE sess' = [sess EXCEPT !.active = FALSE, !.success = TRUE]
      BY <3>1 DEF Sessions
    <3>2. CASE sess' = Failed(sess)  BY <3>2 DEF Failed, Sessions
    <3>3. CASE sess' = sess  BY <3>3
    <3> QED  BY <1>2, <3>1, <3>2, <3>3 DEF EndUpload, Body
  <2>2. http' \in Requests  BY <1>2 DEF EndUpload, To, Requests
  <2> QED  BY <1>2, <2>1, <2>2 DEF EndUpload, Body
<1>3. CASE AbortUpload
  BY <1>3 DEF AbortUpload, To, Body, Failed, Sessions, Requests
<1>4. CASE ForgetResult
  BY <1>4 DEF ForgetResult, NoSession, Sessions, Id0
<1> QED  BY <1>1, <1>2, <1>3, <1>4 DEF BodyEnds

LEMMA NetTypes ==
  ASSUME TypeOK, NetStep
  PROVE  TypeOK'
<1> USE DEF TypeOK, screen, system, tasks, history
<1>1. CASE PollBegin
  BY <1>1 DEF PollBegin, Steps, Raised, Phases
<1>2. CASE TakeDuePreflight
  <2>1. lease.id \in Id0 /\ "Hidden" \in Modes  BY DEF Leases, Modes
  <2>2. Cancelled(lease.id) \in Leases  BY <2>1, ScreenCalls
  <2>3. net' \in Steps({"idle", "take", "hideLease", "expiry", "hideExpired"})
    BY <1>2, <2>1 DEF TakeDuePreflight, Steps
  <2> QED  BY <1>2, <2>2, <2>3 DEF TakeDuePreflight
<1>3. CASE PollExpired
  <2> DEFINE c == Expired(conf)
  <2>1. c \in Confirmations  BY ConfirmationCalls
  <2> HIDE DEF c
  <2>2. conf' \in Confirmations  BY <1>3, <2>1 DEF PollExpired, c, Confirmations, Id0
  <2>3. c.event \in Id0  BY <2>1 DEF Confirmations
  <2>4. net' \in Steps({"idle", "take", "hideLease", "expiry", "hideExpired"})
    BY <1>3, <2>3 DEF PollExpired, c, Steps, Idle, Id0, Modes
  <2> QED  BY <1>3, <2>2, <2>4 DEF PollExpired
<1>4. CASE HidePolled
  BY <1>4, ScreenCalls DEF HidePolled, Steps, Idle, Id0, Modes
<1> QED  BY <1>1, <1>2, <1>3, <1>4 DEF NetStep

LEMMA LvglTypes ==
  ASSUME TypeOK, LvglStep \/ \E answer \in {"Allowed", "Denied"} : Clicked(answer)
  PROVE  TypeOK'
<1> USE DEF TypeOK, screen, system, tasks, history
<1>1. CASE \E answer \in {"Allowed", "Denied"} : Clicked(answer)
  <2> PICK answer \in {"Allowed", "Denied"} : Clicked(answer)  BY <1>1
  <2> DEFINE c == Expired(conf)
  <2>1. c \in Confirmations  BY ConfirmationCalls
  <2> HIDE DEF c
  <2>2. conf' \in Confirmations  BY <2>1, ConfirmationCalls DEF Clicked, c
  <2>3. lvgl' \in Steps({"idle", "publish", "show"})
    <3>1. ui.id \in Id0  BY DEF Screens
    <3> QED  BY <3>1 DEF Clicked, Steps, Modes
  <2>4. granted' \subseteq Ids \X (Sizes \cup {0})
    <3>1. CASE UNCHANGED granted  BY <3>1
    <3>2. CASE Decidable(c, ui.id) /\ granted' = granted \cup {<<c.id, c.size>>}
      <4>1. c.id \in Ids /\ c.size \in Sizes \cup {0}
        BY <2>1, <3>2 DEF Decidable, Confirmations, Id0
      <4> QED  BY <3>2, <4>1
    <3> QED  BY <3>1, <3>2 DEF Clicked, c
  <2> QED  BY <2>2, <2>3, <2>4 DEF Clicked
<1>2. CASE PublishAnswer
  BY <1>2, ScreenCalls DEF PublishAnswer, Steps
<1>3. CASE ShowAnswer
  <2>1. ui' \in Screens
    <3>1. lvgl.mode \in Modes  BY DEF Steps
    <3> QED  BY <1>3, <3>1 DEF ShowAnswer, Screens
  <2>2. Idle \in Steps({"idle", "publish", "show"})  BY DEF Idle, Steps, Id0, Modes
  <2> QED  BY <1>3, <2>1, <2>2 DEF ShowAnswer
<1> QED  BY <1>1, <1>2, <1>3 DEF LvglStep

LEMMA MainTypes ==
  ASSUME TypeOK, MainStep
  PROVE  TypeOK'
<1> USE DEF TypeOK, screen, system, tasks, history
<1>1. CASE TakeCommand
  BY <1>1 DEF TakeCommand, Steps, Slots
<1>2. CASE ApplyCommand
  BY <1>2, ScreenCalls DEF ApplyCommand, Steps, Idle, Id0, Modes
<1>3. CASE AutoClose
  BY <1>3, ScreenCalls DEF AutoClose, Screens, Modes
<1>4. CASE OtaWindow
  BY <1>4 DEF OtaWindow, Busy
<1>5. CASE ConsumeRestart
  BY <1>5 DEF ConsumeRestart, Phases
<1>6. CASE TryBeginRestart
  BY <1>6 DEF TryBeginRestart, Phases
<1> QED  BY <1>1, <1>2, <1>3, <1>4, <1>5, <1>6 DEF MainStep

LEMMA TimeTypes ==
  ASSUME TypeOK, Time \/ BootValid \/ Off
  PROVE  TypeOK'
<1> USE DEF TypeOK, screen, system, tasks, history
<1>1. CASE ConfirmDeadline
  BY <1>1 DEF ConfirmDeadline, Confirmations
<1>2. CASE LeaseDeadline
  BY <1>2 DEF LeaseDeadline, Leases
<1>3. CASE CloseDeadline
  BY <1>3 DEF CloseDeadline, Screens
<1>4. CASE RestartDeadline
  BY <1>4 DEF RestartDeadline, Phases
<1>5. CASE BootValid
  BY <1>5 DEF BootValid
<1>6. CASE Off
  BY <1>6 DEF Off, vars
<1> QED  BY <1>1, <1>2, <1>3, <1>4, <1>5, <1>6 DEF Time

-----------------------------------------------------------------------------
(* What an upload leaves, and the restart that follows an installation.    *)

Preparing == {"idle", "arm", "publish"}
Admitted == {"reject", "consume", "begin"}

\* The gate is held from the first step of an upload to its last, and the
\* session is busy only after the confirmation was consumed.
UploadStage ==
  /\ http.pc \in Preparing => gate # "Upload"
  /\ http.pc \notin Preparing => gate = "Upload"
  /\ http.pc \in Preparing \cup Admitted => sess.busy = FALSE /\ sess.owner = 0

UploadInv == UploadStage /\ InstalledRestarts

LEMMA UploadQuiet ==
  ASSUME UploadInv, sess' = sess, gate' = gate, http' = http,
         restart' \cap {"deferred", "requested", "pending", "down"} = {} =>
           restart \cap {"deferred", "requested", "pending", "down"} = {}
  PROVE  UploadInv'
BY DEF UploadInv, UploadStage, InstalledRestarts

LEMMA UploadSame ==
  ASSUME UploadInv, sess' = sess, gate' = gate, http' = http, restart' = restart
  PROVE  UploadInv'
BY UploadQuiet

LEMMA RequestKeepsUpload ==
  ASSUME TypeOK, UploadInv, NEW id \in Ids, NEW size \in Sizes,
         PrepareNew(size) \/ PrepareAgain(id, size) \/ UploadStart(id, size)
  PROVE  UploadInv'
<1> USE DEF TypeOK, Requests, Request, UploadInv, UploadStage, InstalledRestarts, system,
            Preparing, Admitted
<1>1. CASE PrepareNew(size) \/ PrepareAgain(id, size)
  <2>1. http'.pc \in {"idle", "publish", "arm"} /\ http.pc = "idle"
    BY <1>1 DEF PrepareNew, PrepareAgain
  <2>2. UNCHANGED <<gate, restart, sess>>  BY <1>1 DEF PrepareNew, PrepareAgain
  <2> QED  BY <2>1, <2>2
<1>2. CASE UploadStart(id, size)
  <2>1. http.pc = "idle" /\ http'.pc \in {"reject", "consume"}  BY <1>2 DEF UploadStart
  <2>2. gate' = "Upload" /\ UNCHANGED <<restart, sess>>  BY <1>2 DEF UploadStart
  <2> QED  BY <2>1, <2>2
<1> QED  BY <1>1, <1>2

LEMMA HttpKeepsUpload ==
  ASSUME TypeOK, UploadInv, HttpStep \/ Reject
  PROVE  UploadInv'
<1> USE DEF TypeOK, UploadInv, UploadStage, InstalledRestarts, system, To, Preparing, Admitted
<1>1. CASE ArmPreflight \/ PublishPrepared
  <2>1. http.pc \in Preparing /\ http'.pc \in Preparing
    <3>1. CASE ArmPreflight
      <4>1. http' \in {NoRequest, [http EXCEPT !.pc = "publish", !.mode = "Installing"]}
        BY <3>1 DEF ArmPreflight
      <4>2. http.pc = "arm"  BY <3>1 DEF ArmPreflight
      <4>3. CASE http' = NoRequest  BY <4>2, <4>3 DEF NoRequest
      <4>4. CASE http' = [http EXCEPT !.pc = "publish", !.mode = "Installing"]
        BY <4>2, <4>4 DEF Requests
      <4> QED  BY <4>1, <4>3, <4>4
    <3>2. CASE PublishPrepared  BY <3>2 DEF PublishPrepared, NoRequest
    <3> QED  BY <1>1, <3>1, <3>2
  <2>2. UNCHANGED <<gate, restart, sess>>  BY <1>1 DEF ArmPreflight, PublishPrepared
  <2> QED  BY <2>1, <2>2
<1>2. CASE ConsumeConfirm \/ Replay
  <2>1. http.pc = "consume" /\ http'.pc \in Admitted
    BY <1>2 DEF ConsumeConfirm, Replay, Requests
  <2>2. UNCHANGED <<gate, restart, sess>>  BY <1>2 DEF ConsumeConfirm, Replay
  <2> QED  BY <2>1, <2>2
<1>3. CASE Reject
  <2>1. http.pc \in Admitted /\ http'.pc = "idle" /\ gate' = "Idle"
    BY <1>3 DEF Reject, NoRequest
  <2>2. UNCHANGED <<restart, sess>>  BY <1>3 DEF Reject
  <2> QED  BY <2>1, <2>2
<1>4. CASE CancelPreflight
  <2>1. http.pc = "begin" /\ http'.pc = "install" /\ UNCHANGED <<gate, restart>>
    BY <1>4 DEF CancelPreflight, Requests
  <2>2. sess'.success = sess.success  BY <1>4 DEF CancelPreflight, Sessions
  <2> QED  BY <2>1, <2>2
<1>5. CASE BeginUpload
  <2>1. http.pc = "install" /\ http'.pc = "body" /\ gate' = gate
    BY <1>5 DEF BeginUpload, Requests
  <2> QED  BY <2>1
<1>6. CASE Respond
  <2>1. http.pc = "respond" /\ http'.pc = "cleanup" /\ UNCHANGED <<gate, sess>>
    BY <1>6 DEF Respond, Requests
  <2>2. sess.success => "deferred" \in restart'  BY <1>6 DEF Respond
  <2> QED  BY <2>1, <2>2
<1>7. CASE Cleanup \/ HideAfterFailure
  <2>1. http.pc \in {"cleanup", "hide"} /\ http'.pc \in {"hide", "finish"}
    BY <1>7 DEF Cleanup, HideAfterFailure, Requests
  <2>2. UNCHANGED <<gate, restart, sess>>  BY <1>7 DEF Cleanup, HideAfterFailure
  <2> QED  BY <2>1, <2>2
<1>8. CASE Finish
  <2>1. http.pc = "finish" /\ http'.pc = "idle" /\ gate' = "Idle" /\ restart' = restart
    BY <1>8 DEF Finish, NoRequest
  <2>2. sess'.busy = FALSE /\ sess'.owner = 0 /\ sess'.success = sess.success
    BY <1>8 DEF Finish, Sessions
  <2> QED  BY <2>1, <2>2
<1> QED  BY <1>1, <1>2, <1>3, <1>4, <1>5, <1>6, <1>7, <1>8 DEF HttpStep

LEMMA BodyKeepsUpload ==
  ASSUME TypeOK, UploadInv, WriteChunk \/ BodyEnds \/ ForgetResult
  PROVE  UploadInv'
<1> USE DEF TypeOK, UploadInv, UploadStage, InstalledRestarts, tasks, To, Preparing, Admitted
<1>1. CASE WriteChunk
  <2>1. http.pc = "body" /\ UNCHANGED <<http, gate, restart>>  BY <1>1 DEF WriteChunk, Body
  <2> QED  BY <2>1
<1>2. CASE BodyEnds
  <2>1. http.pc = "body" /\ http'.pc = "respond" /\ UNCHANGED <<gate, restart>>
    BY <1>2 DEF BodyEnds, EndUpload, AbortUpload, Body, Requests
  <2> QED  BY <2>1
<1>3. CASE ForgetResult
  <2>1. http.pc = "idle" /\ UNCHANGED <<http, gate, restart>>  BY <1>3 DEF ForgetResult
  <2>2. sess'.busy = FALSE /\ sess'.owner = 0 /\ sess'.success = FALSE
    BY <1>3 DEF ForgetResult, NoSession
  <2> QED  BY <2>1, <2>2
<1> QED  BY <1>1, <1>2, <1>3

LEMMA OthersKeepUpload ==
  ASSUME TypeOK, UploadInv,
         \/ NetStep \/ LvglStep \/ MainStep \/ Time \/ BootValid \/ Off
         \/ \E answer \in {"Allowed", "Denied"} : Clicked(answer)
  PROVE  UploadInv'
<1> USE DEF tasks, screen, system, history
<1>1. CASE NetStep
  <2>1. UNCHANGED <<sess, gate, http>>
    BY <1>1 DEF NetStep, PollBegin, TakeDuePreflight, PollExpired, HidePolled
  <2>2. restart' \in {restart, Raised(restart)}
    BY <1>1 DEF NetStep, PollBegin, TakeDuePreflight, PollExpired, HidePolled
  <2> QED  BY <2>1, <2>2, UploadQuiet DEF Raised
<1>2. CASE LvglStep \/ \E answer \in {"Allowed", "Denied"} : Clicked(answer)
  BY <1>2, UploadSame DEF LvglStep, PublishAnswer, ShowAnswer, Clicked
<1>3. CASE TakeCommand \/ ApplyCommand \/ AutoClose \/ OtaWindow
  BY <1>3, UploadSame DEF TakeCommand, ApplyCommand, AutoClose, OtaWindow
<1>4. CASE ConsumeRestart
  BY <1>4, UploadQuiet DEF ConsumeRestart
<1>5. CASE TryBeginRestart
  <2>1. UNCHANGED <<sess, http>> /\ gate = "Idle" /\ gate' = "Restart" /\ "down" \in restart'
    BY <1>5 DEF TryBeginRestart
  <2> QED  BY <2>1 DEF UploadInv, UploadStage, InstalledRestarts
<1>6. CASE Time \/ BootValid
  <2>1. UNCHANGED <<sess, gate, http>> /\ restart' \in {restart, restart \cup {"due"}}
    BY <1>6 DEF Time, ConfirmDeadline, LeaseDeadline, CloseDeadline, RestartDeadline, BootValid
  <2> QED  BY <2>1, UploadQuiet
<1>7. CASE Off
  BY <1>7, UploadSame DEF Off, vars
<1> QED  BY <1>1, <1>2, <1>3, <1>4, <1>5, <1>6, <1>7 DEF MainStep

-----------------------------------------------------------------------------
(* One upload per consent.                                                 *)

\* What a call may do to the confirmation without a new request, a consent or
\* an upload: neither makes it allowed nor takes back that it was consumed.
Tame(c, d) ==
  /\ d.id = c.id /\ d.size = c.size /\ d.next = c.next
  /\ d.state = "Allowed" => c.state = "Allowed"
  /\ c.state = "Consumed" => d.state = "Consumed"

\* A confirmation was used at most once, only after it was allowed for that
\* size, and it is the newest and consumed, or older.
Consented(id, size) == id \in Ids /\ uses[id] = 1 /\ <<id, size>> \in granted

ConfirmationStage ==
  /\ conf.next = conf.id + 1
  /\ conf.state = "Allowed" => <<conf.id, conf.size>> \in granted
  /\ \A i \in Ids :
       /\ uses[i] \in {0, 1}
       /\ uses[i] # 0 => i <= conf.id /\ (i = conf.id => conf.state = "Consumed")

\* A request that is past the consumption, and an image that is being written,
\* have the consent of their own confirmation.
ConsentInv ==
  /\ ConfirmationStage
  /\ http.pc \in {"begin", "install"} => Consented(http.id, http.size)
  /\ sess.active \/ sess.written => Consented(sess.id, sess.size)

LEMMA TameCalls ==
  ASSUME NEW c \in Confirmations, NEW id, NEW size
  PROVE  /\ Tame(c, Expired(c)) /\ Tame(c, Pollable(c, id, size))
         /\ Tame(c, [c EXCEPT !.event = 0]) /\ Tame(c, [c EXCEPT !.due = TRUE])
BY DEF Tame, Expired, Pollable, Observed, Terminal, Confirmations

LEMMA TameTwice ==
  ASSUME NEW c, NEW d, NEW e, Tame(c, d), Tame(d, e)
  PROVE  Tame(c, e)
BY DEF Tame

LEMMA ConsentQuiet ==
  ASSUME TypeOK, ConsentInv, Tame(conf, conf'), uses' = uses, granted' = granted,
         http'.pc \notin {"begin", "install"} \/ http' = http,
         sess'.active \/ sess'.written =>
           /\ sess.active \/ sess.written
           /\ sess'.id = sess.id /\ sess'.size = sess.size
  PROVE  ConsentInv'
BY DEF ConsentInv, ConfirmationStage, Consented, Tame

LEMMA ConsentSame ==
  ASSUME TypeOK, ConsentInv, conf' = conf, uses' = uses, granted' = granted, sess' = sess,
         http'.pc \notin {"begin", "install"} \/ http' = http
  PROVE  ConsentInv'
BY ConsentQuiet DEF Tame

LEMMA RequestKeepsConsent ==
  ASSUME TypeOK, ConsentInv, NEW id \in Ids, NEW size \in Sizes,
         PrepareNew(size) \/ PrepareAgain(id, size) \/ UploadStart(id, size)
  PROVE  ConsentInv'
<1> USE DEF TypeOK, Request, system, history
<1> DEFINE c == Expired(conf)
<1>0. c \in Confirmations /\ Tame(conf, c)  BY ConfirmationCalls, TameCalls
<1> HIDE DEF c
<1>1. CASE PrepareNew(size)
  <2>1. http'.pc \in {"idle", "publish"} /\ UNCHANGED <<sess, uses, granted>>
    BY <1>1 DEF PrepareNew, Requests
  <2>2. CASE conf' = c  BY <1>0, <2>1, <2>2, ConsentQuiet
  <2>3. CASE conf' = Created(c, size)
    <3>1. conf'.id = c.next /\ conf'.next = c.next + 1 /\ conf'.state = "Pending"
      BY <1>0, <2>3 DEF Created, Confirmations
    <3>2. c.next = conf.id + 1 /\ c.id = conf.id /\ conf.id \in Nat
      BY <1>0 DEF Tame, ConsentInv, ConfirmationStage, Confirmations, Id0, Ids
    <3>3. ConfirmationStage'
      BY <2>1, <3>1, <3>2 DEF ConsentInv, ConfirmationStage, Ids
    <3> QED  BY <2>1, <3>3 DEF ConsentInv, Consented
  <2> QED  BY <1>1, <2>2, <2>3 DEF PrepareNew, c
<1>2. CASE PrepareAgain(id, size)
  <2>1. http'.pc \in {"idle", "publish", "arm"} /\ UNCHANGED <<sess, uses, granted>>
    BY <1>2 DEF PrepareAgain, Requests
  <2>2. Tame(conf, conf')
    <3>1. Tame(c, Pollable(c, id, size))  BY <1>0, TameCalls
    <3>2. conf' = Pollable(c, id, size)  BY <1>2 DEF PrepareAgain, c
    <3> QED  BY <1>0, <3>1, <3>2, TameTwice
  <2> QED  BY <2>1, <2>2, ConsentQuiet
<1>3. CASE UploadStart(id, size)
  <2>1. http'.pc \in {"reject", "consume"}  BY <1>3 DEF UploadStart, Requests
  <2> QED  BY <1>3, <2>1, ConsentSame DEF UploadStart
<1> QED  BY <1>1, <1>2, <1>3

LEMMA ConsumeKeepsConsent ==
  ASSUME TypeOK, ConsentInv, ConsumeConfirm
  PROVE  ConsentInv'
<1> USE DEF TypeOK, system
<1> DEFINE c == Expired(conf)
<1>1. c \in Confirmations /\ Tame(conf, c)  BY ConfirmationCalls, TameCalls
<1>2. UNCHANGED <<sess, granted>> /\ http.pc = "consume"  BY DEF ConsumeConfirm
<1> HIDE DEF c
<1>3. CASE conf' = Pollable(c, http.id, http.size) /\ To("reject") /\ uses' = uses
  <2>1. http'.pc = "reject"  BY <1>3 DEF To, Requests
  <2>2. Tame(c, Pollable(c, http.id, http.size))  BY <1>1, TameCalls
  <2> QED  BY <1>1, <1>2, <1>3, <2>1, <2>2, TameTwice, ConsentQuiet
<1>4. CASE /\ Matches(c, http.id, http.size) /\ c.state = "Allowed"
           /\ conf' = Consumed(c) /\ To("begin")
           /\ uses' = [uses EXCEPT ![http.id] = @ + 1]
  <2>1. /\ c.id = conf.id /\ c.size = conf.size /\ c.next = conf.next
        /\ conf.state = "Allowed" /\ http.id = conf.id /\ http.size = conf.size
        /\ conf.id \in Ids
    BY <1>1, <1>4 DEF Tame, Matches, Confirmations, Id0
  <2>2. /\ conf'.id = conf.id /\ conf'.size = conf.size /\ conf'.next = conf.next
        /\ conf'.state = "Consumed"
    BY <1>1, <1>4, <2>1 DEF Consumed, Confirmations
  <2>3. http'.id = http.id /\ http'.size = http.size  BY <1>4 DEF To, Requests
  <2>4. uses[conf.id] = 0  BY <2>1 DEF ConsentInv, ConfirmationStage
  <2>5. uses'[conf.id] = 1 /\ \A i \in Ids \ {conf.id} : uses'[i] = uses[i]
    BY <1>4, <2>1, <2>4
  <2>6. ConfirmationStage'
    BY <2>1, <2>2, <2>5 DEF ConsentInv, ConfirmationStage, Ids
  <2>7. <<conf.id, conf.size>> \in granted'
    BY <1>2, <2>1 DEF ConsentInv, ConfirmationStage
  <2>8. Consented(http.id, http.size)'  BY <2>1, <2>3, <2>5, <2>7 DEF Consented
  <2>9. (sess.active \/ sess.written => Consented(sess.id, sess.size))'
    BY <1>2, <2>4, <2>5 DEF ConsentInv, Consented
  <2> QED  BY <2>6, <2>8, <2>9 DEF ConsentInv
<1> QED  BY <1>3, <1>4 DEF ConsumeConfirm, c

LEMMA HttpKeepsConsent ==
  ASSUME TypeOK, ConsentInv, HttpStep \/ Reject
  PROVE  ConsentInv'
<1> USE DEF TypeOK, system, history, To
<1>1. CASE ArmPreflight \/ PublishPrepared \/ Replay \/ Reject
  <2>1. http'.pc \in {"idle", "publish", "reject"}
    <3>1. CASE ArmPreflight
      <4>1. http' \in {NoRequest, [http EXCEPT !.pc = "publish", !.mode = "Installing"]}
        BY <3>1 DEF ArmPreflight
      <4>2. http.pc = "arm"  BY <3>1 DEF ArmPreflight
      <4>3. CASE http' = NoRequest  BY <4>2, <4>3 DEF NoRequest
      <4>4. CASE http' = [http EXCEPT !.pc = "publish", !.mode = "Installing"]
        BY <4>2, <4>4 DEF Requests
      <4> QED  BY <4>1, <4>3, <4>4
    <3>2. CASE PublishPrepared  BY <3>2 DEF PublishPrepared, NoRequest
    <3>3. CASE Replay  BY <3>3 DEF Replay, Requests
    <3>4. CASE Reject  BY <3>4 DEF Reject, NoRequest
    <3> QED  BY <1>1, <3>1, <3>2, <3>3, <3>4
  <2> QED  BY <1>1, <2>1, ConsentSame DEF ArmPreflight, PublishPrepared, Replay, Reject
<1>2. CASE ConsumeConfirm  BY <1>2, ConsumeKeepsConsent
<1>3. CASE CancelPreflight
  <2>1. /\ http.pc = "begin" /\ http'.id = http.id /\ http'.size = http.size
        /\ UNCHANGED <<conf, uses, granted>>
    BY <1>3 DEF CancelPreflight, Requests
  <2>2. /\ sess'.active = sess.active /\ sess'.written = sess.written
        /\ sess'.id = sess.id /\ sess'.size = sess.size
    BY <1>3 DEF CancelPreflight, Sessions
  <2> QED  BY <2>1, <2>2 DEF ConsentInv, ConfirmationStage, Consented
<1>4. CASE BeginUpload
  <2>1. /\ http.pc = "install" /\ http'.pc = "body" /\ UNCHANGED <<conf, uses, granted>>
    BY <1>4 DEF BeginUpload, Requests
  <2>2. sess'.id = http.id /\ sess'.size = http.size
    BY <1>4 DEF BeginUpload, Sessions
  <2> QED  BY <2>1, <2>2 DEF ConsentInv, ConfirmationStage, Consented
<1>5. CASE Respond \/ Cleanup \/ HideAfterFailure
  <2>1. http'.pc \in {"cleanup", "hide", "finish"}
    BY <1>5 DEF Respond, Cleanup, HideAfterFailure, Requests
  <2> QED  BY <1>5, <2>1, ConsentSame DEF Respond, Cleanup, HideAfterFailure
<1>6. CASE Finish
  <2>1. http'.pc = "idle" /\ UNCHANGED <<conf, uses, granted>>
    BY <1>6 DEF Finish, NoRequest
  <2>2. /\ sess'.active = sess.active /\ sess'.written = sess.written
        /\ sess'.id = sess.id /\ sess'.size = sess.size
    BY <1>6 DEF Finish, Sessions
  <2> QED  BY <2>1, <2>2, ConsentQuiet DEF Tame
<1> QED  BY <1>1, <1>2, <1>3, <1>4, <1>5, <1>6 DEF HttpStep

LEMMA BodyKeepsConsent ==
  ASSUME TypeOK, ConsentInv, WriteChunk \/ BodyEnds \/ ForgetResult
  PROVE  ConsentInv'
<1> USE DEF TypeOK, history, tasks, To
<1>1. http'.pc = "respond" \/ http' = http
  BY DEF WriteChunk, BodyEnds, EndUpload, AbortUpload, Body, ForgetResult, Requests
<1>2. UNCHANGED <<conf, uses, granted>>
  BY DEF WriteChunk, BodyEnds, EndUpload, AbortUpload, Body, ForgetResult
<1>3. CASE WriteChunk
  <2>1. sess.active /\ sess'.id = sess.id /\ sess'.size = sess.size
    BY <1>3 DEF WriteChunk, Body, Failed, Sessions
  <2> QED  BY <1>1, <1>2, <2>1, ConsentQuiet DEF Tame
<1>4. CASE BodyEnds
  <2>1. /\ sess'.id = sess.id /\ sess'.size = sess.size
        /\ sess'.active => sess.active
        /\ sess'.written = sess.written
    <3>1. CASE sess' = sess  BY <3>1
    <3>2. CASE sess' = Failed(sess)  BY <3>2 DEF Failed, Sessions
    <3>3. CASE sess' = [sess EXCEPT !.active = FALSE, !.success = TRUE]
      BY <3>3 DEF Sessions
    <3> QED  BY <1>4, <3>1, <3>2, <3>3 DEF BodyEnds, EndUpload, AbortUpload, Body
  <2> QED  BY <1>1, <1>2, <2>1, ConsentQuiet DEF Tame
<1>5. CASE ForgetResult
  <2>1. sess'.active = FALSE /\ sess'.written = FALSE  BY <1>5 DEF ForgetResult, NoSession
  <2> QED  BY <1>1, <1>2, <2>1, ConsentQuiet DEF Tame
<1> QED  BY <1>3, <1>4, <1>5

LEMMA ClickKeepsConsent ==
  ASSUME TypeOK, ConsentInv, NEW answer \in {"Allowed", "Denied"}, Clicked(answer)
  PROVE  ConsentInv'
<1> USE DEF TypeOK, system
<1> DEFINE c == Expired(conf)
<1>1. c \in Confirmations /\ Tame(conf, c)  BY ConfirmationCalls, TameCalls
<1>2. UNCHANGED <<sess, uses, http>>  BY DEF Clicked
<1> HIDE DEF c
<1>3. CASE ~Decidable(c, ui.id)
  BY <1>1, <1>2, <1>3, ConsentQuiet DEF Clicked, Decided, c
<1>4. CASE Decidable(c, ui.id) /\ answer = "Denied"
  <2>1. conf' = Terminal(c, "Denied") /\ granted' = granted
    BY <1>4 DEF Clicked, Decided, c
  <2>2. Tame(c, Terminal(c, "Denied"))
    BY <1>1, <1>4 DEF Tame, Terminal, Decidable, Confirmations
  <2> QED  BY <1>1, <1>2, <2>1, <2>2, TameTwice, ConsentQuiet
<1>5. CASE Decidable(c, ui.id) /\ answer = "Allowed"
  <2>1. /\ conf'.id = c.id /\ conf'.size = c.size /\ conf'.next = c.next
        /\ conf'.state = "Allowed" /\ granted' = granted \cup {<<c.id, c.size>>}
    BY <1>1, <1>5 DEF Clicked, Decided, c, Confirmations
  <2>2. c.id = conf.id /\ c.next = conf.next /\ conf.state # "Consumed"
    BY <1>1, <1>5 DEF Tame, Decidable
  <2>3. ConfirmationStage'
    BY <1>2, <2>1, <2>2 DEF ConsentInv, ConfirmationStage
  <2> QED  BY <1>2, <2>1, <2>3 DEF ConsentInv, Consented
<1> QED  BY <1>3, <1>4, <1>5

LEMMA OthersKeepConsent ==
  ASSUME TypeOK, ConsentInv,
         \/ NetStep \/ LvglStep \/ MainStep \/ Time \/ BootValid \/ Off
  PROVE  ConsentInv'
<1> USE DEF TypeOK, tasks, screen, system, history
<1>1. CASE PollExpired
  <2>1. UNCHANGED <<sess, uses, granted, http>> /\ conf' = [Expired(conf) EXCEPT !.event = 0]
    BY <1>1 DEF PollExpired
  <2>2. Tame(conf, Expired(conf)) /\ Expired(conf) \in Confirmations
    BY ConfirmationCalls, TameCalls
  <2>3. Tame(Expired(conf), conf')  BY <2>1, <2>2, TameCalls
  <2> QED  BY <2>1, <2>2, <2>3, TameTwice, ConsentQuiet
<1>2. CASE ConfirmDeadline
  <2>1. UNCHANGED <<sess, uses, granted, http>> /\ conf' = [conf EXCEPT !.due = TRUE]
    BY <1>2 DEF ConfirmDeadline
  <2> QED  BY <2>1, TameCalls, ConsentQuiet
<1>3. CASE PollBegin \/ TakeDuePreflight \/ HidePolled \/ LvglStep
  BY <1>3, ConsentSame
     DEF PollBegin, TakeDuePreflight, HidePolled, LvglStep, PublishAnswer, ShowAnswer
<1>4. CASE MainStep
  BY <1>4, ConsentSame
     DEF MainStep, TakeCommand, ApplyCommand, AutoClose, OtaWindow, ConsumeRestart,
         TryBeginRestart
<1>5. CASE LeaseDeadline \/ CloseDeadline \/ RestartDeadline \/ BootValid
  BY <1>5, ConsentSame DEF LeaseDeadline, CloseDeadline, RestartDeadline, BootValid
<1>6. CASE Off
  BY <1>6, ConsentSame DEF Off, vars
<1> QED  BY <1>1, <1>2, <1>3, <1>4, <1>5, <1>6 DEF NetStep, Time

-----------------------------------------------------------------------------
(* The screen, and the invariant as a whole.                               *)

\* The screen shows the newest lineage it accepted, or none.
ScreenInv == ui.id \in {0, ui.latest}

Forward == ui'.latest >= ui.latest /\ (ui'.id # 0 => ui'.id >= ui.latest)

LEMMA ShownForward ==
  ASSUME TypeOK, ScreenInv, NEW mode \in Modes, NEW id \in Id0, ui' = Shown(mode, id)
  PROVE  ScreenInv' /\ Forward
<1>1. ui.latest \in Nat /\ ui.id \in Nat /\ id \in Nat  BY DEF TypeOK, Screens, Id0, Ids
<1>2. CASE ~Accepts(ui.latest, id)  BY <1>1, <1>2 DEF Shown, ScreenInv, Forward
<1>3. CASE Accepts(ui.latest, id)
  <2>1. ui'.latest = id /\ ui'.id \in {0, id} /\ id >= ui.latest
    BY <1>3 DEF Shown, Accepts
  <2> QED  BY <1>1, <2>1 DEF ScreenInv, Forward
<1> QED  BY <1>2, <1>3

LEMMA ScreenForward ==
  ASSUME TypeOK, ScreenInv, [Next]_vars
  PROVE  ScreenInv' /\ Forward
<1> USE DEF TypeOK, tasks, screen, system, history
<1>1. CASE /\ ui'.id = ui.id /\ ui'.latest = ui.latest
  <2>1. ui.latest \in Nat /\ ui.id \in Nat  BY DEF Screens, Id0, Ids
  <2> QED  BY <1>1, <2>1 DEF ScreenInv, Forward
<1>2. CASE ApplyCommand
  <2>1. main.mode \in Modes /\ main.id \in Id0  BY DEF Steps
  <2> QED  BY <1>2, <2>1, ShownForward DEF ApplyCommand
<1>3. CASE AutoClose
  <2>1. ui.id \in Id0 /\ "Hidden" \in Modes  BY DEF Screens, Modes
  <2> QED  BY <1>3, <2>1, ShownForward DEF AutoClose
<1>4. CASE ShowAnswer \/ CloseDeadline
  <2>1. ui'.id = ui.id /\ ui'.latest = ui.latest
    BY <1>4 DEF ShowAnswer, CloseDeadline, Screens
  <2> QED  BY <2>1, <1>1
<1>5. CASE UNCHANGED vars  BY <1>1, <1>5 DEF vars
<1>6. ASSUME NEW size \in Sizes, PrepareNew(size) PROVE ui' = ui
  BY <1>6 DEF PrepareNew
<1>7. ASSUME NEW id \in Ids, NEW size \in Sizes,
             PrepareAgain(id, size) \/ UploadStart(id, size)
      PROVE  ui' = ui
  BY <1>7 DEF PrepareAgain, UploadStart
<1>8. ASSUME HttpStep \/ Reject PROVE ui' = ui
  BY <1>8 DEF HttpStep, ArmPreflight, PublishPrepared, ConsumeConfirm, Replay, Reject,
              CancelPreflight, BeginUpload, Respond, Cleanup, HideAfterFailure, Finish
<1>9. ASSUME WriteChunk \/ BodyEnds \/ ForgetResult PROVE ui' = ui
  BY <1>9 DEF WriteChunk, BodyEnds, EndUpload, AbortUpload, Body, ForgetResult
<1>10. ASSUME NetStep PROVE ui' = ui
  BY <1>10 DEF NetStep, PollBegin, TakeDuePreflight, PollExpired, HidePolled
<1>11. ASSUME NEW answer, Clicked(answer) PROVE ui' = ui  BY <1>11 DEF Clicked
<1>12. ASSUME PublishAnswer PROVE ui' = ui  BY <1>12 DEF PublishAnswer
<1>13. ASSUME TakeCommand \/ OtaWindow \/ ConsumeRestart \/ TryBeginRestart PROVE ui' = ui
  BY <1>13 DEF TakeCommand, OtaWindow, ConsumeRestart, TryBeginRestart
<1>14. ASSUME ConfirmDeadline \/ LeaseDeadline \/ RestartDeadline \/ BootValid \/ Off
       PROVE  ui' = ui
  BY <1>14 DEF ConfirmDeadline, LeaseDeadline, RestartDeadline, BootValid, Off, vars
<1> QED  BY <1>1, <1>2, <1>3, <1>4, <1>5, <1>6, <1>7, <1>8, <1>9, <1>10, <1>11, <1>12, <1>13,
            <1>14 DEF Next, LvglStep, MainStep, Time

-----------------------------------------------------------------------------
(* The request that waits for the user is on its way to the screen.        *)

Waits == conf.state = "Pending"

\* What belongs to an earlier confirmation, or to this one after its answer.
Older(id) == id <= conf.id /\ (Waits => id < conf.id)

\* A screen command that does not take the place of the question.
Fits(mode, id) == id <= conf.id /\ (Waits /\ id = conf.id => mode = "ConfirmPending")

IdsKnown ==
  /\ Waits => conf.id # 0
  /\ Older(lease.id) /\ Older(net.id) /\ Older(conf.event) /\ Older(sess.owner) /\ Older(lvgl.id)
  /\ http.pc \in {"arm", "begin", "install"} => Older(http.id) /\ ~Waits

CommandsFit ==
  /\ slot.id = slot.latest /\ Fits(slot.mode, slot.id)
  /\ main.pc = "apply" => Fits(main.mode, main.id)
  /\ http.pc = "publish" => Fits(http.mode, http.id) /\ (Waits => http.id = conf.id)
  /\ Fits(ui.mode, ui.latest)
  /\ Waits /\ ui.latest = conf.id => ui.id = conf.id /\ ui.close = "no"

\* Published, taken, shown: one of them is still to come or has been done.
OnItsWay ==
  Waits =>
    /\ lvgl.pc = "idle"
    /\ http.pc = "publish" \/ slot.latest = conf.id
    /\ slot.latest = conf.id =>
         slot.pending \/ (main.pc = "apply" /\ main.id = conf.id) \/ ui.latest = conf.id

AskInv == IdsKnown /\ CommandsFit /\ OnItsWay

\* What a call may do to the confirmation, a new request excepted.
Calm(c, d) ==
  /\ d.id = c.id /\ (d.state = "Pending" => c.state = "Pending")
  /\ d.event \in {c.event, 0} \/ (d.event = c.id /\ d.state # "Pending")

LEMMA CalmCalls ==
  ASSUME NEW c \in Confirmations, NEW id, NEW size, NEW answer \in {"Allowed", "Denied"}
  PROVE  /\ Calm(c, Expired(c)) /\ Calm(c, Pollable(c, id, size)) /\ Calm(c, Consumed(c))
         /\ Calm(c, Decided(c, id, answer))
         /\ Calm(c, [c EXCEPT !.event = 0]) /\ Calm(c, [c EXCEPT !.due = TRUE])
         /\ Expired(c).state \in {c.state, "Expired"}
<1> USE DEF Calm, Confirmations
<1>1. Calm(c, Expired(c)) /\ Expired(c).state \in {c.state, "Expired"}
  BY DEF Expired, Terminal
<1>2. Calm(c, Pollable(c, id, size))  BY DEF Pollable, Observed
<1>3. Calm(c, Consumed(c))  BY DEF Consumed
<1>4. Calm(c, Decided(c, id, answer))  BY DEF Decided, Terminal
<1>5. Calm(c, [c EXCEPT !.event = 0]) /\ Calm(c, [c EXCEPT !.due = TRUE])  OBVIOUS
<1> QED  BY <1>1, <1>2, <1>3, <1>4, <1>5

LEMMA CalmTwice ==
  ASSUME NEW c, NEW d, NEW e, Calm(c, d), Calm(d, e)
  PROVE  Calm(c, e)
BY DEF Calm

LEMMA CalmThen ==
  ASSUME NEW id, NEW size, NEW answer \in {"Allowed", "Denied"}, TypeOK
  PROVE  /\ Calm(conf, Expired(conf)) /\ Calm(conf, Pollable(Expired(conf), id, size))
         /\ Calm(conf, Consumed(Expired(conf))) /\ Calm(conf, Decided(Expired(conf), id, answer))
         /\ Calm(conf, [Expired(conf) EXCEPT !.event = 0])
         /\ Calm(conf, [conf EXCEPT !.due = TRUE]) /\ Calm(conf, conf)
<1> DEFINE c == Expired(conf)
<1>1. conf \in Confirmations /\ c \in Confirmations  BY ConfirmationCalls DEF TypeOK
<1>2. Calm(conf, c) /\ Calm(conf, [conf EXCEPT !.due = TRUE])  BY <1>1, CalmCalls
<1> HIDE DEF c
<1>3. /\ Calm(c, Pollable(c, id, size)) /\ Calm(c, Consumed(c)) /\ Calm(c, Decided(c, id, answer))
      /\ Calm(c, [c EXCEPT !.event = 0])
  BY <1>1, CalmCalls
<1>4. Calm(conf, conf)  BY DEF Calm
<1> QED  BY <1>2, <1>3, <1>4, CalmTwice DEF c

LEMMA IdNumbers ==
  ASSUME TypeOK
  PROVE  /\ conf.id \in Nat /\ conf.event \in Nat /\ lease.id \in Nat /\ net.id \in Nat
         /\ sess.owner \in Nat /\ lvgl.id \in Nat /\ http.id \in Nat /\ main.id \in Nat
         /\ slot.id \in Nat /\ slot.latest \in Nat /\ ui.id \in Nat /\ ui.latest \in Nat
         /\ \A id \in Id0 : id \in Nat
<1>1. Id0 \subseteq Nat  BY DEF Id0, Ids
<1>2. conf.id \in Id0 /\ conf.event \in Id0 /\ lease.id \in Id0 /\ net.id \in Id0
  BY DEF TypeOK, Confirmations, Leases, Steps
<1>3. sess.owner \in Id0 /\ lvgl.id \in Id0 /\ http.id \in Id0 /\ main.id \in Id0
  BY DEF TypeOK, Sessions, Steps, Requests
<1>4. slot.id \in Id0 /\ slot.latest \in Id0 /\ ui.id \in Id0 /\ ui.latest \in Id0
  BY DEF TypeOK, Slots, Screens
<1> QED  BY <1>1, <1>2, <1>3, <1>4

LEMMA CalmKeeps ==
  ASSUME TypeOK, IdsKnown, Calm(conf, conf')
  PROVE  /\ \A id : Older(id) => Older(id)'
         /\ \A mode, id : Fits(mode, id) => Fits(mode, id)'
         /\ Older(0) /\ Older(conf.event)' /\ (Waits' => Waits /\ conf'.id # 0)
BY IdNumbers DEF IdsKnown, Calm, Older, Fits, Waits

\* Every id that a task takes over is an older one.
LEMMA IdsStay ==
  ASSUME TypeOK, IdsKnown, Calm(conf, conf'), Older(lease'.id),
         Older(net'.id) \/ (~Waits' /\ net'.id <= conf.id),
         Older(sess'.owner), Older(lvgl'.id) \/ (~Waits' /\ lvgl'.id <= conf.id),
         http'.pc \in {"arm", "begin", "install"} => Older(http'.id) /\ ~Waits
  PROVE  IdsKnown'
<1>1. Older(lvgl.id)'  BY CalmKeeps DEF Calm, Older
<1>2. Older(lease.id)' /\ Older(net.id)' /\ Older(sess.owner)' /\ Older(conf.event)'
  BY CalmKeeps DEF Calm, Older
<1>3. http'.pc \in {"arm", "begin", "install"} => Older(http.id)' /\ ~Waits'
  BY CalmKeeps DEF Calm, Older
<1> QED  BY <1>1, <1>2, <1>3, CalmKeeps DEF IdsKnown

\* A step that leaves the way of the commands alone.
LEMMA WayStays ==
  ASSUME TypeOK, AskInv, Calm(conf, conf'), UNCHANGED <<slot, ui, main>>,
         lvgl'.pc = "idle" \/ lvgl' = lvgl \/ ~Waits',
         http.pc = "publish" => http' = http,
         http'.pc = "publish" =>
           http' = http \/ (Fits(http'.mode, http'.id) /\ (Waits => http'.id = conf.id))
  PROVE  CommandsFit' /\ OnItsWay'
<1>1. conf'.id = conf.id /\ (Waits' => Waits)  BY DEF Calm, Waits
<1>2. CommandsFit'  BY <1>1, CalmKeeps DEF AskInv, CommandsFit
<1>3. OnItsWay'  BY <1>1 DEF AskInv, OnItsWay
<1> QED  BY <1>2, <1>3

\* A command is published: it is the question, or an older one.
LEMMA PublishFits ==
  ASSUME TypeOK, AskInv, UNCHANGED <<conf, ui, main>>, NEW mode, NEW id \in Id0,
         Fits(mode, id), slot' = Published(mode, id),
         http'.pc # "publish" \/ http' = http,
         Waits /\ http.pc = "publish" /\ http'.pc # "publish" => id = conf.id,
         lvgl' = lvgl \/ ~Waits
  PROVE  CommandsFit' /\ OnItsWay'
<1>1. CASE ~Accepts(slot.latest, id)
  <2>1. slot' = slot  BY <1>1 DEF Published
  <2>2. CommandsFit'  BY <2>1 DEF AskInv, CommandsFit, Fits, Waits
  <2>3. OnItsWay'
    BY <1>1, <2>1, IdNumbers
       DEF AskInv, IdsKnown, CommandsFit, Fits, OnItsWay, Waits, Accepts
  <2> QED  BY <2>2, <2>3
<1>2. CASE Accepts(slot.latest, id)
  <2>1. /\ slot'.pending /\ slot'.mode = mode /\ slot'.id = id /\ slot'.latest = id
        /\ id >= slot.latest
    BY <1>2 DEF Published, Accepts
  <2>2. CommandsFit'  BY <2>1 DEF AskInv, CommandsFit, Fits, Waits
  <2>3. slot.latest = conf.id => id = conf.id  BY <2>1, IdNumbers DEF Fits
  <2>4. OnItsWay'  BY <2>1, <2>3 DEF AskInv, OnItsWay, Waits
  <2> QED  BY <2>2, <2>4
<1> QED  BY <1>1, <1>2

LEMMA OlderFits == ASSUME NEW id \in Nat, NEW mode, TypeOK, Older(id) PROVE Fits(mode, id)
BY IdNumbers DEF Older, Fits

LEMMA NewKeepsAsk ==
  ASSUME TypeOK, ConsentInv, AskInv, NEW size \in Sizes, PrepareNew(size)
  PROVE  AskInv'
<1> USE DEF TypeOK, Request, screen, system, history
<1> DEFINE c == Expired(conf)
<1>1. c \in Confirmations /\ Calm(conf, c) /\ Tame(conf, c)
  BY ConfirmationCalls, CalmThen, TameCalls
<1>2. UNCHANGED <<lease, slot, ui, sess, net, lvgl, main>> /\ http.pc = "idle"
  BY DEF PrepareNew
<1> HIDE DEF c
<1>3. CASE conf' = c /\ http' = http
  <2>1. /\ Older(lease'.id) /\ Older(net'.id) /\ Older(sess'.owner) /\ Older(lvgl'.id)
        /\ http'.pc = "idle" /\ Calm(conf, conf') /\ IdsKnown
    BY <1>1, <1>2, <1>3 DEF AskInv, IdsKnown
  <2>2. IdsKnown'  BY <2>1, IdsStay
  <2> QED  BY <1>1, <1>2, <1>3, <2>2, WayStays DEF AskInv
<1>4. CASE /\ c.next \in Ids /\ lvgl.pc = "idle" /\ conf' = Created(c, size)
           /\ http' = [http EXCEPT !.pc = "publish", !.mode = "ConfirmPending", !.id = c.next]
  <2>1. conf'.id = c.next /\ conf'.event = c.event /\ conf'.state = "Pending"
    BY <1>1, <1>4 DEF Created, Confirmations
  <2>2. conf'.id = conf.id + 1
    BY <1>1, <2>1 DEF Tame, ConsentInv, ConfirmationStage
  <2>3. http'.pc = "publish" /\ http'.mode = "ConfirmPending" /\ http'.id = conf'.id
    BY <1>4, <2>1 DEF Requests
  <2>4. conf.id \in Nat /\ c.event \in Nat /\ c.event <= conf.id
    BY <1>1, IdNumbers DEF Calm, AskInv, IdsKnown, Older
  <2>5. /\ \A id \in Nat : id <= conf.id => Older(id)'
        /\ \A mode, id : id \in Nat /\ id <= conf.id => Fits(mode, id)'
        /\ Waits' /\ conf'.id # 0
    BY <2>1, <2>2, <2>4 DEF Older, Fits, Waits
  <2>6. /\ lease.id <= conf.id /\ net.id <= conf.id /\ sess.owner <= conf.id
        /\ lvgl.id <= conf.id /\ slot.id <= conf.id /\ slot.id = slot.latest
        /\ ui.latest <= conf.id /\ (main.pc = "apply" => main.id <= conf.id)
    BY DEF AskInv, IdsKnown, CommandsFit, Older, Fits
  <2>7. IdsKnown'  BY <1>2, <2>1, <2>3, <2>4, <2>5, <2>6, IdNumbers DEF IdsKnown
  <2>8. Fits(http.mode, http.id)'  BY <2>2, <2>3, <2>4 DEF Fits
  <2>9. ui'.latest # conf'.id /\ slot'.latest # conf'.id
    BY <1>2, <2>2, <2>4, <2>6, IdNumbers
  <2>10. CommandsFit'  BY <1>2, <2>3, <2>5, <2>6, <2>8, <2>9, IdNumbers DEF CommandsFit
  <2>11. OnItsWay'  BY <1>2, <1>4, <2>3, <2>9 DEF OnItsWay
  <2> QED  BY <2>7, <2>10, <2>11 DEF AskInv
<1> QED  BY <1>3, <1>4 DEF PrepareNew, c

\* A step that calls the confirmation at most, or moves older ids between tasks.
LEMMA CalmStep ==
  ASSUME TypeOK, AskInv, Calm(conf, conf'), UNCHANGED <<slot, ui, main>>,
         Older(lease'.id), Older(sess'.owner),
         Older(net'.id) \/ (~Waits' /\ net'.id <= conf.id),
         lvgl' = lvgl \/ (~Waits' /\ lvgl'.id <= conf.id),
         http.pc = "publish" => http' = http,
         http'.pc = "publish" =>
           http' = http \/ (Fits(http'.mode, http'.id) /\ (Waits => http'.id = conf.id)),
         http'.pc \in {"arm", "begin", "install"} => Older(http'.id) /\ ~Waits
  PROVE  AskInv'
<1>1. IdsKnown /\ Older(lvgl.id)  BY DEF AskInv, IdsKnown
<1>2. Older(lvgl'.id) \/ (~Waits' /\ lvgl'.id <= conf.id)  BY <1>1
<1>3. IdsKnown'  BY <1>1, <1>2, IdsStay
<1>4. CommandsFit' /\ OnItsWay'  BY WayStays
<1> QED  BY <1>3, <1>4 DEF AskInv

LEMMA RequestKeepsAsk ==
  ASSUME TypeOK, AskInv, NEW id \in Ids, NEW size \in Sizes,
         PrepareAgain(id, size) \/ UploadStart(id, size)
  PROVE  AskInv'
<1> USE DEF Request, screen, system, history
<1>1. UNCHANGED <<lease, slot, ui, net, lvgl, main>> /\ sess' = sess /\ http.pc = "idle"
  BY DEF PrepareAgain, UploadStart
<1>2. Older(lease'.id) /\ Older(net'.id) /\ Older(sess'.owner)
  BY <1>1 DEF AskInv, IdsKnown
<1>3. CASE PrepareAgain(id, size)
  <2> DEFINE c == Expired(conf)
  <2>1. conf \in Confirmations /\ http \in Requests  BY DEF TypeOK
  <2>2. Calm(conf, c) /\ c.state \in {conf.state, "Expired"} /\ conf.id \in Nat
    BY <2>1, CalmCalls, IdNumbers
  <2>3. Calm(conf, conf')  BY <1>3, CalmThen DEF PrepareAgain
  <2> HIDE DEF c
  <2>4. CASE http' = http
    BY <1>1, <1>2, <2>3, <2>4, CalmStep
  <2>5. CASE /\ Matches(c, id, size) /\ c.state = "Pending"
             /\ http' = [http EXCEPT !.pc = "publish", !.mode = "ConfirmPending", !.id = id]
    <3>1. http'.pc = "publish" /\ http'.mode = "ConfirmPending" /\ http'.id = id
      BY <2>1, <2>5 DEF Requests
    <3>2. id = conf.id  BY <2>2, <2>5 DEF Matches, Calm
    <3>3. Fits(http'.mode, http'.id)  BY <2>2, <3>1, <3>2 DEF Fits
    <3> QED  BY <1>1, <1>2, <2>3, <3>1, <3>2, <3>3, CalmStep
  <2>6. CASE /\ Matches(c, id, size) /\ c.state = "Allowed"
             /\ http' = [http EXCEPT !.pc = "arm", !.id = id]
    <3>1. http'.pc = "arm" /\ http'.id = id  BY <2>1, <2>6 DEF Requests
    <3>2. id = conf.id  BY <2>2, <2>6 DEF Matches, Calm
    <3>3. ~Waits  BY <2>2, <2>6 DEF Waits
    <3>4. Older(http'.id)  BY <2>2, <3>1, <3>2, <3>3 DEF Older
    <3> QED  BY <1>1, <1>2, <2>3, <3>1, <3>3, <3>4, CalmStep
  <2> QED  BY <1>3, <2>4, <2>5, <2>6 DEF PrepareAgain, c
<1>4. CASE UploadStart(id, size)
  <2>1. conf' = conf /\ Calm(conf, conf')  BY <1>4, CalmThen DEF UploadStart
  <2>2. http'.pc \in {"reject", "consume"}
    BY <1>4 DEF UploadStart, TypeOK, Requests
  <2> QED  BY <1>1, <1>2, <2>1, <2>2, CalmStep
<1> QED  BY <1>3, <1>4

LEMMA ConsumeKeepsAsk == ASSUME TypeOK, AskInv, ConsumeConfirm PROVE AskInv'
<1> USE DEF screen, system
<1>1. UNCHANGED <<lease, slot, ui, sess, net, lvgl, main>> /\ http.pc = "consume"
  BY DEF ConsumeConfirm
<1>2. Older(lease'.id) /\ Older(net'.id) /\ Older(sess'.owner)
  BY <1>1 DEF AskInv, IdsKnown
<1> DEFINE c == Expired(conf)
<1>3. conf \in Confirmations /\ http \in Requests  BY DEF TypeOK
<1>4. Calm(conf, c) /\ c.state \in {conf.state, "Expired"} /\ conf.id \in Nat
  BY <1>3, CalmCalls, IdNumbers
<1>5. Calm(conf, conf')  BY CalmThen DEF ConsumeConfirm
<1> HIDE DEF c
<1>6. CASE Matches(c, http.id, http.size) /\ c.state = "Allowed" /\ To("begin")
  <2>1. http'.pc = "begin" /\ http'.id = http.id  BY <1>3, <1>6 DEF Requests, To
  <2>2. http.id = conf.id  BY <1>4, <1>6 DEF Matches, Calm
  <2>3. ~Waits  BY <1>4, <1>6 DEF Waits
  <2>4. Older(http'.id)  BY <1>4, <2>1, <2>2, <2>3 DEF Older
  <2> QED  BY <1>1, <1>2, <1>5, <2>1, <2>3, <2>4, CalmStep
<1>7. CASE To("reject")
  <2>1. http'.pc = "reject"  BY <1>3, <1>7 DEF Requests, To
  <2> QED  BY <1>1, <1>2, <1>5, <2>1, CalmStep
<1> QED  BY <1>6, <1>7 DEF ConsumeConfirm, c

\* A step of a task that publishes a command, the ids being known.
LEMMA PublishStep ==
  ASSUME TypeOK, AskInv, UNCHANGED <<conf, ui, main, lease>>, sess'.owner = sess.owner,
         NEW mode, NEW id \in Id0, Fits(mode, id), slot' = Published(mode, id),
         Older(net'.id), Older(lvgl'.id), lvgl' = lvgl \/ ~Waits,
         http'.pc \notin {"publish", "arm", "begin", "install"} \/ http' = http,
         Waits /\ http.pc = "publish" /\ http'.pc # "publish" => id = conf.id
  PROVE  AskInv'
<1>1. http'.pc # "publish" \/ http' = http  OBVIOUS
<1>2. CommandsFit' /\ OnItsWay'  BY <1>1, PublishFits
<1>3. Calm(conf, conf')  BY CalmThen
<1>4. IdsKnown /\ Older(lease'.id) /\ Older(sess'.owner)  BY DEF AskInv, IdsKnown
<1>5. http'.pc \in {"arm", "begin", "install"} => Older(http'.id) /\ ~Waits
  BY DEF AskInv, IdsKnown
<1>6. IdsKnown'  BY <1>3, <1>4, <1>5, IdsStay
<1> QED  BY <1>2, <1>6 DEF AskInv

LEMMA OlderIds ==
  ASSUME TypeOK, AskInv
  PROVE  /\ Older(lease.id) /\ Older(net.id) /\ Older(sess.owner) /\ Older(lvgl.id)
         /\ Older(conf.event) /\ Older(0) /\ Calm(conf, conf)
<1>1. Older(0)  BY IdNumbers DEF AskInv, IdsKnown, Older
<1> QED  BY <1>1, CalmThen DEF AskInv, IdsKnown

LEMMA CancelledIsOlder == ASSUME TypeOK, AskInv, NEW id PROVE Older(Cancelled(id).id)
<1>1. Cancelled(id).id \in {lease.id, 0}  BY DEF Cancelled, TypeOK, Leases
<1>2. Older(lease.id) /\ Older(0)  BY OlderIds
<1> QED  BY <1>1, <1>2

LEMMA HttpKeepsAsk ==
  ASSUME TypeOK, AskInv, HttpStep \/ Reject
  PROVE  AskInv'
<1> USE DEF screen, system, history
<1>0. /\ Older(lease.id) /\ Older(net.id) /\ Older(sess.owner) /\ Older(lvgl.id)
      /\ Calm(conf, conf) /\ http \in Requests /\ sess \in Sessions /\ http.id \in Id0
      /\ http.id \in Nat /\ sess.owner \in Id0 /\ sess.owner \in Nat /\ Older(0)
  BY OlderIds, IdNumbers DEF TypeOK, Requests, Sessions
<1>1. CASE ArmPreflight
  <2>1. Older(http.id) /\ ~Waits  BY <1>1 DEF ArmPreflight, AskInv, IdsKnown
  <2>2. UNCHANGED <<conf, slot, ui, sess, net, lvgl, main>> /\ http.pc = "arm"
    BY <1>1 DEF ArmPreflight
  <2>3. lease'.id \in {lease.id, http.id}  BY <1>1 DEF ArmPreflight
  <2>4. /\ http'.pc \in {"publish", "idle"}
        /\ (http'.pc = "publish" => http'.id = http.id)
    <3>1. http' \in {[http EXCEPT !.pc = "publish", !.mode = "Installing"], NoRequest}
      BY <1>1 DEF ArmPreflight
    <3>2. NoRequest.pc = "idle"  BY DEF NoRequest
    <3>3. CASE http' = [http EXCEPT !.pc = "publish", !.mode = "Installing"]
      BY <1>0, <3>3 DEF Requests
    <3> QED  BY <3>1, <3>2, <3>3
  <2>5. http'.pc = "publish" => Fits(http'.mode, http'.id)
    BY <1>0, <2>1, <2>4, OlderFits
  <2>6. Older(lease'.id) /\ Older(net'.id) /\ Older(sess'.owner) /\ Calm(conf, conf')
    BY <1>0, <2>1, <2>2, <2>3
  <2> QED  BY <2>1, <2>2, <2>4, <2>5, <2>6, CalmStep
<1>2. CASE PublishPrepared
  <2>1. UNCHANGED <<conf, ui, main, lease, sess, net, lvgl>> /\ http'.pc = "idle"
    BY <1>2 DEF PublishPrepared, NoRequest
  <2>2. Fits(http.mode, http.id) /\ (Waits => http.id = conf.id)
    BY <1>2 DEF PublishPrepared, AskInv, CommandsFit
  <2>3. slot' = Published(http.mode, http.id) /\ Older(net'.id) /\ Older(lvgl'.id)
    BY <1>0, <1>2, <2>1 DEF PublishPrepared
  <2> QED  BY <1>0, <2>1, <2>2, <2>3, PublishStep
<1>3. CASE ConsumeConfirm  BY <1>3, ConsumeKeepsAsk
<1>4. CASE Replay \/ Reject \/ Respond \/ Cleanup \/ Finish
  <2>1. UNCHANGED <<conf, slot, ui, net, lvgl, main>>
    BY <1>4 DEF Replay, Reject, Respond, Cleanup, Finish
  <2>2. http'.pc \in {"idle", "reject", "cleanup", "finish", "hide"} /\ http.pc # "publish"
    BY <1>0, <1>4 DEF Replay, Reject, Respond, Cleanup, Finish, To, NoRequest, Requests
  <2>3. sess'.owner \in {sess.owner, 0}
    BY <1>0, <1>4 DEF Replay, Reject, Respond, Cleanup, Finish, Sessions
  <2>4. lease' = lease \/ lease' = Cancelled(sess.owner)
    BY <1>4 DEF Replay, Reject, Respond, Cleanup, Finish
  <2>5. Older(lease'.id)  BY <1>0, <2>4, CancelledIsOlder
  <2>6. Older(net'.id) /\ Older(sess'.owner) /\ Calm(conf, conf')  BY <1>0, <2>1, <2>3
  <2> QED  BY <2>1, <2>2, <2>5, <2>6, CalmStep
<1>5. CASE CancelPreflight
  <2>1. UNCHANGED <<conf, slot, ui, net, lvgl, main>> /\ http.pc = "begin"
    BY <1>5 DEF CancelPreflight
  <2>2. http'.pc = "install" /\ http'.id = http.id
    BY <1>0, <1>5 DEF CancelPreflight, To, Requests
  <2>3. Older(http.id) /\ ~Waits  BY <2>1 DEF AskInv, IdsKnown
  <2>4. sess'.owner = http.id /\ lease' = Cancelled(http.id)
    BY <1>0, <1>5 DEF CancelPreflight, Sessions
  <2>5. Older(lease'.id)  BY <2>4, CancelledIsOlder
  <2>6. Older(net'.id) /\ Older(sess'.owner) /\ Calm(conf, conf')  BY <1>0, <2>1, <2>3, <2>4
  <2> QED  BY <2>1, <2>2, <2>3, <2>5, <2>6, CalmStep
<1>6. CASE BeginUpload
  <2>1. UNCHANGED <<conf, ui, main, lease, net, lvgl>> /\ http.pc = "install"
    BY <1>6 DEF BeginUpload
  <2>2. http'.pc = "body" /\ sess'.owner = sess.owner
    BY <1>0, <1>6 DEF BeginUpload, To, Requests, Sessions
  <2>3. Fits("Installing", http.id)  BY <1>0, <2>1, OlderFits DEF AskInv, IdsKnown
  <2>4. slot' = Published("Installing", http.id) /\ Older(net'.id) /\ Older(lvgl'.id)
    BY <1>0, <1>6, <2>1 DEF BeginUpload
  <2> QED  BY <1>0, <2>1, <2>2, <2>3, <2>4, PublishStep
<1>7. CASE HideAfterFailure
  <2>1. UNCHANGED <<conf, ui, main, lease, sess, net, lvgl>> /\ http.pc = "hide"
    BY <1>7 DEF HideAfterFailure
  <2>2. http'.pc = "finish"  BY <1>0, <1>7 DEF HideAfterFailure, To, Requests
  <2>3. Fits("Hidden", sess.owner)  BY <1>0, OlderFits
  <2>4. slot' = Published("Hidden", sess.owner) /\ Older(net'.id) /\ Older(lvgl'.id)
    BY <1>0, <1>7, <2>1 DEF HideAfterFailure
  <2> QED  BY <1>0, <2>1, <2>2, <2>3, <2>4, PublishStep
<1> QED  BY <1>1, <1>2, <1>3, <1>4, <1>5, <1>6, <1>7 DEF HttpStep

LEMMA BodyKeepsAsk ==
  ASSUME TypeOK, AskInv, WriteChunk \/ BodyEnds \/ ForgetResult
  PROVE  AskInv'
<1> USE DEF screen, tasks, history
<1>0. /\ Older(lease.id) /\ Older(net.id) /\ Older(sess.owner) /\ Older(0)
      /\ Calm(conf, conf) /\ http \in Requests /\ sess \in Sessions
  BY OlderIds DEF TypeOK
<1>1. UNCHANGED <<conf, lease, slot, ui, net, lvgl, main>>
  BY DEF WriteChunk, BodyEnds, EndUpload, AbortUpload, Body, ForgetResult
<1>2. http' = http \/ (http'.pc = "respond" /\ http.pc = "body")
  BY <1>0 DEF WriteChunk, BodyEnds, EndUpload, AbortUpload, Body, ForgetResult, To, Requests
<1>3. sess'.owner \in {sess.owner, 0}
  <2>1. /\ [sess EXCEPT !.written = TRUE].owner = sess.owner /\ Failed(sess).owner = sess.owner
        /\ [sess EXCEPT !.active = FALSE, !.success = TRUE].owner = sess.owner
        /\ NoSession.owner = 0
    BY <1>0 DEF Failed, NoSession, Sessions
  <2>2. sess' \in {sess, [sess EXCEPT !.written = TRUE], Failed(sess), NoSession,
                   [sess EXCEPT !.active = FALSE, !.success = TRUE]}
    BY DEF WriteChunk, BodyEnds, EndUpload, AbortUpload, Body, ForgetResult
  <2> QED  BY <2>1, <2>2
<1>4. /\ http'.pc \in {"arm", "begin", "install"} => Older(http'.id) /\ ~Waits
      /\ (http'.pc = "publish" \/ http.pc = "publish") => http' = http
  BY <1>2 DEF AskInv, IdsKnown
<1>5. Older(lease'.id) /\ Older(net'.id) /\ Older(sess'.owner) /\ Calm(conf, conf')
  BY <1>0, <1>1, <1>3
<1> QED  BY <1>1, <1>2, <1>4, <1>5, CalmStep

LEMMA NetKeepsAsk == ASSUME TypeOK, AskInv, NetStep PROVE AskInv'
<1> USE DEF screen, system, history
<1>0. /\ Older(lease.id) /\ Older(net.id) /\ Older(sess.owner) /\ Older(lvgl.id) /\ Older(0)
      /\ Calm(conf, conf) /\ net.id \in Id0 /\ net.id \in Nat /\ Idle.id = 0
      /\ net \in Steps({"idle", "take", "hideLease", "expiry", "hideExpired"})
  BY OlderIds, IdNumbers DEF TypeOK, Steps, Idle
<1>1. CASE PollBegin \/ TakeDuePreflight
  <2>1. UNCHANGED <<conf, slot, ui, sess, http, lvgl, main>>
    BY <1>1 DEF PollBegin, TakeDuePreflight
  <2>2. net'.id \in {net.id, lease.id}
    BY <1>0, <1>1 DEF PollBegin, TakeDuePreflight, Steps
  <2>3. lease' = lease \/ lease' = Cancelled(lease.id)
    BY <1>1 DEF PollBegin, TakeDuePreflight
  <2>4. Older(lease'.id)  BY <1>0, <2>3, CancelledIsOlder
  <2>5. Older(net'.id) /\ Older(sess'.owner) /\ Calm(conf, conf')  BY <1>0, <2>1, <2>2
  <2>6. /\ http'.pc \in {"arm", "begin", "install"} => Older(http'.id) /\ ~Waits
        /\ http' = http
    BY <2>1 DEF AskInv, IdsKnown
  <2> QED  BY <2>1, <2>4, <2>5, <2>6, CalmStep
<1>2. CASE PollExpired
  <2> DEFINE c == Expired(conf)
  <2>1. conf \in Confirmations /\ c \in Confirmations  BY ConfirmationCalls DEF TypeOK
  <2>2. Calm(conf, c) /\ c.state \in {conf.state, "Expired"}  BY <2>1, CalmCalls
  <2>3. Calm(conf, conf')  BY <1>2, CalmThen DEF PollExpired
  <2> HIDE DEF c
  <2>4. UNCHANGED <<lease, slot, ui, sess, http, lvgl, main>>
    BY <1>2 DEF PollExpired
  <2>5. conf'.state = c.state  BY <1>2, <2>1 DEF PollExpired, Confirmations, c
  <2>6. net'.id \in {0, c.event}  BY <1>0, <1>2 DEF PollExpired, Steps, c
  <2>7. Older(c.event) \/ (~Waits' /\ c.event <= conf.id)
    BY <1>0, <2>2, <2>5, OlderIds, IdNumbers DEF Calm, Waits
  <2>8. Older(net'.id) \/ (~Waits' /\ net'.id <= conf.id)  BY <1>0, <2>6, <2>7
  <2>9. /\ http'.pc \in {"arm", "begin", "install"} => Older(http'.id) /\ ~Waits
        /\ http' = http /\ Older(lease'.id) /\ Older(sess'.owner)
    BY <1>0, <2>4 DEF AskInv, IdsKnown
  <2> QED  BY <2>3, <2>4, <2>8, <2>9, CalmStep
<1>3. CASE HidePolled
  <2>1. UNCHANGED <<conf, ui, main, lease, sess, http, lvgl>>
    BY <1>3 DEF HidePolled
  <2>2. net'.id = 0  BY <1>3 DEF HidePolled, Idle
  <2>3. Fits("Hidden", net.id)  BY <1>0, OlderFits
  <2>4. slot' = Published("Hidden", net.id) /\ Older(net'.id) /\ Older(lvgl'.id)
    BY <1>0, <1>3, <2>1, <2>2 DEF HidePolled
  <2> QED  BY <1>0, <2>1, <2>3, <2>4, PublishStep
<1> QED  BY <1>1, <1>2, <1>3 DEF NetStep

\* After an answer of the user nothing waits, so his screen cannot hide a question.
LEMMA LvglKeepsAsk ==
  ASSUME TypeOK, AskInv, LvglStep \/ \E answer \in {"Allowed", "Denied"} : Clicked(answer)
  PROVE  AskInv'
<1> USE DEF screen, system, history
<1>0. /\ Older(lease.id) /\ Older(net.id) /\ Older(sess.owner) /\ Older(lvgl.id) /\ Older(0)
      /\ Calm(conf, conf) /\ lvgl.id \in Id0 /\ lvgl.id \in Nat /\ Idle.id = 0
      /\ lvgl \in Steps({"idle", "publish", "show"})
  BY OlderIds, IdNumbers DEF TypeOK, Steps, Idle
<1>1. ASSUME NEW answer \in {"Allowed", "Denied"}, Clicked(answer) PROVE AskInv'
  <2> DEFINE c == Expired(conf)
  <2>1. conf \in Confirmations /\ c \in Confirmations  BY ConfirmationCalls DEF TypeOK
  <2>2. Calm(conf, c) /\ conf.id \in Nat  BY <2>1, CalmCalls, IdNumbers
  <2>3. Calm(conf, conf')  BY <1>1, CalmThen DEF Clicked
  <2> HIDE DEF c
  <2>4. UNCHANGED <<lease, slot, ui, sess, http, net, main>>  BY <1>1 DEF Clicked
  <2>5. /\ http'.pc \in {"arm", "begin", "install"} => Older(http'.id) /\ ~Waits
        /\ http' = http /\ Older(lease'.id) /\ Older(sess'.owner) /\ Older(net'.id)
    BY <1>0, <2>4 DEF AskInv, IdsKnown
  <2>6. CASE Decidable(c, ui.id)
    <3>1. lvgl'.id = ui.id /\ ui.id = conf.id
      BY <1>1, <2>2, <2>6 DEF Clicked, Decidable, Calm, c
    <3>2. conf'.state \in {"Allowed", "Denied"}
      BY <1>1, <2>1, <2>6 DEF Clicked, Decided, Terminal, Confirmations, c
    <3>3. ~Waits' /\ lvgl'.id <= conf.id  BY <2>2, <3>1, <3>2 DEF Waits
    <3> QED  BY <2>3, <2>4, <2>5, <3>3, CalmStep
  <2>7. CASE ~Decidable(c, ui.id)
    <3>1. lvgl' = lvgl  BY <1>1, <2>7 DEF Clicked, c
    <3> QED  BY <2>3, <2>4, <2>5, <3>1, CalmStep
  <2> QED  BY <2>6, <2>7
<1>2. CASE PublishAnswer
  <2>1. UNCHANGED <<conf, ui, main, lease, sess, http, net>>
    BY <1>2 DEF PublishAnswer
  <2>2. ~Waits  BY <1>2 DEF PublishAnswer, AskInv, OnItsWay
  <2>3. lvgl'.id = lvgl.id  BY <1>0, <1>2 DEF PublishAnswer, Steps
  <2>4. Fits(lvgl.mode, lvgl.id)  BY <1>0, OlderFits
  <2>5. slot' = Published(lvgl.mode, lvgl.id) /\ Older(net'.id) /\ Older(lvgl'.id)
    BY <1>0, <1>2, <2>1, <2>3 DEF PublishAnswer
  <2> QED  BY <1>0, <2>1, <2>2, <2>4, <2>5, PublishStep
<1>3. CASE ShowAnswer
  <2>1. UNCHANGED <<conf, slot, main, lease, sess, http, net>>
    BY <1>3 DEF ShowAnswer
  <2>2. ~Waits  BY <1>3 DEF ShowAnswer, AskInv, OnItsWay
  <2>3. lvgl' = Idle /\ ui'.latest = ui.latest
    BY <1>3 DEF ShowAnswer, TypeOK, Screens
  <2>4. Older(lvgl'.id) /\ Older(lease'.id) /\ Older(net'.id) /\ Older(sess'.owner)
        /\ Calm(conf, conf')
    BY <1>0, <2>1, <2>3
  <2>5. http'.pc \in {"arm", "begin", "install"} => Older(http'.id) /\ ~Waits
    BY <2>1 DEF AskInv, IdsKnown
  <2>6. IdsKnown'  BY <2>4, <2>5, IdsStay DEF AskInv
  <2>7. CommandsFit'  BY <2>1, <2>2, <2>3 DEF AskInv, CommandsFit, Fits, Waits
  <2>8. OnItsWay'  BY <2>1, <2>2 DEF OnItsWay, Waits
  <2> QED  BY <2>6, <2>7, <2>8 DEF AskInv
<1> QED  BY <1>1, <1>2, <1>3 DEF LvglStep

\* What loop() does to the screen leaves everything but slot, ui and main alone.
LEMMA ScreenStep ==
  ASSUME TypeOK, AskInv, UNCHANGED <<conf, lease, sess, http, net, lvgl>>
  PROVE  IdsKnown'
BY DEF AskInv, IdsKnown, Older, Waits

LEMMA ShowKeepsAsk ==
  ASSUME TypeOK, ScreenInv, AskInv, TakeCommand \/ ApplyCommand \/ AutoClose \/ CloseDeadline
  PROVE  AskInv'
<1> USE DEF system, history, tasks
<1>0. /\ conf.id \in Nat /\ ui.id \in Nat /\ ui.latest \in Nat /\ main.id \in Nat
      /\ ui \in Screens
  BY IdNumbers DEF TypeOK
<1>1. UNCHANGED <<conf, lease, sess, http, net, lvgl>>
  BY DEF TakeCommand, ApplyCommand, AutoClose, CloseDeadline
<1>2. IdsKnown' /\ Waits' = Waits  BY <1>1, ScreenStep DEF Waits
<1>3. CASE TakeCommand
  <2>1. /\ slot.pending /\ slot'.mode = slot.mode /\ slot'.id = slot.id
        /\ slot'.latest = slot.latest
    BY <1>3 DEF TakeCommand, TypeOK, Slots
  <2>2. main'.pc = "apply" /\ main'.id = slot.id /\ main'.mode = slot.mode /\ ui' = ui
    BY <1>3 DEF TakeCommand
  <2>3. CommandsFit'  BY <1>1, <2>1, <2>2 DEF AskInv, CommandsFit, Fits, Waits
  <2>4. OnItsWay'  BY <1>1, <2>1, <2>2 DEF AskInv, CommandsFit, OnItsWay, Waits
  <2> QED  BY <1>2, <2>3, <2>4 DEF AskInv
<1>4. CASE ApplyCommand
  <2>1. main.pc = "apply" /\ main'.pc = "idle" /\ slot' = slot /\ ui' = Shown(main.mode, main.id)
    BY <1>4 DEF ApplyCommand, Idle
  <2>2. /\ Fits(main.mode, main.id) /\ Fits(ui.mode, ui.latest) /\ (Waits => conf.id # 0)
        /\ (Waits /\ ui.latest = conf.id => ui.id = conf.id /\ ui.close = "no")
    BY <2>1 DEF AskInv, CommandsFit, IdsKnown
  <2>3. CASE ~Accepts(ui.latest, main.id)
    <3>1. ui' = ui  BY <2>1, <2>3 DEF Shown
    <3>2. CommandsFit'  BY <1>1, <2>1, <3>1 DEF AskInv, CommandsFit, Fits, Waits
    <3>3. ~(Waits /\ main.id = conf.id)  BY <1>0, <2>2, <2>3 DEF Accepts, Fits
    <3>4. OnItsWay'  BY <1>1, <2>1, <3>1, <3>3 DEF AskInv, OnItsWay, Waits
    <3> QED  BY <1>2, <3>2, <3>4 DEF AskInv
  <2>4. CASE Accepts(ui.latest, main.id)
    <3>1. /\ ui'.mode = main.mode /\ ui'.latest = main.id /\ main.id >= ui.latest
          /\ (main.mode = "ConfirmPending" => ui'.id = main.id /\ ui'.close = "no")
      BY <2>1, <2>4 DEF Shown, Accepts
    <3>2. Fits(ui.mode, ui.latest)'  BY <1>1, <2>2, <3>1 DEF Fits, Waits
    <3>3. Waits' /\ ui'.latest = conf'.id => ui'.id = conf'.id /\ ui'.close = "no"
      BY <1>1, <1>2, <2>2, <3>1 DEF Fits
    <3>4. CommandsFit'
      BY <1>1, <2>1, <3>2, <3>3 DEF AskInv, CommandsFit, Fits, Waits
    <3>5. main.id = conf.id \/ ui.latest = conf.id => ui'.latest = conf.id
      BY <1>0, <2>2, <3>1 DEF Fits
    <3>6. OnItsWay'  BY <1>1, <2>1, <3>5 DEF AskInv, OnItsWay, Waits
    <3> QED  BY <1>2, <3>4, <3>6 DEF AskInv
  <2> QED  BY <2>3, <2>4
<1>5. CASE AutoClose \/ CloseDeadline
  <2>1. slot' = slot /\ main' = main  BY <1>5 DEF AutoClose, CloseDeadline
  <2>2. ui.close # "no"  BY <1>5 DEF AutoClose, CloseDeadline
  <2>3. ~(Waits /\ ui.latest = conf.id)  BY <2>2 DEF AskInv, CommandsFit
  <2>4. ui'.latest = ui.latest
    BY <1>0, <1>5 DEF AutoClose, CloseDeadline, Shown, Accepts, ScreenInv, Screens
  <2>5. CommandsFit'
    BY <1>1, <2>1, <2>3, <2>4 DEF AskInv, CommandsFit, Fits, Waits
  <2>6. OnItsWay'  BY <1>1, <2>1, <2>4 DEF AskInv, OnItsWay, Waits
  <2> QED  BY <1>2, <2>5, <2>6 DEF AskInv
<1> QED  BY <1>3, <1>4, <1>5

LEMMA OthersKeepAsk ==
  ASSUME TypeOK, AskInv,
         \/ OtaWindow \/ ConsumeRestart \/ TryBeginRestart
         \/ ConfirmDeadline \/ LeaseDeadline \/ RestartDeadline \/ BootValid \/ Off
  PROVE  AskInv'
<1> USE DEF screen, system, tasks, history, vars
<1>0. /\ Older(lease.id) /\ Older(net.id) /\ Older(sess.owner) /\ lease \in Leases
      /\ Calm(conf, conf) /\ Calm(conf, [conf EXCEPT !.due = TRUE])
  BY OlderIds, CalmThen DEF TypeOK
<1>1. UNCHANGED <<slot, ui, sess, http, net, lvgl, main>>
  BY DEF OtaWindow, ConsumeRestart, TryBeginRestart, ConfirmDeadline, LeaseDeadline,
         RestartDeadline, BootValid, Off
<1>2. conf' = conf \/ conf' = [conf EXCEPT !.due = TRUE]
  BY DEF OtaWindow, ConsumeRestart, TryBeginRestart, ConfirmDeadline, LeaseDeadline,
         RestartDeadline, BootValid, Off
<1>3. lease'.id = lease.id
  BY <1>0 DEF OtaWindow, ConsumeRestart, TryBeginRestart, ConfirmDeadline, LeaseDeadline,
              RestartDeadline, BootValid, Off, Leases
<1>4. /\ http'.pc \in {"arm", "begin", "install"} => Older(http'.id) /\ ~Waits
      /\ Calm(conf, conf') /\ Older(lease'.id) /\ Older(net'.id) /\ Older(sess'.owner)
  BY <1>0, <1>1, <1>2, <1>3 DEF AskInv, IdsKnown
<1> QED  BY <1>1, <1>4, CalmStep

Inv == TypeOK /\ UploadInv /\ ConsentInv /\ ScreenInv /\ AskInv

LEMMA InitInv == Init => Inv
<1> SUFFICES ASSUME Init PROVE Inv  OBVIOUS
<1>1. TypeOK  BY InitTypes
<1>2. UploadInv
  BY DEF Init, UploadInv, UploadStage, InstalledRestarts, NoRequest, NoSession, Preparing,
         Admitted
<1>3. ConsentInv
  BY DEF Init, ConsentInv, ConfirmationStage, NoRequest, NoSession, Ids
<1>4. ScreenInv  BY DEF Init, ScreenInv
<1>5. AskInv
  BY DEF Init, AskInv, IdsKnown, CommandsFit, OnItsWay, Waits, Older, Fits, NoRequest,
         NoSession, Idle
<1> QED  BY <1>1, <1>2, <1>3, <1>4, <1>5 DEF Inv

LEMMA NextTypes == ASSUME TypeOK, [Next]_vars PROVE TypeOK'
<1>1. CASE UNCHANGED vars
  <2>1. /\ conf' = conf /\ lease' = lease /\ slot' = slot /\ ui' = ui
        /\ paused' = paused /\ gate' = gate /\ restart' = restart /\ sess' = sess
    BY <1>1 DEF vars, screen, system
  <2>2. /\ verifying' = verifying /\ http' = http /\ net' = net /\ lvgl' = lvgl
        /\ main' = main /\ requests' = requests /\ granted' = granted /\ uses' = uses
    BY <1>1 DEF vars, system, tasks, history
    <2> QED  BY <2>1, <2>2 DEF TypeOK
<1>2. ASSUME NEW size \in Sizes, PrepareNew(size) PROVE TypeOK'
  BY <1>2, PrepareNewTypes
<1>3. ASSUME NEW id \in Ids, NEW size \in Sizes,
             PrepareAgain(id, size) \/ UploadStart(id, size)
      PROVE  TypeOK'
  BY <1>3, RequestTypes
<1>4. CASE HttpStep \/ Reject  BY <1>4, HttpTypes
<1>5. CASE WriteChunk \/ BodyEnds \/ ForgetResult  BY <1>5, BodyTypes
<1>6. CASE NetStep  BY <1>6, NetTypes
<1>7. CASE LvglStep \/ \E answer \in {"Allowed", "Denied"} : Clicked(answer)
  BY <1>7, LvglTypes
<1>8. CASE MainStep  BY <1>8, MainTypes
<1>9. CASE Time \/ BootValid \/ Off  BY <1>9, TimeTypes
<1> QED  BY <1>1, <1>2, <1>3, <1>4, <1>5, <1>6, <1>7, <1>8, <1>9 DEF Next

LEMMA NextAsks ==
  ASSUME TypeOK, ConsentInv, ScreenInv, AskInv, [Next]_vars
  PROVE  AskInv'
<1>1. CASE UNCHANGED vars
  <2>1. UNCHANGED <<conf, lease, slot, ui, sess, http, net, lvgl, main>>
    BY <1>1 DEF vars, screen, system, tasks
  <2> QED
    BY <2>1 DEF AskInv, IdsKnown, CommandsFit, OnItsWay, Waits, Older, Fits
<1>2. ASSUME NEW size \in Sizes, PrepareNew(size) PROVE AskInv'
  BY <1>2, NewKeepsAsk
<1>3. ASSUME NEW id \in Ids, NEW size \in Sizes,
             PrepareAgain(id, size) \/ UploadStart(id, size)
      PROVE  AskInv'
  BY <1>3, RequestKeepsAsk
<1>4. CASE HttpStep \/ Reject  BY <1>4, HttpKeepsAsk
<1>5. CASE WriteChunk \/ BodyEnds \/ ForgetResult  BY <1>5, BodyKeepsAsk
<1>6. CASE NetStep  BY <1>6, NetKeepsAsk
<1>7. CASE LvglStep \/ \E answer \in {"Allowed", "Denied"} : Clicked(answer)
  BY <1>7, LvglKeepsAsk
<1>8. CASE MainStep \/ Time \/ BootValid \/ Off
  BY <1>8, ShowKeepsAsk, OthersKeepAsk DEF MainStep, Time
<1> QED  BY <1>1, <1>2, <1>3, <1>4, <1>5, <1>6, <1>7, <1>8 DEF Next

LEMMA NextKeeps == ASSUME Inv, [Next]_vars PROVE Inv'
<1> USE DEF Inv
<1>1. TypeOK'  BY NextTypes
<1>2. ScreenInv' /\ AskInv'  BY ScreenForward, NextAsks
<1>3. UploadInv' /\ ConsentInv'
  <2>1. CASE UNCHANGED vars
    <3>1. /\ conf' = conf /\ uses' = uses /\ granted' = granted /\ sess' = sess
          /\ gate' = gate /\ http' = http /\ restart' = restart
      BY <2>1 DEF vars, system, tasks, history
    <3> QED  BY <3>1, UploadSame, ConsentSame
  <2>2. ASSUME NEW size \in Sizes, PrepareNew(size) PROVE UploadInv' /\ ConsentInv'
    <3>1. CASE Ids = {}
      <4>1. http'.pc = http.pc /\ UNCHANGED <<sess, gate, restart, uses, granted, http>>
        BY <2>2, <3>1 DEF PrepareNew, Request, system, history
      <4>2. Tame(conf, conf')
        BY <2>2, <3>1, TameCalls DEF PrepareNew, TypeOK
      <4> QED  BY <4>1, <4>2, UploadSame, ConsentQuiet
    <3>2. ASSUME NEW id \in Ids PROVE UploadInv' /\ ConsentInv'
      BY <2>2, <3>2, RequestKeepsUpload, RequestKeepsConsent
    <3> QED  BY <3>1, <3>2
  <2>3. ASSUME NEW id \in Ids, NEW size \in Sizes,
               PrepareAgain(id, size) \/ UploadStart(id, size)
        PROVE  UploadInv' /\ ConsentInv'
    BY <2>3, RequestKeepsUpload, RequestKeepsConsent
  <2>4. CASE HttpStep \/ Reject  BY <2>4, HttpKeepsUpload, HttpKeepsConsent
  <2>5. CASE WriteChunk \/ BodyEnds \/ ForgetResult
    BY <2>5, BodyKeepsUpload, BodyKeepsConsent
  <2>6. ASSUME NEW answer \in {"Allowed", "Denied"}, Clicked(answer)
        PROVE  UploadInv' /\ ConsentInv'
    BY <2>6, OthersKeepUpload, ClickKeepsConsent
  <2>7. CASE NetStep \/ LvglStep \/ MainStep \/ Time \/ BootValid \/ Off
    BY <2>7, OthersKeepUpload, OthersKeepConsent
  <2> QED  BY <2>1, <2>2, <2>3, <2>4, <2>5, <2>6, <2>7 DEF Next
<1> QED  BY <1>1, <1>2, <1>3

\* Every reachable state satisfies the five parts, each needed by another: the
\* consent of a session rests on the stage of its upload, the question on the
\* screen on the lineage of the screen and on the confirmations given out.
THEOREM Invariance == Spec => []Inv
BY InitInv, NextKeeps, PTL DEF Spec

\* The types, for any sizes and any number of confirmations and requests.
THEOREM UpdateTypes == Spec => []TypeOK
<1>1. Inv => TypeOK  BY DEF Inv
<1> QED  BY <1>1, Invariance, PTL

\* An image is written only for a confirmation the user allowed for that size,
\* and one confirmation starts one upload.
THEOREM ConsentIsUsedOnce == Spec => []OneUploadPerConsent
<1>1. Inv => OneUploadPerConsent
  BY DEF Inv, ConsentInv, ConfirmationStage, Consented, OneUploadPerConsent
<1> QED  BY <1>1, Invariance, PTL

\* Between requests the gate is open and the session neither busy nor owned.
THEOREM UploadIsCleanedUp == Spec => []UploadLeavesNothing
<1>1. Inv => UploadLeavesNothing
  BY DEF Inv, UploadInv, UploadStage, UploadLeavesNothing, Preparing
<1> QED  BY <1>1, Invariance, PTL

\* The restart after an installation is on its way until the device goes down.
THEOREM InstallationRestarts == Spec => []InstalledRestarts
<1>1. Inv => InstalledRestarts  BY DEF Inv, UploadInv
<1> QED  BY <1>1, Invariance, PTL

\* The user gets to see every request that waits for him, whatever leases,
\* expiries and automatic closes of older confirmations are still under way.
THEOREM EveryRequestIsShown == Spec => []PendingIsShown
<1>1. Inv => PendingIsShown
  BY DEF Inv, AskInv, IdsKnown, CommandsFit, OnItsWay, Waits, Fits, PendingIsShown
<1> QED  BY <1>1, Invariance, PTL

\* No command takes the screen back to an older confirmation.
THEOREM ScreenNeverGoesBack == Spec => ScreenMovesForward
<1>1. Inv /\ [Next]_vars => [Forward]_vars
  BY ScreenForward DEF Inv
<1>2. Spec => [][Forward]_vars  BY <1>1, Invariance, PTL DEF Spec
<1> QED  BY <1>2 DEF ScreenMovesForward, Forward
=============================================================================
