---------------------------- MODULE WakePowerGuard ----------------------------
(***************************************************************************)
(* src/src/core/WakePowerGuard.cpp and the code of BacklightManager and    *)
(* UiController that drives it.  Before the backlight is switched on, the  *)
(* owner closes admission to background work (PreQuiet), waits until every *)
(* admitted activity drained and a quiet interval passed, switches         *)
(* (Switching), lets the rail settle (Settle), renders once (RenderWait)   *)
(* and reopens (Idle).  The guard is lock-free: each action below is one   *)
(* access to its shared atomics, or one access with the owner-private      *)
(* stores around it.                                                       *)
(*                                                                         *)
(* Tasks run background work under an Activity lease.  One of them, Lvgl,  *)
(* does so under the LVGL mutex, and its callbacks may act as the owner;   *)
(* the main task acts as the owner in its poll, under the same mutex.      *)
(* Times are millis(): a counter modulo Wrap that every task samples       *)
(* before it uses the value.  Queries (phase, backgroundPaused) are the    *)
(* first half of an admission and are not modelled a second time.          *)
(***************************************************************************)
EXTENDS Integers, FiniteSets

CONSTANTS Tasks,      \* tasks that hold activities
          Lvgl,       \* the one that runs the LVGL handler
          Wrap,       \* uint32_t time stamps: modulo Wrap
          Failsafe,   \* kPreQuietFailsafeMs
          MinQuiet,   \* BACKLIGHT_WAKE_PRE_QUIET_MIN_MS
          SettleTime  \* BACKLIGHT_WAKE_SETTLE_MS

ASSUME TasksAssumption == IsFiniteSet(Tasks) /\ Lvgl \in Tasks
ASSUME TimeAssumption ==
  /\ Wrap \in Nat /\ Failsafe \in Nat /\ MinQuiet \in Nat /\ SettleTime \in Nat
  /\ 0 < MinQuiet /\ MinQuiet < Failsafe /\ Failsafe < Wrap /\ SettleTime < Wrap

Phases == {"Idle", "PreQuiet", "Switching", "Settle", "RenderWait", "FailClosed"}
Stamps == 0 .. Wrap - 1

VARIABLES
  phase, started, quiet, settleUntil, draining, ops,  \* the atomics of the guard
  clock,      \* millis()
  pc, now,    \* Tasks -> step of tryAcquireActivity, sampled time
  mutex,      \* the LVGL mutex: "free", "ui" (main task) or "lvgl"
  op, opNow,  \* step of the owner's operation under the mutex, its sampled time
  retry,      \* the request is processGuardedWake's own, not a new wake
  wake,       \* guarded_wake_{pending,settle_pending,render_pending}_ or "none"
  on,         \* backlight_on_
  armed,      \* guarded_wake_render_armed_
  rendered,   \* the LVGL handler ran since the baseline was taken
  quiesce,    \* quiesceLvglAndAbortBacklightWake(): how far it got
  calm        \* history: no activity was admitted since `quiet` was stamped

guardVars == <<phase, started, quiet, settleUntil, draining, ops>>
taskVars  == <<pc, now>>
ownerVars == <<mutex, op, opNow, retry, wake, on, armed, rendered>>
vars == <<guardVars, clock, taskVars, ownerVars, quiesce, calm>>

Since(t, stamp) == (t - stamp) % Wrap

NeverDue(t, deadline) == TRUE
\* deadlinePending(): int32_t(now - deadline) < 0
DeadlinePending(t, deadline) == Since(t, deadline) >= Wrap \div 2

Holders == {t \in Tasks : pc[t] = "held"}

Init ==
  /\ phase = "Idle" /\ started = 0 /\ quiet = 0 /\ settleUntil = 0
  /\ draining = FALSE /\ ops = 0 /\ clock = 0
  /\ pc = [t \in Tasks |-> "idle"] /\ now = [t \in Tasks |-> 0]
  /\ mutex = "free" /\ op = "none" /\ opNow = 0 /\ retry = FALSE
  /\ wake = "none" /\ on = FALSE /\ armed = FALSE /\ rendered = FALSE
  /\ quiesce = "no"
  /\ calm = TRUE

Millis(c) == (c + 1) % Wrap

Tick ==
  /\ clock' = Millis(clock)
  /\ UNCHANGED <<guardVars, taskVars, ownerVars, quiesce, calm>>

-----------------------------------------------------------------------------
(* tryAcquireActivity() of a background task.                              *)

NeverExpires(t) == FALSE
Expired(t) == Since(t, started) >= Failsafe

\* The task samples millis(); the LVGL task first takes the mutex.
Sample(t) ==
  /\ pc[t] = "idle"
  /\ t = Lvgl => mutex = "free" /\ quiesce = "no"
  /\ mutex' = IF t = Lvgl THEN "lvgl" ELSE mutex
  /\ now' = [now EXCEPT ![t] = clock]
  /\ pc' = [pc EXCEPT ![t] = "load"]
  /\ UNCHANGED <<guardVars, clock, op, opNow, retry, wake, on, armed, rendered,
                 quiesce, calm>>

\* refresh(): loads the phase ...
LoadPhase(t) ==
  /\ pc[t] = "load"
  /\ pc' = [pc EXCEPT ![t] = IF phase = "PreQuiet" THEN "started" ELSE "admit"]
  /\ now' = [now EXCEPT ![t] = IF phase = "PreQuiet" THEN @ ELSE 0]
  /\ UNCHANGED <<guardVars, clock, ownerVars, quiesce, calm>>

\* ... then the stamp it compares the sampled time with ...
LoadStarted(t) ==
  /\ pc[t] = "started"
  /\ pc' = [pc EXCEPT ![t] = IF Expired(now[t]) THEN "expire" ELSE "admit"]
  /\ now' = [now EXCEPT ![t] = 0]
  /\ UNCHANGED <<guardVars, clock, ownerVars, quiesce, calm>>

\* ... and reopens admission if the phase is still PreQuiet.
Expire(t) ==
  /\ pc[t] = "expire"
  /\ phase' = IF phase = "PreQuiet" THEN "Idle" ELSE phase
  /\ pc' = [pc EXCEPT ![t] = "admit"]
  /\ UNCHANGED <<started, quiet, settleUntil, draining, ops, clock, now, ownerVars,
                 quiesce, calm>>

\* Where a refused task goes; the LVGL task may still render in RenderWait.
Refused(t) == IF t = Lvgl /\ phase = "RenderWait" THEN "render" ELSE "idle"

MutexAfter(t, next) == IF t = Lvgl /\ next = "idle" THEN "free" ELSE mutex

LoadIdle(t) ==
  LET next == IF phase = "Idle" THEN "add" ELSE Refused(t) IN
  /\ pc[t] = "admit"
  /\ pc' = [pc EXCEPT ![t] = next]
  /\ mutex' = MutexAfter(t, next)
  /\ UNCHANGED <<guardVars, clock, now, op, opNow, retry, wake, on, armed, rendered,
                 quiesce, calm>>

FetchAdd(t) ==
  /\ pc[t] = "add"
  /\ ops' = ops + 1
  /\ pc' = [pc EXCEPT ![t] = "recheck"]
  /\ UNCHANGED <<phase, started, quiet, settleUntil, draining, clock, now, ownerVars,
                 quiesce, calm>>

\* The provisional increment counts only if the phase is still Idle.
NotRechecked == TRUE
StillIdle == phase = "Idle"

Recheck(t) ==
  /\ pc[t] = "recheck"
  /\ pc' = [pc EXCEPT ![t] = IF StillIdle THEN "held" ELSE "undo"]
  /\ calm' = (calm /\ ~StillIdle)
  /\ UNCHANGED <<guardVars, clock, now, ownerVars, quiesce>>

\* releaseActivity()
Released(n) == n - 1

Undo(t) ==
  /\ pc[t] = "undo"
  /\ ops' = Released(ops)
  /\ pc' = [pc EXCEPT ![t] = Refused(t)]
  /\ mutex' = MutexAfter(t, Refused(t))
  /\ UNCHANGED <<phase, started, quiet, settleUntil, draining, clock, now, op, opNow,
                 retry, wake, on, armed, rendered, quiesce, calm>>

\* The work is done: the lease is returned, the LVGL task unlocks.
Release(t) ==
  /\ pc[t] \in {"held", "render"}
  /\ t = Lvgl => op = "none"
  /\ ops' = IF pc[t] = "held" THEN Released(ops) ELSE ops
  /\ pc' = [pc EXCEPT ![t] = "idle"]
  /\ mutex' = MutexAfter(t, "idle")
  /\ rendered' = (rendered \/ t = Lvgl)
  /\ UNCHANGED <<phase, started, quiet, settleUntil, draining, clock, now, op, opNow,
                 retry, wake, on, armed, quiesce, calm>>

-----------------------------------------------------------------------------
(* The owner: whoever holds the LVGL mutex.                                *)

\* The operation ends; the main task unlocks.
EndOp == /\ op' = "none" /\ opNow' = 0 /\ retry' = FALSE
         /\ mutex' = IF mutex = "ui" THEN "free" ELSE mutex

\* The owner's own refresh(): it alone writes `started`, so one step.
Refreshed == IF phase = "PreQuiet" /\ Expired(opNow) THEN "Idle" ELSE phase

\* The main task starts a poll or a command.
UiLock ==
  /\ mutex = "free"
  /\ quiesce = "no"
  /\ mutex' = "ui" /\ op' = "poll" /\ opNow' = clock
  /\ UNCHANGED <<guardVars, clock, taskVars, retry, wake, on, armed, rendered,
                 quiesce, calm>>

\* A command may be given in a poll, or by a callback of a running handler.
MayCommand == \/ op = "poll"
              \/ /\ op = "none" /\ mutex = "lvgl" /\ pc[Lvgl] = "held"
                 /\ quiesce \in {"no", "latched"}

\* requestGuardedWake(): the display is dark and no wake is under way.
RequestWake ==
  /\ MayCommand
  /\ ~on /\ wake = "none"
  /\ wake' = "pending"
  /\ op' = "request" /\ retry' = FALSE /\ opNow' = clock
  /\ UNCHANGED <<guardVars, clock, taskVars, mutex, on, armed, rendered, quiesce,
                 calm>>

\* request(): refresh; an open guard is stamped before it is closed.
Stamp ==
  /\ op = "request"
  /\ Refreshed = "Idle"
  /\ phase' = "Idle" /\ started' = opNow /\ quiet' = opNow
  /\ op' = "close"
  /\ calm' = (Holders = {})
  /\ UNCHANGED <<settleUntil, draining, ops, clock, taskVars, mutex, opNow, retry, wake,
                 on, armed, rendered, quiesce>>

\* A new wake that finds the guard neither open nor its own is dropped, a
\* rearm is tried again by the next poll.
Refuse ==
  /\ \/ op = "request" /\ Refreshed # "Idle"
     \/ op = "close" /\ phase # "Idle"
  /\ wake' = IF retry \/ Refreshed = "PreQuiet" THEN wake ELSE "none"
  /\ EndOp
  /\ UNCHANGED <<guardVars, clock, taskVars, on, armed, rendered, quiesce, calm>>

\* Closing always starts a fresh quiet interval: what was admitted may drain
\* before the owner looks.
BaselineFromRequest == FALSE
DrainAfterClose == TRUE

\* The CAS of request() wins.
Close ==
  /\ op = "close"
  /\ phase = "Idle"
  /\ phase' = "PreQuiet" /\ draining' = DrainAfterClose /\ settleUntil' = 0
  /\ IF retry THEN op' = "evaluate" /\ UNCHANGED <<mutex, opNow, retry>>
              ELSE EndOp
  /\ UNCHANGED <<started, quiet, ops, clock, taskVars, wake, on, armed, rendered,
                 quiesce, calm>>

\* processGuardedWake(): a guard found open is closed again first.
Process ==
  /\ op = "poll"
  /\ wake = "pending"
  /\ phase' = Refreshed
  /\ op' = IF Refreshed = "Idle" THEN "request" ELSE "evaluate"
  /\ retry' = (Refreshed = "Idle")
  /\ UNCHANGED <<started, quiet, settleUntil, draining, ops, clock, taskVars, mutex,
                 opNow, wake, on, armed, rendered, quiesce, calm>>

\* evaluateSwitch(): the quiet interval starts when nothing is active.
Evaluate ==
  LET restart == ops # 0 \/ draining
      ready == ops = 0 /\ Since(opNow, quiet') >= MinQuiet
  IN
  /\ op = "evaluate"
  /\ Refreshed = "PreQuiet"
  /\ draining' = (ops # 0)
  /\ quiet' = IF restart THEN opNow ELSE quiet
  /\ calm' = IF restart THEN Holders = {} ELSE calm
  /\ IF ready THEN op' = "check" /\ UNCHANGED <<mutex, opNow, retry>>
              ELSE EndOp
  /\ UNCHANGED <<phase, started, settleUntil, ops, clock, taskVars, wake, on, armed,
                 rendered, quiesce>>

EvaluateTooLate ==
  /\ op = "evaluate"
  /\ Refreshed # "PreQuiet"
  /\ phase' = Refreshed
  /\ EndOp
  /\ UNCHANGED <<started, quiet, settleUntil, draining, ops, clock, taskVars, wake, on,
                 armed, rendered, quiesce, calm>>

\* beginSwitch(): no admitted activity ...

SwitchCheck ==
  /\ op = "check"
  /\ IF ops = 0 THEN op' = "claim" /\ UNCHANGED <<mutex, opNow, retry>>
                ELSE EndOp
  /\ UNCHANGED <<guardVars, clock, taskVars, wake, on, armed, rendered, quiesce,
                 calm>>

\* ... then the CAS to Switching.
SwitchClaim ==
  /\ op = "claim"
  /\ IF phase = "PreQuiet"
       THEN /\ phase' = "Switching" /\ draining' = FALSE
            /\ op' = "drive" /\ wake' = "none"
            /\ UNCHANGED <<mutex, opNow, retry>>
       ELSE EndOp /\ UNCHANGED <<phase, draining, wake>>
  /\ UNCHANGED <<started, quiet, settleUntil, ops, clock, taskVars, on, armed, rendered,
                 quiesce, calm>>

\* cancel()
CancelForgetsPhase == /\ UNCHANGED phase /\ started' = 0 /\ quiet' = 0
                      /\ settleUntil' = 0 /\ draining' = FALSE
Cancel == /\ phase' = "Idle" /\ started' = 0 /\ quiet' = 0 /\ settleUntil' = 0
          /\ draining' = FALSE

\* setOnWithGateHeld() ends without having tried the driver.
DriverSkipped ==
  /\ op = "drive"
  /\ Cancel
  /\ EndOp
  /\ UNCHANGED <<ops, clock, taskVars, wake, on, armed, rendered, quiesce, calm>>

\* The driver was tried: lit or not, the settle interval begins.
Switched ==
  /\ op = "drive"
  /\ on' \in BOOLEAN
  /\ phase' = "Settle" /\ started' = clock
  /\ settleUntil' = (clock + SettleTime) % Wrap
  /\ wake' = "settle"
  /\ EndOp
  /\ UNCHANGED <<quiet, draining, ops, clock, taskVars, armed, rendered, quiesce,
                 calm>>

\* finalizeGuardedWake(): RenderWait, rendering and arming if the display is
\* lit (arming fails without diagnostics), else the guard reopens.
Finalize ==
  /\ op = "poll"
  /\ wake = "settle" /\ phase = "Settle"
  /\ ~DeadlinePending(opNow, settleUntil)
  /\ phase' = IF on THEN "RenderWait" ELSE "Idle"
  /\ wake' = IF on THEN "render" ELSE "none"
  /\ armed' \in (IF on THEN BOOLEAN ELSE {FALSE})
  /\ rendered' = FALSE
  /\ EndOp
  /\ UNCHANGED <<started, quiet, settleUntil, draining, ops, clock, taskVars, on, quiesce,
                 calm>>

\* armWakeCompletionAfterRender() of a later poll.
Arm ==
  /\ op = "poll"
  /\ wake = "render" /\ ~armed
  /\ armed' = TRUE /\ rendered' = FALSE
  /\ EndOp
  /\ UNCHANGED <<guardVars, clock, taskVars, wake, on, quiesce, calm>>

\* completeWakeAfterRender() and releaseWakeAfterRuntimePublish().
Complete ==
  /\ op = "poll"
  /\ wake = "render" /\ armed /\ rendered /\ phase = "RenderWait"
  /\ phase' = "Idle" /\ wake' = "none" /\ armed' = FALSE
  /\ EndOp
  /\ UNCHANGED <<started, quiet, settleUntil, draining, ops, clock, taskVars, on, rendered,
                 quiesce, calm>>

\* A poll with nothing to do.
PollNothing ==
  /\ op = "poll"
  /\ \/ wake = "none"
     \/ wake = "settle" /\ (phase = "Settle" => DeadlinePending(opNow, settleUntil))
     \/ wake = "render" /\ armed /\ ~rendered
  /\ EndOp
  /\ UNCHANGED <<guardVars, clock, taskVars, wake, on, armed, rendered, quiesce,
                 calm>>

\* Off, by command or schedule: cancelGuardedWake() unless the wake has
\* reached the hardware.
CancelsAlways == TRUE
MayCancel == wake \in {"none", "pending"}

TurnOff ==
  /\ MayCommand
  /\ MayCancel
  /\ Cancel
  /\ wake' = "none" /\ armed' = FALSE
  /\ on' \in {on, FALSE}
  /\ EndOp
  /\ UNCHANGED <<ops, clock, taskVars, rendered, quiesce, calm>>

-----------------------------------------------------------------------------
(* The main task abandons the display: quiesceLvglAndAbortBacklightWake(). *)

\* No new handler starts; latchFailClosed() (no mutex).
Latch ==
  /\ quiesce = "no"
  /\ mutex # "ui"
  /\ quiesce' = "latched"
  /\ phase' = IF phase \in {"Idle", "PreQuiet"} THEN "FailClosed" ELSE phase
  /\ UNCHANGED <<started, quiet, settleUntil, draining, ops, clock, taskVars, ownerVars,
                 calm>>

\* disableSharedBus(): commands that begin from here on return at once.
CloseBus ==
  /\ quiesce = "latched"
  /\ quiesce' = "closed"
  /\ UNCHANGED <<guardVars, clock, taskVars, ownerVars, calm>>

\* The writers drained, the mutex fence held and the settle interval over:
\* off, and only a confirmed off reopens the guard.
Abort ==
  /\ quiesce = "closed"
  /\ op = "none" /\ mutex = "free"
  /\ wake = "settle" => ~DeadlinePending(clock, settleUntil)
  /\ wake' = "none" /\ armed' = FALSE
  /\ on' = FALSE
  /\ Cancel
  /\ quiesce' = "done"
  /\ UNCHANGED <<ops, clock, taskVars, mutex, op, opNow, retry, rendered, calm>>

\* A drain or the fence timed out, or the off was not confirmed.
AbortFails ==
  /\ quiesce = "closed"
  /\ quiesce' = "failed"
  /\ wake' \in {wake} \cup (IF op = "none" /\ mutex = "free" THEN {"none"} ELSE {})
  /\ UNCHANGED <<guardVars, clock, taskVars, mutex, op, opNow, retry, on, armed, rendered,
                 calm>>

-----------------------------------------------------------------------------
Acquire(t) == \/ Sample(t) \/ LoadPhase(t) \/ LoadStarted(t) \/ Expire(t)
              \/ LoadIdle(t) \/ FetchAdd(t) \/ Recheck(t) \/ Undo(t)

OwnerStep == \/ Stamp \/ Refuse \/ Close \/ Process \/ Evaluate \/ EvaluateTooLate
             \/ SwitchCheck \/ SwitchClaim \/ DriverSkipped \/ Switched
             \/ Finalize \/ Arm \/ Complete \/ PollNothing

Command == RequestWake \/ TurnOff

Quiesce == Latch \/ CloseBus \/ Abort \/ AbortFails

Step == \/ \E t \in Tasks : Acquire(t) \/ Release(t)
        \/ UiLock \/ OwnerStep \/ Command \/ Quiesce

Next == Tick \/ Step

Spec == Init /\ [][Next]_vars

\* For liveness the clock is coarse: no admission by a background task is
\* slower than a tick, nor is an operation of the owner if the owner is alive.
ReadersRest == \A t \in Tasks \ {Lvgl} : pc[t] \in {"idle", "held"}
AllRest == op = "none" /\ \A t \in Tasks : pc[t] \in {"idle", "held"}

\* Time passes and the background tasks keep asking: each polls many times
\* within one wrap of the clock, so it does ask after the deadline.  Nothing is
\* assumed of the owner.
ReaderFairness ==
  /\ SF_vars(Tick /\ ReadersRest)
  /\ \A t \in Tasks \ {Lvgl} :
       /\ WF_vars(Acquire(t)) /\ WF_vars(Release(t))
       /\ SF_vars(Sample(t) /\ Since(clock, started) >= Failsafe)

LostOwnerSpec == Init /\ [][(Tick /\ ReadersRest) \/ Step]_vars /\ ReaderFairness

\* The main task and the LVGL task run, and each gets the mutex again and again.
OwnerFairness ==
  /\ SF_vars(Tick /\ AllRest)
  /\ WF_vars(OwnerStep)
  /\ SF_vars(UiLock)
  /\ SF_vars(UiLock /\ ~DeadlinePending(clock, settleUntil))
  /\ WF_vars(Acquire(Lvgl) \/ Release(Lvgl))
  /\ SF_vars(Sample(Lvgl))

LiveOwnerSpec == Init /\ [][(Tick /\ AllRest) \/ Step]_vars /\ OwnerFairness

-----------------------------------------------------------------------------
(* Properties.                                                             *)

TypeOK ==
  /\ phase \in Phases
  /\ started \in Stamps /\ quiet \in Stamps /\ settleUntil \in Stamps
  /\ draining \in BOOLEAN /\ ops \in Nat /\ clock \in Stamps
  /\ pc \in [Tasks -> {"idle", "load", "started", "expire", "admit", "add", "recheck",
                       "undo", "held", "render"}]
  /\ now \in [Tasks -> Stamps]
  /\ mutex \in {"free", "ui", "lvgl"}
  /\ op \in {"none", "poll", "request", "close", "evaluate", "check", "claim", "drive"}
  /\ opNow \in Stamps /\ retry \in BOOLEAN
  /\ wake \in {"none", "pending", "settle", "render"}
  /\ on \in BOOLEAN /\ armed \in BOOLEAN /\ rendered \in BOOLEAN
  /\ quiesce \in {"no", "latched", "closed", "done", "failed"}
  /\ calm \in BOOLEAN

\* No background activity runs while the hardware switches and settles or
\* before the first render, and the LVGL handler renders without a lease only
\* in RenderWait: whatever an admission was doing when the guard closed.
Exclusive ==
  /\ \A t \in Holders : phase \notin {"Switching", "Settle", "RenderWait"} /\ op # "drive"
  /\ pc[Lvgl] = "render" => phase = "RenderWait"

Counted == {t \in Tasks : pc[t] \in {"recheck", "undo", "held"}}

\* The counter of operations is exactly the increments not yet returned: it
\* never leaks an operation (the wake would wait for ever) nor wraps below 0.
OpsCounted == ops = Cardinality(Counted)

\* The guard is never closed with nobody left to reopen it: while the display
\* runs, each closed phase has the owner's flag of that phase.
ClosureHasOwner ==
  quiesce = "no" =>
    /\ phase # "FailClosed"
    /\ phase = "PreQuiet" => wake = "pending" /\ ~on
    /\ phase = "Switching" <=> op = "drive"
    /\ phase = "Settle" <=> wake = "settle"
    /\ phase = "RenderWait" <=> wake = "render"

\* The switch follows a full quiet interval in which no activity was admitted,
\* also when the failsafe reopened the guard in between.
QuietBeforeSwitch ==
  [][phase = "PreQuiet" /\ phase' = "Switching" =>
       calm /\ Holders = {} /\ Since(opNow, quiet) >= MinQuiet]_vars

\* Nothing ends the settle interval early: no command, schedule, latch or abort.
SettleIsKept ==
  [][phase = "Settle" /\ phase' # "Settle" =>
       ~DeadlinePending(IF op = "poll" THEN opNow ELSE clock, settleUntil)]_vars

-----------------------------------------------------------------------------
(* The inductive invariant behind them (module WakePowerGuardProofs).      *)

\* The mutex serialises the owner's operations; without one the LVGL task is
\* inside its handler, and only that handler renders.
OwnerSerialised ==
  /\ op # "none" => mutex # "free"
  /\ mutex = "ui" => op # "none" /\ quiesce = "no"
  /\ op \in {"poll", "evaluate", "check", "claim", "drive"} \/ retry => mutex = "ui"
  /\ mutex = "lvgl" <=> pc[Lvgl] # "idle"
  /\ op # "none" /\ mutex = "lvgl" => pc[Lvgl] = "held"
  /\ \A t \in Tasks : pc[t] = "render" => t = Lvgl

\* The owner's private flags follow the phase until the display is given up.
FlagsFollowPhase ==
  /\ wake = "pending" => ~on
  /\ op \in {"request", "close", "evaluate", "check", "claim"} => wake = "pending"
  /\ op = "drive" => wake = "none"
  /\ op = "close" => phase \in {"Idle", "FailClosed"}
  /\ op = "drive" <=> phase = "Switching"
  /\ quiesce = "no" => phase # "FailClosed"
  /\ quiesce \in {"no", "latched", "closed"} =>
       /\ phase = "PreQuiet" => wake = "pending"
       /\ phase = "Settle" <=> wake = "settle"
       /\ phase = "RenderWait" <=> wake = "render"

\* What the owner has established about the quiet interval at each step.
QuietEstablished ==
  /\ phase = "PreQuiet" /\ ~draining => calm
  /\ op \in {"check", "claim"} => ~draining /\ Since(opNow, quiet) >= MinQuiet
  /\ op = "claim" /\ phase = "PreQuiet" => Holders = {}

\* Every reachable state of the guard, its readers and its owner satisfies the
\* parts above together: each is needed to preserve another.
IndInv ==
  /\ TypeOK
  /\ OpsCounted
  /\ OwnerSerialised
  /\ FlagsFollowPhase
  /\ QuietEstablished
  /\ Exclusive

-----------------------------------------------------------------------------
(* Liveness, and what the code says of itself and does not keep.           *)

\* A lost owner cannot pause background work for ever in PreQuiet.
LostOwnerReopens == phase = "PreQuiet" ~> phase # "PreQuiet"

\* With a live owner every wake that reached the hardware reopens the guard,
\* unless the display is abandoned.
WakeReopens ==
  phase \in {"Switching", "Settle", "RenderWait"} ~> phase = "Idle" \/ quiesce # "no"

\* UiController.cpp: the "terminal latch" keeps background admission closed
\* until the abandoned display is safely off.
LatchHolds == quiesce \in {"latched", "closed", "failed"} => phase # "Idle"
=============================================================================
