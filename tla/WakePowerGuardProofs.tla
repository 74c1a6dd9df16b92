------------------------ MODULE WakePowerGuardProofs ------------------------
(***************************************************************************)
(* The safety of the wake power guard for every set of tasks and all time  *)
(* constants.  IndInv (module WakePowerGuard) is the inductive invariant.  *)
(* The lemmas follow its parts: each says that every step preserves one.   *)
(***************************************************************************)
EXTENDS WakePowerGuard, FiniteSetTheorems, TLAPS

LEMMA StampsClosed == ASSUME NEW n \in Int PROVE n % Wrap \in Stamps
  BY TimeAssumption, SMT DEF Stamps

LEMMA InitEstablishes == Init => IndInv
<1> SUFFICES ASSUME Init PROVE IndInv
  OBVIOUS
<1> USE TasksAssumption, TimeAssumption
<1>1. TypeOK
  <2>1. 0 \in Stamps
    BY DEF Stamps
  <2> QED
    BY <2>1 DEF Init, TypeOK, Phases
<1>2. OpsCounted
  <2>1. Counted = {}
    BY DEF Init, Counted
  <2> QED
    BY <2>1, FS_EmptySet DEF Init, OpsCounted
<1>3. OwnerSerialised /\ FlagsFollowPhase /\ QuietEstablished /\ Exclusive
  BY DEF Init, OwnerSerialised, FlagsFollowPhase, QuietEstablished, Exclusive, Holders
<1> QED
  BY <1>1, <1>2, <1>3 DEF IndInv

\* The step of an admission changes the counter together with the tasks it counts.
LEMMA OpsCountedPreserved ==
  ASSUME TypeOK, OpsCounted, [Next]_vars
  PROVE  OpsCounted'
<1> USE TasksAssumption
<1>1. IsFiniteSet(Counted)
  BY FS_Subset DEF Counted
<1>2. ASSUME NEW t \in Tasks, FetchAdd(t)
      PROVE  OpsCounted'
  <2>1. Counted' = Counted \cup {t} /\ t \notin Counted
    BY <1>2 DEF FetchAdd, Counted, TypeOK
  <2> QED
    BY <1>1, <1>2, <2>1, FS_AddElement DEF FetchAdd, OpsCounted
<1>3. ASSUME NEW t \in Tasks, pc[t] \in {"undo", "held"}, ops' = ops - 1,
             NEW next \in {"idle", "render"}, pc' = [pc EXCEPT ![t] = next]
      PROVE  OpsCounted'
  <2>1. Counted' = Counted \ {t} /\ t \in Counted
    BY <1>3 DEF Counted, TypeOK
  <2> QED
    BY <1>1, <1>3, <2>1, FS_RemoveElement DEF OpsCounted
<1>4. ASSUME NEW t \in Tasks, Undo(t) \/ (Release(t) /\ pc[t] = "held")
      PROVE  OpsCounted'
  BY <1>3, <1>4 DEF Undo, Release, Released, Refused
<1>5. ASSUME ops' = ops, Counted' = Counted
      PROVE  OpsCounted'
  BY <1>5 DEF OpsCounted
<1>6. ASSUME NEW t \in Tasks,
             \/ Sample(t) \/ LoadPhase(t) \/ LoadStarted(t) \/ Expire(t) \/ LoadIdle(t)
             \/ Recheck(t) \/ (Release(t) /\ pc[t] = "render")
      PROVE  OpsCounted'
  <2>1. Counted' = Counted
    BY <1>6 DEF Sample, LoadPhase, LoadStarted, Expire, LoadIdle, Recheck, Release,
                Refused, Counted, TypeOK
  <2>2. ops' = ops
    BY <1>6 DEF Sample, LoadPhase, LoadStarted, Expire, LoadIdle, Recheck, Release,
                guardVars
  <2> QED
    BY <1>5, <2>1, <2>2
<1>7. ASSUME UNCHANGED <<pc, ops>>
      PROVE  OpsCounted'
  BY <1>5, <1>7 DEF Counted
<1>8. CASE Tick \/ UiLock \/ Command \/ Quiesce \/ UNCHANGED vars
  BY <1>7, <1>8 DEF Tick, UiLock, Command, RequestWake, TurnOff, Quiesce, Latch,
     CloseBus, Abort, AbortFails, vars, guardVars, taskVars
<1>9. CASE OwnerStep
  BY <1>7, <1>9 DEF OwnerStep, Stamp, Refuse, Close, Process, Evaluate, EvaluateTooLate,
     SwitchCheck, SwitchClaim, DriverSkipped, Switched, Finalize, Arm, Complete,
     PollNothing, guardVars, taskVars
<1> QED
  BY <1>2, <1>4, <1>6, <1>8, <1>9 DEF Next, Step, Acquire, Release

\* Types.  OpsCounted gives the type of the counter.
LEMMA TypePreserved ==
  ASSUME TypeOK, OpsCounted', [Next]_vars
  PROVE  TypeOK'
<1> USE TasksAssumption, TimeAssumption
<1>1. ops' \in Nat
  <2>1. IsFiniteSet(Counted')
    BY FS_Subset DEF Counted
  <2> QED
    BY <2>1, FS_CardinalityType DEF OpsCounted
<1>2. 0 \in Stamps
  BY DEF Stamps
<1>3. (clock + 1) % Wrap \in Stamps /\ (clock + SettleTime) % Wrap \in Stamps
  <2>1. clock + 1 \in Int /\ clock + SettleTime \in Int
    BY DEF TypeOK, Stamps
  <2> QED
    BY <2>1, StampsClosed
<1>5. Refreshed \in Phases
  BY DEF Refreshed, TypeOK, Phases
<1>6. CASE Tick
  BY <1>1, <1>2, <1>3, <1>6 DEF TypeOK, Tick, Millis, guardVars, taskVars,
     ownerVars
<1>7. ASSUME NEW t \in Tasks, Acquire(t) \/ Release(t)
      PROVE  TypeOK'
  <2>1. Refused(t) \in {"idle", "render"}
    BY DEF Refused
  <2>2. \A s : MutexAfter(t, s) \in {"free", "ui", "lvgl"}
    BY DEF MutexAfter, TypeOK
  <2>3. CASE Sample(t)
    BY <1>1, <1>2, <2>1, <2>2, <2>3 DEF TypeOK, Sample, guardVars, taskVars, ownerVars
  <2>4. CASE LoadPhase(t)
    BY <1>1, <1>2, <2>1, <2>2, <2>4 DEF TypeOK, LoadPhase, guardVars, taskVars,
       ownerVars
  <2>5. CASE LoadStarted(t)
    BY <1>1, <1>2, <2>1, <2>2, <2>5 DEF TypeOK, LoadStarted, guardVars, taskVars,
       ownerVars
  <2>6. CASE Expire(t)
    BY <1>1, <1>2, <2>1, <2>2, <2>6 DEF TypeOK, Expire, Phases, guardVars, taskVars,
       ownerVars
  <2>7. CASE LoadIdle(t)
    BY <1>1, <1>2, <2>1, <2>2, <2>7 DEF TypeOK, LoadIdle, guardVars, taskVars,
       ownerVars
  <2>8. CASE FetchAdd(t)
    BY <1>1, <1>2, <2>1, <2>2, <2>8 DEF TypeOK, FetchAdd, guardVars, taskVars,
       ownerVars
  <2>9. CASE Recheck(t)
    BY <1>1, <1>2, <2>1, <2>2, <2>9 DEF TypeOK, Recheck, guardVars, taskVars,
       ownerVars
  <2>10. CASE Undo(t)
    BY <1>1, <1>2, <2>1, <2>2, <2>10 DEF TypeOK, Undo, guardVars, taskVars, ownerVars
  <2>11. CASE Release(t)
    BY <1>1, <1>2, <2>1, <2>2, <2>11 DEF TypeOK, Release, guardVars, taskVars,
       ownerVars
  <2> QED
    BY <1>7, <2>3, <2>4, <2>5, <2>6, <2>7, <2>8, <2>9, <2>10, <2>11 DEF Acquire
<1>8. CASE UiLock \/ Command
  BY <1>1, <1>2, <1>8 DEF TypeOK, UiLock, Command, RequestWake, TurnOff, EndOp, Cancel,
     Phases, guardVars, taskVars, ownerVars
<1>9. CASE OwnerStep
  <2> DEFINE Rest == /\ mutex' \in {"free", "ui", "lvgl"} /\ opNow' \in Stamps
                     /\ retry' \in BOOLEAN
  <2>0. EndOp => Rest /\ op' = "none"
    BY <1>2 DEF EndOp, TypeOK
  <2>1. CASE Stamp
    BY <1>1, <1>2, <1>3, <1>5, <2>1 DEF TypeOK, Stamp, EndOp, Phases, guardVars,
       taskVars
  <2>2. CASE Refuse
    BY <1>1, <1>2, <1>3, <1>5, <2>2 DEF TypeOK, Refuse, EndOp, Phases, guardVars,
       taskVars
  <2>3. CASE Close
    BY <1>1, <1>2, <1>3, <1>5, <2>3 DEF TypeOK, Close, DrainAfterClose, EndOp, Phases,
       guardVars, taskVars
  <2>4. CASE Process
    BY <1>1, <1>2, <1>3, <1>5, <2>4 DEF TypeOK, Process, EndOp, Phases, guardVars,
       taskVars
  <2>5. CASE Evaluate
    <3>1. Rest /\ op' \in {"check", "none"}
      BY <2>0, <2>5 DEF Evaluate, TypeOK
    <3>2. draining' \in BOOLEAN /\ quiet' \in Stamps /\ calm' \in BOOLEAN
      BY <2>5 DEF Evaluate, TypeOK
    <3> HIDE DEF Rest
    <3>3. UNCHANGED <<phase, started, settleUntil, ops, clock, taskVars, wake, on,
       armed,
                      rendered, quiesce>>
      BY <2>5 DEF Evaluate
    <3> QED
      BY <3>1, <3>2, <3>3 DEF TypeOK, Rest, taskVars
  <2>6. CASE EvaluateTooLate
    BY <1>5, <2>0, <2>6 DEF TypeOK, EvaluateTooLate, taskVars
  <2>7. CASE SwitchCheck
    <3>1. Rest /\ op' \in {"claim", "none"}
      BY <2>0, <2>7 DEF SwitchCheck, TypeOK
    <3> QED
      BY <2>7, <3>1 DEF SwitchCheck, TypeOK, guardVars, taskVars
  <2>8. CASE SwitchClaim
    <3>1. Rest /\ op' \in {"drive", "none"}
      BY <2>0, <2>8 DEF SwitchClaim, TypeOK
    <3>2. phase' \in Phases /\ draining' \in BOOLEAN
          /\ wake' \in {"none", "pending", "settle", "render"}
      BY <2>8 DEF SwitchClaim, TypeOK, Phases
    <3> QED
      BY <2>8, <3>1, <3>2 DEF SwitchClaim, TypeOK, taskVars
  <2>9. CASE DriverSkipped
    BY <1>1, <1>2, <1>3, <1>5, <2>9 DEF TypeOK, DriverSkipped, Cancel, EndOp, Phases,
       guardVars, taskVars
  <2>10. CASE Switched
    BY <1>1, <1>2, <1>3, <1>5, <2>10 DEF TypeOK, Switched, EndOp, Phases, guardVars,
       taskVars
  <2>11. CASE Finalize
    BY <1>1, <1>2, <1>3, <1>5, <2>11 DEF TypeOK, Finalize, EndOp, Phases, guardVars,
       taskVars
  <2>12. CASE Arm
    BY <1>1, <1>2, <1>3, <1>5, <2>12 DEF TypeOK, Arm, EndOp, Phases, guardVars,
       taskVars
  <2>13. CASE Complete
    BY <1>1, <1>2, <1>3, <1>5, <2>13 DEF TypeOK, Complete, EndOp, Phases, guardVars,
       taskVars
  <2>14. CASE PollNothing
    BY <2>0, <2>14 DEF TypeOK, PollNothing, guardVars, taskVars
  <2> QED
    BY <1>9, <2>1, <2>2, <2>3, <2>4, <2>5, <2>6, <2>7, <2>8, <2>9, <2>10, <2>11, <2>12,
       <2>13, <2>14 DEF OwnerStep
<1>10. CASE Quiesce
  <2>1. CASE Latch
    BY <2>1 DEF TypeOK, Latch, Phases, taskVars, ownerVars
  <2>2. CASE CloseBus
    BY <2>2 DEF TypeOK, CloseBus, guardVars, taskVars, ownerVars
  <2>3. CASE Abort
    BY <1>2, <2>3 DEF TypeOK, Abort, Cancel, Phases, taskVars
  <2>4. CASE AbortFails
    BY <2>4 DEF TypeOK, AbortFails, guardVars, taskVars
  <2> QED
    BY <1>10, <2>1, <2>2, <2>3, <2>4 DEF Quiesce
<1>11. CASE UNCHANGED vars
  BY <1>11 DEF TypeOK, vars, guardVars, taskVars, ownerVars
<1> QED
  BY <1>6, <1>7, <1>8, <1>9, <1>10, <1>11 DEF Next, Step
\* One owner operation at a time, under the mutex.
LEMMA OwnerSerialisedPreserved ==
  ASSUME IndInv, [Next]_vars
  PROVE  OwnerSerialised'
<1> USE TasksAssumption DEF IndInv, TypeOK, OwnerSerialised
<1>1. CASE Tick
  BY <1>1 DEF Tick, guardVars, taskVars, ownerVars
<1>2. ASSUME NEW t \in Tasks, Acquire(t) \/ Release(t)
      PROVE  OwnerSerialised'
  <2>1. CASE Sample(t)
    BY <2>1 DEF Sample, guardVars, taskVars, ownerVars
  <2>2. CASE LoadPhase(t)
    BY <2>2 DEF LoadPhase, guardVars, taskVars, ownerVars
  <2>3. CASE LoadStarted(t)
    BY <2>3 DEF LoadStarted, guardVars, taskVars, ownerVars
  <2>4. CASE Expire(t)
    BY <2>4 DEF Expire, guardVars, taskVars, ownerVars
  <2>5. CASE LoadIdle(t)
    BY <2>5 DEF LoadIdle, Refused, MutexAfter, guardVars, taskVars, ownerVars
  <2>6. CASE FetchAdd(t)
    BY <2>6 DEF FetchAdd, guardVars, taskVars, ownerVars
  <2>7. CASE Recheck(t)
    BY <2>7 DEF Recheck, guardVars, taskVars, ownerVars
  <2>8. CASE Undo(t)
    BY <2>8 DEF Undo, Refused, MutexAfter, guardVars, taskVars, ownerVars
  <2>9. CASE Release(t)
    BY <2>9 DEF Release, MutexAfter, guardVars, taskVars, ownerVars
  <2> QED
    BY <1>2, <2>1, <2>2, <2>3, <2>4, <2>5, <2>6, <2>7, <2>8, <2>9 DEF Acquire
<1>3. CASE UiLock
  BY <1>3 DEF UiLock, guardVars, taskVars, ownerVars
<1>4. CASE RequestWake
  BY <1>4 DEF RequestWake, MayCommand, guardVars, taskVars, ownerVars
<1>5. CASE TurnOff
  BY <1>5 DEF TurnOff, MayCommand, MayCancel, EndOp, Cancel, guardVars, taskVars,
     ownerVars
<1>6. CASE OwnerStep
  <2>1. CASE Stamp
    BY <2>1 DEF Stamp, Refreshed, guardVars, taskVars, ownerVars
  <2>2. CASE Refuse
    BY <2>2 DEF Refuse, EndOp, guardVars, taskVars, ownerVars
  <2>3. CASE Close
    BY <2>3 DEF Close, EndOp, DrainAfterClose, guardVars, taskVars, ownerVars
  <2>4. CASE Process
    BY <2>4 DEF Process, Refreshed, guardVars, taskVars, ownerVars
  <2>5. CASE Evaluate
    BY <2>5 DEF Evaluate, EndOp, guardVars, taskVars, ownerVars
  <2>6. CASE EvaluateTooLate
    BY <2>6 DEF EvaluateTooLate, EndOp, guardVars, taskVars, ownerVars
  <2>7. CASE SwitchCheck
    BY <2>7 DEF SwitchCheck, EndOp, guardVars, taskVars, ownerVars
  <2>8. CASE SwitchClaim
    BY <2>8 DEF SwitchClaim, EndOp, guardVars, taskVars, ownerVars
  <2>9. CASE DriverSkipped
    BY <2>9 DEF DriverSkipped, EndOp, Cancel, guardVars, taskVars, ownerVars
  <2>10. CASE Switched
    BY <2>10 DEF Switched, EndOp, guardVars, taskVars, ownerVars
  <2>11. CASE Finalize
    BY <2>11 DEF Finalize, EndOp, guardVars, taskVars, ownerVars
  <2>12. CASE Arm
    BY <2>12 DEF Arm, EndOp, guardVars, taskVars, ownerVars
  <2>13. CASE Complete
    BY <2>13 DEF Complete, EndOp, guardVars, taskVars, ownerVars
  <2>14. CASE PollNothing
    BY <2>14 DEF PollNothing, EndOp, guardVars, taskVars, ownerVars
  <2> QED
    BY <1>6, <2>1, <2>2, <2>3, <2>4, <2>5, <2>6, <2>7, <2>8, <2>9, <2>10, <2>11, <2>12,
       <2>13, <2>14 DEF OwnerStep
<1>7. CASE Quiesce
  <2>1. CASE Latch
    BY <2>1 DEF Latch, guardVars, taskVars, ownerVars
  <2>2. CASE CloseBus
    BY <2>2 DEF CloseBus, guardVars, taskVars, ownerVars
  <2>3. CASE Abort
    BY <2>3 DEF Abort, Cancel, guardVars, taskVars, ownerVars
  <2>4. CASE AbortFails
    BY <2>4 DEF AbortFails, guardVars, taskVars, ownerVars
  <2> QED
    BY <1>7, <2>1, <2>2, <2>3, <2>4 DEF Quiesce
<1>8. CASE UNCHANGED vars
  BY <1>8 DEF vars, guardVars, taskVars, ownerVars
<1> QED
  BY <1>1, <1>2, <1>3, <1>4, <1>5, <1>6, <1>7, <1>8 DEF Next, Step, Command

\* Every step keeps the owner's flags and the phase together.
LEMMA FlagsPreserved ==
  ASSUME IndInv, [Next]_vars
  PROVE  FlagsFollowPhase'
<1> USE TasksAssumption DEF IndInv, TypeOK, FlagsFollowPhase
<1>1. CASE Tick
  BY <1>1 DEF Tick, guardVars, taskVars, ownerVars
<1>2. ASSUME NEW t \in Tasks, Acquire(t) \/ Release(t)
      PROVE  FlagsFollowPhase'
  <2>1. CASE Sample(t)
    BY <2>1 DEF Sample, guardVars, taskVars, ownerVars
  <2>2. CASE LoadPhase(t)
    BY <2>2 DEF LoadPhase, guardVars, taskVars, ownerVars
  <2>3. CASE LoadStarted(t)
    BY <2>3 DEF LoadStarted, guardVars, taskVars, ownerVars
  <2>4. CASE Expire(t)
    BY <2>4 DEF Expire, guardVars, taskVars, ownerVars
  <2>5. CASE LoadIdle(t)
    BY <2>5 DEF LoadIdle, Refused, MutexAfter, guardVars, taskVars, ownerVars
  <2>6. CASE FetchAdd(t)
    BY <2>6 DEF FetchAdd, guardVars, taskVars, ownerVars
  <2>7. CASE Recheck(t)
    BY <2>7 DEF Recheck, guardVars, taskVars, ownerVars
  <2>8. CASE Undo(t)
    BY <2>8 DEF Undo, Refused, MutexAfter, guardVars, taskVars, ownerVars
  <2>9. CASE Release(t)
    BY <2>9 DEF Release, MutexAfter, guardVars, taskVars, ownerVars
  <2> QED
    BY <1>2, <2>1, <2>2, <2>3, <2>4, <2>5, <2>6, <2>7, <2>8, <2>9 DEF Acquire
<1>3. CASE UiLock
  BY <1>3 DEF UiLock, OwnerSerialised, guardVars, taskVars, ownerVars
<1>4. CASE RequestWake
  BY <1>4 DEF RequestWake, MayCommand, guardVars, taskVars, ownerVars
<1>5. CASE TurnOff
  BY <1>5 DEF TurnOff, MayCommand, MayCancel, EndOp, Cancel, guardVars, taskVars,
     ownerVars
<1>6. CASE OwnerStep
  <2>1. CASE Stamp
    BY <2>1 DEF Stamp, Refreshed, guardVars, taskVars, ownerVars
  <2>2. CASE Refuse
    BY <2>2 DEF Refuse, Refreshed, EndOp, guardVars, taskVars, ownerVars
  <2>3. CASE Close
    BY <2>3 DEF Close, EndOp, DrainAfterClose, guardVars, taskVars, ownerVars
  <2>4. CASE Process
    BY <2>4 DEF Process, Refreshed, guardVars, taskVars, ownerVars
  <2>5. CASE Evaluate
    BY <2>5 DEF Evaluate, EndOp, guardVars, taskVars, ownerVars
  <2>6. CASE EvaluateTooLate
    BY <2>6 DEF EvaluateTooLate, Refreshed, EndOp, guardVars, taskVars, ownerVars
  <2>7. CASE SwitchCheck
    BY <2>7 DEF SwitchCheck, EndOp, guardVars, taskVars, ownerVars
  <2>8. CASE SwitchClaim
    BY <2>8 DEF SwitchClaim, EndOp, guardVars, taskVars, ownerVars
  <2>9. CASE DriverSkipped
    BY <2>9 DEF DriverSkipped, EndOp, Cancel, guardVars, taskVars, ownerVars
  <2>10. CASE Switched
    BY <2>10 DEF Switched, EndOp, guardVars, taskVars, ownerVars
  <2>11. CASE Finalize
    BY <2>11 DEF Finalize, EndOp, guardVars, taskVars, ownerVars
  <2>12. CASE Arm
    BY <2>12 DEF Arm, EndOp, guardVars, taskVars, ownerVars
  <2>13. CASE Complete
    BY <2>13 DEF Complete, EndOp, guardVars, taskVars, ownerVars
  <2>14. CASE PollNothing
    BY <2>14 DEF PollNothing, EndOp, guardVars, taskVars, ownerVars
  <2> QED
    BY <1>6, <2>1, <2>2, <2>3, <2>4, <2>5, <2>6, <2>7, <2>8, <2>9, <2>10, <2>11, <2>12,
       <2>13, <2>14 DEF OwnerStep
<1>7. CASE Quiesce
  <2>1. CASE Latch
    BY <2>1 DEF Latch, guardVars, taskVars, ownerVars
  <2>2. CASE CloseBus
    BY <2>2 DEF CloseBus, guardVars, taskVars, ownerVars
  <2>3. CASE Abort
    BY <2>3 DEF Abort, Cancel, guardVars, taskVars, ownerVars
  <2>4. CASE AbortFails
    BY <2>4 DEF AbortFails, guardVars, taskVars, ownerVars
  <2> QED
    BY <1>7, <2>1, <2>2, <2>3, <2>4 DEF Quiesce
<1>8. CASE UNCHANGED vars
  BY <1>8 DEF vars, guardVars, taskVars, ownerVars
<1> QED
  BY <1>1, <1>2, <1>3, <1>4, <1>5, <1>6, <1>7, <1>8 DEF Next, Step, Command

\* With the counter at 0 no task holds an activity.
LEMMA NoneHeld ==
  ASSUME OpsCounted, ops = 0
  PROVE  Holders = {}
<1>1. IsFiniteSet(Counted) /\ Cardinality(Counted) = 0
  BY TasksAssumption, FS_Subset DEF Counted, OpsCounted
<1>2. Counted = {}
  BY <1>1, FS_EmptySet
<1> QED
  BY <1>2 DEF Counted, Holders


\* What the owner knows of the quiet interval survives every step of the others.
LEMMA QuietPreserved ==
  ASSUME IndInv, [Next]_vars
  PROVE  QuietEstablished'
<1> USE TasksAssumption DEF IndInv, TypeOK, QuietEstablished
<1>1. pc' = pc => Holders' = Holders
  BY DEF Holders
<1>2. CASE Tick
  BY <1>1, <1>2 DEF Tick, guardVars, taskVars, ownerVars
<1>3. ASSUME NEW t \in Tasks, Acquire(t) \/ Release(t)
      PROVE  QuietEstablished'
  <2>1. /\ UNCHANGED <<op, opNow, quiet, draining>>
        /\ phase' = "PreQuiet" => phase = "PreQuiet"
    BY <1>3 DEF Acquire, Sample, LoadPhase, LoadStarted, Expire, LoadIdle, FetchAdd,
       Recheck, Undo, Release, guardVars, ownerVars
  <2>2. CASE Recheck(t) /\ StillIdle
    BY <2>1, <2>2 DEF StillIdle, Recheck, guardVars
  <2>3. CASE ~(Recheck(t) /\ StillIdle)
    <3>1. Holders' \subseteq Holders
      BY <1>3, <2>3 DEF Acquire, Sample, LoadPhase, LoadStarted, Expire, LoadIdle,
         FetchAdd, Recheck, Undo, Release, Refused, Holders
    <3>2. calm' = calm
      BY <1>3, <2>3 DEF Acquire, Sample, LoadPhase, LoadStarted, Expire, LoadIdle,
         FetchAdd, Recheck, Undo, Release
    <3> QED
      BY <2>1, <3>1, <3>2
  <2> QED
    BY <2>2, <2>3
<1>4. CASE UiLock
  BY <1>1, <1>4 DEF UiLock, OwnerSerialised, guardVars, taskVars, ownerVars
<1>5. CASE RequestWake
  BY <1>1, <1>5 DEF RequestWake, MayCommand, guardVars, taskVars, ownerVars
<1>6. CASE TurnOff
  BY <1>1, <1>6 DEF TurnOff, MayCommand, MayCancel, EndOp, Cancel, guardVars, taskVars,
     ownerVars
<1>7. CASE OwnerStep
  <2>1. CASE Stamp
    BY <1>1, <2>1 DEF Stamp, Refreshed, guardVars, taskVars, ownerVars
  <2>2. CASE Refuse
    BY <1>1, <2>2 DEF Refuse, EndOp, Refreshed, guardVars, taskVars, ownerVars
  <2>3. CASE Close
    BY <1>1, <2>3 DEF Close, EndOp, DrainAfterClose, guardVars, taskVars, ownerVars
  <2>4. CASE Process
    BY <1>1, <2>4 DEF Process, Refreshed, guardVars, taskVars, ownerVars
  <2>5. CASE Evaluate
    BY <1>1, <2>5, NoneHeld DEF Evaluate, EndOp, guardVars, taskVars, ownerVars
  <2>6. CASE EvaluateTooLate
    BY <1>1, <2>6 DEF EvaluateTooLate, EndOp, Refreshed, guardVars, taskVars,
       ownerVars
  <2>7. CASE SwitchCheck
    BY <1>1, <2>7, NoneHeld DEF SwitchCheck, EndOp, guardVars, taskVars, ownerVars
  <2>8. CASE SwitchClaim
    BY <1>1, <2>8 DEF SwitchClaim, EndOp, guardVars, taskVars, ownerVars
  <2>9. CASE DriverSkipped
    BY <1>1, <2>9 DEF DriverSkipped, EndOp, Cancel, guardVars, taskVars, ownerVars
  <2>10. CASE Switched
    BY <1>1, <2>10 DEF Switched, EndOp, guardVars, taskVars, ownerVars
  <2>11. CASE Finalize
    BY <1>1, <2>11 DEF Finalize, EndOp, guardVars, taskVars, ownerVars
  <2>12. CASE Arm
    BY <1>1, <2>12 DEF Arm, EndOp, guardVars, taskVars, ownerVars
  <2>13. CASE Complete
    BY <1>1, <2>13 DEF Complete, EndOp, guardVars, taskVars, ownerVars
  <2>14. CASE PollNothing
    BY <1>1, <2>14 DEF PollNothing, EndOp, guardVars, taskVars, ownerVars
  <2> QED
    BY <1>7, <2>1, <2>2, <2>3, <2>4, <2>5, <2>6, <2>7, <2>8, <2>9, <2>10, <2>11, <2>12,
       <2>13, <2>14 DEF OwnerStep
<1>8. CASE Quiesce
  <2>1. CASE Latch
    BY <1>1, <2>1 DEF Latch, guardVars, taskVars, ownerVars
  <2>2. CASE CloseBus
    BY <1>1, <2>2 DEF CloseBus, guardVars, taskVars, ownerVars
  <2>3. CASE Abort
    BY <1>1, <2>3 DEF Abort, Cancel, guardVars, taskVars, ownerVars
  <2>4. CASE AbortFails
    BY <1>1, <2>4 DEF AbortFails, guardVars, taskVars, ownerVars
  <2> QED
    BY <1>8, <2>1, <2>2, <2>3, <2>4 DEF Quiesce
<1>9. CASE UNCHANGED vars
  BY <1>1, <1>9 DEF vars, guardVars, taskVars, ownerVars
<1> QED
  BY <1>2, <1>3, <1>4, <1>5, <1>6, <1>7, <1>8, <1>9 DEF Next, Step, Command

\* No step lets background work into the protected phases.
LEMMA ExclusivePreserved ==
  ASSUME IndInv, [Next]_vars
  PROVE  Exclusive'
<1> USE TasksAssumption DEF IndInv, TypeOK, Exclusive
<1>1. pc' = pc => Holders' = Holders
  BY DEF Holders
<1>2. CASE Tick
  BY <1>1, <1>2 DEF Tick, guardVars, taskVars, ownerVars
<1>3. ASSUME NEW t \in Tasks, Acquire(t) \/ Release(t)
      PROVE  Exclusive'
  <2>1. /\ op' = op
        /\ phase' = phase \/ (phase = "PreQuiet" /\ phase' = "Idle")
    BY <1>3 DEF Acquire, Sample, LoadPhase, LoadStarted, Expire, LoadIdle, FetchAdd,
       Recheck, Undo, Release, guardVars, ownerVars
  <2>2. \A h \in Holders' : h \in Holders \/ phase = "Idle"
    BY <1>3 DEF Acquire, Sample, LoadPhase, LoadStarted, Expire, LoadIdle,
       FetchAdd, Recheck, StillIdle, Undo, Release, Refused, Holders
  <2>3. pc'[Lvgl] = "render" => pc[Lvgl] = "render" \/ phase = "RenderWait"
    BY <1>3 DEF Acquire, Sample, LoadPhase, LoadStarted, Expire, LoadIdle, FetchAdd,
       Recheck, Undo, Release, Refused
  <2> QED
    BY <2>1, <2>2, <2>3 DEF FlagsFollowPhase
<1>4. CASE UiLock
  BY <1>1, <1>4 DEF FlagsFollowPhase, OwnerSerialised, UiLock, guardVars, taskVars,
     ownerVars
<1>5. CASE RequestWake
  BY <1>1, <1>5 DEF FlagsFollowPhase, OwnerSerialised, RequestWake, MayCommand,
     guardVars, taskVars, ownerVars
<1>6. CASE TurnOff
  BY <1>1, <1>6 DEF FlagsFollowPhase, OwnerSerialised, TurnOff, MayCommand, MayCancel,
     EndOp, Cancel, guardVars, taskVars, ownerVars
<1>7. CASE OwnerStep
  <2>1. CASE Stamp
    BY <1>1, <2>1 DEF FlagsFollowPhase, OwnerSerialised, Stamp, Refreshed, guardVars,
       taskVars, ownerVars
  <2>2. CASE Refuse
    BY <1>1, <2>2 DEF FlagsFollowPhase, OwnerSerialised, Refuse, EndOp, Refreshed,
       guardVars, taskVars, ownerVars
  <2>3. CASE Close
    BY <1>1, <2>3 DEF FlagsFollowPhase, OwnerSerialised, Close, EndOp, DrainAfterClose,
       guardVars, taskVars, ownerVars
  <2>4. CASE Process
    BY <1>1, <2>4 DEF FlagsFollowPhase, OwnerSerialised, Process, Refreshed, guardVars,
       taskVars, ownerVars
  <2>5. CASE Evaluate
    BY <1>1, <2>5 DEF FlagsFollowPhase, OwnerSerialised, Evaluate, EndOp, guardVars,
       taskVars, ownerVars
  <2>6. CASE EvaluateTooLate
    BY <1>1, <2>6 DEF FlagsFollowPhase, OwnerSerialised, EvaluateTooLate, EndOp,
       Refreshed, guardVars, taskVars, ownerVars
  <2>7. CASE SwitchCheck
    BY <1>1, <2>7 DEF FlagsFollowPhase, OwnerSerialised, SwitchCheck, EndOp, guardVars,
       taskVars, ownerVars
  <2>8. CASE SwitchClaim
    BY <1>1, <2>8 DEF QuietEstablished, SwitchClaim, EndOp, guardVars, taskVars,
       ownerVars
  <2>9. CASE DriverSkipped
    BY <1>1, <2>9 DEF FlagsFollowPhase, OwnerSerialised, DriverSkipped, EndOp, Cancel,
       guardVars, taskVars, ownerVars
  <2>10. CASE Switched
    BY <1>1, <2>10 DEF FlagsFollowPhase, OwnerSerialised, Switched, EndOp, guardVars,
       taskVars, ownerVars
  <2>11. CASE Finalize
    BY <1>1, <2>11 DEF FlagsFollowPhase, OwnerSerialised, Finalize, EndOp, guardVars,
       taskVars, ownerVars
  <2>12. CASE Arm
    BY <1>1, <2>12 DEF FlagsFollowPhase, OwnerSerialised, Arm, EndOp, guardVars,
       taskVars, ownerVars
  <2>13. CASE Complete
    BY <1>1, <2>13 DEF FlagsFollowPhase, OwnerSerialised, Complete, EndOp, guardVars,
       taskVars, ownerVars
  <2>14. CASE PollNothing
    BY <1>1, <2>14 DEF FlagsFollowPhase, OwnerSerialised, PollNothing, EndOp,
       guardVars, taskVars, ownerVars
  <2> QED
    BY <1>7, <2>1, <2>2, <2>3, <2>4, <2>5, <2>6, <2>7, <2>8, <2>9, <2>10, <2>11, <2>12,
       <2>13, <2>14 DEF OwnerStep
<1>8. CASE Quiesce
  <2>1. CASE Latch
    BY <1>1, <2>1 DEF FlagsFollowPhase, OwnerSerialised, Latch, guardVars, taskVars,
       ownerVars
  <2>2. CASE CloseBus
    BY <1>1, <2>2 DEF FlagsFollowPhase, OwnerSerialised, CloseBus, guardVars, taskVars,
       ownerVars
  <2>3. CASE Abort
    BY <1>1, <2>3 DEF FlagsFollowPhase, OwnerSerialised, Abort, Cancel, guardVars,
       taskVars, ownerVars
  <2>4. CASE AbortFails
    BY <1>1, <2>4 DEF FlagsFollowPhase, OwnerSerialised, AbortFails, guardVars,
       taskVars, ownerVars
  <2> QED
    BY <1>8, <2>1, <2>2, <2>3, <2>4 DEF Quiesce
<1>9. CASE UNCHANGED vars
  BY <1>1, <1>9 DEF vars, guardVars, taskVars, ownerVars
<1> QED
  BY <1>2, <1>3, <1>4, <1>5, <1>6, <1>7, <1>8, <1>9 DEF Next, Step, Command

LEMMA Inductive == IndInv /\ [Next]_vars => IndInv'
<1> SUFFICES ASSUME IndInv, [Next]_vars PROVE IndInv'
  OBVIOUS
<1>1. TypeOK /\ OpsCounted
  BY DEF IndInv
<1>2. OpsCounted' /\ TypeOK'
  BY <1>1, OpsCountedPreserved, TypePreserved
<1>3. OwnerSerialised' /\ FlagsFollowPhase' /\ QuietEstablished' /\ Exclusive'
  BY OwnerSerialisedPreserved, FlagsPreserved, QuietPreserved, ExclusivePreserved
<1> QED
  BY <1>2, <1>3 DEF IndInv

\* The invariant holds in every reachable state.
THEOREM Invariance == Spec => []IndInv
<1>1. Init => IndInv
  BY InitEstablishes
<1>2. IndInv /\ [Next]_vars => IndInv'
  BY Inductive
<1> QED
  BY <1>1, <1>2, PTL DEF Spec

\* Type correctness of the guard, its readers and its owner.
THEOREM TypeCorrect == Spec => []TypeOK
<1>1. IndInv => TypeOK
  BY DEF IndInv
<1> QED
  BY <1>1, Invariance, PTL

\* Background work is excluded from the switch, the settle interval and the
\* wait for the first render, for any number of tasks and any interleaving of
\* their atomic accesses with the owner's (tryAcquireActivity, beginSwitch).
THEOREM ExclusiveSwitch == Spec => []Exclusive
<1>1. IndInv => Exclusive
  BY DEF IndInv
<1> QED
  BY <1>1, Invariance, PTL

\* The counter of active operations is exact: every fetch_add is matched by
\* one fetch_sub, on the refused path as well (releaseActivity).
THEOREM OperationsCounted == Spec => []OpsCounted
<1>1. IndInv => OpsCounted
  BY DEF IndInv
<1> QED
  BY <1>1, Invariance, PTL

\* While the display runs a closed guard always has an owner that will go on
\* with the wake (the flags of BacklightManager).
THEOREM ClosureOwned == Spec => []ClosureHasOwner
<1>1. IndInv => ClosureHasOwner
  BY DEF IndInv, FlagsFollowPhase, ClosureHasOwner
<1> QED
  BY <1>1, Invariance, PTL

\* Only SwitchClaim leaves PreQuiet for Switching, and it is preceded by a
\* full quiet interval (evaluateSwitch, beginSwitch).
THEOREM SwitchAfterQuiet == Spec => QuietBeforeSwitch
<1> DEFINE Quiet == calm /\ Holders = {} /\ Since(opNow, quiet) >= MinQuiet
<1>1. ASSUME IndInv, [Next]_vars, phase = "PreQuiet", phase' = "Switching"
      PROVE  op = "claim" /\ SwitchClaim
  <2>1. CASE Tick \/ UiLock \/ Command \/ Quiesce \/ UNCHANGED vars
    BY <1>1, <2>1 DEF Tick, UiLock, Command, RequestWake, TurnOff, Cancel, Quiesce,
       Latch, CloseBus, Abort, AbortFails, vars, guardVars
  <2>2. CASE OwnerStep
    BY <1>1, <2>2 DEF OwnerStep, Stamp, Refuse, Close, Process, Evaluate,
       EvaluateTooLate, SwitchCheck, SwitchClaim, DriverSkipped, Cancel, Switched,
       Finalize, Arm, Complete, PollNothing, Refreshed, guardVars
  <2>3. ASSUME NEW t \in Tasks, Acquire(t) \/ Release(t)
        PROVE  FALSE
    BY <1>1, <2>3 DEF Acquire, Sample, LoadPhase, LoadStarted, Expire, LoadIdle, FetchAdd,
       Recheck, Undo, Release, guardVars
  <2> QED
    BY <1>1, <2>1, <2>2, <2>3 DEF Next, Step
<1>2. ASSUME IndInv, phase = "PreQuiet", op = "claim"
      PROVE  Quiet
  BY <1>2 DEF IndInv, QuietEstablished
<1>3. IndInv /\ [Next]_vars => [phase = "PreQuiet" /\ phase' = "Switching" => Quiet]_vars
  BY <1>1, <1>2
<1> QED
  BY <1>3, Invariance, PTL DEF Spec, QuietBeforeSwitch

\* The settle interval is ended by finalizeGuardedWake or by the abandonment
\* of the display only, and by neither before its deadline.
THEOREM SettleKept == Spec => SettleIsKept
<1> DEFINE Over == ~DeadlinePending(IF op = "poll" THEN opNow ELSE clock, settleUntil)
<1>1. ASSUME IndInv, [Next]_vars, phase = "Settle", phase' # "Settle"
      PROVE  Over
  <2> USE DEF IndInv, FlagsFollowPhase, OwnerSerialised
  <2>1. CASE Finalize
    BY <2>1 DEF Finalize
  <2>2. CASE Abort
    BY <1>1, <2>2 DEF Abort
  <2>3. CASE TurnOff
    BY <1>1, <2>3 DEF TurnOff, MayCommand, MayCancel
  <2>4. CASE Tick \/ UiLock \/ RequestWake \/ Latch \/ CloseBus \/ AbortFails \/ UNCHANGED vars
    BY <1>1, <2>4 DEF Tick, UiLock, RequestWake, Latch, CloseBus, AbortFails, vars, guardVars
  <2>5. CASE OwnerStep /\ ~Finalize
    BY <1>1, <2>5 DEF OwnerStep, Stamp, Refuse, Close, Process, Evaluate,
       EvaluateTooLate, SwitchCheck, SwitchClaim, DriverSkipped, Switched,
       Arm, Complete, PollNothing, Refreshed, guardVars
  <2>6. ASSUME NEW t \in Tasks, Acquire(t) \/ Release(t)
        PROVE  FALSE
    BY <1>1, <2>6 DEF Acquire, Sample, LoadPhase, LoadStarted, Expire, LoadIdle, FetchAdd,
       Recheck, Undo, Release, guardVars
  <2> QED
    BY <1>1, <2>1, <2>2, <2>3, <2>4, <2>5, <2>6 DEF Next, Step, Command, Quiesce
<1>2. IndInv /\ [Next]_vars => [phase = "Settle" /\ phase' # "Settle" => Over]_vars
  BY <1>1
<1> QED
  BY <1>2, Invariance, PTL DEF Spec, SettleIsKept
=============================================================================
