--------------------------- MODULE OtaRestartProofs ---------------------------
(***************************************************************************)
(* The safety properties of OtaRestart for any number of tasks that ask    *)
(* for a restart and any bounds.  Their conjunction is inductive: the      *)
(* exclusion of upload and shutdown rests on the gate being held exactly   *)
(* while a request is in progress, and that nothing is lost rests on the   *)
(* step each task has reached.                                             *)
(***************************************************************************)
EXTENDS OtaRestart, TLAPS

Inv ==
  TypeOK /\ GateIsTheSession /\ ShutdownExcludesUpload /\ RestartNotLost /\ RestartWasAsked

LEMMA Roles ==
  /\ Http \in Tasks /\ Net \in Tasks /\ Main \in Tasks /\ Callers \subseteq Tasks
  /\ Http # Net /\ Http # Main /\ Net # Main
  /\ Http \notin Callers /\ Net \notin Callers /\ Main \notin Callers
BY TasksAssumption DEF Tasks

LEMMA InitInv == Init => Inv
<1> SUFFICES ASSUME Init PROVE Inv  OBVIOUS
<1> USE Roles, BoundsAssumption DEF Init
<1>1. TypeOK
  <2>1. 0 \in 0 .. MaxAsked /\ 0 \in 0 .. MaxUploads  OBVIOUS
  <2>2. pc \in [Tasks -> AtHttp \cup AtMain \cup Polling]  BY DEF AtHttp
  <2> QED  BY <2>1, <2>2 DEF TypeOK, AtHttp, AtMain
<1>2. GateIsTheSession /\ ShutdownExcludesUpload /\ RestartNotLost
  BY DEF GateIsTheSession, ShutdownExcludesUpload, RestartNotLost, Uploading
<1>3. RestartWasAsked  BY DEF RestartWasAsked, Underway, OnItsWay, Polling
<1> QED  BY <1>1, <1>2, <1>3 DEF Inv

LEMMA ScheduleKeeps ==
  ASSUME Inv, NEW t \in Callers \cup {Http, Main}, Schedule(t)
  PROVE  Inv'
<1> USE Roles, BoundsAssumption DEF Inv, TypeOK, others, controller, counters, Go, Goes
<1>1. CASE ClearRequest(t)
  <2> USE <1>1 DEF ClearRequest
  <2>1. TypeOK'
    <3>1. pc' \in [Tasks -> AtHttp \cup AtMain \cup Polling]
      BY DEF AtHttp, AtMain, Polling, Scheduling, Uploading
    <3>2. /\ pc'[Http] \in AtHttp /\ pc'[Main] \in AtMain
          /\ pc'[Net] \in {"idle"} \cup Polling
          /\ \A u \in Callers : pc'[u] \in {"idle"} \cup Scheduling
      BY DEF AtHttp, AtMain, Polling, Scheduling, Uploading
    <3> QED  BY <3>1, <3>2
  <2>2. GateIsTheSession' /\ ShutdownExcludesUpload'
    BY DEF GateIsTheSession, ShutdownExcludesUpload, Uploading, Scheduling
  <2>3. RestartNotLost'  BY DEF RestartNotLost, OnItsWay
  <2>4. RestartWasAsked'  BY DEF RestartWasAsked, Underway, OnItsWay, Polling
  <2> QED  BY <2>1, <2>2, <2>3, <2>4
<1>2. CASE SetDue(t)
  <2> USE <1>2 DEF SetDue
  <2>1. TypeOK'
    <3>1. pc' \in [Tasks -> AtHttp \cup AtMain \cup Polling]
      BY DEF AtHttp, AtMain, Polling, Scheduling, Uploading
    <3>2. /\ pc'[Http] \in AtHttp /\ pc'[Main] \in AtMain
          /\ pc'[Net] \in {"idle"} \cup Polling
          /\ \A u \in Callers : pc'[u] \in {"idle"} \cup Scheduling
      BY DEF AtHttp, AtMain, Polling, Scheduling, Uploading
    <3> QED  BY <3>1, <3>2
  <2>2. GateIsTheSession' /\ ShutdownExcludesUpload'
    BY DEF GateIsTheSession, ShutdownExcludesUpload, Uploading, Scheduling
  <2>3. RestartNotLost'  BY DEF RestartNotLost, OnItsWay
  <2>4. RestartWasAsked'  BY DEF RestartWasAsked, Underway, OnItsWay, Polling
  <2> QED  BY <2>1, <2>2, <2>3, <2>4
<1>3. CASE SetDeferred(t)
  <2> USE <1>3 DEF SetDeferred
  <2>1. TypeOK'
    <3>1. pc' \in [Tasks -> AtHttp \cup AtMain \cup Polling]
      BY DEF AtHttp, AtMain, Polling, Scheduling, Uploading
    <3>2. /\ pc'[Http] \in AtHttp /\ pc'[Main] \in AtMain
          /\ pc'[Net] \in {"idle"} \cup Polling
          /\ \A u \in Callers : pc'[u] \in {"idle"} \cup Scheduling
      BY DEF AtHttp, AtMain, Polling, Scheduling, Uploading
    <3> QED  BY <3>1, <3>2
  <2>2. GateIsTheSession' /\ ShutdownExcludesUpload'
    BY DEF GateIsTheSession, ShutdownExcludesUpload, Uploading, Scheduling
  <2>3. RestartNotLost'  BY DEF RestartNotLost, OnItsWay
  <2>4. RestartWasAsked'  BY DEF RestartWasAsked, Underway, OnItsWay, Polling
  <2> QED  BY <2>1, <2>2, <2>3, <2>4
<1> QED  BY <1>1, <1>2, <1>3 DEF Schedule

LEMMA AskKeeps ==
  ASSUME Inv, NEW t \in Callers \cup {Http, Main},
         NEW from \in {"idle", "rest", "admit", "upload"}, Asks(t, from)
  PROVE  Inv'
<1> USE Roles, BoundsAssumption DEF Inv, TypeOK, others, controller, counters, Go, Goes, Asks
<1>1. TypeOK'
  <2>1. pc' \in [Tasks -> AtHttp \cup AtMain \cup Polling]
    BY DEF AtHttp, Scheduling
  <2>2. /\ pc'[Http] \in AtHttp /\ pc'[Main] \in AtMain
        /\ pc'[Net] \in {"idle"} \cup Polling
        /\ \A u \in Callers : pc'[u] \in {"idle"} \cup Scheduling
    BY DEF AtHttp, AtMain, Scheduling
  <2>3. asked' \in 0 .. MaxAsked  OBVIOUS
  <2> QED  BY <2>1, <2>2, <2>3
<1>2. GateIsTheSession' /\ ShutdownExcludesUpload'
  <2>1. pc'[Http] = pc[Http] \/ (pc'[Http] = "clearRequest" /\ t = Http)
    OBVIOUS
  <2>2. pc'[Main] = pc[Main] \/ pc'[Main] = "clearRequest"  OBVIOUS
  <2>3. GateIsTheSession'
    BY <2>1 DEF GateIsTheSession, Uploading, Scheduling
  <2>4. ShutdownExcludesUpload'  BY <2>2 DEF ShutdownExcludesUpload
  <2> QED  BY <2>3, <2>4
<1>3. RestartNotLost'  BY DEF RestartNotLost, OnItsWay
<1>4. RestartWasAsked'  BY DEF RestartWasAsked
<1> QED  BY <1>1, <1>2, <1>3, <1>4

LEMMA PollKeeps ==
  ASSUME Inv, NetNext
  PROVE  Inv'
<1> USE Roles, BoundsAssumption DEF Inv, TypeOK, others, controller, counters, Go, Goes
<1>1. CASE PollDeferred
  <2> USE <1>1 DEF PollDeferred
  <2>1. TypeOK'
    <3>1. pc' \in [Tasks -> AtHttp \cup AtMain \cup Polling]
      BY DEF AtHttp, AtMain, Polling, Scheduling, Uploading
    <3>2. /\ pc'[Http] \in AtHttp /\ pc'[Main] \in AtMain
          /\ pc'[Net] \in {"idle"} \cup Polling
          /\ \A u \in Callers : pc'[u] \in {"idle"} \cup Scheduling
      BY DEF AtHttp, AtMain, Polling, Scheduling, Uploading
    <3> QED  BY <3>1, <3>2
  <2>2. GateIsTheSession' /\ ShutdownExcludesUpload'
    BY DEF GateIsTheSession, ShutdownExcludesUpload, Uploading, Scheduling
  <2>3. RestartNotLost'  BY DEF RestartNotLost, OnItsWay
  <2>4. RestartWasAsked'  BY DEF RestartWasAsked, Underway, OnItsWay, Polling
  <2> QED  BY <2>1, <2>2, <2>3, <2>4
<1>2. CASE PollDue
  <2> USE <1>2 DEF PollDue
  <2>1. TypeOK'
    <3>1. pc' \in [Tasks -> AtHttp \cup AtMain \cup Polling]
      BY DEF AtHttp, AtMain, Polling, Scheduling, Uploading
    <3>2. /\ pc'[Http] \in AtHttp /\ pc'[Main] \in AtMain
          /\ pc'[Net] \in {"idle"} \cup Polling
          /\ \A u \in Callers : pc'[u] \in {"idle"} \cup Scheduling
      BY DEF AtHttp, AtMain, Polling, Scheduling, Uploading
    <3> QED  BY <3>1, <3>2
  <2>2. GateIsTheSession' /\ ShutdownExcludesUpload'
    BY DEF GateIsTheSession, ShutdownExcludesUpload, Uploading, Scheduling
  <2>3. RestartNotLost'  BY DEF RestartNotLost, OnItsWay
  <2>4. RestartWasAsked'  BY DEF RestartWasAsked, Underway, OnItsWay, Polling
  <2> QED  BY <2>1, <2>2, <2>3, <2>4
<1>3. CASE ClearDeferred
  <2> USE <1>3 DEF ClearDeferred
  <2>1. TypeOK'
    <3>1. pc' \in [Tasks -> AtHttp \cup AtMain \cup Polling]
      BY DEF AtHttp, AtMain, Polling, Scheduling, Uploading
    <3>2. /\ pc'[Http] \in AtHttp /\ pc'[Main] \in AtMain
          /\ pc'[Net] \in {"idle"} \cup Polling
          /\ \A u \in Callers : pc'[u] \in {"idle"} \cup Scheduling
      BY DEF AtHttp, AtMain, Polling, Scheduling, Uploading
    <3> QED  BY <3>1, <3>2
  <2>2. GateIsTheSession' /\ ShutdownExcludesUpload'
    BY DEF GateIsTheSession, ShutdownExcludesUpload, Uploading, Scheduling
  <2>3. RestartNotLost'  BY DEF RestartNotLost, OnItsWay
  <2>4. RestartWasAsked'  BY DEF RestartWasAsked, Underway, OnItsWay, Polling
  <2> QED  BY <2>1, <2>2, <2>3, <2>4
<1>4. CASE ClearDue
  <2> USE <1>4 DEF ClearDue
  <2>1. TypeOK'
    <3>1. pc' \in [Tasks -> AtHttp \cup AtMain \cup Polling]
      BY DEF AtHttp, AtMain, Polling, Scheduling, Uploading
    <3>2. /\ pc'[Http] \in AtHttp /\ pc'[Main] \in AtMain
          /\ pc'[Net] \in {"idle"} \cup Polling
          /\ \A u \in Callers : pc'[u] \in {"idle"} \cup Scheduling
      BY DEF AtHttp, AtMain, Polling, Scheduling, Uploading
    <3> QED  BY <3>1, <3>2
  <2>2. GateIsTheSession' /\ ShutdownExcludesUpload'
    BY DEF GateIsTheSession, ShutdownExcludesUpload, Uploading, Scheduling
  <2>3. RestartNotLost'  BY DEF RestartNotLost, OnItsWay
  <2>4. RestartWasAsked'  BY DEF RestartWasAsked, Underway, OnItsWay, Polling
  <2> QED  BY <2>1, <2>2, <2>3, <2>4
<1>5. CASE Raise
  <2> USE <1>5 DEF Raise
  <2>1. TypeOK'
    <3>1. pc' \in [Tasks -> AtHttp \cup AtMain \cup Polling]
      BY DEF AtHttp, AtMain, Polling, Scheduling, Uploading
    <3>2. /\ pc'[Http] \in AtHttp /\ pc'[Main] \in AtMain
          /\ pc'[Net] \in {"idle"} \cup Polling
          /\ \A u \in Callers : pc'[u] \in {"idle"} \cup Scheduling
      BY DEF AtHttp, AtMain, Polling, Scheduling, Uploading
    <3> QED  BY <3>1, <3>2
  <2>2. GateIsTheSession' /\ ShutdownExcludesUpload'
    BY DEF GateIsTheSession, ShutdownExcludesUpload, Uploading, Scheduling
  <2>3. RestartNotLost'  BY DEF RestartNotLost, OnItsWay
  <2>4. RestartWasAsked'  BY DEF RestartWasAsked, Underway, OnItsWay, Polling
  <2> QED  BY <2>1, <2>2, <2>3, <2>4
<1> QED  BY <1>1, <1>2, <1>3, <1>4, <1>5 DEF NetNext

LEMMA HttpKeeps ==
  ASSUME Inv, HttpNext
  PROVE  Inv'
<1> USE Roles, BoundsAssumption DEF Inv, TypeOK, others, controller, counters, Go, Goes
<1>1. CASE BusyGate
  <2> USE <1>1 DEF BusyGate
  <2>1. TypeOK'
    <3>1. pc' \in [Tasks -> AtHttp \cup AtMain \cup Polling]
      BY DEF AtHttp, AtMain, Polling, Scheduling, Uploading
    <3>2. /\ pc'[Http] \in AtHttp /\ pc'[Main] \in AtMain
          /\ pc'[Net] \in {"idle"} \cup Polling
          /\ \A u \in Callers : pc'[u] \in {"idle"} \cup Scheduling
      BY DEF AtHttp, AtMain, Polling, Scheduling, Uploading
    <3> QED  BY <3>1, <3>2
  <2>2. GateIsTheSession' /\ ShutdownExcludesUpload'
    BY DEF GateIsTheSession, ShutdownExcludesUpload, Uploading, Scheduling
  <2>3. RestartNotLost'  BY DEF RestartNotLost, OnItsWay
  <2>4. RestartWasAsked'  BY DEF RestartWasAsked, Underway, OnItsWay, Polling
  <2> QED  BY <2>1, <2>2, <2>3, <2>4
<1>2. CASE BusyDeferred
  <2> USE <1>2 DEF BusyDeferred
  <2>1. TypeOK'
    <3>1. pc' \in [Tasks -> AtHttp \cup AtMain \cup Polling]
      BY DEF AtHttp, AtMain, Polling, Scheduling, Uploading
    <3>2. /\ pc'[Http] \in AtHttp /\ pc'[Main] \in AtMain
          /\ pc'[Net] \in {"idle"} \cup Polling
          /\ \A u \in Callers : pc'[u] \in {"idle"} \cup Scheduling
      BY DEF AtHttp, AtMain, Polling, Scheduling, Uploading
    <3> QED  BY <3>1, <3>2
  <2>2. GateIsTheSession' /\ ShutdownExcludesUpload'
    BY DEF GateIsTheSession, ShutdownExcludesUpload, Uploading, Scheduling
  <2>3. RestartNotLost'  BY DEF RestartNotLost, OnItsWay
  <2>4. RestartWasAsked'  BY DEF RestartWasAsked, Underway, OnItsWay, Polling
  <2> QED  BY <2>1, <2>2, <2>3, <2>4
<1>3. CASE BusyRequested
  <2> USE <1>3 DEF BusyRequested
  <2>1. TypeOK'
    <3>1. pc' \in [Tasks -> AtHttp \cup AtMain \cup Polling]
      BY DEF AtHttp, AtMain, Polling, Scheduling, Uploading
    <3>2. /\ pc'[Http] \in AtHttp /\ pc'[Main] \in AtMain
          /\ pc'[Net] \in {"idle"} \cup Polling
          /\ \A u \in Callers : pc'[u] \in {"idle"} \cup Scheduling
      BY DEF AtHttp, AtMain, Polling, Scheduling, Uploading
    <3> QED  BY <3>1, <3>2
  <2>2. GateIsTheSession' /\ ShutdownExcludesUpload'
    BY DEF GateIsTheSession, ShutdownExcludesUpload, Uploading, Scheduling
  <2>3. RestartNotLost'  BY DEF RestartNotLost, OnItsWay
  <2>4. RestartWasAsked'  BY DEF RestartWasAsked, Underway, OnItsWay, Polling
  <2> QED  BY <2>1, <2>2, <2>3, <2>4
<1>4. CASE OtherRequest
  <2> USE <1>4 DEF OtherRequest
  <2>1. TypeOK'
    <3>1. pc' \in [Tasks -> AtHttp \cup AtMain \cup Polling]
      BY DEF AtHttp, AtMain, Polling, Scheduling, Uploading
    <3>2. /\ pc'[Http] \in AtHttp /\ pc'[Main] \in AtMain
          /\ pc'[Net] \in {"idle"} \cup Polling
          /\ \A u \in Callers : pc'[u] \in {"idle"} \cup Scheduling
      BY DEF AtHttp, AtMain, Polling, Scheduling, Uploading
    <3> QED  BY <3>1, <3>2
  <2>2. GateIsTheSession' /\ ShutdownExcludesUpload'
    BY DEF GateIsTheSession, ShutdownExcludesUpload, Uploading, Scheduling
  <2>3. RestartNotLost'  BY DEF RestartNotLost, OnItsWay
  <2>4. RestartWasAsked'  BY DEF RestartWasAsked, Underway, OnItsWay, Polling
  <2> QED  BY <2>1, <2>2, <2>3, <2>4
<1>5. CASE TryBeginUpload
  <2> USE <1>5 DEF TryBeginUpload
  <2>1. TypeOK'
    <3>1. pc' \in [Tasks -> AtHttp \cup AtMain \cup Polling]
      BY DEF AtHttp, AtMain, Polling, Scheduling, Uploading
    <3>2. /\ pc'[Http] \in AtHttp /\ pc'[Main] \in AtMain
          /\ pc'[Net] \in {"idle"} \cup Polling
          /\ \A u \in Callers : pc'[u] \in {"idle"} \cup Scheduling
      BY DEF AtHttp, AtMain, Polling, Scheduling, Uploading
    <3>3. uploads' \in 0 .. MaxUploads /\ gate' \in {"Idle", "Upload", "Restart"}
      OBVIOUS
    <3> QED  BY <3>1, <3>2, <3>3
  <2>2. GateIsTheSession' /\ ShutdownExcludesUpload'
    BY DEF GateIsTheSession, ShutdownExcludesUpload, Uploading, Scheduling
  <2>3. RestartNotLost'  BY DEF RestartNotLost, OnItsWay
  <2>4. RestartWasAsked'  BY DEF RestartWasAsked, Underway, OnItsWay, Polling
  <2> QED  BY <2>1, <2>2, <2>3, <2>4
<1>6. CASE UploadFails
  <2> USE <1>6 DEF UploadFails
  <2>1. TypeOK'
    <3>1. pc' \in [Tasks -> AtHttp \cup AtMain \cup Polling]
      BY DEF AtHttp, AtMain, Polling, Scheduling, Uploading
    <3>2. /\ pc'[Http] \in AtHttp /\ pc'[Main] \in AtMain
          /\ pc'[Net] \in {"idle"} \cup Polling
          /\ \A u \in Callers : pc'[u] \in {"idle"} \cup Scheduling
      BY DEF AtHttp, AtMain, Polling, Scheduling, Uploading
    <3> QED  BY <3>1, <3>2
  <2>2. GateIsTheSession' /\ ShutdownExcludesUpload'
    BY DEF GateIsTheSession, ShutdownExcludesUpload, Uploading, Scheduling
  <2>3. RestartNotLost'  BY DEF RestartNotLost, OnItsWay
  <2>4. RestartWasAsked'  BY DEF RestartWasAsked, Underway, OnItsWay, Polling
  <2> QED  BY <2>1, <2>2, <2>3, <2>4
<1>7. CASE EndUpload
  <2> USE <1>7 DEF EndUpload
  <2>1. TypeOK'
    <3>1. pc' \in [Tasks -> AtHttp \cup AtMain \cup Polling]
      BY DEF AtHttp, AtMain, Polling, Scheduling, Uploading
    <3>2. /\ pc'[Http] \in AtHttp /\ pc'[Main] \in AtMain
          /\ pc'[Net] \in {"idle"} \cup Polling
          /\ \A u \in Callers : pc'[u] \in {"idle"} \cup Scheduling
      BY DEF AtHttp, AtMain, Polling, Scheduling, Uploading
    <3>3. gate' \in {"Idle", "Upload", "Restart"}  OBVIOUS
    <3> QED  BY <3>1, <3>2, <3>3
  <2>2. GateIsTheSession' /\ ShutdownExcludesUpload'
    BY DEF GateIsTheSession, ShutdownExcludesUpload, Uploading, Scheduling
  <2>3. RestartNotLost'  BY DEF RestartNotLost, OnItsWay
  <2>4. RestartWasAsked'  BY DEF RestartWasAsked, Underway, OnItsWay, Polling
  <2> QED  BY <2>1, <2>2, <2>3, <2>4
<1>8. CASE SettingsRestart  BY <1>8, AskKeeps DEF SettingsRestart
<1>9. CASE UploadSucceeds  BY <1>9, AskKeeps DEF UploadSucceeds
<1>10. CASE Schedule(Http)  BY <1>10, ScheduleKeeps
<1> QED  BY <1>1, <1>2, <1>3, <1>4, <1>5, <1>6, <1>7, <1>8,
         <1>9, <1>10 DEF HttpNext

LEMMA LoopKeeps ==
  ASSUME Inv, LoopNext
  PROVE  Inv'
<1> USE Roles, BoundsAssumption DEF Inv, TypeOK, others, controller, counters, Go, Goes
<1>1. CASE ConsumeRequest
  <2> USE <1>1 DEF ConsumeRequest
  <2>1. TypeOK'
    <3>1. pc' \in [Tasks -> AtHttp \cup AtMain \cup Polling]
      BY DEF AtHttp, AtMain, Polling, Scheduling, Uploading
    <3>2. /\ pc'[Http] \in AtHttp /\ pc'[Main] \in AtMain
          /\ pc'[Net] \in {"idle"} \cup Polling
          /\ \A u \in Callers : pc'[u] \in {"idle"} \cup Scheduling
      BY DEF AtHttp, AtMain, Polling, Scheduling, Uploading
    <3>3. pending' \in BOOLEAN  OBVIOUS
    <3> QED  BY <3>1, <3>2, <3>3
  <2>2. GateIsTheSession' /\ ShutdownExcludesUpload'
    BY DEF GateIsTheSession, ShutdownExcludesUpload, Uploading, Scheduling
  <2>3. RestartNotLost'  BY DEF RestartNotLost, OnItsWay
  <2>4. RestartWasAsked'  BY DEF RestartWasAsked, Underway, OnItsWay, Polling
  <2> QED  BY <2>1, <2>2, <2>3, <2>4
<1>2. CASE TryBeginRestart
  <2> USE <1>2 DEF TryBeginRestart, MayRestart
  <2>1. TypeOK'
    <3>1. pc' \in [Tasks -> AtHttp \cup AtMain \cup Polling]
      BY DEF AtHttp, AtMain, Polling, Scheduling, Uploading
    <3>2. /\ pc'[Http] \in AtHttp /\ pc'[Main] \in AtMain
          /\ pc'[Net] \in {"idle"} \cup Polling
          /\ \A u \in Callers : pc'[u] \in {"idle"} \cup Scheduling
      BY DEF AtHttp, AtMain, Polling, Scheduling, Uploading
    <3>3. gate' \in {"Idle", "Upload", "Restart"}  OBVIOUS
    <3> QED  BY <3>1, <3>2, <3>3
  <2>2. GateIsTheSession' /\ ShutdownExcludesUpload'
    BY DEF GateIsTheSession, ShutdownExcludesUpload, Uploading, Scheduling
  <2>3. RestartNotLost'  BY DEF RestartNotLost, OnItsWay
  <2>4. RestartWasAsked'  BY DEF RestartWasAsked, Underway, OnItsWay, Polling
  <2> QED  BY <2>1, <2>2, <2>3, <2>4
<1>3. CASE NoRestart
  <2> USE <1>3 DEF NoRestart
  <2>1. TypeOK'
    <3>1. pc' \in [Tasks -> AtHttp \cup AtMain \cup Polling]
      BY DEF AtHttp, AtMain, Polling, Scheduling, Uploading
    <3>2. /\ pc'[Http] \in AtHttp /\ pc'[Main] \in AtMain
          /\ pc'[Net] \in {"idle"} \cup Polling
          /\ \A u \in Callers : pc'[u] \in {"idle"} \cup Scheduling
      BY DEF AtHttp, AtMain, Polling, Scheduling, Uploading
    <3> QED  BY <3>1, <3>2
  <2>2. GateIsTheSession' /\ ShutdownExcludesUpload'
    BY DEF GateIsTheSession, ShutdownExcludesUpload, Uploading, Scheduling
  <2>3. RestartNotLost'  BY DEF RestartNotLost, OnItsWay
  <2>4. RestartWasAsked'  BY DEF RestartWasAsked, Underway, OnItsWay, Polling
  <2> QED  BY <2>1, <2>2, <2>3, <2>4
<1>4. CASE Rest
  <2> USE <1>4 DEF Rest
  <2>1. TypeOK'
    <3>1. pc' \in [Tasks -> AtHttp \cup AtMain \cup Polling]
      BY DEF AtHttp, AtMain, Polling, Scheduling, Uploading
    <3>2. /\ pc'[Http] \in AtHttp /\ pc'[Main] \in AtMain
          /\ pc'[Net] \in {"idle"} \cup Polling
          /\ \A u \in Callers : pc'[u] \in {"idle"} \cup Scheduling
      BY DEF AtHttp, AtMain, Polling, Scheduling, Uploading
    <3>3. worker' \in BOOLEAN  OBVIOUS
    <3> QED  BY <3>1, <3>2, <3>3
  <2>2. GateIsTheSession' /\ ShutdownExcludesUpload'
    BY DEF GateIsTheSession, ShutdownExcludesUpload, Uploading, Scheduling
  <2>3. RestartNotLost'  BY DEF RestartNotLost, OnItsWay
  <2>4. RestartWasAsked'  BY DEF RestartWasAsked, Underway, OnItsWay, Polling
  <2> QED  BY <2>1, <2>2, <2>3, <2>4
<1>5. CASE Restart
  <2> USE <1>5 DEF Restart
  <2>1. TypeOK'
    <3>1. pc' \in [Tasks -> AtHttp \cup AtMain \cup Polling]
      BY DEF AtHttp, AtMain, Polling, Scheduling, Uploading
    <3>2. /\ pc'[Http] \in AtHttp /\ pc'[Main] \in AtMain
          /\ pc'[Net] \in {"idle"} \cup Polling
          /\ \A u \in Callers : pc'[u] \in {"idle"} \cup Scheduling
      BY DEF AtHttp, AtMain, Polling, Scheduling, Uploading
    <3> QED  BY <3>1, <3>2
  <2>2. GateIsTheSession' /\ ShutdownExcludesUpload'
    BY DEF GateIsTheSession, ShutdownExcludesUpload, Uploading, Scheduling
  <2>3. RestartNotLost'  BY DEF RestartNotLost, OnItsWay
  <2>4. RestartWasAsked'  BY DEF RestartWasAsked, Underway, OnItsWay, Polling
  <2> QED  BY <2>1, <2>2, <2>3, <2>4
<1>6. CASE Schedule(Main)  BY <1>6, ScheduleKeeps
<1> QED  BY <1>1, <1>2, <1>3, <1>4, <1>5, <1>6 DEF LoopNext

LEMMA TimeKeeps ==
  ASSUME Inv, Elapse \/ HalfTurn \/ WorkerEnds \/ UNCHANGED vars
  PROVE  Inv'
<1> USE Roles, BoundsAssumption DEF Inv, TypeOK, others, controller, counters, Go, Goes
<1>1. CASE Elapse
  <2> USE <1>1 DEF Elapse
  <2>1. TypeOK'
    <3>1. pc' \in [Tasks -> AtHttp \cup AtMain \cup Polling]
      BY DEF AtHttp, AtMain, Polling, Scheduling, Uploading
    <3>2. /\ pc'[Http] \in AtHttp /\ pc'[Main] \in AtMain
          /\ pc'[Net] \in {"idle"} \cup Polling
          /\ \A u \in Callers : pc'[u] \in {"idle"} \cup Scheduling
      BY DEF AtHttp, AtMain, Polling, Scheduling, Uploading
    <3>3. due' \in {"zero", "future", "past"} /\ promised' \in BOOLEAN
      OBVIOUS
    <3> QED  BY <3>1, <3>2, <3>3
  <2>2. GateIsTheSession' /\ ShutdownExcludesUpload'
    BY DEF GateIsTheSession, ShutdownExcludesUpload, Uploading, Scheduling
  <2>3. RestartNotLost'  BY DEF RestartNotLost, OnItsWay
  <2>4. RestartWasAsked'  BY DEF RestartWasAsked, Underway, OnItsWay, Polling
  <2> QED  BY <2>1, <2>2, <2>3, <2>4
<1>2. CASE HalfTurn
  <2> USE <1>2 DEF HalfTurn
  <2>1. TypeOK'
    <3>1. pc' \in [Tasks -> AtHttp \cup AtMain \cup Polling]
      BY DEF AtHttp, AtMain, Polling, Scheduling, Uploading
    <3>2. /\ pc'[Http] \in AtHttp /\ pc'[Main] \in AtMain
          /\ pc'[Net] \in {"idle"} \cup Polling
          /\ \A u \in Callers : pc'[u] \in {"idle"} \cup Scheduling
      BY DEF AtHttp, AtMain, Polling, Scheduling, Uploading
    <3> QED  BY <3>1, <3>2
  <2>2. GateIsTheSession' /\ ShutdownExcludesUpload'
    BY DEF GateIsTheSession, ShutdownExcludesUpload, Uploading, Scheduling
  <2>3. RestartNotLost'  BY DEF RestartNotLost, OnItsWay
  <2>4. RestartWasAsked'  BY DEF RestartWasAsked, Underway, OnItsWay, Polling
  <2> QED  BY <2>1, <2>2, <2>3, <2>4
<1>3. CASE WorkerEnds
  <2> USE <1>3 DEF WorkerEnds
  <2>1. TypeOK'
    <3>1. pc' \in [Tasks -> AtHttp \cup AtMain \cup Polling]
      BY DEF AtHttp, AtMain, Polling, Scheduling, Uploading
    <3>2. /\ pc'[Http] \in AtHttp /\ pc'[Main] \in AtMain
          /\ pc'[Net] \in {"idle"} \cup Polling
          /\ \A u \in Callers : pc'[u] \in {"idle"} \cup Scheduling
      BY DEF AtHttp, AtMain, Polling, Scheduling, Uploading
    <3> QED  BY <3>1, <3>2
  <2>2. GateIsTheSession' /\ ShutdownExcludesUpload'
    BY DEF GateIsTheSession, ShutdownExcludesUpload, Uploading, Scheduling
  <2>3. RestartNotLost'  BY DEF RestartNotLost, OnItsWay
  <2>4. RestartWasAsked'  BY DEF RestartWasAsked, Underway, OnItsWay, Polling
  <2> QED  BY <2>1, <2>2, <2>3, <2>4
<1>4. CASE UNCHANGED vars
  <2> USE <1>4 DEF vars
  <2>1. TypeOK'
    <3>1. pc' \in [Tasks -> AtHttp \cup AtMain \cup Polling]
      BY DEF AtHttp, AtMain, Polling, Scheduling, Uploading
    <3>2. /\ pc'[Http] \in AtHttp /\ pc'[Main] \in AtMain
          /\ pc'[Net] \in {"idle"} \cup Polling
          /\ \A u \in Callers : pc'[u] \in {"idle"} \cup Scheduling
      BY DEF AtHttp, AtMain, Polling, Scheduling, Uploading
    <3> QED  BY <3>1, <3>2
  <2>2. GateIsTheSession' /\ ShutdownExcludesUpload'
    BY DEF GateIsTheSession, ShutdownExcludesUpload, Uploading, Scheduling
  <2>3. RestartNotLost'  BY DEF RestartNotLost, OnItsWay
  <2>4. RestartWasAsked'  BY DEF RestartWasAsked, Underway, OnItsWay, Polling
  <2> QED  BY <2>1, <2>2, <2>3, <2>4
<1> QED  BY <1>1, <1>2, <1>3, <1>4

LEMMA NextInv == Inv /\ [Next]_vars => Inv'
<1> SUFFICES ASSUME Inv, [Next]_vars PROVE Inv'  OBVIOUS
<1>1. CASE HttpNext  BY <1>1, HttpKeeps
<1>2. CASE NetNext  BY <1>2, PollKeeps
<1>3. CASE LoopNext  BY <1>3, LoopKeeps
<1>4. CASE RestAsks  BY <1>4, AskKeeps, Roles DEF RestAsks
<1>5. CASE \E t \in Callers : RequestRestart(t) \/ Schedule(t)
  BY <1>5, AskKeeps, ScheduleKeeps DEF RequestRestart
<1>6. CASE Elapse \/ HalfTurn \/ WorkerEnds \/ Off \/ UNCHANGED vars
  BY <1>6, TimeKeeps DEF Off
<1> QED  BY <1>1, <1>2, <1>3, <1>4, <1>5, <1>6 DEF Next

(* Every reachable state satisfies Inv.                                    *)
THEOREM Invariance == Spec => []Inv
BY InitInv, NextInv, PTL DEF Spec

(* The type invariant.                                                     *)
THEOREM TypeCorrect == Spec => []TypeOK
<1>1. Inv => TypeOK  BY DEF Inv
<1> QED  BY <1>1, Invariance, PTL

(* No upload is in progress once loop() shuts the device down, whatever    *)
(* the tasks read before (OtaRestartGate, main.cpp).                       *)
THEOREM NoShutdownDuringUpload == Spec => []ShutdownExcludesUpload
<1>1. Inv => ShutdownExcludesUpload  BY DEF Inv
<1> QED  BY <1>1, Invariance, PTL

(* The gate is held by an upload exactly while its request is in progress. *)
THEOREM GateReleased == Spec => []GateIsTheSession
<1>1. Inv => GateIsTheSession  BY DEF Inv
<1> QED  BY <1>1, Invariance, PTL

(* No interleaving of schedule(), poll() and consume_request() loses a     *)
(* restart that was scheduled.                                             *)
THEOREM NotLost == Spec => []RestartNotLost
<1>1. Inv => RestartNotLost  BY DEF Inv
<1> QED  BY <1>1, Invariance, PTL

(* No restart is under way that no task asked for.                         *)
THEOREM OnlyAsked == Spec => []RestartWasAsked
<1>1. Inv => RestartWasAsked  BY DEF Inv
<1> QED  BY <1>1, Invariance, PTL
=============================================================================
