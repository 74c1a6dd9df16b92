----------------------------- MODULE StorageManager -----------------------------
(***************************************************************************)
(* StorageManager.cpp, BootPolicy.cpp and the boot counters: the settings  *)
(* in RAM and on flash, the last known good copy, the crash loop that ends *)
(* in a rollback or a factory reset, and a reset between any two steps.    *)
(*                                                                         *)
(* persistence_mutex_ is held for one call of saveConfig, requestSave,     *)
(* poll, observeLastGoodHealth or begin: the mutex is free when no file    *)
(* job runs.  Nothing else is locked: a setter copies config_, changes it, *)
(* saves or removes certificates and puts everything back in steps of its  *)
(* own, and the setters of several tasks interleave there.                 *)
(*                                                                         *)
(* A configuration is the version of its Wi-Fi settings and the version of *)
(* the rest; version 0 is the defaults.  A call on a certificate is two    *)
(* steps, its start and its effect: AtomicFilesProofs shows that a save    *)
(* takes effect at once or not at all.  Debounce, samples and the retry    *)
(* delay are steps that may come at any time; the mount succeeds.          *)
(***************************************************************************)
EXTENDS AtomicFiles

CONSTANTS
  Config, LastGood,   \* kConfigPath, kLastGoodPath
  Tasks,              \* the tasks that call the setters
  Main,               \* the one of loop(), which polls and boots
  CertCount,          \* the sidecar files of the Wi-Fi settings
  MaxVersion,         \* bound: changes that are asked for
  Mixed,              \* Wi-Fi settings of which some fields are assigned
  Bad,                \* versions with which the device crashes soon after boot
  MaxReboots,         \* SAFE_BOOT_MAX_REBOOTS
  Dwell,              \* LAST_GOOD_COMMIT_DELAY_MS, in healthy intervals
  RtcDataKept         \* does RTC_DATA_ATTR memory survive a crash reset?

Versions == 0 .. MaxVersion
Certificates == 1 .. CertCount
Text == Versions \cup {None, Partial}    \* of a certificate

ASSUME PathsAssumption == Config # LastGood /\ Paths = {Config, LastGood}
ASSUME TasksAssumption == Main \in Tasks /\ CertCount \in Nat \ {0}
ASSUME VersionsAssumption ==
  /\ MaxVersion \in Nat /\ Values = [wifi : Versions \cup {Mixed}, rest : Versions]
  /\ Bad \subseteq Versions \ {0} /\ {Mixed, None, Partial} \cap Versions = {}
ASSUME LimitsAssumption ==
  /\ MaxReboots \in Nat \ {0} /\ Dwell \in Nat \ {0}
  /\ RtcDataKept \in BOOLEAN

VARIABLES
  mem,      \* the fields of StorageManager
  texts,    \* what a reader finds of each certificate
  op,       \* the operation in progress of each task
  crossed,  \* history: a rollback has crossed another task's save, see RamIsOnFlash
  tainted,  \* history: the last known good was copied while that was so
  boot,     \* the boot counters, and what setup() and loop() know of this boot
  made,     \* the newest version
  suspect   \* healthy intervals with a bad version in RAM, or an unfinished change

history == <<crossed, tainted>>
vars == <<files, mem, texts, op, history, boot, made, suspect>>

Defaults == [wifi |-> 0, rest |-> 0]
NoTexts == [i \in Certificates |-> None]

Fresh == [config |-> Defaults, dirty |-> FALSE, loaded |-> FALSE, pending |-> FALSE,
          window |-> FALSE, healthy |-> 0, backoff |-> FALSE]

\* prev, certs: what it copied; new, want: what it is to save; since: the
\* failures before it; marks: what other tasks did meanwhile (history but "torn")
NoOp == [name |-> "none", at |-> "idle", i |-> 1, prev |-> Defaults, certs |-> NoTexts,
         new |-> 0, want |-> NoTexts, undo |-> "dirty", since |-> 0, marks |-> {}]

NoProof(m) == [m EXCEPT !.window = FALSE, !.healthy = 0, !.backoff = FALSE]

Candidate(m) == [NoProof(m) EXCEPT !.pending = TRUE]

Init ==
  /\ FilesInit
  /\ fs[LastGood].final = None /\ fs[Config].final \in {Defaults, None}
  /\ mem = Fresh /\ texts = NoTexts /\ op = [t \in Tasks |-> NoOp]
  /\ crossed = FALSE /\ tainted = FALSE
  /\ boot = [count |-> 0, stage |-> 0, stable |-> FALSE, power |-> "reset", crash |-> FALSE]
  /\ made = 0 /\ suspect = 0

Runs(t, name, at) == boot.power = "on" /\ op[t].name = name /\ op[t].at = at
Ready(t) == Runs(t, "none", "idle") /\ op[Main].name # "begin"
Free == job.at = "idle"

\* the operation of t becomes o; those of the other tasks are marked
Heeds(o) ==
  CASE o.name = "settings" -> {"overtaken", "behind", "disturbed", "torn"}
    [] o.name = "field" -> {"overtaken", "behind"}
    [] o.name = "poll" -> {"behind"}
    [] OTHER -> {}
Moves(t, o, marks) ==
  op' = [s \in Tasks |-> IF s = t THEN o
                         ELSE [op[s] EXCEPT !.marks = @ \cup (marks \cap Heeds(op[s]))]]
At(t, at) == op' = [op EXCEPT ![t].at = at]
Answer(ok) == job.at = "done" /\ job.ok = ok /\ Ends /\ Skips
NoFile == UNCHANGED files

-----------------------------------------------------------------------------
(* saveConfig, poll and requestSave: what runs under the mutex.            *)

PersistedKeepsProof(m) ==   \* mutant: the proof of the version before goes on
  [m EXCEPT !.dirty = FALSE, !.loaded = TRUE, !.pending = TRUE]
Persisted(m) == Candidate([m EXCEPT !.dirty = FALSE, !.loaded = TRUE])

\* config_ as it is now is written, whichever task changed it
SavesConfig(t, o) ==
  /\ Starts(Config, mem.config, "config") /\ Skips
  /\ Moves(t, [o EXCEPT !.at = "ends", !.marks = @ \ {"behind"}], {"overtaken"})

SaveConfig(t) ==
  /\ boot.power = "on" /\ op[t].at = "save" /\ SavesConfig(t, op[t])
  /\ UNCHANGED <<mem, texts, history, boot, made, suspect>>

\* poll() with dirty_, after the debounce; a failure leaves it dirty
PollSave ==
  /\ Ready(Main) /\ mem.dirty /\ SavesConfig(Main, [NoOp EXCEPT !.name = "poll"])
  /\ UNCHANGED <<mem, texts, history, boot, made, suspect>>

AfterSave(o, ok) ==
  IF o.name = "settings" THEN [o EXCEPT !.at = IF ok THEN "saved" ELSE "undo"]
  ELSE IF ok \/ o.name = "poll" THEN NoOp
  ELSE [o EXCEPT !.at = IF o.undo = "revert" THEN "undo" ELSE "request"]

\* a save of what RAM still holds ends what a rollback had crossed
SaveConfigEnds(t) ==
  /\ boot.power = "on" /\ op[t].at = "ends"
  /\ \/ Answer(TRUE) /\ mem' = Persisted(mem) /\ Moves(t, AfterSave(op[t], TRUE), {})
        /\ crossed' = (crossed /\ "behind" \in op[t].marks)
     \/ Answer(FALSE) /\ Moves(t, AfterSave(op[t], FALSE), {}) /\ UNCHANGED <<mem, crossed>>
  /\ UNCHANGED <<texts, tainted, boot, made, suspect>>

RequestForgets(t) ==    \* mutant: dirty_ is not set
  /\ boot.power = "on" /\ op[t].at = "request" /\ Free /\ Moves(t, NoOp, {})
  /\ NoFile /\ UNCHANGED <<mem, texts, history, boot, made, suspect>>
Request(t) ==
  /\ boot.power = "on" /\ op[t].at = "request" /\ Free
  /\ mem' = [mem EXCEPT !.dirty = TRUE] /\ Moves(t, NoOp, {})
  /\ NoFile /\ UNCHANGED <<texts, history, boot, made, suspect>>

-----------------------------------------------------------------------------
(* The setters of a field: change it, save, and when that fails put it     *)
(* back ("revert": saveRtcMode, setNtpEnabledPref) or ask for a save later *)
(* ("dirty": saveWiFiEnabled, saveMqttEnabled, persist_ui_config).         *)

With(c, part, v) ==
  [wifi |-> IF part = "wifi" THEN v ELSE c.wifi, rest |-> IF part = "rest" THEN v ELSE c.rest]

SaveField(t, part, undo) ==
  /\ Ready(t) /\ made < MaxVersion /\ made' = made + 1
  /\ mem' = [mem EXCEPT !.config = With(@, part, made')]
  /\ Moves(t, [NoOp EXCEPT !.name = "field", !.at = "save", !.undo = undo,
                           !.prev = IF undo = "revert" THEN mem.config ELSE @],
           IF part = "wifi" THEN {"disturbed"} ELSE {})
  /\ NoFile /\ UNCHANGED <<texts, history, boot, suspect>>

\* no lock is held: another task may have saved since the copy was made
RollsBack(t, o, config, marks) ==
  /\ mem' = [mem EXCEPT !.config = config]
  /\ crossed' = (crossed \/ "overtaken" \in op[t].marks)
  /\ Moves(t, o, {"overtaken", "behind"} \cup marks)

UndoField(t) ==
  /\ Runs(t, "field", "undo")
  /\ RollsBack(t, NoOp, With(mem.config, "rest", op[t].prev.rest), {})
  /\ NoFile /\ UNCHANGED <<texts, tainted, boot, made, suspect>>

-----------------------------------------------------------------------------
(* saveWiFiSettings: the certificates, then the configuration; a failure   *)
(* puts everything back.  clearWiFiCredentials calls it with nothing.      *)

Asks(t, new, want, undo) ==
  /\ Ready(t) /\ made < MaxVersion /\ made' = made + 1
  /\ Moves(t, [NoOp EXCEPT !.name = "settings", !.at = "capture", !.prev = mem.config,
                           !.new = new, !.want = want, !.undo = undo, !.since = faults], {})
  /\ NoFile /\ UNCHANGED <<mem, texts, history, boot, suspect>>

SaveSettings ==    \* None: an empty text
  \E want \in [Certificates -> {made + 1, None}] : Asks(Main, made + 1, want, "revert")

ClearCredentials(t) == t # Main /\ Asks(t, 0, NoTexts, "dirty")

Cert(t) == op[t].i
Nth(o, at, then) ==
  [o EXCEPT !.i = IF @ = CertCount THEN 1 ELSE @ + 1, !.at = IF o.i = CertCount THEN then ELSE at]

Calls(t) == op[t].at \in {"certEnds", "restoreEnds"}
Fault == faults < MaxFaults /\ faults' = faults + 1

\* loadText: the file is not found when a call fails, or another task replaces it
Finds(t, found) ==
  \/ found = texts[Cert(t)] /\ Works
  \/ found = None /\ texts[Cert(t)] # None /\ Fault
  \/ found = None /\ Works /\ \E s \in Tasks \ {t} : Calls(s) /\ Cert(s) = Cert(t)

\* the certificates are read or written while another task writes one
Touches(t, o) ==
  [o EXCEPT !.marks = (@ \ {"torn"}) \cup (IF \E s \in Tasks \ {t} : Calls(s)
                                           THEN {"torn", "disturbed"} ELSE {})]

CaptureText(t) ==
  /\ Runs(t, "settings", "capture")
  /\ \E found \in Text :
       /\ Finds(t, found)
       /\ Moves(t, Nth([Touches(t, op[t]) EXCEPT !.certs[Cert(t)] = found], "capture", "cert"), {})
  /\ UNCHANGED <<fs, job, mem, texts, history, boot, made, suspect>>

\* Two tasks that write certificates at a time may write to the same .tmp.
StartsCall(t, at) == Moves(t, Touches(t, [op[t] EXCEPT !.at = at]), {"torn", "disturbed"})

\* saveOrRemoveText and restoreText
PutText(t, v, at, absent) ==
  \/ v # None /\ StartsCall(t, at) /\ Works
  \/ v = None /\ \E found \in Text :
       Finds(t, found) /\ IF found = None THEN Moves(t, Touches(t, absent), {}) ELSE StartsCall(t, at)

\* A save that fails changes nothing.  A removal that fails may leave the file
\* or its .bak and answers whatever its other calls did.
PutTextEnds(t, v, ok) ==
  /\ \E left \in Text :
       /\ texts' = [texts EXCEPT ![Cert(t)] = left]
       /\ \/ ok /\ left = v /\ Works
          \/ v # None /\ ~ok /\ left = texts[Cert(t)] /\ Fault
          \/ v = None /\ Fault
          \/ "torn" \in op[t].marks /\ Works

SaveText(t) ==
  /\ Runs(t, "settings", "cert")
  /\ PutText(t, op[t].want[Cert(t)], "certEnds", Nth(op[t], "cert", "assign"))
  /\ UNCHANGED <<fs, job, mem, texts, history, boot, made, suspect>>

SaveTextEnds(t) ==
  /\ Runs(t, "settings", "certEnds")
  /\ \E ok \in BOOLEAN :
       /\ PutTextEnds(t, op[t].want[Cert(t)], ok)
       /\ Moves(t, IF ok THEN Nth(op[t], "cert", "assign")
                   ELSE [op[t] EXCEPT !.at = "restore", !.i = 1], {"disturbed"})
  /\ UNCHANGED <<fs, job, mem, history, boot, made, suspect>>

\* the fields are assigned one after the other
Assigns(t, from, v, to) ==
  /\ Runs(t, "settings", from) /\ mem' = [mem EXCEPT !.config = With(@, "wifi", v)]
  /\ Moves(t, [op[t] EXCEPT !.at = to], {"disturbed"})
  /\ NoFile /\ UNCHANGED <<texts, history, boot, made, suspect>>
AssignSome(t) == Assigns(t, "assign", Mixed, "half")
AssignAll(t) == Assigns(t, "half", op[t].new, "save")

UndoSettingsOnly(t) ==     \* mutant: the certificates stay
  /\ Runs(t, "settings", "undo")
  /\ RollsBack(t, [op[t] EXCEPT !.at = "refused"], op[t].prev, {"disturbed"})
  /\ NoFile /\ UNCHANGED <<texts, tainted, boot, made, suspect>>
UndoSettings(t) ==
  /\ Runs(t, "settings", "undo")
  /\ RollsBack(t, [op[t] EXCEPT !.at = "restore"], op[t].prev, {"disturbed"})
  /\ NoFile /\ UNCHANGED <<texts, tainted, boot, made, suspect>>

RestoreText(t) ==
  /\ Runs(t, "settings", "restore")
  /\ PutText(t, op[t].certs[Cert(t)], "restoreEnds", Nth(op[t], "restore", "refused"))
  /\ UNCHANGED <<fs, job, mem, texts, history, boot, made, suspect>>

RestoreTextEnds(t) ==    \* the answer is not looked at
  /\ Runs(t, "settings", "restoreEnds")
  /\ \E ok \in BOOLEAN : PutTextEnds(t, op[t].certs[Cert(t)], ok)
  /\ Moves(t, Nth(op[t], "restore", "refused"), {"disturbed"})
  /\ UNCHANGED <<fs, job, mem, history, boot, made, suspect>>

SettingsReturn(t) ==
  /\ boot.power = "on" /\ op[t].at \in {"saved", "refused"}
  /\ Moves(t, IF op[t].at = "refused" /\ op[t].undo = "dirty"
              THEN [op[t] EXCEPT !.at = "request"] ELSE NoOp, {})
  /\ NoFile /\ UNCHANGED <<mem, texts, history, boot, made, suspect>>

-----------------------------------------------------------------------------
(* The last known good copy.                                               *)

IsBad(config) == config \in Values /\ (config.wifi \in Bad \/ config.rest \in Bad)
Misbehaves == IsBad(mem.config) \/ \E i \in Certificates : texts[i] \in Bad
Changing == \E t \in Tasks : op[t].name # "none"

\* a healthy sample; counts tells whether the gap to the one before is short.
\* A bad version crashes before it has been healthy for the whole dwell, and no
\* operation takes that long.
ObserveHealthy(counts) ==
  /\ Ready(Main) /\ Free /\ mem.pending
  /\ mem' = IF ~mem.window THEN [mem EXCEPT !.window = TRUE]
            ELSE IF counts /\ mem.healthy < Dwell THEN [mem EXCEPT !.healthy = @ + 1] ELSE mem
  /\ suspect' = IF ~Misbehaves /\ ~Changing THEN 0
                ELSE IF mem.window /\ counts THEN suspect + 1 ELSE suspect
  /\ suspect' < Dwell
  /\ NoFile /\ UNCHANGED <<texts, op, history, boot, made>>

Unwell(health) == IF health = "Unhealthy" THEN NoProof(mem) ELSE [mem EXCEPT !.window = FALSE]

ObserveOther(health) ==
  /\ Ready(Main) /\ Free /\ mem.pending /\ mem' = Unwell(health)
  /\ NoFile /\ UNCHANGED <<texts, op, history, boot, made, suspect>>

Due == mem.pending /\ mem.window /\ mem.healthy = Dwell /\ ~mem.backoff

\* commitLastGood: copyFileAtomic of what is on flash, whatever RAM holds
CommitLastGood ==
  /\ Ready(Main) /\ Free /\ ~mem.dirty /\ Due
  /\ \E found \in Content :
       /\ Reads(Config, found)
       /\ IF found = None
            THEN mem' = [mem EXCEPT !.backoff = TRUE] /\ UNCHANGED <<job, op, tainted>>
            ELSE /\ Starts(LastGood, found, "copy") /\ tainted' = (tainted \/ crossed)
                 /\ Moves(Main, [NoOp EXCEPT !.name = "commit", !.at = "copy"], {})
                 /\ UNCHANGED mem
  /\ UNCHANGED <<texts, crossed, boot, made, suspect>>

CommitEnds ==
  /\ Runs(Main, "commit", "copy") /\ Moves(Main, NoOp, {})
  /\ \/ Answer(TRUE) /\ mem' = NoProof([mem EXCEPT !.pending = FALSE])
     \/ Answer(FALSE) /\ mem' = [mem EXCEPT !.backoff = TRUE]
  /\ UNCHANGED <<texts, history, boot, made, suspect>>

RetryReady ==
  /\ Ready(Main) /\ Free /\ mem.backoff /\ mem' = [mem EXCEPT !.backoff = FALSE]
  /\ NoFile /\ UNCHANGED <<texts, op, history, boot, made, suspect>>

-----------------------------------------------------------------------------
(* A reset at any step, and the boot: BootPolicy::apply, then begin().     *)

\* A removal that ends in the middle may leave a .bak that a reader takes.
Removed(i) ==
  \E t \in Tasks :
    /\ Cert(t) = i
    /\ \/ op[t].at = "clearText"
       \/ op[t].at = "certEnds" /\ (op[t].want[i] = None \/ "torn" \in op[t].marks)
       \/ op[t].at = "restoreEnds" /\ (op[t].certs[i] = None \/ "torn" \in op[t].marks)

Reset(crash) ==
  /\ boot.power = "on"
  /\ boot' = [power |-> "reset", crash |-> crash, stable |-> FALSE,
              count |-> IF RtcDataKept THEN boot.count ELSE 0,
              stage |-> IF RtcDataKept THEN boot.stage ELSE 0]
  /\ mem' = Fresh /\ op' = [t \in Tasks |-> NoOp] /\ suspect' = 0 /\ crossed' = FALSE
  /\ \E left \in [Certificates -> Text] :
       texts' = [i \in Certificates |-> IF Removed(i) THEN left[i] ELSE texts[i]]
  /\ Ends /\ UNCHANGED <<fs, tainted, made>>

\* the power, a watchdog, the user: during a boot as well
ResetAnywhere(crash) == Fault /\ Reset(crash)    \* MaxFaults bounds these too

Panic == Misbehaves /\ op[Main].name # "begin" /\ Works /\ Reset(TRUE)

CountedBelow(n) == IF n + 1 < MaxReboots THEN n + 1 ELSE n    \* mutant: held below the limit
Counted(n) == IF n < MaxReboots THEN n + 1 ELSE n    \* only >= is asked

Begins(at) == op' = [op EXCEPT ![Main] = [NoOp EXCEPT !.name = "begin", !.at = at]]

Apply ==
  /\ boot.power = "reset"
  /\ LET count == IF boot.crash THEN Counted(boot.count) ELSE 0
         stage == IF boot.crash THEN boot.stage ELSE 0
     IN  /\ boot' = [boot EXCEPT !.power = "on", !.crash = FALSE, !.count = count,
                                 !.stage = IF count >= MaxReboots THEN 1 ELSE stage]
         /\ Begins(IF count < MaxReboots THEN "load"
                   ELSE IF stage = 0 THEN "rollback" ELSE "clear")
  /\ NoFile /\ UNCHANGED <<mem, texts, history, made, suspect>>

RestoreLastGood ==
  /\ Runs(Main, "begin", "rollback")
  /\ \E found \in Content :
       /\ Reads(LastGood, found)
       /\ IF found = None THEN At(Main, "clear") /\ UNCHANGED job
          ELSE Starts(Config, found, "copy") /\ At(Main, "rollbackEnds")
  /\ UNCHANGED <<mem, texts, history, boot, made, suspect>>

RestoreLastGoodEnds ==
  /\ Runs(Main, "begin", "rollbackEnds")
  /\ \/ Answer(TRUE) /\ At(Main, "load")
     \/ Answer(FALSE) /\ At(Main, "clear")
  /\ UNCHANGED <<mem, texts, history, boot, made, suspect>>

\* clearAll: config_ is the defaults already, and no answer is looked at
ClearFile(from, path, to) ==
  /\ Runs(Main, "begin", from) /\ Starts(path, None, "remove") /\ Skips /\ At(Main, to)
  /\ UNCHANGED <<mem, texts, history, boot, made, suspect>>

ClearFileEnds(from, to) ==
  /\ Runs(Main, "begin", from) /\ job.at = "done" /\ Ends /\ Skips /\ At(Main, to)
  /\ UNCHANGED <<mem, texts, history, boot, made, suspect>>

ClearText ==
  /\ Runs(Main, "begin", "clearText")
  /\ \E left \in Text :
       texts' = [texts EXCEPT ![Cert(Main)] = left] /\ ((left = None /\ Works) \/ Fault)
  /\ Moves(Main, Nth(op[Main], "clearText", "load"), {})
  /\ UNCHANGED <<fs, job, mem, history, boot, made, suspect>>

ClearAll ==
  \/ ClearFile("clear", Config, "clearEnds") \/ ClearFileEnds("clearEnds", "clearGood")
  \/ ClearFile("clearGood", LastGood, "clearGoodEnds")
  \/ ClearFileEnds("clearGoodEnds", "clearText")
  \/ ClearText

\* a content that was cut short does not parse
LoadConfig ==
  /\ Runs(Main, "begin", "load") /\ Moves(Main, NoOp, {})
  /\ \E found \in Content :
       /\ Reads(Config, found)
       /\ mem' = IF found \in Values
                 THEN Candidate([mem EXCEPT !.config = found, !.loaded = TRUE]) ELSE mem
  /\ UNCHANGED <<job, texts, history, boot, made, suspect>>

MarkStable ==
  /\ Ready(Main) /\ ~boot.stable /\ ~Misbehaves
  /\ boot' = [boot EXCEPT !.stable = TRUE, !.count = 0, !.stage = 0]
  /\ NoFile /\ UNCHANGED <<mem, texts, op, history, made, suspect>>

-----------------------------------------------------------------------------
Goes(t) ==    \* what an operation in progress of task t does next
  \/ SaveConfig(t) \/ SaveConfigEnds(t) \/ Request(t) \/ UndoField(t)
  \/ CaptureText(t) \/ SaveText(t) \/ SaveTextEnds(t) \/ AssignSome(t) \/ AssignAll(t)
  \/ UndoSettings(t) \/ RestoreText(t) \/ RestoreTextEnds(t) \/ SettingsReturn(t)

Calling(t) ==    \* a task calls a setter
  \/ \E undo \in {"revert", "dirty"} : SaveField(t, "rest", undo)
  \/ SaveField(t, "wifi", "dirty") \/ ClearCredentials(t)

Filing ==
  boot.power = "on" /\ FileStep
  /\ UNCHANGED <<mem, texts, op, history, boot, made, suspect>>

Booting ==
  Apply \/ RestoreLastGood \/ RestoreLastGoodEnds \/ ClearAll \/ LoadConfig

Step == Filing \/ Booting \/ CommitEnds \/ \E t \in Tasks : Goes(t)

Next ==
  \/ Step \/ (\E t \in Tasks : Calling(t))
  \/ SaveSettings \/ PollSave \/ CommitLastGood \/ RetryReady
  \/ \E counts \in BOOLEAN : ObserveHealthy(counts)
  \/ \E health \in {"Unhealthy", "Unavailable"} : ObserveOther(health)
  \/ MarkStable \/ Panic \/ \E crash \in BOOLEAN : ResetAnywhere(crash)

Spec == Init /\ [][Next]_vars

\* an operation goes on, a dirty configuration is polled, time passes: a device
\* that misbehaves crashes, another becomes stable
GoesOn == Step \/ PollSave \/ MarkStable \/ Panic

FairSpec == Spec /\ WF_vars(GoesOn)

-----------------------------------------------------------------------------
(* Properties.                                                             *)

TypeOK ==
  /\ fs \in [Paths -> [final : Content, tmp : Content, bak : Content]]
  /\ job.at \in {"idle", "open", "fill", "settle", "dropBak", "toBak", "toFinal", "undo",
                 "dropTmp", "cleanBak", "rmFinal", "rmTmp", "rmBak", "done"}
  /\ job.path \in Paths \cup {None} /\ job.value \in Content
  /\ job.kind \in Kinds /\ job.ok \in BOOLEAN /\ faults \in 0 .. MaxFaults
  /\ mem \in [config : Values, dirty : BOOLEAN, loaded : BOOLEAN, pending : BOOLEAN,
              window : BOOLEAN, healthy : 0 .. Dwell, backoff : BOOLEAN]
  /\ texts \in [Certificates -> Text] /\ crossed \in BOOLEAN /\ tainted \in BOOLEAN
  /\ \A t \in Tasks :
       /\ op[t].name \in {"none", "field", "settings", "poll", "commit", "begin"}
       /\ op[t].i \in Certificates /\ op[t].prev \in Values /\ op[t].new \in Versions
       /\ op[t].certs \in [Certificates -> Text] /\ op[t].want \in [Certificates -> Text]
       /\ op[t].marks \subseteq {"overtaken", "behind", "disturbed", "torn"}
  /\ boot \in [count : 0 .. MaxReboots, stage : {0, 1}, stable : BOOLEAN,
               power : {"reset", "on"}, crash : BOOLEAN]
  /\ made \in Versions /\ suspect \in 0 .. Dwell

\* Between operations the device runs with what it would boot with, or a save is
\* due, however the setters of several tasks interleave and whatever fails.  The
\* one way to part them is a rollback whose copy another task's save has
\* overtaken (the code restores it without the lock), and it lasts until the
\* next save of what RAM holds, or the next boot.  A write that is cut short
\* unnoticed does too: see CandidateIsPersisted.
RamIsOnFlash ==
  boot.power = "on" /\ ~Changing /\ mem.loaded /\ ~mem.dirty /\ ~crossed
    => Visible(Config) \in {mem.config, Partial}

\* A version that makes the device crash never becomes the last known good,
\* whatever saves, samples, failed commits and resets come in between; unless
\* the copy was made while such a rollback had parted RAM and flash.
LastGoodIsSafe == ~tainted => ~IsBad(Visible(LastGood))

\* The Wi-Fi settings and their certificates change together or, when one call
\* of the file system fails, not at all, whatever other tasks change, save and
\* roll back of the other fields meanwhile.  Two changes of the Wi-Fi settings
\* at a time are not kept apart by the code.  removeBlob() answers TRUE for a
\* .tmp that a reset had left although the file itself stays.
SettingsAllOrNothing ==
  \A t \in Tasks :
    op[t].name = "settings" /\ op[t].at \in {"saved", "refused"} /\ "disturbed" \notin op[t].marks =>
      /\ mem.config.wifi = IF op[t].at = "saved" THEN op[t].new ELSE op[t].prev.wifi
      /\ op[t].at = "saved" => Visible(Config) = Partial \/ Visible(Config).wifi = op[t].new
      /\ \A i \in Certificates :
           IF op[t].at = "saved"
             THEN texts[i] = op[t].want[i] \/ (op[t].want[i] = None /\ faults > op[t].since)
             ELSE faults <= op[t].since + 1 => texts[i] = op[t].certs[i]

\* README: "Robust Safe Boot: automatic rollback to the last-known-good config
\* after crashes".  Once the resets have other causes no more, the device ends
\* in a stable boot, whatever version was saved and wherever a reset hit.
CrashLoopEnds == <>[](boot.power = "on" /\ boot.stable)

\* StorageManager.h: "The LKG candidate is the successfully persisted
\* kConfigPath bytes".
CandidateIsPersisted == Free /\ mem.pending => Visible(Config) \in Values
=============================================================================
