-------------------------- MODULE StorageManagerProofs --------------------------
(***************************************************************************)
(* Theorems of StorageManager for any number of tasks and certificates,    *)
(* any versions, dwell and bounds: its operations use the files as         *)
(* AtomicFiles allows, its state is well typed, RAM and flash agree unless *)
(* a rollback has crossed a save, no bad version becomes the last known    *)
(* good, and settings that no other task disturbs are all or nothing.      *)
(***************************************************************************)
EXTENDS StorageManager, AtomicFilesProofs

Marks == {"overtaken", "behind", "disturbed", "torn"}
OpNames == {"none", "field", "settings", "poll", "commit", "begin"}
FieldAts == {"save", "ends", "undo", "request"}
SettingsAts == {"capture", "cert", "certEnds", "assign", "half", "restore", "restoreEnds", "saved",
                "refused"} \cup FieldAts
BeginAts == {"rollback", "rollbackEnds", "clear", "clearEnds", "clearGood", "clearGoodEnds",
             "clearText", "load"}
OpAts == {"idle", "copy"} \cup SettingsAts \cup BeginAts
Mems == [config : Values, dirty : BOOLEAN, loaded : BOOLEAN, pending : BOOLEAN,
         window : BOOLEAN, healthy : 0 .. Dwell, backoff : BOOLEAN]
Ops == [name : OpNames, at : OpAts, i : Certificates, prev : Values,
        certs : [Certificates -> Text], new : Versions, want : [Certificates -> Text],
        undo : {"dirty", "revert"}, since : Nat, marks : SUBSET Marks]
Boots == [count : 0 .. MaxReboots, stage : {0, 1}, stable : BOOLEAN,
          power : {"reset", "on"}, crash : BOOLEAN]

Types ==
  /\ mem \in Mems /\ texts \in [Certificates -> Text] /\ op \in [Tasks -> Ops]
  /\ crossed \in BOOLEAN /\ tainted \in BOOLEAN /\ boot \in Boots
  /\ made \in Versions /\ suspect \in 0 .. Dwell /\ faults \in 0 .. MaxFaults

\* What a step does with the files: a call of AtomicFiles; a call on a certificate
\* that fails; a reset.
FilesAs == [FilesNext]_files \/ (job' \in {job, NoJob} /\ UNCHANGED fs /\ faults' \in Nat)

-----------------------------------------------------------------------------
(* Operations and their records.                                           *)

LEMMA Constant ==
  /\ Config \in Paths /\ LastGood \in Paths /\ Config # LastGood /\ Main \in Tasks
  /\ CertCount \in Nat \ {0} /\ MaxVersion \in Nat /\ Dwell \in Nat \ {0}
  /\ MaxReboots \in Nat \ {0} /\ MaxFaults \in Nat
  /\ 1 \in Certificates /\ CertCount \in Certificates
  /\ Defaults \in Values /\ NoTexts \in [Certificates -> Text] /\ 0 \in Versions
  /\ NoOp \in Ops /\ Fresh \in Mems
<1> USE PathsAssumption, TasksAssumption, VersionsAssumption, LimitsAssumption, FaultsAssumption
<1>1. 1 \in Certificates /\ CertCount \in Certificates  BY DEF Certificates
<1>2. 0 \in Versions  BY DEF Versions
<1>3. Defaults \in Values  BY <1>2 DEF Defaults
<1>4. NoTexts \in [Certificates -> Text]  BY DEF NoTexts, Text
<1>5. NoOp \in Ops  BY <1>1, <1>2, <1>3, <1>4 DEF NoOp, Ops, OpNames, OpAts
<1>6. Fresh \in Mems  BY <1>3 DEF Fresh, Mems
<1> QED  BY <1>1, <1>2, <1>3, <1>4, <1>5, <1>6

\* p is o but for its marks.
Alike(p, o) ==
  /\ p.name = o.name /\ p.at = o.at /\ p.i = o.i /\ p.prev = o.prev /\ p.certs = o.certs
  /\ p.new = o.new /\ p.want = o.want /\ p.undo = o.undo /\ p.since = o.since

\* p is o but for where it is, its certificates and its marks.
Akin(p, o) ==
  /\ p.name = o.name /\ p.prev = o.prev /\ p.new = o.new /\ p.want = o.want
  /\ p.undo = o.undo /\ p.since = o.since

Rest(t, marks) ==
  \A s \in Tasks \ {t} :
    Alike(op'[s], op[s]) /\ op'[s].marks = op[s].marks \cup (marks \cap Heeds(op[s]))

LEMMA SetMarks ==
  ASSUME NEW o \in Ops, NEW marks \in SUBSET Marks
  PROVE  /\ [o EXCEPT !.marks = marks] \in Ops /\ [o EXCEPT !.marks = marks].marks = marks
         /\ Alike([o EXCEPT !.marks = marks], o)
BY DEF Ops, Alike

LEMMA SetAt ==
  ASSUME NEW o \in Ops, NEW at \in OpAts
  PROVE  /\ [o EXCEPT !.at = at] \in Ops /\ [o EXCEPT !.at = at].at = at
         /\ Akin([o EXCEPT !.at = at], o) /\ [o EXCEPT !.at = at].marks = o.marks
         /\ [o EXCEPT !.at = at].i = o.i /\ [o EXCEPT !.at = at].certs = o.certs
BY DEF Ops, Akin

LEMMA HeedsMarks == ASSUME NEW o PROVE Heeds(o) \subseteq Marks
BY DEF Heeds, Marks

LEMMA MovesGives ==
  ASSUME op \in [Tasks -> Ops], NEW t \in Tasks, NEW o \in Ops, NEW marks, Moves(t, o, marks)
  PROVE  op' \in [Tasks -> Ops] /\ op'[t] = o /\ Rest(t, marks)
<1> DEFINE G(s) == op[s].marks \cup (marks \cap Heeds(op[s]))
<1>1. \A s \in Tasks : op[s] \in Ops /\ G(s) \in SUBSET Marks
  BY HeedsMarks DEF Ops
<1>2. op' = [s \in Tasks |-> IF s = t THEN o ELSE [op[s] EXCEPT !.marks = G(s)]]
  BY DEF Moves
<1> HIDE DEF G
<1>3. \A s \in Tasks \ {t} : op'[s] \in Ops /\ op'[s].marks = G(s) /\ Alike(op'[s], op[s])
  BY <1>1, <1>2, SetMarks
<1>4. op'[t] = o  BY <1>2
<1> QED  BY <1>2, <1>3, <1>4 DEF Rest, G

LEMMA AtGives ==
  ASSUME op \in [Tasks -> Ops], NEW t \in Tasks, NEW at \in OpAts, At(t, at)
  PROVE  op' \in [Tasks -> Ops] /\ op'[t].at = at /\ Akin(op'[t], op[t]) /\ Rest(t, {})
         /\ op'[t].marks = op[t].marks /\ op'[t].i = op[t].i /\ op'[t].certs = op[t].certs
<1>1. op' = [op EXCEPT ![t] = [op[t] EXCEPT !.at = at]]  BY DEF At
<1>2. op[t] \in Ops  OBVIOUS
<1> DEFINE o == [op[t] EXCEPT !.at = at]
<1>3. o \in Ops /\ o.at = at /\ Akin(o, op[t]) /\ o.marks = op[t].marks /\ o.i = op[t].i
      /\ o.certs = op[t].certs
  BY <1>2, SetAt
<1> HIDE DEF o
<1>4. op' \in [Tasks -> Ops] /\ op'[t] = o /\ \A s \in Tasks \ {t} : op'[s] = op[s]
  BY <1>1, <1>3 DEF o
<1>5. Rest(t, {})  BY <1>4 DEF Rest, Alike
<1> QED  BY <1>3, <1>4, <1>5

LEMMA NthGives ==
  ASSUME NEW o \in Ops, NEW at \in OpAts, NEW then \in OpAts, NEW p, p = Nth(o, at, then)
  PROVE  /\ p \in Ops /\ Akin(p, o) /\ p.marks = o.marks /\ p.certs = o.certs
         /\ p.i = (IF o.i = CertCount THEN 1 ELSE o.i + 1)
         /\ p.at = IF o.i = CertCount THEN then ELSE at
<1> DEFINE i == IF o.i = CertCount THEN 1 ELSE o.i + 1
           a == IF o.i = CertCount THEN then ELSE at
<1>1. p = [o EXCEPT !.i = i, !.at = a]  BY DEF Nth
<1>2. i \in Certificates /\ a \in OpAts
  BY Constant DEF Certificates, Ops
<1> HIDE DEF i, a
<1> DEFINE q == [o EXCEPT !.i = i]
<1>3. q \in Ops /\ q.i = i /\ Akin(q, o) /\ q.marks = o.marks /\ q.certs = o.certs
  BY <1>2 DEF Ops, Akin
<1>4. p = [q EXCEPT !.at = a]  BY <1>1
<1> HIDE DEF q
<1>5. p \in Ops /\ p.at = a /\ Akin(p, q) /\ p.marks = q.marks /\ p.i = q.i /\ p.certs = q.certs
  BY <1>2, <1>3, <1>4 DEF Ops, Akin
<1> QED  BY <1>3, <1>5 DEF i, a, Akin

LEMMA TouchesGives ==
  ASSUME NEW t \in Tasks, NEW o \in Ops, NEW p, p = Touches(t, o)
  PROVE  /\ p \in Ops /\ Alike(p, o)
         /\ p.marks \ {"torn", "disturbed"} = o.marks \ {"torn", "disturbed"}
         /\ "disturbed" \in o.marks => "disturbed" \in p.marks
         /\ "torn" \in p.marks => "disturbed" \in p.marks
         /\ (\E s \in Tasks \ {t} : Calls(s)) => "disturbed" \in p.marks
<1> DEFINE m == (o.marks \ {"torn"}) \cup (IF \E s \in Tasks \ {t} : Calls(s)
                                           THEN {"torn", "disturbed"} ELSE {})
<1>1. m \in SUBSET Marks  BY DEF Ops, Marks
<1>2. p = [o EXCEPT !.marks = m]  BY DEF Touches
<1>3. p \in Ops /\ Alike(p, o) /\ p.marks = m  BY <1>1, <1>2, SetMarks
<1> QED  BY <1>3

-----------------------------------------------------------------------------
(* The steps of a certificate leave everything else alone.                 *)

TextAts == {"capture", "cert", "certEnds", "restore", "restoreEnds"}
Stable(marks) == marks \ {"torn", "disturbed"}

\* What the certificates of task t do to the operations.
TextOps(t) ==
  /\ op[t].name = "settings" /\ op[t].at \in TextAts
  /\ op' \in [Tasks -> Ops] /\ Akin(op'[t], op[t])
  /\ op'[t].at \in TextAts \cup {"assign", "refused"}
  /\ op[t].at \in {"restore", "restoreEnds"} => op'[t].at \in {"restore", "restoreEnds", "refused"}
  /\ Stable(op'[t].marks) = Stable(op[t].marks)
  /\ \E marks \in SUBSET {"torn", "disturbed"} : ("torn" \in marks => "disturbed" \in marks) /\ Rest(t, marks)

Spends == faults' = faults \/ (faults < MaxFaults /\ faults' = faults + 1)

TextStep(t) ==
  /\ TextOps(t) /\ Spends /\ texts' \in [Certificates -> Text]
  /\ UNCHANGED <<fs, job, mem, history, boot, made, suspect>>

LEMMA FindsSpends ==
  ASSUME NEW t \in Tasks, NEW found, Finds(t, found)
  PROVE  Spends
BY DEF Finds, Works, Fault, Spends

LEMMA MovesText ==
  ASSUME op \in [Tasks -> Ops], NEW t \in Tasks, NEW o \in Ops,
         NEW marks \in SUBSET {"torn", "disturbed"}, "torn" \in marks => "disturbed" \in marks,
         Moves(t, o, marks), op[t].name = "settings", op[t].at \in TextAts, Akin(o, op[t]),
         o.at \in TextAts \cup {"assign", "refused"},
         op[t].at \in {"restore", "restoreEnds"} => o.at \in {"restore", "restoreEnds", "refused"},
         Stable(o.marks) = Stable(op[t].marks)
  PROVE  TextOps(t)
<1>1. op' \in [Tasks -> Ops] /\ op'[t] = o /\ Rest(t, marks)  BY MovesGives
<1> QED  BY <1>1 DEF TextOps

LEMMA StartsCallText ==
  ASSUME op \in [Tasks -> Ops], NEW t \in Tasks, op[t].name = "settings",
         NEW at, StartsCall(t, at),
         \/ op[t].at = "cert" /\ at = "certEnds"
         \/ op[t].at = "restore" /\ at = "restoreEnds"
  PROVE  TextOps(t) /\ op'[t].at = at /\ op'[t].i = op[t].i /\ op'[t].certs = op[t].certs
         /\ Rest(t, {"torn", "disturbed"}) /\ ("torn" \in op'[t].marks => "disturbed" \in op'[t].marks)
         /\ ("disturbed" \in op[t].marks => "disturbed" \in op'[t].marks)
<1> DEFINE q == [op[t] EXCEPT !.at = at]
           o == Touches(t, q)
<1>1. q \in Ops /\ q.at = at /\ Akin(q, op[t]) /\ q.marks = op[t].marks /\ q.i = op[t].i
      /\ q.certs = op[t].certs
  BY SetAt DEF OpAts, SettingsAts
<1>2. Moves(t, o, {"torn", "disturbed"})  BY DEF StartsCall
<1> HIDE DEF q
<1>3. /\ o \in Ops /\ Alike(o, q) /\ Stable(o.marks) = Stable(q.marks)
      /\ ("torn" \in o.marks => "disturbed" \in o.marks)
      /\ ("disturbed" \in q.marks => "disturbed" \in o.marks)
  BY <1>1, TouchesGives DEF Stable
<1> HIDE DEF o
<1>4. Akin(o, op[t]) /\ o.at = at /\ o.i = op[t].i /\ o.certs = op[t].certs
  BY <1>1, <1>3 DEF Akin, Alike
<1>5. TextOps(t)  BY <1>1, <1>2, <1>3, <1>4, MovesText DEF TextAts
<1> QED  BY <1>1, <1>2, <1>3, <1>4, <1>5, MovesGives

\* The operation of t after a step that ends its work on one certificate.
LEMMA NthText ==
  ASSUME op \in [Tasks -> Ops], NEW t \in Tasks, NEW b \in Ops, Alike(b, op[t]),
         op[t].name = "settings", NEW at, NEW then, NEW marks \in SUBSET {"disturbed"},
         \/ op[t].at \in {"cert", "certEnds"} /\ at = "cert" /\ then = "assign"
         \/ op[t].at \in {"restore", "restoreEnds"} /\ at = "restore" /\ then = "refused",
         Stable(b.marks) = Stable(op[t].marks), NEW o, o = Nth(b, at, then), Moves(t, o, marks)
  PROVE  /\ TextOps(t) /\ Rest(t, marks) /\ op'[t] = o
         /\ o.marks = b.marks /\ o.certs = op[t].certs
         /\ o.i = (IF op[t].i = CertCount THEN 1 ELSE op[t].i + 1)
         /\ o.at = IF op[t].i = CertCount THEN then ELSE at
<1>1. at \in OpAts /\ then \in OpAts  BY DEF OpAts, SettingsAts
<1>2. /\ o \in Ops /\ Akin(o, b) /\ o.marks = b.marks /\ o.certs = b.certs
      /\ o.i = (IF b.i = CertCount THEN 1 ELSE b.i + 1)
      /\ o.at = IF b.i = CertCount THEN then ELSE at
  BY <1>1, NthGives
<1>3. Akin(o, op[t]) /\ Stable(o.marks) = Stable(op[t].marks)  BY <1>2 DEF Akin, Alike
<1>4. marks \in SUBSET {"torn", "disturbed"} /\ ("torn" \in marks => "disturbed" \in marks)
  OBVIOUS
<1>5. b.i = op[t].i /\ b.certs = op[t].certs  BY DEF Alike
<1>6. TextOps(t)  BY <1>2, <1>3, <1>4, MovesText DEF TextAts
<1> QED  BY <1>2, <1>5, <1>6, MovesGives

LEMMA CaptureTextIs ==
  ASSUME Types, NEW t \in Tasks, CaptureText(t)
  PROVE  /\ TextStep(t) /\ texts' = texts /\ op[t].at = "capture"
         /\ op'[t].at = "capture" \/ (op'[t].at = "cert" /\ op'[t].i = 1)
         /\ "torn" \in op'[t].marks => "disturbed" \in op'[t].marks
         /\ "disturbed" \in op[t].marks => "disturbed" \in op'[t].marks
<1>1. op[t].name = "settings" /\ op[t].at = "capture" /\ op \in [Tasks -> Ops] /\ op[t] \in Ops
  BY DEF CaptureText, Runs, Types
<1>2. PICK found \in Text :
        /\ Finds(t, found)
        /\ Moves(t, Nth([Touches(t, op[t]) EXCEPT !.certs[Cert(t)] = found], "capture", "cert"), {})
  BY DEF CaptureText
<1> DEFINE b == Touches(t, op[t])
           certs == [b.certs EXCEPT ![Cert(t)] = found]
           c == [b EXCEPT !.certs = certs]
           o == Nth(c, "capture", "cert")
<1>3. Moves(t, o, {})  BY <1>2
<1>4. /\ b \in Ops /\ Alike(b, op[t]) /\ Stable(b.marks) = Stable(op[t].marks)
      /\ "torn" \in b.marks => "disturbed" \in b.marks
      /\ "disturbed" \in op[t].marks => "disturbed" \in b.marks
  BY <1>1, TouchesGives DEF Stable
<1> HIDE DEF b
<1>5. certs \in [Certificates -> Text]  BY <1>1, <1>4 DEF Ops
<1> HIDE DEF certs
<1>6. c \in Ops /\ Akin(c, b) /\ c.marks = b.marks  BY <1>4, <1>5 DEF Ops, Akin
<1> HIDE DEF c
<1>7. /\ o \in Ops /\ Akin(o, c) /\ o.marks = c.marks
      /\ o.at = "capture" \/ (o.at = "cert" /\ o.i = 1)
  BY <1>6, NthGives DEF OpAts, SettingsAts
<1> HIDE DEF o
<1>8. Akin(o, op[t]) /\ Stable(o.marks) = Stable(op[t].marks)
  BY <1>4, <1>6, <1>7 DEF Akin, Alike
<1>9. TextOps(t)  BY <1>1, <1>3, <1>7, <1>8, MovesText DEF TextAts
<1>10. op'[t] = o  BY <1>1, <1>3, <1>7, MovesGives
<1> QED  BY <1>1, <1>2, <1>4, <1>6, <1>7, <1>9, <1>10, FindsSpends DEF TextStep, CaptureText, Types

\* saveOrRemoveText and restoreText: a call starts, or there is nothing to remove.
LEMMA PutTextIs ==
  ASSUME Types, NEW t \in Tasks, op[t].name = "settings", NEW v, NEW at, NEW next, NEW then,
         \/ op[t].at = "cert" /\ at = "certEnds" /\ next = "cert" /\ then = "assign"
         \/ op[t].at = "restore" /\ at = "restoreEnds" /\ next = "restore" /\ then = "refused",
         PutText(t, v, at, Nth(op[t], next, then))
  PROVE  /\ TextOps(t) /\ Spends
         /\ "torn" \in op'[t].marks => "disturbed" \in op'[t].marks
         /\ "disturbed" \in op[t].marks => "disturbed" \in op'[t].marks
         /\ op'[t].certs = op[t].certs
         /\ \/ op'[t].at = at /\ op'[t].i = op[t].i
            \/ /\ v = None /\ Finds(t, None)
               /\ (\E s \in Tasks \ {t} : Calls(s)) => "disturbed" \in op'[t].marks
               /\ op'[t].i = (IF op[t].i = CertCount THEN 1 ELSE op[t].i + 1)
               /\ op'[t].at = IF op[t].i = CertCount THEN then ELSE next
<1>1. op \in [Tasks -> Ops] /\ op[t] \in Ops  BY DEF Types
<1>2. CASE StartsCall(t, at) /\ Spends
  BY <1>1, <1>2, StartsCallText
<1>3. CASE v = None /\ Finds(t, None) /\ Moves(t, Touches(t, Nth(op[t], next, then)), {})
  <2> DEFINE n == Nth(op[t], next, then)
             o == Touches(t, n)
  <2>1. next \in OpAts /\ then \in OpAts  BY DEF OpAts, SettingsAts
  <2>2. /\ n \in Ops /\ Akin(n, op[t]) /\ n.marks = op[t].marks /\ n.certs = op[t].certs
        /\ n.i = (IF op[t].i = CertCount THEN 1 ELSE op[t].i + 1)
        /\ n.at = IF op[t].i = CertCount THEN then ELSE next
    BY <1>1, <2>1, NthGives
  <2> HIDE DEF n
  <2>3. /\ o \in Ops /\ Alike(o, n) /\ Stable(o.marks) = Stable(n.marks)
        /\ ("torn" \in o.marks => "disturbed" \in o.marks)
        /\ ("disturbed" \in n.marks => "disturbed" \in o.marks)
        /\ (\E s \in Tasks \ {t} : Calls(s)) => "disturbed" \in o.marks
    BY <2>2, TouchesGives DEF Stable
  <2>4. Moves(t, o, {})  BY <1>3 DEF n
  <2> HIDE DEF o
  <2>5. Akin(o, op[t]) /\ o.at = n.at /\ o.i = n.i /\ o.certs = op[t].certs
    BY <2>2, <2>3 DEF Akin, Alike
  <2>6. op'[t] = o  BY <1>1, <2>3, <2>4, MovesGives
  <2>7. TextOps(t)  BY <1>1, <2>2, <2>3, <2>4, <2>5, MovesText DEF TextAts
  <2> QED  BY <1>3, <2>2, <2>3, <2>5, <2>6, <2>7, FindsSpends
<1> QED
  <2>1. CASE v # None /\ StartsCall(t, at) /\ Works
    BY <1>2, <2>1 DEF Works, Spends
  <2>2. ASSUME v = None, NEW found \in Text, Finds(t, found),
               IF found = None THEN Moves(t, Touches(t, Nth(op[t], next, then)), {}) ELSE StartsCall(t, at)
        PROVE  (StartsCall(t, at) /\ Spends)
               \/ (v = None /\ Finds(t, None) /\ Moves(t, Touches(t, Nth(op[t], next, then)), {}))
    BY <2>2, FindsSpends
  <2> QED  BY <1>2, <1>3, <2>1, <2>2 DEF PutText

LEMMA SaveTextIs == ASSUME Types, NEW t \in Tasks, SaveText(t) PROVE TextStep(t)
<1>1. TextOps(t) /\ Spends  BY PutTextIs DEF SaveText, Runs
<1> QED  BY <1>1 DEF TextStep, SaveText, Types

LEMMA RestoreTextIs == ASSUME Types, NEW t \in Tasks, RestoreText(t) PROVE TextStep(t)
<1>1. TextOps(t) /\ Spends  BY PutTextIs DEF RestoreText, Runs
<1> QED  BY <1>1 DEF TextStep, RestoreText, Types

LEMMA PutTextEndsIs ==
  ASSUME Types, NEW t \in Tasks, NEW v, NEW ok, PutTextEnds(t, v, ok)
  PROVE  Spends /\ texts' \in [Certificates -> Text]
BY DEF PutTextEnds, Works, Fault, Spends, Types

LEMMA SaveTextEndsIs ==
  ASSUME Types, NEW t \in Tasks, SaveTextEnds(t)
  PROVE  /\ TextStep(t) /\ Rest(t, {"disturbed"}) /\ op[t].at = "certEnds"
         /\ op'[t].marks = op[t].marks
         /\ \E ok \in BOOLEAN :
              /\ PutTextEnds(t, op[t].want[Cert(t)], ok)
              /\ ok => /\ op'[t].i = (IF op[t].i = CertCount THEN 1 ELSE op[t].i + 1)
                       /\ op'[t].at = IF op[t].i = CertCount THEN "assign" ELSE "cert"
              /\ ~ok => op'[t].at = "restore" /\ op'[t].i = 1
<1>1. op[t].name = "settings" /\ op[t].at = "certEnds" /\ op \in [Tasks -> Ops] /\ op[t] \in Ops
  BY DEF SaveTextEnds, Runs, Types
<1>2. PICK ok \in BOOLEAN :
        /\ PutTextEnds(t, op[t].want[Cert(t)], ok)
        /\ Moves(t, IF ok THEN Nth(op[t], "cert", "assign")
                    ELSE [op[t] EXCEPT !.at = "restore", !.i = 1], {"disturbed"})
  BY DEF SaveTextEnds
<1>3. /\ TextOps(t) /\ Rest(t, {"disturbed"}) /\ op'[t].marks = op[t].marks
      /\ ok => /\ op'[t].i = (IF op[t].i = CertCount THEN 1 ELSE op[t].i + 1)
               /\ op'[t].at = IF op[t].i = CertCount THEN "assign" ELSE "cert"
      /\ ~ok => op'[t].at = "restore" /\ op'[t].i = 1
  <2>1. CASE ok
    BY <1>1, <1>2, <2>1, NthText DEF Alike
  <2>2. CASE ~ok
    <3> DEFINE q == [op[t] EXCEPT !.at = "restore"]
               o == [q EXCEPT !.i = 1]
    <3>1. q \in Ops /\ q.at = "restore" /\ Akin(q, op[t]) /\ q.marks = op[t].marks
      BY <1>1, SetAt DEF OpAts, SettingsAts
    <3>2. Moves(t, o, {"disturbed"})  BY <1>2, <2>2
    <3> HIDE DEF q
    <3>3. o \in Ops /\ o.at = "restore" /\ Akin(o, q) /\ o.marks = q.marks /\ o.i = 1
      BY <3>1, Constant DEF Ops, Akin
    <3> HIDE DEF o
    <3>4. Akin(o, op[t])  BY <3>1, <3>3 DEF Akin
    <3>5. op'[t] = o /\ Rest(t, {"disturbed"})  BY <1>1, <3>2, <3>3, MovesGives
    <3> QED  BY <1>1, <2>2, <3>1, <3>2, <3>3, <3>4, <3>5, MovesText DEF TextAts
  <2> QED  BY <2>1, <2>2
<1> QED  BY <1>1, <1>2, <1>3, PutTextEndsIs DEF TextStep, SaveTextEnds, Types

LEMMA RestoreTextEndsIs ==
  ASSUME Types, NEW t \in Tasks, RestoreTextEnds(t)
  PROVE  /\ TextStep(t) /\ Rest(t, {"disturbed"}) /\ op[t].at = "restoreEnds"
         /\ op'[t].marks = op[t].marks /\ op'[t].certs = op[t].certs
         /\ op'[t].i = (IF op[t].i = CertCount THEN 1 ELSE op[t].i + 1)
         /\ op'[t].at = IF op[t].i = CertCount THEN "refused" ELSE "restore"
<1>1. op[t].name = "settings" /\ op[t].at = "restoreEnds" /\ op \in [Tasks -> Ops] /\ op[t] \in Ops
  BY DEF RestoreTextEnds, Runs, Types
<1>2. Moves(t, Nth(op[t], "restore", "refused"), {"disturbed"})  BY DEF RestoreTextEnds
<1>3. /\ TextOps(t) /\ Rest(t, {"disturbed"}) /\ op'[t].marks = op[t].marks
      /\ op'[t].certs = op[t].certs
      /\ op'[t].i = (IF op[t].i = CertCount THEN 1 ELSE op[t].i + 1)
      /\ op'[t].at = IF op[t].i = CertCount THEN "refused" ELSE "restore"
  BY <1>1, <1>2, NthText DEF Alike
<1> QED  BY <1>1, <1>3, PutTextEndsIs DEF TextStep, RestoreTextEnds, Types

-----------------------------------------------------------------------------
(* The other steps: their types, what they do to the files and to op.      *)

LEMMA MemUpdates ==
  ASSUME NEW m \in Mems
  PROVE  /\ \A v \in Values : [m EXCEPT !.config = v] \in Mems
         /\ \A b \in BOOLEAN :
              /\ [m EXCEPT !.dirty = b] \in Mems /\ [m EXCEPT !.loaded = b] \in Mems
              /\ [m EXCEPT !.pending = b] \in Mems /\ [m EXCEPT !.window = b] \in Mems
              /\ [m EXCEPT !.backoff = b] \in Mems
         /\ \A h \in 0 .. Dwell : [m EXCEPT !.healthy = h] \in Mems
BY DEF Mems

LEMMA ProofGives ==
  ASSUME NEW m \in Mems, NEW n, n = NoProof(m)
  PROVE  /\ n \in Mems /\ n.config = m.config /\ n.dirty = m.dirty /\ n.loaded = m.loaded
         /\ n.pending = m.pending /\ n.healthy = 0
<1> DEFINE a == [m EXCEPT !.window = FALSE]
           b == [a EXCEPT !.healthy = 0]
<1>1. a \in Mems /\ a.config = m.config /\ a.dirty = m.dirty /\ a.loaded = m.loaded
      /\ a.pending = m.pending
  BY DEF Mems
<1> HIDE DEF a
<1>2. b \in Mems /\ b.config = m.config /\ b.dirty = m.dirty /\ b.loaded = m.loaded
      /\ b.pending = m.pending /\ b.healthy = 0
  BY <1>1, Constant DEF Mems
<1>3. n = [b EXCEPT !.backoff = FALSE]  BY DEF NoProof, a
<1> HIDE DEF b
<1> QED  BY <1>2, <1>3 DEF Mems

LEMMA CandidateGives ==
  ASSUME NEW m \in Mems, NEW n, n = Candidate(m)
  PROVE  /\ n \in Mems /\ n.config = m.config /\ n.dirty = m.dirty /\ n.loaded = m.loaded
         /\ n.pending /\ n.healthy = 0
<1> DEFINE a == NoProof(m)
<1>1. a \in Mems /\ a.config = m.config /\ a.dirty = m.dirty /\ a.loaded = m.loaded
      /\ a.healthy = 0
  BY ProofGives
<1>2. n = [a EXCEPT !.pending = TRUE]  BY DEF Candidate
<1> HIDE DEF a
<1> QED  BY <1>1, <1>2 DEF Mems

LEMMA PersistedGives ==
  ASSUME NEW m \in Mems, NEW n, n = Persisted(m)
  PROVE  /\ n \in Mems /\ n.config = m.config /\ ~n.dirty /\ n.loaded
         /\ n.pending /\ n.healthy = 0
<1> DEFINE a == [m EXCEPT !.dirty = FALSE]
           b == [a EXCEPT !.loaded = TRUE]
<1>1. a \in Mems /\ a.config = m.config /\ ~a.dirty  BY DEF Mems
<1> HIDE DEF a
<1>2. b \in Mems /\ b.config = m.config /\ ~b.dirty /\ b.loaded  BY <1>1 DEF Mems
<1>3. n = Candidate(b)  BY DEF Persisted, a, b
<1> HIDE DEF b
<1> QED  BY <1>2, <1>3, CandidateGives

LEMMA WithGives ==
  ASSUME NEW c \in Values, NEW v
  PROVE  /\ v \in Versions \cup {Mixed} => With(c, "wifi", v) \in Values
         /\ v \in Versions => With(c, "rest", v) \in Values
         /\ With(c, "wifi", v).wifi = v /\ With(c, "rest", v).wifi = c.wifi
         /\ With(c, "rest", v).rest = v /\ With(c, "wifi", v).rest = c.rest
         /\ With(c, "rest", c.rest) = c
         /\ c.wifi \in Versions \cup {Mixed} /\ c.rest \in Versions
BY VersionsAssumption DEF With

LEMMA SkipsLook == Skips => Looks
BY DEF Looks

LEMMA ReadsLook ==
  ASSUME NEW path \in Paths, NEW found \in Content, Reads(path, found) PROVE Looks
BY DEF Looks

LEMMA LooksSpend == Looks => Spends
<1>1. ASSUME NEW path \in Paths, NEW found \in Content, Reads(path, found) PROVE Spends
  BY <1>1 DEF Reads, Works, Fails, Spends
<1> QED  BY <1>1 DEF Looks, Skips, Spends

LEMMA SpendsBound == ASSUME faults \in 0 .. MaxFaults, Spends PROVE faults' \in 0 .. MaxFaults
BY Constant DEF Spends

LEMMA NoFileAs == NoFile => FilesAs /\ faults' = faults /\ fs' = fs /\ job' = job
BY DEF NoFile, FilesAs, files

LEMMA CallAs ==
  ASSUME NEW path \in Paths, NEW v \in Content, NEW kind \in Kinds,
         kind = "remove" <=> v = None, Starts(path, v, kind), Looks
  PROVE  FilesAs
<1>1. CASE kind = "remove"
  BY <1>1 DEF FilesAs, FilesNext, AnyCaller
<1>2. CASE kind # "remove"
  <2>1. v \in Values \cup {Partial} /\ kind \in Kinds \ {"remove"}
    BY <1>2 DEF Content
  <2> QED  BY <2>1 DEF FilesAs, FilesNext, AnyCaller
<1> QED  BY <1>1, <1>2

LEMMA EndAs == ASSUME Ends, Skips PROVE FilesAs /\ faults' = faults
BY DEF FilesAs, FilesNext, AnyCaller, Skips

LEMMA IdleAs == ASSUME job.at = "idle", Looks, UNCHANGED job PROVE FilesAs
BY DEF FilesAs, FilesNext, AnyCaller

LEMMA TextAs == ASSUME Types, NEW t \in Tasks, TextStep(t) PROVE Types' /\ FilesAs
<1>1. faults' \in 0 .. MaxFaults  BY SpendsBound DEF TextStep, Types
<1>2. FilesAs  BY <1>1, Constant DEF FilesAs, TextStep
<1> QED  BY <1>1, <1>2 DEF TextStep, TextOps, Types, history

Placed(t, at) ==
  /\ op'[t].at = at /\ Akin(op'[t], op[t]) /\ op'[t].certs = op[t].certs
  /\ op'[t].i = op[t].i

SaveBegins == job' = [at |-> "open", path |-> Config, value |-> mem.config, kind |-> "config",
                      ok |-> FALSE]

LEMMA SavesConfigIs ==
  ASSUME Types, NEW t \in Tasks, NEW o \in Ops, SavesConfig(t, o),
         UNCHANGED <<mem, texts, history, boot, made, suspect>>
  PROVE  /\ Types' /\ FilesAs /\ Rest(t, {"overtaken"}) /\ job.at = "idle" /\ SaveBegins
         /\ UNCHANGED <<fs, faults>>
         /\ op'[t].at = "ends" /\ Akin(op'[t], o) /\ op'[t].certs = o.certs
         /\ op'[t].i = o.i /\ op'[t].marks = o.marks \ {"behind"}
<1> DEFINE q == [o EXCEPT !.at = "ends"]
           marks == o.marks \ {"behind"}
           p == [q EXCEPT !.marks = marks]
<1>1. q \in Ops /\ q.at = "ends" /\ Akin(q, o) /\ q.certs = o.certs /\ q.i = o.i
  BY SetAt DEF OpAts, SettingsAts, FieldAts
<1>2. Moves(t, p, {"overtaken"})  BY DEF SavesConfig, Ops
<1>3. marks \in SUBSET Marks  BY DEF Ops
<1> HIDE DEF q, marks
<1>4. p \in Ops /\ p.at = "ends" /\ Akin(p, o) /\ p.certs = o.certs /\ p.i = o.i /\ p.marks = marks
  BY <1>1, <1>3 DEF Ops, Akin
<1> HIDE DEF p
<1>5. op' \in [Tasks -> Ops] /\ op'[t] = p /\ Rest(t, {"overtaken"})
  BY <1>2, <1>4, MovesGives DEF Types
<1>6. SaveBegins /\ job.at = "idle" /\ UNCHANGED <<fs, faults>>
  BY DEF SavesConfig, Starts, Skips, SaveBegins
<1>7. FilesAs
  <2>1. mem.config \in Content /\ mem.config # None
    BY ContentAssumption DEF Types, Mems, Content
  <2>2. Starts(Config, mem.config, "config") /\ Looks  BY SkipsLook DEF SavesConfig
  <2> QED  BY <2>1, <2>2, CallAs, Constant DEF Kinds
<1> QED  BY <1>4, <1>5, <1>6, <1>7 DEF Types, marks, history

LEMMA SaveConfigIs ==
  ASSUME Types, NEW t \in Tasks, SaveConfig(t)
  PROVE  /\ Types' /\ FilesAs /\ Rest(t, {"overtaken"}) /\ job.at = "idle" /\ SaveBegins
         /\ UNCHANGED <<fs, faults>> /\ op[t].at = "save"
         /\ op'[t].at = "ends" /\ Akin(op'[t], op[t]) /\ op'[t].certs = op[t].certs
         /\ op'[t].i = op[t].i /\ op'[t].marks = op[t].marks \ {"behind"}
<1>1. op[t] \in Ops  BY DEF Types
<1> QED  BY <1>1, SavesConfigIs DEF SaveConfig

LEMMA PollSaveIs ==
  ASSUME Types, PollSave
  PROVE  /\ Types' /\ FilesAs /\ Rest(Main, {"overtaken"}) /\ job.at = "idle" /\ SaveBegins
         /\ UNCHANGED <<fs, faults>> /\ op[Main].name = "none" /\ mem.dirty
         /\ op'[Main].at = "ends" /\ op'[Main].name = "poll" /\ op'[Main].marks = {}
<1> DEFINE o == [NoOp EXCEPT !.name = "poll"]
<1>1. o \in Ops /\ o.name = "poll" /\ o.marks = {}
  BY Constant DEF Ops, OpNames, NoOp
<1>2. SavesConfig(Main, o)  BY DEF PollSave
<1> HIDE DEF o
<1>3. op'[Main].name = o.name /\ op'[Main].marks = {}
  BY <1>1, <1>2, SavesConfigIs, Constant DEF PollSave, Akin
<1> QED  BY <1>1, <1>2, <1>3, SavesConfigIs, Constant DEF PollSave, Ready, Runs

LEMMA AfterSaveGives ==
  ASSUME NEW o \in Ops, NEW ok \in BOOLEAN, NEW p, p = AfterSave(o, ok)
  PROVE  /\ p \in Ops
         /\ \/ o.name # "settings" /\ (ok \/ o.name = "poll") /\ p = NoOp
            \/ /\ Akin(p, o) /\ p.marks = o.marks /\ p.certs = o.certs /\ p.i = o.i
               /\ o.name = "settings" => p.at = IF ok THEN "saved" ELSE "undo"
               /\ o.name # "settings" => /\ ~ok /\ o.name # "poll"
                                         /\ p.at = IF o.undo = "revert" THEN "undo" ELSE "request"
<1> DEFINE at == IF o.name = "settings" THEN (IF ok THEN "saved" ELSE "undo")
                 ELSE IF o.undo = "revert" THEN "undo" ELSE "request"
<1>1. at \in OpAts  BY DEF OpAts, SettingsAts, FieldAts
<1>2. p = NoOp \/ p = [o EXCEPT !.at = at]  BY DEF AfterSave
<1>3. p = NoOp => \/ o.name # "settings" /\ (ok \/ o.name = "poll")
                  \/ p = [o EXCEPT !.at = at]
  BY DEF AfterSave
<1>4. o.name # "settings" /\ (ok \/ o.name = "poll") => p = NoOp  BY DEF AfterSave
<1> HIDE DEF at
<1>5. CASE p = [o EXCEPT !.at = at]
  <2>1. p \in Ops /\ Akin(p, o) /\ p.marks = o.marks /\ p.certs = o.certs /\ p.i = o.i /\ p.at = at
    BY <1>1, <1>5 DEF Ops, Akin
  <2> QED  BY <1>4, <2>1 DEF at
<1>6. CASE p # [o EXCEPT !.at = at]
  BY <1>2, <1>3, <1>6, Constant
<1> QED  BY <1>5, <1>6

LEMMA SaveConfigEndsIs ==
  ASSUME Types, NEW t \in Tasks, SaveConfigEnds(t)
  PROVE  /\ Types' /\ FilesAs /\ Rest(t, {}) /\ job' = NoJob /\ job.at = "done"
         /\ UNCHANGED <<fs, faults>> /\ op[t].at = "ends"
         /\ \E ok \in BOOLEAN :
              /\ job.ok = ok /\ op'[t] = AfterSave(op[t], ok)
              /\ ok => mem' = Persisted(mem) /\ crossed' = (crossed /\ "behind" \in op[t].marks)
              /\ ~ok => UNCHANGED <<mem, crossed>>
<1>1. op[t] \in Ops /\ op \in [Tasks -> Ops] /\ mem \in Mems  BY DEF Types
<1>2. PICK ok \in BOOLEAN :
        /\ Answer(ok) /\ Moves(t, AfterSave(op[t], ok), {})
        /\ ok => mem' = Persisted(mem) /\ crossed' = (crossed /\ "behind" \in op[t].marks)
        /\ ~ok => UNCHANGED <<mem, crossed>>
  BY DEF SaveConfigEnds
<1>3. AfterSave(op[t], ok) \in Ops  BY <1>1, AfterSaveGives
<1>4. op' \in [Tasks -> Ops] /\ op'[t] = AfterSave(op[t], ok) /\ Rest(t, {})
  BY <1>1, <1>2, <1>3, MovesGives
<1>5. FilesAs /\ job' = NoJob /\ job.at = "done" /\ job.ok = ok /\ UNCHANGED <<fs, faults>>
  BY <1>2, EndAs DEF Answer, Ends, Skips
<1>6. mem' \in Mems /\ crossed' \in BOOLEAN
  BY <1>1, <1>2, PersistedGives DEF Types
<1> QED  BY <1>2, <1>4, <1>5, <1>6 DEF SaveConfigEnds, Types

LEMMA RequestIs ==
  ASSUME Types, NEW t \in Tasks, Request(t)
  PROVE  Types' /\ FilesAs /\ Rest(t, {}) /\ op'[t] = NoOp /\ op[t].at = "request"
         /\ mem'.dirty /\ mem'.config = mem.config /\ mem'.loaded = mem.loaded
         /\ mem'.pending = mem.pending /\ mem'.healthy = mem.healthy
<1>1. op' \in [Tasks -> Ops] /\ op'[t] = NoOp /\ Rest(t, {})
  BY MovesGives, Constant DEF Request, Types
<1>2. /\ mem' \in Mems /\ mem'.dirty /\ mem'.config = mem.config /\ mem'.loaded = mem.loaded
      /\ mem'.pending = mem.pending /\ mem'.healthy = mem.healthy
  BY DEF Request, Types, Mems
<1> QED  BY <1>1, <1>2, NoFileAs DEF Request, Types, history

NewOp(name, at, prev, new, want, undo, since) ==
  [name |-> name, at |-> at, i |-> 1, prev |-> prev, certs |-> NoTexts, new |-> new,
   want |-> want, undo |-> undo, since |-> since, marks |-> {}]

LEMMA SaveFieldIs ==
  ASSUME Types, NEW t \in Tasks, NEW part, NEW undo,
         (part = "rest" /\ undo \in {"revert", "dirty"}) \/ (part = "wifi" /\ undo = "dirty"),
         SaveField(t, part, undo)
  PROVE  /\ Types' /\ FilesAs /\ Rest(t, IF part = "wifi" THEN {"disturbed"} ELSE {})
         /\ op[t].name = "none" /\ op[Main].name # "begin"
         /\ op'[t].name = "field" /\ op'[t].at = "save" /\ op'[t].undo = undo /\ op'[t].marks = {}
         /\ undo = "revert" => op'[t].prev = mem.config
         /\ mem'.config = With(mem.config, part, made') /\ mem'.dirty = mem.dirty
         /\ mem'.loaded = mem.loaded /\ mem'.pending = mem.pending /\ mem'.healthy = mem.healthy
<1>1. mem \in Mems /\ mem.config \in Values /\ op \in [Tasks -> Ops]  BY DEF Types, Mems
<1>2. made' \in Versions  BY Constant DEF SaveField, Types, Versions
<1>3. With(mem.config, part, made') \in Values  BY <1>1, <1>2, WithGives
<1>4. /\ mem' \in Mems /\ mem'.config = With(mem.config, part, made') /\ mem'.dirty = mem.dirty
      /\ mem'.loaded = mem.loaded /\ mem'.pending = mem.pending /\ mem'.healthy = mem.healthy
  <2> DEFINE c == With(mem.config, part, made')
  <2>1. mem' = [mem EXCEPT !.config = c]  BY DEF SaveField
  <2> HIDE DEF c
  <2> QED  BY <1>1, <1>3, <2>1 DEF Mems, c
<1> DEFINE prev == IF undo = "revert" THEN mem.config ELSE Defaults
           o == NewOp("field", "save", prev, 0, NoTexts, undo, 0)
<1>5. Moves(t, o, IF part = "wifi" THEN {"disturbed"} ELSE {})
  <2> DEFINE p == [NoOp EXCEPT !.name = "field", !.at = "save", !.undo = undo,
                               !.prev = IF undo = "revert" THEN mem.config ELSE @]
             p1 == [NoOp EXCEPT !.name = "field"]
             p2 == [p1 EXCEPT !.at = "save"]
             p3 == [p2 EXCEPT !.undo = undo]
             p4 == [p3 EXCEPT !.prev = prev]
  <2>1. Moves(t, p, IF part = "wifi" THEN {"disturbed"} ELSE {})  BY DEF SaveField
  <2>2. p1 = NewOp("field", "idle", Defaults, 0, NoTexts, "dirty", 0)  BY DEF NoOp, NewOp
  <2>3. p3.prev = Defaults /\ p = [p3 EXCEPT !.prev = IF undo = "revert" THEN mem.config ELSE @]
    BY <2>2 DEF NewOp
  <2> HIDE DEF p, p1
  <2>4. p2 = NewOp("field", "save", Defaults, 0, NoTexts, "dirty", 0)  BY <2>2 DEF NewOp
  <2> HIDE DEF p2
  <2>5. p3 = NewOp("field", "save", Defaults, 0, NoTexts, undo, 0)  BY <2>4 DEF NewOp
  <2> HIDE DEF p3
  <2>6. p = p4  BY <2>3
  <2>7. p4 = o  BY <2>5 DEF NewOp
  <2> HIDE DEF p4, o
  <2> QED  BY <2>1, <2>6, <2>7
<1>6. prev \in Values  BY <1>1, Constant
<1> HIDE DEF prev
<1>7. o \in Ops  BY <1>6, Constant DEF Ops, OpNames, OpAts, SettingsAts, FieldAts, NewOp
<1>8. op' \in [Tasks -> Ops] /\ op'[t] = o /\ Rest(t, IF part = "wifi" THEN {"disturbed"} ELSE {})
  BY <1>1, <1>5, <1>7, MovesGives
<1>9. op'[t].name = "field" /\ op'[t].at = "save" /\ op'[t].undo = undo /\ op'[t].marks = {}
      /\ op'[t].prev = prev
  BY <1>8 DEF NewOp
<1> HIDE DEF o
<1> QED  BY <1>2, <1>4, <1>8, <1>9, NoFileAs
         DEF SaveField, Ready, Runs, Types, history, prev

RollsBackTo(t, config) ==
  /\ Types' /\ FilesAs /\ UNCHANGED <<fs, job, faults>>
  /\ op[t].at = "undo"
  /\ mem'.config = config /\ mem'.dirty = mem.dirty /\ mem'.loaded = mem.loaded
  /\ mem'.pending = mem.pending /\ mem'.healthy = mem.healthy
  /\ crossed' = (crossed \/ "overtaken" \in op[t].marks)
  /\ UNCHANGED <<texts, tainted, boot, made, suspect>>

LEMMA RollsBackIs ==
  ASSUME Types, NEW t \in Tasks, NEW o \in Ops, NEW config \in Values, NEW marks,
         op[t].at = "undo", RollsBack(t, o, config, marks), NoFile,
         UNCHANGED <<texts, tainted, boot, made, suspect>>
  PROVE  RollsBackTo(t, config) /\ op'[t] = o /\ Rest(t, {"overtaken", "behind"} \cup marks)
<1>1. op \in [Tasks -> Ops] /\ mem \in Mems /\ crossed \in BOOLEAN  BY DEF Types
<1>2. op' \in [Tasks -> Ops] /\ op'[t] = o /\ Rest(t, {"overtaken", "behind"} \cup marks)
  <2> DEFINE all == {"overtaken", "behind"} \cup marks
  <2>1. Moves(t, o, all)  BY DEF RollsBack
  <2> HIDE DEF all
  <2>2. op' \in [Tasks -> Ops] /\ op'[t] = o /\ Rest(t, all)  BY <1>1, <2>1, MovesGives
  <2> QED  BY <2>2 DEF all
<1>3. /\ mem' \in Mems /\ mem'.config = config /\ mem'.dirty = mem.dirty
      /\ mem'.loaded = mem.loaded /\ mem'.pending = mem.pending /\ mem'.healthy = mem.healthy
  BY <1>1 DEF RollsBack, Mems
<1>4. crossed' = (crossed \/ "overtaken" \in op[t].marks) /\ crossed' \in BOOLEAN
  BY <1>1 DEF RollsBack
<1> QED  BY <1>2, <1>3, <1>4, NoFileAs DEF RollsBackTo, Types

LEMMA UndoFieldIs ==
  ASSUME Types, NEW t \in Tasks, UndoField(t)
  PROVE  /\ RollsBackTo(t, With(mem.config, "rest", op[t].prev.rest)) /\ op[t].name = "field"
         /\ op'[t] = NoOp /\ Rest(t, {"overtaken", "behind"})
<1>1. op[t] \in Ops /\ mem.config \in Values  BY DEF Types, Mems
<1>2. With(mem.config, "rest", op[t].prev.rest) \in Values
  BY <1>1, WithGives DEF Ops
<1>3. op[t].at = "undo" /\ op[t].name = "field"  BY DEF UndoField, Runs
<1>4. RollsBackTo(t, With(mem.config, "rest", op[t].prev.rest)) /\ op'[t] = NoOp
      /\ Rest(t, {"overtaken", "behind"} \cup {})
  BY <1>2, <1>3, RollsBackIs, Constant DEF UndoField
<1>5. {"overtaken", "behind"} \cup {} = {"overtaken", "behind"}  OBVIOUS
<1> QED  BY <1>3, <1>4, <1>5

LEMMA UndoSettingsIs ==
  ASSUME Types, NEW t \in Tasks, UndoSettings(t)
  PROVE  /\ RollsBackTo(t, op[t].prev) /\ op[t].name = "settings"
         /\ Placed(t, "restore") /\ op'[t].marks = op[t].marks
         /\ Rest(t, {"overtaken", "behind", "disturbed"})
<1>1. op[t] \in Ops /\ op[t].prev \in Values  BY DEF Types, Ops
<1>3. op[t].at = "undo" /\ op[t].name = "settings"  BY DEF UndoSettings, Runs
<1> DEFINE o == [op[t] EXCEPT !.at = "restore"]
<1>2. o \in Ops /\ o.at = "restore" /\ Akin(o, op[t]) /\ o.marks = op[t].marks /\ o.i = op[t].i
      /\ o.certs = op[t].certs
  BY <1>1, SetAt DEF OpAts, SettingsAts
<1>4. RollsBack(t, o, op[t].prev, {"disturbed"})  BY DEF UndoSettings
<1> HIDE DEF o
<1>5. RollsBackTo(t, op[t].prev) /\ op'[t] = o
      /\ Rest(t, {"overtaken", "behind"} \cup {"disturbed"})
  BY <1>1, <1>2, <1>3, <1>4, RollsBackIs DEF UndoSettings
<1>6. {"overtaken", "behind"} \cup {"disturbed"} = {"overtaken", "behind", "disturbed"}  OBVIOUS
<1> QED  BY <1>2, <1>3, <1>5, <1>6 DEF Placed

LEMMA AsksIs ==
  ASSUME Types, NEW t \in Tasks, NEW new \in Versions, NEW want \in [Certificates -> Text],
         NEW undo \in {"dirty", "revert"}, Asks(t, new, want, undo)
  PROVE  /\ Types' /\ FilesAs /\ Rest(t, {}) /\ UNCHANGED <<fs, job, faults, mem, texts, history>>
         /\ op[t].name = "none" /\ op[Main].name # "begin"
         /\ op'[t].name = "settings" /\ op'[t].at = "capture" /\ op'[t].marks = {}
         /\ op'[t].prev = mem.config /\ op'[t].since = faults
<1>1. mem.config \in Values /\ op \in [Tasks -> Ops] /\ faults \in Nat
  BY Constant DEF Types, Mems
<1> DEFINE o == NewOp("settings", "capture", mem.config, new, want, undo, faults)
           p == [NoOp EXCEPT !.name = "settings", !.at = "capture", !.prev = mem.config,
                             !.new = new, !.want = want, !.undo = undo, !.since = faults]
<1>2. p = o
  <2> DEFINE p1 == [NoOp EXCEPT !.name = "settings"]
             p2 == [p1 EXCEPT !.at = "capture"]
             p3 == [p2 EXCEPT !.prev = mem.config]
             p4 == [p3 EXCEPT !.new = new]
             p5 == [p4 EXCEPT !.want = want]
             p6 == [p5 EXCEPT !.undo = undo]
             p7 == [p6 EXCEPT !.since = faults]
  <2>1. p = p7  OBVIOUS
  <2>2. p1 = NewOp("settings", "idle", Defaults, 0, NoTexts, "dirty", 0)  BY DEF NoOp, NewOp
  <2> HIDE DEF p, p1
  <2>3. p2 = NewOp("settings", "capture", Defaults, 0, NoTexts, "dirty", 0)  BY <2>2 DEF NewOp
  <2> HIDE DEF p2
  <2>4. p3 = NewOp("settings", "capture", mem.config, 0, NoTexts, "dirty", 0)  BY <2>3 DEF NewOp
  <2> HIDE DEF p3
  <2>5. p4 = NewOp("settings", "capture", mem.config, new, NoTexts, "dirty", 0)  BY <2>4 DEF NewOp
  <2> HIDE DEF p4
  <2>6. p5 = NewOp("settings", "capture", mem.config, new, want, "dirty", 0)  BY <2>5 DEF NewOp
  <2> HIDE DEF p5
  <2>7. p6 = NewOp("settings", "capture", mem.config, new, want, undo, 0)  BY <2>6 DEF NewOp
  <2> HIDE DEF p6
  <2>8. p7 = o  BY <2>7 DEF NewOp
  <2> HIDE DEF p7, o
  <2> QED  BY <2>1, <2>8
<1>3. Moves(t, p, {})  BY DEF Asks
<1>4. o \in Ops  BY <1>1, Constant DEF Ops, OpNames, OpAts, SettingsAts, NewOp
<1>5. o.name = "settings" /\ o.at = "capture" /\ o.marks = {} /\ o.prev = mem.config
      /\ o.since = faults
  BY DEF NewOp
<1> HIDE DEF o, p
<1>6. op' \in [Tasks -> Ops] /\ op'[t] = o /\ Rest(t, {})
  BY <1>1, <1>2, <1>3, <1>4, MovesGives
<1>7. made' \in Versions  BY Constant DEF Asks, Types, Versions
<1> QED  BY <1>5, <1>6, <1>7, NoFileAs DEF Asks, Ready, Runs, Types, history

LEMMA SaveSettingsIs ==
  ASSUME Types, SaveSettings
  PROVE  \E new \in Versions, want \in [Certificates -> Text] : Asks(Main, new, want, "revert")
<1>1. PICK want \in [Certificates -> {made + 1, None}] : Asks(Main, made + 1, want, "revert")
  BY DEF SaveSettings
<1>2. made + 1 \in Versions  BY <1>1, Constant DEF Asks, Types, Versions
<1>3. want \in [Certificates -> Text]  BY <1>2 DEF Text
<1> QED  BY <1>1, <1>2, <1>3

LEMMA AssignsIs ==
  ASSUME Types, NEW t \in Tasks, NEW from, NEW v, NEW to,
         \/ from = "assign" /\ v = Mixed /\ to = "half"
         \/ from = "half" /\ v = op[t].new /\ to = "save",
         Assigns(t, from, v, to)
  PROVE  /\ Types' /\ FilesAs /\ UNCHANGED <<fs, job, faults, texts, history>>
         /\ op[t].name = "settings" /\ op[t].at = from
         /\ Placed(t, to) /\ op'[t].marks = op[t].marks /\ Rest(t, {"disturbed"})
         /\ mem'.config = With(mem.config, "wifi", v) /\ mem'.dirty = mem.dirty
         /\ mem'.loaded = mem.loaded /\ mem'.pending = mem.pending /\ mem'.healthy = mem.healthy
<1>1. op[t] \in Ops /\ mem.config \in Values /\ mem \in Mems /\ op \in [Tasks -> Ops]
  BY DEF Types, Mems
<1>2. With(mem.config, "wifi", v) \in Values  BY <1>1, WithGives DEF Ops
<1> DEFINE o == [op[t] EXCEPT !.at = to]
<1>3. o \in Ops /\ o.at = to /\ Akin(o, op[t]) /\ o.marks = op[t].marks /\ o.i = op[t].i
      /\ o.certs = op[t].certs
  BY <1>1, SetAt DEF OpAts, SettingsAts, FieldAts
<1>4. Moves(t, o, {"disturbed"})  BY DEF Assigns
<1> HIDE DEF o
<1>5. op' \in [Tasks -> Ops] /\ op'[t] = o /\ Rest(t, {"disturbed"})
  BY <1>1, <1>3, <1>4, MovesGives
<1>6. /\ mem' \in Mems /\ mem'.config = With(mem.config, "wifi", v) /\ mem'.dirty = mem.dirty
      /\ mem'.loaded = mem.loaded /\ mem'.pending = mem.pending /\ mem'.healthy = mem.healthy
  <2> DEFINE c == With(mem.config, "wifi", v)
  <2>1. mem' = [mem EXCEPT !.config = c]  BY DEF Assigns
  <2> HIDE DEF c
  <2> QED  BY <1>1, <1>2, <2>1 DEF Mems, c
<1> QED  BY <1>3, <1>5, <1>6, NoFileAs DEF Assigns, Runs, Types, Placed, history

LEMMA SettingsReturnIs ==
  ASSUME Types, NEW t \in Tasks, SettingsReturn(t)
  PROVE  /\ Types' /\ FilesAs /\ UNCHANGED <<fs, job, faults, mem, texts, history>>
         /\ op[t].at \in {"saved", "refused"} /\ Rest(t, {})
         /\ op'[t] = NoOp \/ (Placed(t, "request") /\ op'[t].marks = op[t].marks)
<1>1. op[t] \in Ops /\ op \in [Tasks -> Ops]  BY DEF Types
<1> DEFINE o == [op[t] EXCEPT !.at = "request"]
<1>2. o \in Ops /\ o.at = "request" /\ Akin(o, op[t]) /\ o.marks = op[t].marks /\ o.i = op[t].i
      /\ o.certs = op[t].certs
  BY <1>1, SetAt DEF OpAts, SettingsAts, FieldAts
<1>3. Moves(t, o, {}) \/ Moves(t, NoOp, {})  BY DEF SettingsReturn
<1> HIDE DEF o
<1>4. op' \in [Tasks -> Ops] /\ op'[t] \in {o, NoOp} /\ Rest(t, {})
  BY <1>1, <1>2, <1>3, MovesGives, Constant
<1> QED  BY <1>2, <1>4, NoFileAs DEF SettingsReturn, Types, Placed, history

\* mem' tells nothing new of the configuration; the proof of health may go on.
SameConfig ==
  /\ mem'.config = mem.config /\ mem'.dirty = mem.dirty /\ mem'.loaded = mem.loaded

LEMMA ObserveHealthyIs ==
  ASSUME Types, NEW counts \in BOOLEAN, ObserveHealthy(counts)
  PROVE  /\ Types' /\ FilesAs /\ UNCHANGED <<fs, job, faults, op, texts, history>>
         /\ SameConfig /\ mem'.pending = mem.pending /\ mem.pending /\ suspect' < Dwell
         /\ \/ mem'.healthy = mem.healthy
            \/ mem'.healthy = mem.healthy + 1 /\ mem.window /\ counts
         /\ IF ~Misbehaves /\ ~Changing THEN suspect' = 0
            ELSE suspect' = IF mem.window /\ counts THEN suspect + 1 ELSE suspect
<1>1. mem \in Mems /\ suspect \in 0 .. Dwell  BY DEF Types
<1>2. /\ mem' \in Mems /\ SameConfig /\ mem'.pending = mem.pending
      /\ \/ mem'.healthy = mem.healthy
         \/ mem'.healthy = mem.healthy + 1 /\ mem.window /\ counts
  <2>1. CASE ~mem.window /\ mem' = [mem EXCEPT !.window = TRUE]
    BY <1>1, <2>1 DEF Mems, SameConfig
  <2>2. CASE mem.window /\ counts /\ mem.healthy < Dwell
             /\ mem' = [mem EXCEPT !.healthy = mem.healthy + 1]
    <3>1. mem.healthy + 1 \in 0 .. Dwell /\ mem.window /\ counts
      BY <1>1, <2>2, Constant DEF Mems
    <3> QED  BY <1>1, <2>2, <3>1 DEF Mems, SameConfig
  <2>3. CASE mem' = mem
    BY <1>1, <2>3 DEF SameConfig
  <2> QED  BY <2>1, <2>2, <2>3 DEF ObserveHealthy
<1>3. /\ suspect' \in 0 .. Dwell /\ suspect' < Dwell
      /\ IF ~Misbehaves /\ ~Changing THEN suspect' = 0
         ELSE suspect' = IF mem.window /\ counts THEN suspect + 1 ELSE suspect
  BY <1>1, Constant DEF ObserveHealthy
<1> QED  BY <1>2, <1>3, NoFileAs DEF ObserveHealthy, Types, history

LEMMA ObserveOtherIs ==
  ASSUME Types, NEW health, ObserveOther(health)
  PROVE  /\ Types' /\ FilesAs /\ UNCHANGED <<fs, job, faults, op, texts, history, suspect>>
         /\ SameConfig /\ mem'.pending = mem.pending
         /\ mem'.healthy = mem.healthy \/ mem'.healthy = 0
<1>1. mem \in Mems  BY DEF Types
<1>2. /\ mem' \in Mems /\ SameConfig /\ mem'.pending = mem.pending
      /\ mem'.healthy = mem.healthy \/ mem'.healthy = 0
  <2>1. CASE mem' = NoProof(mem)
    BY <1>1, <2>1, ProofGives DEF SameConfig
  <2>2. CASE mem' = [mem EXCEPT !.window = FALSE]
    BY <1>1, <2>2 DEF Mems, SameConfig
  <2> QED  BY <2>1, <2>2 DEF ObserveOther, Unwell
<1> QED  BY <1>2, NoFileAs DEF ObserveOther, Types, history

LEMMA RetryReadyIs ==
  ASSUME Types, RetryReady
  PROVE  /\ Types' /\ FilesAs /\ UNCHANGED <<fs, job, faults, op, texts, history, suspect>>
         /\ SameConfig /\ mem'.pending = mem.pending /\ mem'.healthy = mem.healthy
<1>1. /\ mem' \in Mems /\ SameConfig /\ mem'.pending = mem.pending
      /\ mem'.healthy = mem.healthy
  BY DEF RetryReady, Types, Mems, SameConfig
<1> QED  BY <1>1, NoFileAs DEF RetryReady, Types, history

LEMMA MarkStableIs ==
  ASSUME Types, MarkStable
  PROVE  /\ Types' /\ FilesAs /\ UNCHANGED <<fs, job, faults, op, mem, texts, history, suspect>>
         /\ boot'.power = "on"
<1>1. boot' = [count |-> 0, stage |-> 0, stable |-> TRUE, power |-> boot.power, crash |-> boot.crash]
  BY DEF MarkStable, Types, Boots
<1>2. boot' \in Boots /\ boot'.power = "on"
  <2>1. boot \in Boots /\ boot.power = "on"  BY DEF MarkStable, Ready, Runs, Types
  <2>2. 0 \in 0 .. MaxReboots  BY Constant
  <2> QED  BY <1>1, <2>1, <2>2 DEF Boots
<1> QED  BY <1>2, NoFileAs DEF MarkStable, Types, history

LEMMA CommitLastGoodIs ==
  ASSUME Types, CommitLastGood
  PROVE  /\ Types' /\ FilesAs /\ SameConfig /\ mem'.pending = mem.pending
         /\ mem'.healthy = mem.healthy /\ UNCHANGED <<texts, crossed, boot, suspect>>
         /\ op[Main].name = "none" /\ job.at = "idle" /\ ~mem.dirty /\ mem.pending
         /\ mem.healthy = Dwell
         /\ \E found \in Content :
              /\ Reads(Config, found)
              /\ \/ found = None /\ UNCHANGED <<job, op, tainted>>
                 \/ /\ found # None /\ tainted' = (tainted \/ crossed) /\ Rest(Main, {})
                    /\ op'[Main].name = "commit" /\ op'[Main].at = "copy"
                    /\ job' = [at |-> "open", path |-> LastGood, value |-> found, kind |-> "copy",
                               ok |-> FALSE]
<1>1. op \in [Tasks -> Ops] /\ mem \in Mems  BY DEF Types
<1>2. PICK found \in Content :
        /\ Reads(Config, found)
        /\ IF found = None
            THEN mem' = [mem EXCEPT !.backoff = TRUE] /\ UNCHANGED <<job, op, tainted>>
            ELSE /\ Starts(LastGood, found, "copy") /\ tainted' = (tainted \/ crossed)
                 /\ Moves(Main, [NoOp EXCEPT !.name = "commit", !.at = "copy"], {})
                 /\ UNCHANGED mem
  BY DEF CommitLastGood
<1>3. Looks /\ faults' \in 0 .. MaxFaults
  BY <1>2, ReadsLook, LooksSpend, SpendsBound, Constant DEF Types
<1>4. op[Main].name = "none" /\ job.at = "idle" /\ ~mem.dirty /\ mem.pending /\ mem.healthy = Dwell
  BY DEF CommitLastGood, Ready, Runs, Free, Due
<1>5. CASE found = None
  <2>1. mem' \in Mems /\ SameConfig /\ mem'.pending = mem.pending /\ mem'.healthy = mem.healthy
    BY <1>1, <1>2, <1>5 DEF Mems, SameConfig
  <2>2. FilesAs  BY <1>2, <1>3, <1>4, <1>5, IdleAs
  <2> QED  BY <1>2, <1>3, <1>4, <1>5, <2>1, <2>2 DEF CommitLastGood, Types
<1>6. CASE found # None
  <2> DEFINE o == [NoOp EXCEPT !.name = "commit", !.at = "copy"]
  <2>1. o \in Ops /\ o.name = "commit" /\ o.at = "copy"
    BY Constant DEF Ops, OpNames, OpAts, NoOp
  <2>2. Moves(Main, o, {})  BY <1>2, <1>6
  <2> HIDE DEF o
  <2>3. op' \in [Tasks -> Ops] /\ op'[Main] = o /\ Rest(Main, {})
    BY <1>1, <2>1, <2>2, MovesGives, Constant
  <2>4. FilesAs  BY <1>2, <1>3, <1>6, CallAs, Constant DEF Kinds
  <2>5. job' = [at |-> "open", path |-> LastGood, value |-> found, kind |-> "copy", ok |-> FALSE]
    BY <1>2, <1>6 DEF Starts
  <2>6. tainted' \in BOOLEAN /\ UNCHANGED mem  BY <1>2, <1>6 DEF Types
  <2> QED  BY <1>2, <1>3, <1>4, <1>6, <2>1, <2>3, <2>4, <2>5, <2>6
           DEF CommitLastGood, Types, SameConfig
<1> QED  BY <1>5, <1>6

LEMMA CommitEndsIs ==
  ASSUME Types, CommitEnds
  PROVE  /\ Types' /\ FilesAs /\ UNCHANGED <<fs, faults, texts, history, suspect>> /\ job' = NoJob
         /\ op[Main].name = "commit" /\ op[Main].at = "copy" /\ op'[Main] = NoOp /\ Rest(Main, {})
         /\ SameConfig /\ (mem'.pending => mem.pending)
         /\ mem'.healthy = mem.healthy \/ mem'.healthy = 0
<1>1. op \in [Tasks -> Ops] /\ mem \in Mems  BY DEF Types
<1>2. op' \in [Tasks -> Ops] /\ op'[Main] = NoOp /\ Rest(Main, {})
  BY <1>1, MovesGives, Constant DEF CommitEnds
<1>3. FilesAs /\ job' = NoJob /\ UNCHANGED <<fs, faults>>
  BY EndAs DEF CommitEnds, Answer, Ends, Skips
<1>4. /\ mem' \in Mems /\ SameConfig /\ (mem'.pending => mem.pending)
      /\ mem'.healthy = mem.healthy \/ mem'.healthy = 0
  <2>1. CASE mem' = NoProof([mem EXCEPT !.pending = FALSE])
    <3> DEFINE m == [mem EXCEPT !.pending = FALSE]
    <3>1. m \in Mems /\ m.config = mem.config /\ m.dirty = mem.dirty /\ m.loaded = mem.loaded
          /\ ~m.pending
      BY <1>1 DEF Mems
    <3>2. mem' = NoProof(m)  BY <2>1
    <3> HIDE DEF m
    <3> QED  BY <3>1, <3>2, ProofGives DEF SameConfig
  <2>2. CASE mem' = [mem EXCEPT !.backoff = TRUE]
    BY <1>1, <2>2 DEF Mems, SameConfig
  <2> QED  BY <2>1, <2>2 DEF CommitEnds
<1> QED  BY <1>2, <1>3, <1>4 DEF CommitEnds, Types, Runs, history

LEMMA ResetIs ==
  ASSUME Types, NEW crash \in BOOLEAN, Reset(crash), Spends
  PROVE  /\ Types' /\ FilesAs /\ mem' = Fresh /\ ~crossed' /\ tainted' = tainted /\ suspect' = 0
         /\ op' = [t \in Tasks |-> NoOp] /\ job' = NoJob /\ fs' = fs /\ boot'.power = "reset"
<1>1. texts' \in [Certificates -> Text]
  <2>1. PICK left \in [Certificates -> Text] :
          texts' = [i \in Certificates |-> IF Removed(i) THEN left[i] ELSE texts[i]]
    BY DEF Reset
  <2> DEFINE R(i) == Removed(i)
  <2>2. texts' = [i \in Certificates |-> IF R(i) THEN left[i] ELSE texts[i]]  BY <2>1
  <2> HIDE DEF R
  <2> QED  BY <2>2 DEF Types
<1>2. boot' \in Boots /\ boot'.power = "reset"
  <2> DEFINE count == IF RtcDataKept THEN boot.count ELSE 0
             stage == IF RtcDataKept THEN boot.stage ELSE 0
  <2>1. boot' = [power |-> "reset", crash |-> crash, stable |-> FALSE, count |-> count, stage |-> stage]
    BY DEF Reset
  <2>2. count \in 0 .. MaxReboots /\ stage \in {0, 1}  BY Constant DEF Types, Boots
  <2> HIDE DEF count, stage
  <2> QED  BY <2>1, <2>2 DEF Boots
<1>3. op' \in [Tasks -> Ops] /\ mem' \in Mems /\ suspect' \in 0 .. Dwell /\ faults' \in 0 .. MaxFaults
  BY Constant, SpendsBound DEF Reset, Types
<1>4. FilesAs
  <2>1. job' = NoJob /\ fs' = fs  BY DEF Reset, Ends
  <2> QED  BY <1>3, <2>1, Constant DEF FilesAs
<1> QED  BY <1>1, <1>2, <1>3, <1>4 DEF Reset, Types, Ends

LEMMA ApplyIs ==
  ASSUME Types, Apply
  PROVE  /\ Types' /\ FilesAs /\ UNCHANGED <<fs, job, faults, mem, texts, history, suspect>>
         /\ boot.power = "reset" /\ boot'.power = "on"
         /\ op'[Main].name = "begin" /\ op'[Main].at \in {"load", "rollback", "clear"}
         /\ \A s \in Tasks \ {Main} : op'[s] = op[s]
<1>1. boot \in Boots /\ op \in [Tasks -> Ops]  BY DEF Types
<1> DEFINE count == IF boot.crash THEN Counted(boot.count) ELSE 0
           stage == IF boot.crash THEN boot.stage ELSE 0
<1>2. /\ boot' = [boot EXCEPT !.power = "on", !.crash = FALSE, !.count = count,
                              !.stage = IF count >= MaxReboots THEN 1 ELSE stage]
      /\ Begins(IF count < MaxReboots THEN "load" ELSE IF stage = 0 THEN "rollback" ELSE "clear")
  BY DEF Apply
<1>3. count \in 0 .. MaxReboots /\ stage \in {0, 1}
  BY <1>1, Constant DEF Counted, Boots
<1> HIDE DEF count, stage
<1>4. boot' \in Boots /\ boot'.power = "on"
  <2> DEFINE new == IF count >= MaxReboots THEN 1 ELSE stage
             b == [boot EXCEPT !.power = "on"]
             c == [b EXCEPT !.crash = FALSE]
             d == [c EXCEPT !.count = count]
  <2>1. boot' = [d EXCEPT !.stage = new]  BY <1>2
  <2>2. b \in Boots /\ b.power = "on"  BY <1>1 DEF Boots
  <2> HIDE DEF b
  <2>3. c \in Boots /\ c.power = "on"  BY <2>2 DEF Boots
  <2> HIDE DEF c
  <2>4. d \in Boots /\ d.power = "on"  BY <1>3, <2>3 DEF Boots
  <2> HIDE DEF d
  <2>5. new \in {0, 1}  BY <1>3
  <2> HIDE DEF new
  <2> QED  BY <2>1, <2>4, <2>5 DEF Boots
<1>5. PICK at \in {"load", "rollback", "clear"} : Begins(at)
  BY <1>2
<1> DEFINE o == [NoOp EXCEPT !.name = "begin", !.at = at]
<1>6. o \in Ops /\ o.name = "begin" /\ o.at = at
  BY Constant DEF Ops, OpNames, OpAts, BeginAts, NoOp
<1>7. op' = [op EXCEPT ![Main] = o]  BY <1>5 DEF Begins
<1> HIDE DEF o
<1>8. /\ op' \in [Tasks -> Ops] /\ op'[Main] = o
      /\ \A s \in Tasks \ {Main} : op'[s] = op[s]
  BY <1>1, <1>6, <1>7, Constant
<1> QED  BY <1>4, <1>6, <1>8, NoFileAs DEF Apply, Types, history

\* A step of the boot that only moves on.
BootGoes(from, to) ==
  /\ Types' /\ FilesAs /\ UNCHANGED <<mem, history, boot, suspect>>
  /\ op[Main].name = "begin" /\ op[Main].at = from /\ boot.power = "on"
  /\ op'[Main].name = "begin" /\ op'[Main].at = to /\ Rest(Main, {})

LEMMA BootGoesIs ==
  ASSUME Types, NEW from, NEW to \in OpAts, Runs(Main, "begin", from), At(Main, to), FilesAs,
         faults' \in 0 .. MaxFaults, UNCHANGED <<mem, texts, history, boot, made, suspect>>
  PROVE  BootGoes(from, to)
<1>1. op' \in [Tasks -> Ops] /\ op'[Main].at = to /\ Akin(op'[Main], op[Main]) /\ Rest(Main, {})
  BY AtGives, Constant DEF Types
<1> QED  BY <1>1 DEF BootGoes, Types, Runs, Akin, history

LEMMA RestoreLastGoodIs ==
  ASSUME Types, job.at = "idle", RestoreLastGood
  PROVE  \/ /\ BootGoes("rollback", "clear") /\ UNCHANGED job
            /\ \E found \in Content : Reads(LastGood, found)
         \/ /\ BootGoes("rollback", "rollbackEnds")
            /\ \E found \in Content \ {None} : Reads(LastGood, found) /\ Starts(Config, found, "copy")
<1>1. PICK found \in Content :
        /\ Reads(LastGood, found)
        /\ IF found = None THEN At(Main, "clear") /\ UNCHANGED job
            ELSE Starts(Config, found, "copy") /\ At(Main, "rollbackEnds")
  BY DEF RestoreLastGood
<1>2. Looks /\ faults' \in 0 .. MaxFaults
  BY <1>1, ReadsLook, LooksSpend, SpendsBound, Constant DEF Types
<1>3. CASE found = None
  <2>1. FilesAs  BY <1>1, <1>2, <1>3, IdleAs
  <2> QED  BY <1>1, <1>2, <1>3, <2>1, BootGoesIs DEF RestoreLastGood, OpAts, BeginAts
<1>4. CASE found # None
  <2>1. FilesAs  BY <1>1, <1>2, <1>4, CallAs, Constant DEF Kinds
  <2>2. BootGoes("rollback", "rollbackEnds")
    BY <1>1, <1>2, <1>4, <2>1, BootGoesIs DEF RestoreLastGood, OpAts, BeginAts
  <2> QED  BY <1>1, <1>4, <2>2
<1> QED  BY <1>3, <1>4

LEMMA RestoreLastGoodEndsIs ==
  ASSUME Types, RestoreLastGoodEnds
  PROVE  /\ BootGoes("rollbackEnds", "load") \/ BootGoes("rollbackEnds", "clear")
         /\ job' = NoJob /\ UNCHANGED <<fs, faults>>
<1>1. FilesAs /\ job' = NoJob /\ UNCHANGED <<fs, faults>>
  BY EndAs DEF RestoreLastGoodEnds, Answer, Ends, Skips
<1>2. faults' \in 0 .. MaxFaults  BY <1>1 DEF Types
<1> QED  BY <1>1, <1>2, BootGoesIs DEF RestoreLastGoodEnds, OpAts, BeginAts

LEMMA ClearFileIs ==
  ASSUME Types, NEW from, NEW path \in Paths, NEW to \in OpAts, ClearFile(from, path, to)
  PROVE  BootGoes(from, to) /\ Starts(path, None, "remove") /\ UNCHANGED <<fs, faults>>
<1>1. Starts(path, None, "remove") /\ UNCHANGED <<fs, faults>> /\ Looks
  BY SkipsLook DEF ClearFile, Skips
<1>2. FilesAs  BY <1>1, CallAs DEF Content, Kinds
<1>3. faults' \in 0 .. MaxFaults  BY <1>1 DEF Types
<1> QED  BY <1>1, <1>2, <1>3, BootGoesIs DEF ClearFile

LEMMA ClearFileEndsIs ==
  ASSUME Types, NEW from, NEW to \in OpAts, ClearFileEnds(from, to)
  PROVE  BootGoes(from, to) /\ job' = NoJob /\ UNCHANGED <<fs, faults>>
<1>1. FilesAs /\ job' = NoJob /\ UNCHANGED <<fs, faults>>
  BY EndAs DEF ClearFileEnds, Ends, Skips
<1>2. faults' \in 0 .. MaxFaults  BY <1>1 DEF Types
<1> QED  BY <1>1, <1>2, BootGoesIs DEF ClearFileEnds

LEMMA ClearTextIs ==
  ASSUME Types, ClearText
  PROVE  /\ Types' /\ FilesAs /\ UNCHANGED <<fs, job, mem, history, boot, suspect>>
         /\ op[Main].name = "begin" /\ op[Main].at = "clearText" /\ boot.power = "on"
         /\ op'[Main].name = "begin" /\ op'[Main].at \in {"clearText", "load"} /\ Rest(Main, {})
<1>1. op[Main].name = "begin" /\ op[Main].at = "clearText" /\ op[Main] \in Ops /\ boot.power = "on"
      /\ op \in [Tasks -> Ops]
  BY Constant DEF ClearText, Runs, Types
<1> DEFINE o == Nth(op[Main], "clearText", "load")
<1>2. o \in Ops /\ Akin(o, op[Main]) /\ o.at \in {"clearText", "load"}
  BY <1>1, NthGives DEF OpAts, BeginAts
<1>3. Moves(Main, o, {})  BY DEF ClearText
<1> HIDE DEF o
<1>4. op' \in [Tasks -> Ops] /\ op'[Main] = o /\ Rest(Main, {})
  BY <1>1, <1>2, <1>3, MovesGives, Constant
<1>5. Spends /\ texts' \in [Certificates -> Text]
  BY DEF ClearText, Works, Fault, Spends, Types
<1>6. faults' \in 0 .. MaxFaults  BY <1>5, SpendsBound DEF Types
<1>7. FilesAs  BY <1>6, Constant DEF FilesAs, ClearText
<1> QED  BY <1>1, <1>2, <1>4, <1>5, <1>6, <1>7 DEF ClearText, Types, Akin, history

LEMMA LoadConfigIs ==
  ASSUME Types, job.at = "idle", LoadConfig
  PROVE  /\ Types' /\ FilesAs /\ UNCHANGED <<job, texts, history, boot, suspect>>
         /\ op[Main].name = "begin" /\ op[Main].at = "load" /\ op'[Main] = NoOp /\ Rest(Main, {})
         /\ \E found \in Content :
              /\ Reads(Config, found)
              /\ \/ mem' = mem
                 \/ /\ found \in Values /\ mem'.config = found /\ mem'.dirty = mem.dirty
                    /\ mem'.loaded /\ mem'.healthy = 0
<1>1. op \in [Tasks -> Ops] /\ mem \in Mems  BY DEF Types
<1>2. PICK found \in Content :
        /\ Reads(Config, found)
        /\ mem' = IF found \in Values
                  THEN Candidate([mem EXCEPT !.config = found, !.loaded = TRUE]) ELSE mem
  BY DEF LoadConfig
<1>3. Looks /\ faults' \in 0 .. MaxFaults
  BY <1>2, ReadsLook, LooksSpend, SpendsBound, Constant DEF Types
<1>4. FilesAs  BY <1>3, IdleAs DEF LoadConfig
<1>5. op' \in [Tasks -> Ops] /\ op'[Main] = NoOp /\ Rest(Main, {})
  BY <1>1, MovesGives, Constant DEF LoadConfig
<1>6. /\ mem' \in Mems
      /\ \/ mem' = mem
         \/ /\ found \in Values /\ mem'.config = found /\ mem'.dirty = mem.dirty
            /\ mem'.loaded /\ mem'.healthy = 0
  <2>1. CASE found \in Values
    <3> DEFINE a == [mem EXCEPT !.config = found]
               b == [a EXCEPT !.loaded = TRUE]
    <3>1. mem' = Candidate(b)  BY <1>2, <2>1
    <3>2. a \in Mems /\ a.config = found /\ a.dirty = mem.dirty  BY <1>1, <2>1 DEF Mems
    <3> HIDE DEF a
    <3>3. b \in Mems /\ b.config = found /\ b.dirty = mem.dirty /\ b.loaded  BY <3>2 DEF Mems
    <3> HIDE DEF b
    <3> QED  BY <2>1, <3>1, <3>3, CandidateGives
  <2> QED  BY <1>1, <1>2, <2>1
<1> QED  BY <1>2, <1>3, <1>4, <1>5, <1>6 DEF LoadConfig, Types, Runs, history

LEMMA FileStepSpends == FileStep => Spends
BY DEF FileStep, Open, Fill, Settle, DropBak, ToBak, ToFinal, Undo, DropTmp, CleanBak, RmFinal,
       RmTmp, RmBak, RemoveEntry, Removes, Sets, Renames, Fails, Skips, Works, Spends

LEMMA FilingIs ==
  ASSUME Types, Filing
  PROVE  /\ Types' /\ FilesAs /\ FileStep /\ UNCHANGED <<mem, op, texts, history, boot, suspect>>
         /\ boot.power = "on"
<1>1. Spends /\ faults' \in 0 .. MaxFaults
  BY FileStepSpends, SpendsBound DEF Filing, Types
<1> QED  BY <1>1 DEF Filing, Types, FilesAs, FilesNext, history

-----------------------------------------------------------------------------
(* Which operation is where, and whose file call is under way.             *)

\* What a call of the file system at this place of an operation is about.
CallAts == {"ends", "copy", "rollbackEnds", "clearEnds", "clearGoodEnds"}
Call(at) ==
  /\ at = "ends" => job.path = Config /\ job.kind = "config" /\ job.value \in Values
  /\ at = "copy" => job.path = LastGood /\ job.kind = "copy"
  /\ at \in {"rollbackEnds", "clearEnds"} => job.path = Config
  /\ at = "clearGoodEnds" => job.path = LastGood /\ job.value = None
CallShape ==
  /\ \A t \in Tasks : op[t].at \in CallAts => job.at # "idle" /\ Call(op[t].at)
  /\ \A t, s \in Tasks : op[t].at \in CallAts /\ op[s].at \in CallAts => t = s
  /\ job.at # "idle" => \E t \in Tasks : op[t].at \in CallAts

Shape(o) ==
  /\ o.name = "none" => o.at = "idle"
  /\ o.name = "field" => o.at \in FieldAts /\ (o.at = "undo" => o.undo = "revert")
  /\ o.name = "settings" => o.at \in SettingsAts
  /\ o.name = "poll" => o.at = "ends"
  /\ o.name = "commit" => o.at = "copy"
  /\ o.name = "begin" => o.at \in BeginAts
OpsShape ==
  \A t \in Tasks : Shape(op[t]) /\ (op[t].name \in {"poll", "commit", "begin"} => t = Main)

Resting(s) == op[s].name = "none" /\ op[s].at = "idle"
BootShape ==
  /\ op[Main].name = "begin" => mem = Fresh /\ ~crossed /\ \A s \in Tasks \ {Main} : Resting(s)
  /\ boot.power = "reset" => /\ mem = Fresh /\ ~crossed /\ job.at = "idle"
                             /\ \A s \in Tasks : Resting(s)

StoreInv == Types /\ FilesInv /\ OpsShape /\ BootShape /\ CallShape

\* No boot is under way where an operation of a setter goes on.
Up == boot.power = "on" /\ op[Main].name # "begin"

LEMMA RunningUp ==
  ASSUME StoreInv, NEW t \in Tasks, op[t].at # "idle", op[t].name # "begin"
  PROVE  Up
BY Constant DEF StoreInv, BootShape, Resting, Types, Boots, Up

LEMMA UpShape ==
  ASSUME StoreInv, Up, NEW t \in Tasks, NEW marks, Rest(t, marks), boot'.power = boot.power,
         Shape(op'[t]), op'[t].name # "begin", op'[t].name \in {"poll", "commit"} => t = Main
  PROVE  OpsShape' /\ BootShape'
<1>1. \A s \in Tasks \ {t} : Alike(op'[s], op[s])  BY DEF Rest
<1>2. OpsShape'  BY <1>1 DEF StoreInv, OpsShape, Shape, Alike
<1>3. op'[Main].name # "begin"  BY <1>1, Constant DEF Up, Alike
<1> QED  BY <1>2, <1>3 DEF BootShape, Up

LEMMA SameShape ==
  ASSUME StoreInv, Up, op' = op, boot'.power = "on", UNCHANGED job
  PROVE  OpsShape' /\ BootShape' /\ CallShape'
BY DEF StoreInv, OpsShape, Shape, BootShape, CallShape, Call, Up

LEMMA CallStays ==
  ASSUME StoreInv, NEW t \in Tasks, NEW marks, Rest(t, marks), op[t].at \notin CallAts,
         op'[t].at \notin CallAts, UNCHANGED job
  PROVE  CallShape'
<1>1. \A s \in Tasks \ {t} : op'[s].at = op[s].at  BY DEF Rest, Alike
<1> QED  BY <1>1 DEF StoreInv, CallShape, Call

LEMMA CallBegins ==
  ASSUME StoreInv, NEW t \in Tasks, NEW marks, Rest(t, marks), job.at = "idle",
         job'.at # "idle", op'[t].at \in CallAts, Call(op[t].at)'
  PROVE  CallShape'
<1>1. \A s \in Tasks \ {t} : op'[s].at = op[s].at /\ op[s].at \notin CallAts
  BY DEF Rest, Alike, StoreInv, CallShape
<1> QED  BY <1>1 DEF CallShape

LEMMA CallEnds ==
  ASSUME StoreInv, NEW t \in Tasks, NEW marks, Rest(t, marks), op[t].at \in CallAts,
         op'[t].at \notin CallAts, job' = NoJob
  PROVE  CallShape'
<1>1. \A s \in Tasks \ {t} : op'[s].at = op[s].at /\ op[s].at \notin CallAts
  BY DEF Rest, Alike, StoreInv, CallShape
<1> QED  BY <1>1 DEF CallShape, NoJob

\* One step of a call, as the store shows it.
LEMMA StepEffect ==
  ASSUME FilesInv, FileStep
  PROVE  /\ Busy /\ Same /\ job'.at # "idle"
         /\ \A q \in Paths \ {here} : Visible(q)' = Visible(q)
         /\ job.kind # "remove" =>
              \/ (Committed <=> Committed') /\ Visible(here)' = Visible(here)
              \/ /\ Committed' /\ Visible(here)' \in {job.value, Partial}
                 /\ Unchecked \/ Visible(here)' = job.value
<1>1. Busy
  BY DEF Busy, FileStep, Open, Fill, Settle, DropBak, ToBak, ToFinal, Undo, DropTmp, CleanBak,
         RmFinal, RmTmp, RmBak, RemoveEntry
<1>2. job \in Jobs /\ here \in Paths /\ (job.kind = "remove" <=> job.value = None)
  BY <1>1, Before
<1>3. Same /\ job'.at # "idle"
  <2>1. ASSUME NEW at \in Ats \ {"idle"}, Goto(at) PROVE Same /\ job'.at # "idle"
    BY <1>2, <2>1, GotoAt
  <2>2. ASSUME NEW ok \in BOOLEAN, Returns(ok) PROVE Same /\ job'.at # "idle"
    BY <1>2, <2>2, ReturnsAt
  <2>3. ASSUME NEW at, NEW entry, NEW next \in Ats \ {"idle"}, RemoveEntry(at, entry, next)
        PROVE  Same /\ job'.at # "idle"
    BY <1>2, <2>3, RemoveAt
  <2>4. CASE RmFinal \/ RmTmp \/ RmBak
    BY <2>3, <2>4 DEF RmFinal, RmTmp, RmBak, Ats, Removing
  <2>5. CASE Open \/ Fill \/ Settle \/ DropBak \/ ToBak \/ ToFinal \/ Undo \/ DropTmp \/ CleanBak
    BY <2>1, <2>2, <2>5 DEF Open, Fill, Settle, DropBak, ToBak, ToFinal, Undo, DropTmp, CleanBak,
       Ats, Writing
  <2> QED  BY <2>4, <2>5 DEF FileStep
<1>4. Store!Next  BY FileStepMaps
<1>5. /\ Work.path = here /\ Work.value = job.value /\ Work.committed = Committed
      /\ here # None
  BY <1>1, <1>2, WorkFields, ContentAssumption
<1>6. Work'.path = here /\ Work'.committed = Committed'
  <2>1. job'.at # "idle" /\ here' = here  BY <1>3 DEF Same, here
  <2>2. Work' = [path |-> here', value |-> job'.value, checked |-> ~Unchecked',
                 committed |-> Committed', returned |-> (job'.at = "done"),
                 ok |-> (job'.at = "done" /\ job'.ok)]
    BY <2>1, Zenon DEF Work
  <2> QED  BY <2>1, <2>2, Zenon
<1>7. CASE Store!Commit
  <2>0. Work.checked <=> ~Unchecked  BY <1>1, <1>2, WorkFields
  <2>1. PICK v \in {job.value, Partial} :
          StoreBar' = [StoreBar EXCEPT ![here] = v] /\ (Work.checked => v = job.value)
    BY <1>5, <1>7 DEF Store!Commit, Store!Set, StoreBar
  <2>2. Visible(here)' = v /\ \A q \in Paths \ {here} : Visible(q)' = Visible(q)
    BY <1>2, <1>3, <2>1 DEF StoreBar, Same, here
  <2>3. Work'.committed
    BY <1>1, <1>7, WorkFields, Zenon DEF Store!Commit
  <2> QED  BY <1>1, <1>3, <1>6, <2>0, <2>1, <2>2, <2>3
<1>8. CASE Store!Clean \/ Store!Return
  <2>1. Work'.committed <=> Work.committed
    BY <1>1, <1>8, WorkFields, Zenon DEF Store!Clean, Store!Return
  <2>2. StoreBar' = StoreBar \/ (job.value = None
          /\ \E v : StoreBar' = [StoreBar EXCEPT ![here] = v])
    BY <1>5, <1>8
       DEF Store!Clean, Store!Return, Store!Clears, Store!Forgets, Store!Removes, Store!Set, StoreBar
  <2>3. \A q \in Paths \ {here} : Visible(q)' = Visible(q)
    BY <1>2, <1>3, <2>2 DEF StoreBar
  <2>4. job.value # None => Visible(here)' = Visible(here)
    BY <1>2, <1>3, <2>2 DEF StoreBar, Same, here
  <2> QED  BY <1>1, <1>2, <1>3, <1>5, <1>6, <2>1, <2>3, <2>4
<1>9. ASSUME NEW p, NEW v, NEW checked, Store!Begin(p, v, checked) PROVE FALSE
  BY <1>5, <1>9 DEF Store!Begin
<1>10. ASSUME Store!End PROVE FALSE
  BY <1>5, <1>6, <1>10, Zenon DEF Store!End, Store!NoWork
<1> QED  BY <1>4, <1>7, <1>8, <1>9, <1>10 DEF Store!Next

\* What every step keeps, before the files are looked at.
Kept == Types' /\ FilesAs /\ OpsShape' /\ BootShape' /\ CallShape'

LEMMA OpShapes ==
  ASSUME StoreInv, NEW t \in Tasks
  PROVE  Shape(op[t]) /\ op[t] \in Ops /\ (op[t].name \in {"poll", "commit", "begin"} => t = Main)
BY DEF StoreInv, OpsShape, Types

LEMMA TextKept == ASSUME StoreInv, NEW t \in Tasks, TextStep(t) PROVE Kept
<1>1. /\ op[t].name = "settings" /\ op[t].at \in TextAts /\ Akin(op'[t], op[t])
      /\ op'[t].at \in TextAts \cup {"assign", "refused"}
  BY DEF TextStep, TextOps
<1>2. PICK marks \in SUBSET {"torn", "disturbed"} : Rest(t, marks)  BY DEF TextStep, TextOps
<1>3. Types' /\ FilesAs  BY TextAs DEF StoreInv
<1>4. Up  BY <1>1, RunningUp DEF TextAts
<1>5. Shape(op'[t]) /\ op'[t].name = "settings"
  BY <1>1 DEF Shape, Akin, TextAts, SettingsAts, FieldAts
<1>6. OpsShape' /\ BootShape'
  BY <1>2, <1>4, <1>5, UpShape DEF TextStep
<1>7. CallShape'
  BY <1>1, <1>2, CallStays DEF TextStep, TextAts, CallAts
<1> QED  BY <1>3, <1>6, <1>7 DEF Kept

LEMMA SaveConfigKept == ASSUME StoreInv, NEW t \in Tasks, SaveConfig(t) PROVE Kept
<1>1. /\ Types' /\ FilesAs /\ Rest(t, {"overtaken"}) /\ job.at = "idle" /\ SaveBegins
      /\ op[t].at = "save" /\ op'[t].at = "ends" /\ Akin(op'[t], op[t])
  BY SaveConfigIs DEF StoreInv
<1>2. op[t].name \in {"field", "settings"}
  BY <1>1, OpShapes DEF Shape, BeginAts, Ops, OpNames
<1>3. Up  BY <1>1, <1>2, RunningUp
<1>4. Shape(op'[t]) /\ op'[t].name = op[t].name
  BY <1>1, <1>2 DEF Shape, Akin, SettingsAts, FieldAts
<1>5. OpsShape' /\ BootShape'
  BY <1>1, <1>2, <1>3, <1>4, UpShape DEF SaveConfig
<1>6. job'.at # "idle" /\ Call(op[t].at)'
  BY <1>1 DEF SaveBegins, Call, StoreInv, Types, Mems
<1>7. CallShape'
  BY <1>1, <1>6, CallBegins DEF CallAts
<1> QED  BY <1>1, <1>5, <1>7 DEF Kept

LEMMA PollSaveKept == ASSUME StoreInv, PollSave PROVE Kept
<1>1. /\ Types' /\ FilesAs /\ Rest(Main, {"overtaken"}) /\ job.at = "idle" /\ SaveBegins
      /\ op'[Main].at = "ends" /\ op'[Main].name = "poll" /\ Main \in Tasks
  BY PollSaveIs, Constant DEF StoreInv
<1>3. Up  BY DEF PollSave, Ready, Runs, Up
<1>4. Shape(op'[Main])  BY <1>1 DEF Shape
<1>5. OpsShape' /\ BootShape'
  BY <1>1, <1>3, <1>4, UpShape DEF PollSave
<1>6. job'.at # "idle" /\ Call(op[Main].at)'
  BY <1>1 DEF SaveBegins, Call, StoreInv, Types, Mems
<1>7. CallShape'
  BY <1>1, <1>6, CallBegins DEF CallAts
<1> QED  BY <1>1, <1>5, <1>7 DEF Kept

LEMMA NoOpShape == Shape(NoOp) /\ NoOp.name = "none" /\ NoOp.at = "idle" /\ NoOp.marks = {}
BY DEF Shape, NoOp

LEMMA SaveConfigEndsKept == ASSUME StoreInv, NEW t \in Tasks, SaveConfigEnds(t) PROVE Kept
<1>1. /\ Types' /\ FilesAs /\ Rest(t, {}) /\ job' = NoJob /\ op[t].at = "ends"
  BY SaveConfigEndsIs DEF StoreInv
<1>2. PICK ok \in BOOLEAN : op'[t] = AfterSave(op[t], ok)
  BY SaveConfigEndsIs DEF StoreInv
<1>3. op[t].name \in {"field", "settings", "poll"} /\ op[t] \in Ops
  BY <1>1, OpShapes DEF Shape, BeginAts, Ops, OpNames
<1>4. Up  BY <1>1, <1>3, RunningUp
<1>5. Shape(op'[t]) /\ op'[t].name \in {"none", "field", "settings"} /\ op'[t].at \notin CallAts
  <2>1. CASE op'[t] = NoOp  BY <2>1, NoOpShape DEF CallAts
  <2>2. CASE op'[t] # NoOp
    <3>1. /\ Akin(op'[t], op[t]) /\ op'[t].at \in {"saved", "undo", "request"}
          /\ op[t].name = "settings" \/ (op[t].name = "field" /\ op'[t].at \in {"undo", "request"}
                                         /\ (op'[t].at = "undo" => op[t].undo = "revert"))
      BY <1>2, <1>3, <2>2, AfterSaveGives
    <3> QED  BY <1>3, <3>1 DEF Shape, Akin, SettingsAts, FieldAts, CallAts
  <2> QED  BY <2>1, <2>2
<1>6. OpsShape' /\ BootShape'
  BY <1>1, <1>4, <1>5, UpShape DEF SaveConfigEnds
<1>7. CallShape'
  BY <1>1, <1>5, CallEnds DEF CallAts
<1> QED  BY <1>1, <1>6, <1>7 DEF Kept

\* A step of t that leaves the files alone and begins or ends no call.
LEMMA QuietKept ==
  ASSUME StoreInv, NEW t \in Tasks, NEW marks, Rest(t, marks), Types', FilesAs, UNCHANGED job,
         op[t].at \in {"idle", "request", "undo", "assign", "half", "saved", "refused"},
         op[t].at = "idle" => Up, boot'.power = boot.power,
         op'[t].name \in {"none", "field", "settings"}, Shape(op'[t]), op'[t].at \notin CallAts
  PROVE  Kept
<1>1. op[t].at # "idle" => op[t].name # "begin"
  BY OpShapes DEF Shape, BeginAts
<1>2. Up  BY <1>1, RunningUp
<1>3. OpsShape' /\ BootShape'  BY <1>2, UpShape
<1>4. CallShape'  BY CallStays DEF CallAts
<1> QED  BY <1>3, <1>4 DEF Kept

LEMMA RequestKept == ASSUME StoreInv, NEW t \in Tasks, Request(t) PROVE Kept
<1>1. Types' /\ FilesAs /\ Rest(t, {}) /\ op'[t] = NoOp /\ op[t].at = "request" /\ UNCHANGED job
  BY RequestIs, NoFileAs DEF StoreInv, Request
<1> QED  BY <1>1, NoOpShape, QuietKept DEF CallAts, Request

LEMMA SaveFieldKept ==
  ASSUME StoreInv, NEW t \in Tasks, NEW part, NEW undo,
         (part = "rest" /\ undo \in {"revert", "dirty"}) \/ (part = "wifi" /\ undo = "dirty"),
         SaveField(t, part, undo)
  PROVE  Kept
<1>1. PICK marks :
        /\ Types' /\ FilesAs /\ Rest(t, marks) /\ op[t].name = "none"
        /\ op'[t].name = "field" /\ op'[t].at = "save"
  BY SaveFieldIs DEF StoreInv
<1>2. UNCHANGED job /\ op[t].at = "idle" /\ Up /\ boot'.power = boot.power
  BY NoFileAs DEF SaveField, Ready, Runs, Up
<1>3. Shape(op'[t]) /\ op'[t].at \notin CallAts  BY <1>1 DEF Shape, FieldAts, CallAts
<1> QED  BY <1>1, <1>2, <1>3, QuietKept

LEMMA AsksKept ==
  ASSUME StoreInv, NEW t \in Tasks, NEW new \in Versions, NEW want \in [Certificates -> Text],
         NEW undo \in {"dirty", "revert"}, Asks(t, new, want, undo)
  PROVE  Kept
<1>1. /\ Types' /\ FilesAs /\ Rest(t, {}) /\ UNCHANGED job
      /\ op'[t].name = "settings" /\ op'[t].at = "capture"
  BY AsksIs DEF StoreInv
<1>2. op[t].at = "idle" /\ Up /\ boot'.power = boot.power
  BY DEF Asks, Ready, Runs, Up
<1>3. Shape(op'[t]) /\ op'[t].at \notin CallAts  BY <1>1 DEF Shape, SettingsAts, CallAts
<1> QED  BY <1>1, <1>2, <1>3, QuietKept

LEMMA UndoFieldKept == ASSUME StoreInv, NEW t \in Tasks, UndoField(t) PROVE Kept
<1>1. /\ Types' /\ FilesAs /\ op'[t] = NoOp /\ op[t].at = "undo" /\ UNCHANGED job
      /\ Rest(t, {"overtaken", "behind"}) /\ boot'.power = boot.power
  BY UndoFieldIs DEF StoreInv, RollsBackTo
<1> QED  BY <1>1, NoOpShape, QuietKept DEF CallAts

LEMMA UndoSettingsKept == ASSUME StoreInv, NEW t \in Tasks, UndoSettings(t) PROVE Kept
<1>1. /\ Types' /\ FilesAs /\ op[t].at = "undo" /\ UNCHANGED job /\ op[t].name = "settings"
      /\ op'[t].at = "restore" /\ Akin(op'[t], op[t])
      /\ Rest(t, {"overtaken", "behind", "disturbed"}) /\ boot'.power = boot.power
  BY UndoSettingsIs DEF StoreInv, RollsBackTo, Placed
<1>2. Shape(op'[t]) /\ op'[t].at \notin CallAts /\ op'[t].name = "settings"
  BY <1>1 DEF Shape, SettingsAts, CallAts, Akin
<1> QED  BY <1>1, <1>2, QuietKept

LEMMA AssignsKept ==
  ASSUME StoreInv, NEW t \in Tasks, AssignSome(t) \/ AssignAll(t)
  PROVE  Kept
<1>1. PICK from, v, to :
        /\ \/ from = "assign" /\ v = Mixed /\ to = "half"
           \/ from = "half" /\ v = op[t].new /\ to = "save"
        /\ Assigns(t, from, v, to)
  BY DEF AssignSome, AssignAll
<1>2. /\ Types' /\ FilesAs /\ op[t].at \in {"assign", "half"} /\ UNCHANGED job
      /\ op[t].name = "settings" /\ op'[t].at \in {"half", "save"} /\ Akin(op'[t], op[t])
      /\ Rest(t, {"disturbed"}) /\ boot'.power = boot.power
  BY <1>1, AssignsIs DEF StoreInv, Placed, Assigns
<1>3. Shape(op'[t]) /\ op'[t].at \notin CallAts /\ op'[t].name = "settings"
  BY <1>2 DEF Shape, SettingsAts, FieldAts, CallAts, Akin
<1> QED  BY <1>2, <1>3, QuietKept

LEMMA SettingsReturnKept == ASSUME StoreInv, NEW t \in Tasks, SettingsReturn(t) PROVE Kept
<1>1. /\ Types' /\ FilesAs /\ op[t].at \in {"saved", "refused"} /\ UNCHANGED job
      /\ op'[t] = NoOp \/ (op'[t].at = "request" /\ Akin(op'[t], op[t]))
      /\ Rest(t, {}) /\ boot'.power = boot.power
  BY SettingsReturnIs DEF StoreInv, Placed, SettingsReturn
<1>2. op[t].name = "settings"
  BY <1>1, OpShapes DEF Shape, FieldAts, BeginAts, Ops, OpNames
<1>3. Shape(op'[t]) /\ op'[t].at \notin CallAts /\ op'[t].name \in {"none", "settings"}
  BY <1>1, <1>2, NoOpShape DEF Shape, SettingsAts, FieldAts, CallAts, Akin
<1> QED  BY <1>1, <1>3, QuietKept

LEMMA SampleKept ==
  ASSUME StoreInv,
         \/ \E counts \in BOOLEAN : ObserveHealthy(counts)
         \/ \E health \in {"Unhealthy", "Unavailable"} : ObserveOther(health)
         \/ RetryReady \/ MarkStable
  PROVE  Kept
<1>1. Up /\ UNCHANGED op
  BY DEF ObserveHealthy, ObserveOther, RetryReady, MarkStable, Ready, Runs, Up
<1>2. Types' /\ FilesAs /\ UNCHANGED job /\ boot'.power = "on"
  <2>1. CASE MarkStable
    BY <2>1, MarkStableIs DEF StoreInv
  <2>2. CASE RetryReady
    BY <2>2, <1>1, RetryReadyIs DEF StoreInv, RetryReady, Up
  <2>3. ASSUME NEW counts \in BOOLEAN, ObserveHealthy(counts)
        PROVE  Types' /\ FilesAs /\ UNCHANGED job /\ boot'.power = "on"
    BY <2>3, <1>1, ObserveHealthyIs DEF StoreInv, ObserveHealthy, Up
  <2>4. ASSUME NEW health, ObserveOther(health)
        PROVE  Types' /\ FilesAs /\ UNCHANGED job /\ boot'.power = "on"
    BY <2>4, <1>1, ObserveOtherIs DEF StoreInv, ObserveOther, Up
  <2> QED  BY <2>1, <2>2, <2>3, <2>4
<1>3. OpsShape' /\ BootShape' /\ CallShape'  BY <1>1, <1>2, SameShape
<1> QED  BY <1>2, <1>3 DEF Kept

LEMMA CommitLastGoodKept == ASSUME StoreInv, CommitLastGood PROVE Kept
<1>1. Up /\ boot'.power = boot.power  BY DEF CommitLastGood, Ready, Runs, Up
<1>2. /\ Types' /\ FilesAs /\ job.at = "idle" /\ Main \in Tasks
      /\ \/ UNCHANGED <<job, op>>
         \/ /\ Rest(Main, {}) /\ op'[Main].name = "commit" /\ op'[Main].at = "copy"
            /\ job'.at = "open" /\ job'.path = LastGood /\ job'.kind = "copy"
  BY CommitLastGoodIs, Constant DEF StoreInv
<1>3. CASE UNCHANGED <<job, op>>
  <2>1. OpsShape' /\ BootShape' /\ CallShape'  BY <1>1, <1>3, SameShape DEF Up
  <2> QED  BY <1>2, <2>1 DEF Kept
<1>4. CASE /\ Rest(Main, {}) /\ op'[Main].name = "commit" /\ op'[Main].at = "copy"
           /\ job'.at = "open" /\ job'.path = LastGood /\ job'.kind = "copy"
  <2>1. Shape(op'[Main])  BY <1>4 DEF Shape
  <2>2. OpsShape' /\ BootShape'  BY <1>1, <1>2, <1>4, <2>1, UpShape
  <2>3. Call(op[Main].at)'  BY <1>4 DEF Call
  <2>4. CallShape'  BY <1>2, <1>4, <2>3, CallBegins DEF CallAts
  <2> QED  BY <1>2, <2>2, <2>4 DEF Kept
<1> QED  BY <1>2, <1>3, <1>4

LEMMA CommitEndsKept == ASSUME StoreInv, CommitEnds PROVE Kept
<1>1. /\ Types' /\ FilesAs /\ job' = NoJob /\ op[Main].name = "commit" /\ op[Main].at = "copy"
      /\ op'[Main] = NoOp /\ Rest(Main, {}) /\ Main \in Tasks
  BY CommitEndsIs, Constant DEF StoreInv
<1>2. Up  BY <1>1, RunningUp
<1>3. OpsShape' /\ BootShape'  BY <1>1, <1>2, NoOpShape, UpShape DEF CommitEnds
<1>4. CallShape'  BY <1>1, NoOpShape, CallEnds DEF CallAts
<1> QED  BY <1>1, <1>3, <1>4 DEF Kept

LEMMA ResetKept ==
  ASSUME StoreInv, NEW crash \in BOOLEAN, Reset(crash), Spends
  PROVE  Kept
<1>1. /\ Types' /\ FilesAs /\ mem' = Fresh /\ ~crossed' /\ op' = [t \in Tasks |-> NoOp]
      /\ job' = NoJob /\ boot'.power = "reset"
  BY ResetIs DEF StoreInv
<1>2. \A t \in Tasks : op'[t] = NoOp  BY <1>1
<1>3. OpsShape'  BY <1>2, NoOpShape DEF OpsShape
<1>4. BootShape'  BY <1>1, <1>2, NoOpShape, Constant DEF BootShape, Resting, NoJob
<1>5. CallShape'  BY <1>1, <1>2, NoOpShape DEF CallShape, CallAts, NoJob
<1> QED  BY <1>1, <1>3, <1>4, <1>5 DEF Kept

LEMMA ApplyKept == ASSUME StoreInv, Apply PROVE Kept
<1>1. /\ Types' /\ FilesAs /\ UNCHANGED <<job, mem, crossed>>
      /\ boot.power = "reset" /\ boot'.power = "on"
      /\ op'[Main].name = "begin" /\ op'[Main].at \in {"load", "rollback", "clear"}
      /\ \A s \in Tasks \ {Main} : op'[s] = op[s]
  BY ApplyIs DEF StoreInv, history
<1>2. mem = Fresh /\ ~crossed /\ job.at = "idle" /\ \A s \in Tasks : Resting(s)
  BY <1>1 DEF StoreInv, BootShape
<1>3. OpsShape'  BY <1>1 DEF StoreInv, OpsShape, Shape, BeginAts
<1>4. BootShape'  BY <1>1, <1>2 DEF BootShape, Resting
<1>5. CallShape'  BY <1>1, <1>2 DEF CallShape, CallAts, Resting
<1> QED  BY <1>1, <1>3, <1>4, <1>5 DEF Kept

\* A step of the boot: only the operation of Main moves.
LEMMA BootShapes ==
  ASSUME StoreInv, Rest(Main, {}), op[Main].name = "begin", boot'.power = "on",
         UNCHANGED crossed,
         \/ op'[Main].name = "begin" /\ op'[Main].at \in BeginAts /\ UNCHANGED mem
         \/ op'[Main] = NoOp
  PROVE  OpsShape' /\ BootShape'
<1>1. \A s \in Tasks \ {Main} : Alike(op'[s], op[s])  BY DEF Rest
<1>2. OpsShape'  BY <1>1, NoOpShape DEF StoreInv, OpsShape, Shape, Alike
<1>3. mem = Fresh /\ ~crossed /\ \A s \in Tasks \ {Main} : Resting(s)
  BY DEF StoreInv, BootShape
<1>4. BootShape'
  BY <1>1, <1>3, NoOpShape DEF BootShape, Resting, Alike
<1> QED  BY <1>2, <1>4

LEMMA BeginQuiet ==
  ASSUME StoreInv, op[Main].name = "begin", op[Main].at \notin CallAts
  PROVE  job.at = "idle"
<1>1. \A s \in Tasks : op[s].at \notin CallAts
  BY DEF StoreInv, BootShape, Resting, CallAts
<1> QED  BY <1>1 DEF StoreInv, CallShape

LEMMA BootKept ==
  ASSUME StoreInv, RestoreLastGood \/ RestoreLastGoodEnds \/ ClearAll \/ LoadConfig
  PROVE  Kept
<1> USE Constant DEF StoreInv
<1>1. ASSUME NEW from, NEW to \in BeginAts, BootGoes(from, to),
             \/ from \notin CallAts /\ to \notin CallAts /\ UNCHANGED job
             \/ from \notin CallAts /\ to \in CallAts /\ job'.at # "idle" /\ Call(to)'
             \/ from \in CallAts /\ to \notin CallAts /\ job' = NoJob
      PROVE  Kept
  <2>1. /\ Types' /\ FilesAs /\ UNCHANGED <<mem, crossed>> /\ boot'.power = "on" /\ Rest(Main, {})
        /\ op[Main].name = "begin" /\ op[Main].at = from
        /\ op'[Main].name = "begin" /\ op'[Main].at = to
    BY <1>1 DEF BootGoes, history
  <2>2. OpsShape' /\ BootShape'  BY <2>1, BootShapes
  <2>3. CallShape'
    <3>1. CASE from \notin CallAts /\ to \notin CallAts /\ UNCHANGED job
      BY <2>1, <3>1, CallStays
    <3>2. CASE from \notin CallAts /\ to \in CallAts /\ job'.at # "idle" /\ Call(to)'
      <4>1. job.at = "idle"  BY <2>1, <3>2, BeginQuiet
      <4>2. Call(op[Main].at)'  BY <2>1, <3>2 DEF Call
      <4> QED  BY <2>1, <3>2, <4>1, <4>2, CallBegins
    <3>3. CASE from \in CallAts /\ to \notin CallAts /\ job' = NoJob
      BY <2>1, <3>3, CallEnds
    <3> QED  BY <1>1, <3>1, <3>2, <3>3
  <2> QED  BY <2>1, <2>2, <2>3 DEF Kept
<1>2. CASE RestoreLastGood
  <2>1. job.at = "idle"
    BY <1>2, BeginQuiet DEF RestoreLastGood, Runs, CallAts
  <2>2. CASE BootGoes("rollback", "clear") /\ UNCHANGED job
    BY <1>1, <2>2 DEF CallAts, BeginAts
  <2>3. ASSUME NEW found \in Content \ {None}, BootGoes("rollback", "rollbackEnds"),
               Starts(Config, found, "copy")
        PROVE  Kept
    BY <1>1, <2>3 DEF CallAts, BeginAts, Starts, Call
  <2> QED  BY <1>2, <2>1, <2>2, <2>3, RestoreLastGoodIs
<1>3. CASE RestoreLastGoodEnds
  <2>1. /\ BootGoes("rollbackEnds", "load") \/ BootGoes("rollbackEnds", "clear")
        /\ job' = NoJob
    BY <1>3, RestoreLastGoodEndsIs
  <2> QED  BY <1>1, <2>1 DEF CallAts, BeginAts
<1>4. ASSUME NEW path \in Paths, NEW from, NEW to, ClearFile(from, path, to),
             \/ from = "clear" /\ path = Config /\ to = "clearEnds"
             \/ from = "clearGood" /\ path = LastGood /\ to = "clearGoodEnds"
      PROVE  Kept
  <2>1. to \in OpAts /\ to \in BeginAts  BY <1>4 DEF OpAts, BeginAts
  <2>2. BootGoes(from, to) /\ Starts(path, None, "remove")
    BY <1>4, <2>1, ClearFileIs
  <2>3. job'.at # "idle" /\ Call(to)'
    BY <1>4, <2>2 DEF Starts, Call
  <2>4. from \notin CallAts /\ to \in CallAts  BY <1>4 DEF CallAts
  <2> QED  BY <1>1, <2>1, <2>2, <2>3, <2>4
<1>5. ASSUME NEW from \in {"clearEnds", "clearGoodEnds"}, NEW to \in {"clearGood", "clearText"},
             ClearFileEnds(from, to)
      PROVE  Kept
  <2>1. BootGoes(from, to) /\ job' = NoJob
    BY <1>5, ClearFileEndsIs DEF OpAts, BeginAts
  <2> QED  BY <1>1, <1>5, <2>1 DEF CallAts, BeginAts
<1>6. CASE ClearText
  <2>1. BootGoes("clearText", "clearText") \/ BootGoes("clearText", "load")
    BY <1>6, ClearTextIs DEF BootGoes
  <2>2. UNCHANGED job  BY <1>6, ClearTextIs
  <2> QED  BY <1>1, <2>1, <2>2 DEF CallAts, BeginAts
<1>7. CASE LoadConfig
  <2>1. job.at = "idle"  BY <1>7, BeginQuiet DEF LoadConfig, Runs, CallAts
  <2>2. /\ Types' /\ FilesAs /\ UNCHANGED <<job, crossed, boot>> /\ boot.power = "on"
        /\ op[Main].name = "begin" /\ op[Main].at = "load" /\ op'[Main] = NoOp /\ Rest(Main, {})
    BY <1>7, <2>1, LoadConfigIs DEF LoadConfig, Runs, history
  <2>3. OpsShape' /\ BootShape'  BY <2>2, BootShapes
  <2>4. CallShape'  BY <2>2, NoOpShape, CallStays DEF CallAts
  <2> QED  BY <2>2, <2>3, <2>4 DEF Kept
<1>8. CASE ClearAll
  <2>1. CASE ClearFile("clear", Config, "clearEnds")
    BY <1>4, <2>1
  <2>2. CASE ClearFile("clearGood", LastGood, "clearGoodEnds")
    BY <1>4, <2>2
  <2>3. CASE ClearFileEnds("clearEnds", "clearGood") \/ ClearFileEnds("clearGoodEnds", "clearText")
    BY <1>5, <2>3
  <2> QED  BY <1>6, <1>8, <2>1, <2>2, <2>3 DEF ClearAll
<1> QED  BY <1>2, <1>3, <1>7, <1>8

LEMMA FilingKept == ASSUME StoreInv, Filing PROVE Kept
<1>1. /\ Types' /\ FilesAs /\ FileStep /\ UNCHANGED <<mem, op, history, boot>>
  BY FilingIs DEF StoreInv
<1>2. Busy /\ Same /\ job'.at # "idle"  BY <1>1, StepEffect DEF StoreInv
<1>3. OpsShape' /\ BootShape'
  BY <1>1, <1>2 DEF StoreInv, OpsShape, Shape, BootShape, Resting, Busy, history
<1>4. CallShape'
  BY <1>1, <1>2 DEF StoreInv, CallShape, Call, Same, Busy
<1> QED  BY <1>1, <1>3, <1>4 DEF Kept

LEMMA GoesKept == ASSUME StoreInv, NEW t \in Tasks, Goes(t) PROVE Kept
<1>1. CASE CaptureText(t) \/ SaveText(t) \/ SaveTextEnds(t) \/ RestoreText(t) \/ RestoreTextEnds(t)
  BY <1>1, CaptureTextIs, SaveTextIs, SaveTextEndsIs, RestoreTextIs, RestoreTextEndsIs, TextKept
     DEF StoreInv
<1> QED
  BY <1>1, SaveConfigKept, SaveConfigEndsKept, RequestKept, UndoFieldKept, AssignsKept,
     UndoSettingsKept, SettingsReturnKept DEF Goes

LEMMA CallingKept == ASSUME StoreInv, NEW t \in Tasks, Calling(t) PROVE Kept
<1>1. ASSUME NEW undo \in {"revert", "dirty"}, SaveField(t, "rest", undo) PROVE Kept
  BY <1>1, SaveFieldKept
<1>2. CASE SaveField(t, "wifi", "dirty")  BY <1>2, SaveFieldKept
<1>3. CASE ClearCredentials(t)
  <2>1. Asks(t, 0, NoTexts, "dirty")  BY <1>3 DEF ClearCredentials
  <2> QED  BY <2>1, AsksKept, Constant
<1> QED  BY <1>1, <1>2, <1>3 DEF Calling

LEMMA ResetsKept ==
  ASSUME StoreInv, Panic \/ \E crash \in BOOLEAN : ResetAnywhere(crash)
  PROVE  Kept
<1>1. CASE Panic
  <2>1. Reset(TRUE) /\ Spends  BY <1>1 DEF Panic, Works, Spends
  <2> QED  BY <2>1, ResetKept
<1>2. ASSUME NEW crash \in BOOLEAN, ResetAnywhere(crash) PROVE Kept
  <2>1. Reset(crash) /\ Spends  BY <1>2 DEF ResetAnywhere, Fault, Spends
  <2> QED  BY <2>1, ResetKept
<1> QED  BY <1>1, <1>2

LEMMA NextKept == ASSUME StoreInv, Next PROVE Kept
<1>1. CASE Step
  <2>1. CASE Filing  BY <2>1, FilingKept
  <2>2. CASE Apply  BY <2>2, ApplyKept
  <2>3. CASE RestoreLastGood \/ RestoreLastGoodEnds \/ ClearAll \/ LoadConfig
    BY <2>3, BootKept
  <2>4. CASE CommitEnds  BY <2>4, CommitEndsKept
  <2>5. ASSUME NEW t \in Tasks, Goes(t) PROVE Kept  BY <2>5, GoesKept
  <2> QED  BY <1>1, <2>1, <2>2, <2>3, <2>4, <2>5 DEF Step, Booting
<1>2. ASSUME NEW t \in Tasks, Calling(t) PROVE Kept  BY <1>2, CallingKept
<1>3. CASE SaveSettings
  <2>1. PICK new \in Versions, want \in [Certificates -> Text] : Asks(Main, new, want, "revert")
    BY <1>3, SaveSettingsIs DEF StoreInv
  <2> QED  BY <2>1, AsksKept, Constant
<1>4. CASE PollSave  BY <1>4, PollSaveKept
<1>5. CASE CommitLastGood  BY <1>5, CommitLastGoodKept
<1>6. CASE \/ \E counts \in BOOLEAN : ObserveHealthy(counts)
           \/ \E health \in {"Unhealthy", "Unavailable"} : ObserveOther(health)
           \/ RetryReady \/ MarkStable
  BY <1>6, SampleKept
<1>7. CASE Panic \/ \E crash \in BOOLEAN : ResetAnywhere(crash)  BY <1>7, ResetsKept
<1> QED  BY <1>1, <1>2, <1>3, <1>4, <1>5, <1>6, <1>7 DEF Next

LEMMA StutterKept == ASSUME StoreInv, UNCHANGED vars PROVE Kept
BY DEF vars, history, files, StoreInv, Types, OpsShape, Shape, BootShape, Resting, CallShape, Call,
       Kept, FilesAs

\* What the storage manager does with the files, a store whose saves are atomic does.
LEMMA FilesAsMaps ==
  ASSUME FilesInv, FilesAs
  PROVE  FilesInv' /\ (Store!Next \/ UNCHANGED storeVars)
<1>1. CASE [FilesNext]_files  BY <1>1, NextMaps
<1>2. CASE job' = NoJob /\ UNCHANGED fs /\ faults' \in Nat
  BY <1>2, EndKeeps DEF Ends, Store!Next
<1>3. CASE job' = job /\ UNCHANGED fs /\ faults' \in Nat
  <2>1. FilesInv'
    BY <1>3 DEF FilesInv, FilesTypeOK, JobShape, EntriesFollow, Follow, here, Unchecked
  <2> QED  BY <1>3, <2>1 DEF storeVars, StoreBar, StaleBar, Visible, Behind, Work,
              Committed, Unchecked, here
<1> QED  BY <1>1, <1>2, <1>3 DEF FilesAs

LEMMA StoreStep == ASSUME StoreInv, [Next]_vars PROVE StoreInv' /\ Kept
<1>1. Kept  BY NextKept, StutterKept
<1> QED  BY <1>1, FilesAsMaps DEF Kept, StoreInv

LEMMA StoreInit == Init => StoreInv
<1> SUFFICES ASSUME Init PROVE StoreInv  OBVIOUS
<1>1. FilesInv /\ job.at = "idle" /\ faults = 0
  BY FilesInitInv DEF Init, FilesInit, NoJob
<1>2. boot \in Boots  BY Constant DEF Init, Boots
<1>3. Types
  <2>1. mem \in Mems /\ texts \in [Certificates -> Text] /\ op \in [Tasks -> Ops]
    BY Constant DEF Init
  <2>2. made \in Versions /\ suspect \in 0 .. Dwell /\ faults \in 0 .. MaxFaults
    BY <1>1, Constant DEF Init
  <2> QED  BY <1>2, <2>1, <2>2 DEF Init, Types
<1>4. \A t \in Tasks : op[t] = NoOp  BY DEF Init
<1> QED
  BY <1>1, <1>3, <1>4, NoOpShape, Constant
     DEF Init, StoreInv, OpsShape, BootShape, Resting, CallShape, CallAts

\* The inductive invariant of the operations: every one is at a place its kind
\* has; at most one of them has a file call in progress, on the path and with
\* the content that place calls for, so persistence_mutex_ is never needed
\* twice; while begin() runs no setter does, and RAM holds the defaults.
THEOREM StoreInvariance == Spec => []StoreInv
<1>1. StoreInv /\ [Next]_vars => StoreInv'  BY StoreStep
<1> QED  BY StoreInit, <1>1, PTL DEF Spec

\* The state of the storage is well typed.
THEOREM StorageTypes == Spec => []TypeOK
<1>1. StoreInv => TypeOK
  BY DEF StoreInv, Types, TypeOK, FilesInv, FilesTypeOK, Entries, Jobs, Ats, Writing,
         Removing, Mems, Ops, OpNames, Boots, Marks
<1> QED  BY <1>1, StoreInvariance, PTL

\* However the setters of several tasks, the boot and the resets interleave, a
\* save of a file is all or nothing and its answer is the truth.
THEOREM StorageImplementsFileStore == Spec => ImplementsFileStore
<1>1. Init => Store!Init  BY InitMaps DEF Init
<1>2. StoreInv /\ [Next]_vars
        => [Store!Next]_<<[path \in Paths |-> Visible(path)],
                          [path \in Paths |-> Behind(path)], Work>>
  BY StoreStep, FilesAsMaps DEF Kept, StoreInv, storeVars, StoreBar, StaleBar
<1> QED  BY <1>1, <1>2, StoreInvariance, PTL DEF Spec, ImplementsFileStore, Store!Spec

-----------------------------------------------------------------------------
(* RAM and flash, and the last known good copy: the invariant.             *)

\* RAM holds a change of o that flash may not have, or will have again.
Unsettled(o) == o.at \in {"half", "save", "undo", "request"} \/ (o.at = "ends" /\ o.name # "poll")
Only(S) == \A s \in Tasks \ S : ~Unsettled(op[s])
Saves(t) == op[t].at = "ends"
SomeSave == \E t \in Tasks : Saves(t)

\* The copy of o is put back if its save fails; t still has such a copy, and
\* no save of another task has overtaken it.
CanRevert(o) ==
  \/ /\ o.name = "settings"
     /\ o.at \in {"capture", "cert", "certEnds", "assign", "half", "save", "ends", "undo"}
  \/ o.name = "field" /\ o.undo = "revert" /\ o.at \in {"save", "ends", "undo"}
Keeps(t) == CanRevert(op[t]) /\ "overtaken" \notin op[t].marks
Restored(t) == IF op[t].name = "field" THEN With(mem.config, "rest", op[t].prev.rest) ELSE op[t].prev

On(v) == Visible(Config) \in {v, Partial}
Excused == mem.dirty \/ crossed \/ ~mem.loaded
Left(t) == crossed /\ "behind" \in op[t].marks    \* and the save of t does not end that

\* Flash has what RAM has; what the one unsettled operation would put back; and
\* a save in progress carries the one or the other.
QuietAgrees == ~SomeSave /\ Only({}) => Excused \/ On(mem.config)
CopyAgrees ==
  \A t \in Tasks : Keeps(t) /\ Only({t}) /\ (\A s \in Tasks \ {t} : ~Saves(s))
                   /\ ~(Saves(t) /\ Committed) => Excused \/ On(Restored(t))
SaveCarries == \A t \in Tasks : Saves(t) /\ Only({t}) => mem.config = job.value \/ Left(t)
CopyCarried ==
  \A t \in Tasks : \A s \in Tasks \ {t} :
    Saves(t) /\ Keeps(s) /\ Only({s, t}) => Restored(s) = job.value \/ Left(t)
PollDirty == \A t \in Tasks : op[t].name = "poll" => mem.dirty
UndoCrosses == \A t \in Tasks : op[t].at = "undo" /\ SomeSave => "overtaken" \in op[t].marks
CommitShows == SomeSave /\ Committed => On(job.value)
RamInv ==
  /\ QuietAgrees /\ CopyAgrees /\ SaveCarries /\ CopyCarried
  /\ PollDirty /\ UndoCrosses /\ CommitShows

\* The health that is counted is that of the version on flash: a bad one has not
\* been healthy for longer than it can be, unless flash is about to change.
HealthInv ==
  /\ mem.pending => mem.loaded
  /\ suspect < Dwell
  /\ IsBad(Visible(Config)) /\ ~(SomeSave /\ Committed) => Excused \/ mem.healthy <= suspect

\* No entry of the last known good is bad, nor is what is being copied there.
GoodEntries ==
  ~IsBad(fs[LastGood].final) /\ ~IsBad(fs[LastGood].tmp) /\ ~IsBad(fs[LastGood].bak)
GoodNow == GoodEntries /\ (job.path = LastGood => ~IsBad(job.value))
GoodInv == ~tainted => GoodNow

LastInv == RamInv /\ HealthInv /\ GoodInv

-----------------------------------------------------------------------------
(* The last known good.                                                    *)

LEMMA NothingBad == ~IsBad(None) /\ ~IsBad(Partial)
BY ContentAssumption DEF IsBad

LEMMA GoodSets ==
  ASSUME FilesInv, GoodEntries, here \in Paths, NEW entry \in EntryNames, NEW v \in Content,
         Sets(entry, v), here = LastGood => ~IsBad(v)
  PROVE  GoodEntries'
<1>1. fs \in [Paths -> Entries]  BY DEF FilesInv, FilesTypeOK
<1>2. CASE here = LastGood
  <2>1. /\ fs'[LastGood].final \in {v, fs[LastGood].final}
        /\ fs'[LastGood].tmp \in {v, fs[LastGood].tmp}
        /\ fs'[LastGood].bak \in {v, fs[LastGood].bak}
    BY <1>1, <1>2, SetsAt
  <2> QED  BY <1>2, <2>1 DEF GoodEntries
<1>3. CASE here # LastGood
  <2>1. fs'[LastGood] = fs[LastGood]  BY <1>1, <1>3, SetsAt, Constant DEF Others
  <2> QED  BY <2>1 DEF GoodEntries
<1> QED  BY <1>2, <1>3

LEMMA GoodRenames ==
  ASSUME FilesInv, GoodEntries, here \in Paths, NEW from \in EntryNames,
         NEW to \in EntryNames \ {from}, Renames(from, to)
  PROVE  GoodEntries'
<1>1. fs \in [Paths -> Entries]  BY DEF FilesInv, FilesTypeOK
<1>2. CASE here = LastGood
  <2> DEFINE v == fs[here][from]
  <2>1. ~IsBad(v) /\ ~IsBad(None)
    BY <1>2, NothingBad DEF GoodEntries, EntryNames
  <2>2. /\ fs'[LastGood].final \in {v, None, fs[LastGood].final}
        /\ fs'[LastGood].tmp \in {v, None, fs[LastGood].tmp}
        /\ fs'[LastGood].bak \in {v, None, fs[LastGood].bak}
    BY <1>1, <1>2, RenamesAt DEF EntryNames
  <2> QED  BY <2>1, <2>2 DEF GoodEntries
<1>3. CASE here # LastGood
  <2>1. fs'[LastGood] = fs[LastGood]  BY <1>1, <1>3, RenamesAt, Constant DEF Others
  <2> QED  BY <2>1 DEF GoodEntries
<1> QED  BY <1>2, <1>3

LEMMA GoodStep == ASSUME FilesInv, GoodNow, FileStep PROVE GoodNow'
<1>1. Busy /\ Same  BY StepEffect
<1>2. here \in Paths /\ job \in Jobs  BY <1>1, Before
<1>3. job.value \in Content /\ Partial \in Content /\ None \in Content
  BY <1>2 DEF Jobs, Content
<1>4. \/ fs' = fs
      \/ \E entry \in EntryNames, v \in {job.value, Partial, None} : Sets(entry, v)
      \/ \E from \in EntryNames : \E to \in EntryNames \ {from} : Renames(from, to)
  <2>1. \A entry \in EntryNames : Removes(entry) => fs' = fs \/ Sets(entry, None)
    BY DEF Removes, Fails, Skips
  <2>2. CASE Open \/ Fill
    BY <2>2 DEF Open, Fill, Fails, EntryNames
  <2>3. CASE Settle \/ ToBak \/ ToFinal \/ Undo
    BY <2>3 DEF Settle, ToBak, ToFinal, Undo, Fails, Skips, EntryNames
  <2>4. CASE DropBak \/ DropTmp \/ CleanBak \/ RmFinal \/ RmTmp \/ RmBak
    <3>1. PICK entry \in EntryNames : Removes(entry)
      BY <2>4 DEF DropBak, DropTmp, CleanBak, RmFinal, RmTmp, RmBak, RemoveEntry, EntryNames
    <3> QED  BY <2>1, <3>1
  <2> QED  BY <2>2, <2>3, <2>4 DEF FileStep
<1>5. job'.path = LastGood => ~IsBad(job'.value)  BY <1>1 DEF GoodNow, Same
<1>6. GoodEntries'
  <2>1. CASE fs' = fs  BY <2>1 DEF GoodNow, GoodEntries
  <2>2. ASSUME NEW entry \in EntryNames, NEW v \in {job.value, Partial, None}, Sets(entry, v)
        PROVE  GoodEntries'
    <3>1. v \in Content /\ (here = LastGood => ~IsBad(v))
      BY <1>3, <2>2, NothingBad DEF GoodNow, here
    <3> QED  BY <1>2, <2>2, <3>1, GoodSets DEF GoodNow
  <2>3. ASSUME NEW from \in EntryNames, NEW to \in EntryNames \ {from}, Renames(from, to)
        PROVE  GoodEntries'
    BY <1>2, <2>3, GoodRenames DEF GoodNow
  <2> QED  BY <1>4, <2>1, <2>2, <2>3
<1> QED  BY <1>5, <1>6 DEF GoodNow

LEMMA GoodLooks == ASSUME FilesInv, GoodEntries, Looks PROVE GoodEntries'
<1>1. CASE Skips  BY <1>1 DEF Skips, GoodEntries
<1>2. ASSUME NEW path \in Paths, NEW found \in Content, Reads(path, found), fs' # fs
      PROVE  GoodEntries'
  <2>1. fs \in [Paths -> Entries]  BY DEF FilesInv, FilesTypeOK
  <2>2. fs' = [fs EXCEPT ![path].final = fs[path].bak, ![path].bak = None]
    BY <1>2 DEF Reads, Recovered, Fails
  <2>3. CASE path = LastGood
    <3> DEFINE r == [fs[LastGood] EXCEPT !.final = fs[LastGood].bak]
    <3>1. r \in Entries /\ r.final = fs[LastGood].bak /\ r.tmp = fs[LastGood].tmp
      BY <2>1, Constant DEF Entries
    <3>2. fs'[LastGood] = [r EXCEPT !.bak = None]  BY <2>1, <2>2, <2>3, Constant
    <3> HIDE DEF r
    <3>3. fs'[LastGood].final = r.final /\ fs'[LastGood].tmp = r.tmp
          /\ fs'[LastGood].bak = None
      BY <3>1, <3>2 DEF Entries
    <3> QED  BY <3>1, <3>3, NothingBad DEF GoodEntries
  <2>4. CASE path # LastGood
    <3>1. fs'[LastGood] = fs[LastGood]  BY <2>1, <2>2, <2>4, Constant
    <3> QED  BY <3>1 DEF GoodEntries
  <2> QED  BY <2>3, <2>4
<1>3. CASE fs' = fs  BY <1>3 DEF GoodEntries
<1> QED  BY <1>1, <1>2, <1>3 DEF Looks

\* What every step that is no file step does with the files.
Leaves == fs' = fs \/ Looks

LEMMA LeavesSame == ASSUME FilesInv, Leaves PROVE Visible(Config)' = Visible(Config)
<1>1. CASE fs' = fs  BY <1>1 DEF Visible
<1>2. CASE Looks  BY <1>2, LooksKeep, Constant
<1> QED  BY <1>1, <1>2 DEF Leaves

\* Its call, if it makes one, is not a copy to the last known good.
GoodCall == job' = job \/ job' = NoJob \/ job'.path = Config \/ job'.value = None

LEMMA GoodLeaves == ASSUME FilesInv, GoodInv, Leaves, GoodCall, UNCHANGED tainted PROVE GoodInv'
<1> SUFFICES ASSUME ~tainted PROVE GoodNow'  BY DEF GoodInv
<1>1. GoodNow  BY DEF GoodInv
<1>2. GoodEntries'
  <2>1. CASE fs' = fs  BY <1>1, <2>1 DEF GoodNow, GoodEntries
  <2>2. CASE Looks  BY <1>1, <2>2, GoodLooks DEF GoodNow
  <2> QED  BY <2>1, <2>2 DEF Leaves
<1>3. job'.path = LastGood => ~IsBad(job'.value)
  BY <1>1, NothingBad, Constant, ContentAssumption DEF GoodNow, GoodCall, NoJob
<1> QED  BY <1>2, <1>3 DEF GoodNow

-----------------------------------------------------------------------------
(* RAM and flash: the kinds of steps.                                      *)

\* What a step that is nothing to RAM and flash does to the operation of s.
Stays(s) ==
  /\ Unsettled(op[s]) => Unsettled(op'[s])
  /\ op'[s].at = "ends" <=> op[s].at = "ends"
  /\ op'[s].at = "undo" => op[s].at = "undo"
  /\ op'[s].name = "poll" => op[s].name = "poll"
  /\ CanRevert(op'[s]) => CanRevert(op[s]) /\ op'[s].name = op[s].name /\ op'[s].prev = op[s].prev
  /\ op'[s].at \in {"ends", "undo"} \/ CanRevert(op'[s]) =>
       \A mark \in {"overtaken", "behind"} : mark \in op'[s].marks <=> mark \in op[s].marks

LEMMA AlikeStays ==
  ASSUME NEW s, Alike(op'[s], op[s]),
         \A mark \in {"overtaken", "behind"} : mark \in op'[s].marks <=> mark \in op[s].marks
  PROVE  Stays(s)
BY DEF Alike, Stays, Unsettled, CanRevert

\* Marks other than these two are nothing to RAM and flash.
LEMMA RestStays ==
  ASSUME NEW t \in Tasks, NEW marks \in SUBSET {"torn", "disturbed"}, Rest(t, marks)
  PROVE  \A s \in Tasks \ {t} : Stays(s)
<1> SUFFICES ASSUME NEW s \in Tasks \ {t} PROVE Stays(s)  OBVIOUS
<1>1. Alike(op'[s], op[s]) /\ op'[s].marks = op[s].marks \cup (marks \cap Heeds(op[s]))
  BY DEF Rest
<1> QED  BY <1>1, AlikeStays

SameFlash ==
  /\ Visible(Config)' = Visible(Config)
  /\ SomeSave => job'.value = job.value /\ (Committed' <=> Committed)

LEMMA RamStays ==
  ASSUME RamInv, \A s \in Tasks : Stays(s), SameFlash, mem'.config = mem.config,
         mem.dirty => mem'.dirty, ~mem.loaded => ~mem'.loaded, UNCHANGED crossed
  PROVE  RamInv'
<1>1. Excused => Excused'  BY DEF Excused
<1>2. SomeSave' <=> SomeSave  BY DEF SomeSave, Saves, Stays
<1>3. \A v : On(v)' <=> On(v)  BY DEF On, SameFlash
<1>4. \A s \in Tasks : Keeps(s)' => Keeps(s) /\ Restored(s)' = Restored(s)
  BY DEF Keeps, Restored, Stays
<1>5. \A s \in Tasks : Saves(s) /\ Left(s) => Left(s)'
  BY DEF Left, Saves, Stays
<1>6. \A S : Only(S)' => Only(S)  BY DEF Only, Stays
<1>7. \A s \in Tasks : Saves(s)' <=> Saves(s)  BY DEF Saves, Stays
<1>8. QuietAgrees'  BY <1>1, <1>2, <1>3, <1>6 DEF RamInv, QuietAgrees
<1>9. CopyAgrees'
  <2> SUFFICES ASSUME NEW t \in Tasks, Keeps(t)', Only({t})', \A s \in Tasks \ {t} : ~Saves(s)',
                      ~(Saves(t)' /\ Committed')
               PROVE  (Excused \/ On(Restored(t)))'
    BY DEF CopyAgrees
  <2>1. Keeps(t) /\ Only({t}) /\ (\A s \in Tasks \ {t} : ~Saves(s)) /\ Restored(t)' = Restored(t)
    BY <1>4, <1>6, <1>7
  <2>2. ~(Saves(t) /\ Committed)  BY <1>7 DEF SomeSave, SameFlash
  <2>3. Excused \/ On(Restored(t))  BY <2>1, <2>2 DEF RamInv, CopyAgrees
  <2> QED  BY <1>1, <2>1, <2>3 DEF On, SameFlash
<1>10. SaveCarries'
  BY <1>5, <1>6, <1>7 DEF RamInv, SaveCarries, SameFlash, SomeSave
<1>11. CopyCarried'
  BY <1>4, <1>5, <1>6, <1>7 DEF RamInv, CopyCarried, SameFlash, SomeSave
<1>12. PollDirty'  BY DEF RamInv, PollDirty, Stays
<1>13. UndoCrosses'  BY <1>2 DEF RamInv, UndoCrosses, Stays
<1>14. CommitShows'  BY <1>2 DEF RamInv, CommitShows, SameFlash, On
<1> QED  BY <1>8, <1>9, <1>10, <1>11, <1>12, <1>13, <1>14 DEF RamInv

\* No operation has anything to do with RAM and flash.
LEMMA RamCalm ==
  ASSUME \A s \in Tasks : /\ op'[s].at \notin {"ends", "undo"} /\ op'[s].name # "poll"
                          /\ ~CanRevert(op'[s]),
         Excused' \/ On(mem.config)'
  PROVE  RamInv'
<1>1. ~SomeSave' /\ \A s \in Tasks : ~Saves(s)' /\ ~Keeps(s)'
  BY DEF SomeSave, Saves, Keeps
<1>2. QuietAgrees' /\ CopyAgrees' /\ SaveCarries' /\ CopyCarried'
  BY <1>1 DEF QuietAgrees, CopyAgrees, SaveCarries, CopyCarried
<1>3. PollDirty' /\ UndoCrosses' /\ CommitShows'
  BY <1>1 DEF PollDirty, UndoCrosses, CommitShows
<1> QED  BY <1>2, <1>3 DEF RamInv

LEMMA OneSave ==
  ASSUME StoreInv
  PROVE  /\ job.at = "idle" => ~SomeSave
         /\ \A t, s \in Tasks : Saves(t) /\ op[s].at \in CallAts => t = s
         /\ \A t \in Tasks : op[t].at \in CallAts \ {"ends"} => ~SomeSave
BY DEF StoreInv, CallShape, CallAts, SomeSave, Saves

LEMMA FlashStays ==
  ASSUME FilesInv, Leaves, UNCHANGED job \/ ~SomeSave
  PROVE  SameFlash
<1>1. Visible(Config)' = Visible(Config)  BY LeavesSame
<1> QED  BY <1>1 DEF SameFlash, Committed

LEMMA HealthStays ==
  ASSUME Types, HealthInv, Visible(Config)' = Visible(Config), Excused => Excused',
         mem'.pending => mem'.loaded, mem'.healthy = mem.healthy \/ mem'.healthy = 0,
         SomeSave /\ Committed => (SomeSave /\ Committed)' \/ mem'.healthy = 0, UNCHANGED suspect
  PROVE  HealthInv'
<1>1. suspect \in Nat  BY Constant DEF Types
<1> QED  BY <1>1 DEF HealthInv

\* A step that is nothing to RAM, flash and the last known good.
LEMMA LastStays ==
  ASSUME StoreInv, LastInv, \A s \in Tasks : Stays(s), Leaves, SameConfig,
         UNCHANGED job \/ (~SomeSave /\ GoodCall), UNCHANGED <<history, suspect>>,
         mem'.pending => mem.pending, mem'.healthy = mem.healthy \/ mem'.healthy = 0
  PROVE  LastInv'
<1>1. SameFlash  BY FlashStays DEF StoreInv
<1>2. UNCHANGED <<crossed, tainted, suspect>>  BY DEF history
<1>3. RamInv'  BY <1>1, <1>2, RamStays DEF LastInv, SameConfig
<1>4. SomeSave /\ Committed => (SomeSave /\ Committed)'
  BY <1>1 DEF SameFlash, SomeSave, Saves, Stays
<1>5. mem'.pending => mem'.loaded  BY DEF LastInv, HealthInv, SameConfig
<1>6. HealthInv'
  BY <1>1, <1>2, <1>4, <1>5, HealthStays DEF LastInv, StoreInv, SameFlash, Excused, SameConfig
<1>7. GoodInv'
  <2>1. GoodCall  BY DEF GoodCall
  <2> QED  BY <1>2, <2>1, GoodLeaves DEF LastInv, StoreInv
<1> QED  BY <1>3, <1>6, <1>7 DEF LastInv

LEMMA TextLast == ASSUME StoreInv, LastInv, NEW t \in Tasks, TextStep(t) PROVE LastInv'
<1>1. PICK marks \in SUBSET {"torn", "disturbed"} : Rest(t, marks)
  BY DEF TextStep, TextOps
<1>2. \A s \in Tasks \ {t} : Stays(s)  BY <1>1, RestStays
<1>3. Stays(t)
  BY DEF TextStep, TextOps, TextAts, Stays, Stable, Akin, Unsettled, CanRevert
<1>4. Leaves  BY DEF TextStep, Leaves
<1> QED  BY <1>2, <1>3, <1>4, LastStays DEF TextStep, SameConfig

LEMMA SettingsReturnLast ==
  ASSUME StoreInv, LastInv, NEW t \in Tasks, SettingsReturn(t)
  PROVE  LastInv'
<1>1. /\ UNCHANGED <<fs, job, mem, history>> /\ op[t].at \in {"saved", "refused"} /\ Rest(t, {})
      /\ op'[t] = NoOp \/ (Placed(t, "request") /\ op'[t].marks = op[t].marks)
  BY SettingsReturnIs DEF StoreInv
<1>2. \A s \in Tasks \ {t} : Stays(s)  BY <1>1, RestStays
<1>3. Stays(t)
  BY <1>1, NoOpShape DEF Stays, Unsettled, CanRevert, Placed, Akin
<1> QED  BY <1>1, <1>2, <1>3, LastStays DEF Leaves, SameConfig, SettingsReturn

\* Nothing is known of the operations but that they are as they were.
LEMMA UnmovedStays == ASSUME UNCHANGED op PROVE \A s \in Tasks : Stays(s)
BY DEF Stays

LEMMA SampleLast ==
  ASSUME StoreInv, LastInv,
         (\E health \in {"Unhealthy", "Unavailable"} : ObserveOther(health)) \/ RetryReady \/ MarkStable
  PROVE  LastInv'
<1>1. CASE MarkStable
  <2>1. UNCHANGED <<fs, job, op, mem, history, suspect>>  BY <1>1, MarkStableIs DEF StoreInv
  <2> QED  BY <2>1, UnmovedStays, LastStays DEF Leaves, SameConfig
<1>2. CASE RetryReady
  <2>1. /\ UNCHANGED <<fs, job, op, history, suspect>> /\ SameConfig
        /\ mem'.pending = mem.pending /\ mem'.healthy = mem.healthy
    BY <1>2, RetryReadyIs DEF StoreInv
  <2> QED  BY <2>1, UnmovedStays, LastStays DEF Leaves
<1>3. ASSUME NEW health, ObserveOther(health) PROVE LastInv'
  <2>1. /\ UNCHANGED <<fs, job, op, history, suspect>> /\ SameConfig
        /\ mem'.pending = mem.pending
        /\ mem'.healthy = mem.healthy \/ mem'.healthy = 0
    BY <1>3, ObserveOtherIs DEF StoreInv
  <2> QED  BY <2>1, UnmovedStays, LastStays DEF Leaves
<1> QED  BY <1>1, <1>2, <1>3

\* A healthy interval is only counted while no version that crashes is on flash,
\* or while suspect counts it as well.
LEMMA ObserveHealthyLast ==
  ASSUME StoreInv, LastInv, NEW counts \in BOOLEAN, ObserveHealthy(counts)
  PROVE  LastInv'
<1>1. /\ UNCHANGED <<fs, job, op, history>> /\ SameConfig /\ mem'.pending = mem.pending
      /\ suspect' < Dwell
      /\ \/ mem'.healthy = mem.healthy
         \/ mem'.healthy = mem.healthy + 1 /\ mem.window /\ counts
      /\ IF ~Misbehaves /\ ~Changing THEN suspect' = 0
         ELSE suspect' = IF mem.window /\ counts THEN suspect + 1 ELSE suspect
  BY ObserveHealthyIs DEF StoreInv
<1>2. SameFlash /\ Leaves /\ GoodCall /\ job.at = "idle" /\ UNCHANGED <<crossed, tainted>>
  BY <1>1, FlashStays DEF StoreInv, Leaves, GoodCall, ObserveHealthy, Free, history
<1>3. RamInv'
  BY <1>1, <1>2, UnmovedStays, RamStays DEF LastInv, SameConfig
<1>4. GoodInv'  BY <1>2, GoodLeaves DEF LastInv, StoreInv
<1>5. HealthInv'
  <2>1. Excused => Excused'  BY <1>1, <1>2 DEF Excused, SameConfig
  <2>2. mem.healthy \in Nat /\ suspect \in Nat  BY Constant DEF StoreInv, Types, Mems
  <2>3. ~SomeSave  BY <1>2, OneSave
  <2>4. CASE ~Misbehaves /\ ~Changing
    <3>1. ~IsBad(mem.config) /\ \A t \in Tasks : op[t].name = "none"
      BY <2>4 DEF Misbehaves, Changing
    <3>2. Only({})
      BY <3>1 DEF Only, Unsettled, StoreInv, OpsShape, Shape
    <3>3. Excused \/ On(mem.config)  BY <2>3, <3>2 DEF LastInv, RamInv, QuietAgrees
    <3>4. IsBad(Visible(Config)) => Excused  BY <3>1, <3>3, NothingBad DEF On
    <3> QED  BY <1>1, <1>2, <2>1, <3>4 DEF LastInv, HealthInv, SameConfig, SameFlash
  <2>5. CASE Misbehaves \/ Changing
    <3>1. mem.healthy <= suspect => mem'.healthy <= suspect'
      BY <1>1, <2>2, <2>5
    <3>2. IsBad(Visible(Config)) => Excused \/ mem.healthy <= suspect
      BY <2>3 DEF LastInv, HealthInv
    <3> QED  BY <1>1, <1>2, <2>1, <3>1, <3>2 DEF LastInv, HealthInv, SameConfig, SameFlash
  <2> QED  BY <2>4, <2>5
<1> QED  BY <1>3, <1>4, <1>5 DEF LastInv

-----------------------------------------------------------------------------
(* RAM and flash: the saves.                                               *)

\* Whoever has a copy to put back, or may ask for a save, learns of this one.
LEMMA OvertakenAll ==
  ASSUME StoreInv, NEW t \in Tasks, NEW marks, "overtaken" \in marks, Rest(t, marks)
  PROVE  \A s \in Tasks \ {t} : /\ ~Keeps(s)'
                                /\ op'[s].at = "undo" => "overtaken" \in op'[s].marks
<1> SUFFICES ASSUME NEW s \in Tasks \ {t}
             PROVE  ~Keeps(s)' /\ (op'[s].at = "undo" => "overtaken" \in op'[s].marks)
  OBVIOUS
<1>1. Alike(op'[s], op[s]) /\ op'[s].marks = op[s].marks \cup (marks \cap Heeds(op[s]))
  BY DEF Rest
<1>2. op[s].at = "undo" => op[s].name \in {"field", "settings"}
  BY OpShapes DEF Shape, BeginAts, Ops, OpNames
<1>3. op[s].name \in {"field", "settings"} => "overtaken" \in op'[s].marks
  BY <1>1 DEF Heeds
<1> QED  BY <1>1, <1>2, <1>3 DEF Keeps, CanRevert, Alike

LEMMA SaveBeginsLast ==
  ASSUME StoreInv, LastInv, NEW t \in Tasks, Rest(t, {"overtaken"}), job.at = "idle", SaveBegins,
         UNCHANGED <<fs, mem, history, suspect>>, op'[t].at = "ends",
         \/ op[t].at = "save" /\ Akin(op'[t], op[t]) /\ op'[t].marks = op[t].marks \ {"behind"}
         \/ op'[t].name = "poll" /\ mem.dirty
  PROVE  LastInv'
<1>1. ~SomeSave /\ ~Committed'  BY OneSave DEF SaveBegins, Committed
<1>2. \A s \in Tasks \ {t} : op'[s].at = op[s].at /\ op'[s].name = op[s].name
  BY DEF Rest, Alike
<1>3. \A s \in Tasks \ {t} : ~Keeps(s)' /\ (op'[s].at = "undo" => "overtaken" \in op'[s].marks)
  BY OvertakenAll
<1>4. Saves(t)' /\ SomeSave' /\ \A s \in Tasks \ {t} : ~Saves(s)'
  BY <1>1, <1>2 DEF Saves, SomeSave
<1>5. Visible(Config)' = Visible(Config) /\ (Excused' <=> Excused)
  BY DEF Visible, Excused, history
<1>6. QuietAgrees'  BY <1>4 DEF QuietAgrees
<1>7. CopyAgrees'
  <2> SUFFICES ASSUME Keeps(t)', Only({t})' PROVE (Excused \/ On(Restored(t)))'
    BY <1>3 DEF CopyAgrees
  <2>1. op[t].at = "save" /\ Akin(op'[t], op[t]) /\ op'[t].marks = op[t].marks \ {"behind"}
    BY DEF Keeps, CanRevert
  <2>2. Keeps(t) /\ Restored(t)' = Restored(t)
    BY <2>1 DEF Keeps, CanRevert, Restored, Akin
  <2>3. Only({t}) /\ ~Saves(t)  BY <1>2, <2>1 DEF Only, Unsettled, Saves
  <2>4. Excused \/ On(Restored(t))
    BY <1>1, <2>2, <2>3 DEF LastInv, RamInv, CopyAgrees, SomeSave
  <2> QED  BY <1>5, <2>2, <2>4 DEF On
<1>8. SaveCarries' /\ CopyCarried'
  BY <1>3, <1>4 DEF SaveCarries, CopyCarried, SaveBegins
<1>9. PollDirty'
  BY <1>2, OpShapes DEF LastInv, RamInv, PollDirty, Akin, Shape
<1>10. UndoCrosses' /\ CommitShows'  BY <1>1, <1>3 DEF UndoCrosses, CommitShows
<1>11. RamInv'  BY <1>6, <1>7, <1>8, <1>9, <1>10 DEF RamInv
<1>12. HealthInv'
  BY <1>1, <1>5, HealthStays DEF LastInv, HealthInv, StoreInv
<1>13. GoodInv'
  BY GoodLeaves DEF LastInv, StoreInv, Leaves, GoodCall, SaveBegins, history
<1> QED  BY <1>11, <1>12, <1>13 DEF LastInv

LEMMA SaveConfigLast == ASSUME StoreInv, LastInv, NEW t \in Tasks, SaveConfig(t) PROVE LastInv'
<1>1. /\ Rest(t, {"overtaken"}) /\ job.at = "idle" /\ SaveBegins /\ UNCHANGED fs
      /\ op[t].at = "save" /\ op'[t].at = "ends" /\ Akin(op'[t], op[t])
      /\ op'[t].marks = op[t].marks \ {"behind"}
  BY SaveConfigIs DEF StoreInv
<1> QED  BY <1>1, SaveBeginsLast DEF SaveConfig

LEMMA PollSaveLast == ASSUME StoreInv, LastInv, PollSave PROVE LastInv'
<1>1. /\ Rest(Main, {"overtaken"}) /\ job.at = "idle" /\ SaveBegins /\ UNCHANGED fs /\ mem.dirty
      /\ op'[Main].at = "ends" /\ op'[Main].name = "poll" /\ Main \in Tasks
  BY PollSaveIs, Constant DEF StoreInv
<1> QED  BY <1>1, SaveBeginsLast DEF PollSave

LEMMA AnswerGives ==
  ASSUME NEW o \in Ops, o.name \in {"field", "settings", "poll"}
  PROVE  /\ AfterSave(o, TRUE).at \in {"idle", "saved"} /\ AfterSave(o, TRUE).name # "poll"
         /\ \/ AfterSave(o, FALSE).at = "idle" /\ AfterSave(o, FALSE).name = "none" /\ o.name = "poll"
            \/ /\ Akin(AfterSave(o, FALSE), o) /\ AfterSave(o, FALSE).marks = o.marks
               /\ o.name # "poll" /\ AfterSave(o, FALSE).at \in {"undo", "request"}
               /\ AfterSave(o, FALSE).at = "undo" => o.name = "settings" \/ o.undo = "revert"
<1>1. AfterSave(o, TRUE) = IF o.name = "settings" THEN [o EXCEPT !.at = "saved"] ELSE NoOp
  BY DEF AfterSave
<1>2. [o EXCEPT !.at = "saved"].at = "saved" /\ [o EXCEPT !.at = "saved"].name = o.name
  BY DEF Ops
<1>3. CASE o.name = "poll"
  <2>1. AfterSave(o, FALSE) = NoOp  BY <1>3 DEF AfterSave
  <2> QED  BY <1>1, <1>2, <1>3, <2>1, NoOpShape
<1>4. CASE o.name # "poll"
  <2> DEFINE at == IF o.name = "settings" \/ o.undo = "revert" THEN "undo" ELSE "request"
  <2>1. AfterSave(o, FALSE) = [o EXCEPT !.at = at]  BY <1>4 DEF AfterSave
  <2>2. at \in OpAts  BY DEF OpAts, SettingsAts, FieldAts
  <2>3. at \in {"undo", "request"} /\ (at = "undo" => o.name = "settings" \/ o.undo = "revert")
    OBVIOUS
  <2> HIDE DEF at
  <2>4. /\ [o EXCEPT !.at = at].at = at /\ Akin([o EXCEPT !.at = at], o)
        /\ [o EXCEPT !.at = at].marks = o.marks
    BY <2>2, SetAt
  <2> QED  BY <1>1, <1>2, <1>4, <2>1, <2>3, <2>4, NoOpShape
<1> QED  BY <1>3, <1>4

\* A successful save of t leaves what it carried: what RAM holds, or what the one
\* operation that is still unsettled would put back.
LEMMA SavedRam ==
  ASSUME StoreInv, RamInv, NEW t \in Tasks, Saves(t), Rest(t, {}), Committed,
         Visible(Config)' = Visible(Config), mem'.config = mem.config,
         crossed' = (crossed /\ "behind" \in op[t].marks),
         op'[t] = AfterSave(op[t], TRUE)
  PROVE  RamInv'
<1>1. op'[t].at \in {"idle", "saved"} /\ op'[t].name # "poll"
  <2>1. op[t] \in Ops /\ op[t].name \in {"field", "settings", "poll"}
    BY OpShapes DEF Saves, Shape, BeginAts, Ops, OpNames
  <2> QED  BY <2>1, AnswerGives
<1>2. \A s \in Tasks \ {t} : Alike(op'[s], op[s]) /\ op'[s].marks = op[s].marks
  BY DEF Rest
<1>3. \A s \in Tasks : ~Saves(s)'
  BY <1>1, <1>2, OneSave DEF Saves, Alike, CallAts
<1>4. ~SomeSave'  BY <1>3 DEF SomeSave, Saves
<1>6. On(job.value)  BY DEF RamInv, CommitShows, SomeSave
<1>7. \A S : Only(S)' => Only(S \cup {t})  BY <1>2 DEF Only, Unsettled, Alike
<1>8. QuietAgrees'
  <2> SUFFICES ASSUME Only({})' PROVE (Excused \/ On(mem.config))'  BY DEF QuietAgrees
  <2>1. Only({t})  BY <1>7
  <2>2. mem.config = job.value \/ Left(t)  BY <2>1 DEF RamInv, SaveCarries
  <2> QED  BY <1>6, <2>2 DEF Left, Excused, On
<1>9. CopyAgrees'
  <2> SUFFICES ASSUME NEW s \in Tasks, Keeps(s)', Only({s})' PROVE (Excused \/ On(Restored(s)))'
    BY DEF CopyAgrees
  <2>1. s # t  BY <1>1 DEF Keeps, CanRevert
  <2>2. Keeps(s) /\ Restored(s)' = Restored(s)
    BY <1>2, <2>1 DEF Keeps, CanRevert, Restored, Alike
  <2>3. Only({s, t})
    <3>1. {s} \cup {t} = {s, t}  OBVIOUS
    <3> QED  BY <1>7, <3>1
  <2>4. Restored(s) = job.value \/ Left(t)
    BY <2>1, <2>2, <2>3 DEF RamInv, CopyCarried
  <2> QED  BY <1>6, <2>2, <2>4 DEF Left, Excused, On
<1>10. SaveCarries' /\ CopyCarried' /\ UndoCrosses' /\ CommitShows'
  BY <1>3, <1>4 DEF SaveCarries, CopyCarried, UndoCrosses, CommitShows
<1>11. PollDirty'
  <2> SUFFICES ASSUME NEW s \in Tasks, op'[s].name = "poll" PROVE FALSE  BY DEF PollDirty
  <2>1. s # t /\ op[s].name = "poll"  BY <1>1, <1>2 DEF Alike
  <2>2. op[s].at = "ends"  BY <2>1, OpShapes DEF Shape
  <2> QED  BY <2>1, <2>2, OneSave DEF CallAts
<1> QED  BY <1>4, <1>8, <1>9, <1>10, <1>11 DEF RamInv

\* A save that failed leaves flash as it was, and its operation unsettled; poll's
\* leaves the configuration dirty.
LEMMA FailedRam ==
  ASSUME StoreInv, RamInv, NEW t \in Tasks, Saves(t), Rest(t, {}), ~Committed,
         Visible(Config)' = Visible(Config), UNCHANGED <<mem, crossed>>,
         op'[t] = AfterSave(op[t], FALSE)
  PROVE  RamInv'
<1>1. /\ op[t] \in Ops
      /\ op[t].name \in {"field", "settings", "poll"}
  BY OpShapes DEF Saves, Shape, BeginAts, Ops, OpNames
<1>2. \/ op'[t].at = "idle" /\ op'[t].name = "none" /\ op[t].name = "poll"
      \/ /\ Akin(op'[t], op[t]) /\ op'[t].marks = op[t].marks /\ op[t].name # "poll"
         /\ op'[t].at \in {"undo", "request"}
         /\ op'[t].at = "undo" => op[t].name = "settings" \/ op[t].undo = "revert"
  BY <1>1, AnswerGives
<1>3. \A s \in Tasks \ {t} : Alike(op'[s], op[s]) /\ op'[s].marks = op[s].marks
  BY DEF Rest
<1>4. \A s \in Tasks : ~Saves(s)'
  BY <1>2, <1>3, OneSave DEF Saves, Alike, CallAts
<1>5. ~SomeSave'  BY <1>4 DEF SomeSave, Saves
<1>6. (Excused' <=> Excused) /\ (op[t].name = "poll" => Excused)
  BY DEF Excused, RamInv, PollDirty
<1>7. op[t].name # "poll" => Unsettled(op'[t])  BY <1>2 DEF Unsettled
<1>8. QuietAgrees'  BY <1>6, <1>7 DEF QuietAgrees, Only
<1>9. CopyAgrees'
  <2> SUFFICES ASSUME NEW s \in Tasks, Keeps(s)', Only({s})' PROVE (Excused \/ On(Restored(s)))'
    BY DEF CopyAgrees
  <2>1. CASE op[t].name = "poll"  BY <1>6, <2>1
  <2>2. CASE op[t].name # "poll"
    <3>1. s = t  BY <1>7, <2>2 DEF Only
    <3>2. Keeps(t) /\ Restored(t)' = Restored(t)
      BY <1>1, <1>2, <2>2, <3>1 DEF Keeps, CanRevert, Restored, Akin, Saves
    <3>3. Only({t})  BY <1>3, <3>1 DEF Only, Unsettled, Alike
    <3>4. \A r \in Tasks \ {t} : ~Saves(r)  BY OneSave DEF Saves, CallAts
    <3>5. Excused \/ On(Restored(t))  BY <3>2, <3>3, <3>4 DEF RamInv, CopyAgrees
    <3> QED  BY <1>6, <3>1, <3>2, <3>5 DEF On
  <2> QED  BY <2>1, <2>2
<1>10. SaveCarries' /\ CopyCarried' /\ UndoCrosses' /\ CommitShows'
  BY <1>4, <1>5 DEF SaveCarries, CopyCarried, UndoCrosses, CommitShows
<1>11. PollDirty'
  BY <1>2, <1>3 DEF RamInv, PollDirty, Alike, Akin
<1> QED  BY <1>5, <1>8, <1>9, <1>10, <1>11 DEF RamInv

LEMMA SaveConfigEndsLast ==
  ASSUME StoreInv, LastInv, NEW t \in Tasks, SaveConfigEnds(t)
  PROVE  LastInv'
<1>1. /\ Rest(t, {}) /\ job' = NoJob /\ job.at = "done" /\ UNCHANGED <<fs, tainted, suspect>>
      /\ Saves(t)
  BY SaveConfigEndsIs DEF StoreInv, SaveConfigEnds, Saves
<1>2. PICK ok \in BOOLEAN :
        /\ job.ok = ok /\ op'[t] = AfterSave(op[t], ok)
        /\ ok => mem' = Persisted(mem) /\ crossed' = (crossed /\ "behind" \in op[t].marks)
        /\ ~ok => UNCHANGED <<mem, crossed>>
  BY SaveConfigEndsIs DEF StoreInv
<1>3. Visible(Config)' = Visible(Config)  BY <1>1 DEF Visible
<1>4. Committed <=> ok
  BY <1>1, <1>2 DEF StoreInv, CallShape, CallAts, Call, Committed, Saves
<1>5. GoodInv'  BY <1>1, GoodLeaves DEF LastInv, StoreInv, Leaves, GoodCall
<1>6. CASE ok
  <2>1. /\ mem'.config = mem.config /\ mem'.loaded /\ mem'.healthy = 0 /\ op'[t] = AfterSave(op[t], TRUE)
        /\ crossed' = (crossed /\ "behind" \in op[t].marks)
    BY <1>2, <1>6, PersistedGives DEF StoreInv, Types
  <2>2. RamInv'  BY <1>1, <1>3, <1>4, <1>6, <2>1, SavedRam DEF LastInv
  <2>3. suspect' \in Nat /\ suspect' < Dwell
    BY <1>1, Constant DEF StoreInv, Types, LastInv, HealthInv
  <2>4. HealthInv'  BY <2>1, <2>3 DEF HealthInv
  <2> QED  BY <1>5, <2>2, <2>4 DEF LastInv
<1>7. CASE ~ok
  <2>1. op'[t] = AfterSave(op[t], FALSE) /\ UNCHANGED <<mem, crossed>>  BY <1>2, <1>7
  <2>2. RamInv'  BY <1>1, <1>3, <1>4, <1>7, <2>1, FailedRam DEF LastInv
  <2>3. HealthInv'
    BY <1>1, <1>3, <1>4, <1>7, <2>1, HealthStays DEF LastInv, StoreInv, Excused, HealthInv
  <2> QED  BY <1>5, <2>2, <2>3 DEF LastInv
<1> QED  BY <1>6, <1>7

-----------------------------------------------------------------------------
(* RAM and flash: the changes and the rollbacks.                           *)

\* A step with no save in progress after which a save is due: nothing else counts.
LEMMA RequestLast == ASSUME StoreInv, LastInv, NEW t \in Tasks, Request(t) PROVE LastInv'
<1>1. /\ Rest(t, {}) /\ op'[t] = NoOp /\ mem'.dirty /\ mem'.loaded = mem.loaded
      /\ mem'.pending = mem.pending /\ mem'.healthy = mem.healthy
      /\ UNCHANGED <<fs, job, history, suspect>> /\ job.at = "idle"
  BY RequestIs, NoFileAs DEF StoreInv, Request, Free
<1>2. ~SomeSave  BY <1>1, OneSave
<1>3. \A s \in Tasks \ {t} : Alike(op'[s], op[s]) /\ op'[s].marks = op[s].marks
  BY <1>1 DEF Rest
<1>4. ~SomeSave' /\ \A s \in Tasks : ~Saves(s)'
  BY <1>1, <1>2, <1>3, NoOpShape DEF SomeSave, Saves, Alike
<1>5. Excused'  BY <1>1 DEF Excused
<1>6. RamInv'
  BY <1>1, <1>4, <1>5
     DEF RamInv, QuietAgrees, CopyAgrees, SaveCarries, CopyCarried, PollDirty, UndoCrosses, CommitShows
<1>7. Visible(Config)' = Visible(Config)  BY <1>1 DEF Visible
<1>8. HealthInv'
  BY <1>1, <1>2, <1>5, <1>7, HealthStays DEF LastInv, StoreInv, HealthInv
<1>9. GoodInv'
  BY <1>1, GoodLeaves DEF LastInv, StoreInv, Leaves, GoodCall, history
<1> QED  BY <1>6, <1>8, <1>9 DEF LastInv

\* A rollback of t: RAM holds what flash has, or a save has overtaken the copy and
\* crossed tells so, and every save in progress learns that RAM is another.
LEMMA RollsBackLast ==
  ASSUME StoreInv, LastInv, NEW t \in Tasks, RollsBackTo(t, Restored(t)), CanRevert(op[t]),
         ~CanRevert(op'[t]), op'[t].at \notin {"ends", "undo"}, op'[t].name # "poll",
         NEW marks, {"overtaken", "behind"} \subseteq marks, Rest(t, marks)
  PROVE  LastInv'
<1>1. /\ UNCHANGED <<fs, job, tainted, suspect>> /\ op[t].at = "undo"
      /\ mem'.config = Restored(t) /\ mem'.dirty = mem.dirty /\ mem'.loaded = mem.loaded
      /\ mem'.pending = mem.pending /\ mem'.healthy = mem.healthy
      /\ crossed' = (crossed \/ "overtaken" \in op[t].marks)
  BY DEF RollsBackTo
<1>2. \A s \in Tasks \ {t} : /\ Alike(op'[s], op[s])
                             /\ op'[s].marks = op[s].marks \cup (marks \cap Heeds(op[s]))
  BY DEF Rest
<1>3. \A s \in Tasks \ {t} : ~Keeps(s)' /\ (op'[s].at = "undo" => "overtaken" \in op'[s].marks)
  BY OvertakenAll
<1>4. ~Keeps(t)'  BY DEF Keeps
<1>5. Visible(Config)' = Visible(Config) /\ (Excused => Excused')
  BY <1>1 DEF Visible, Excused
<1>6. SomeSave' <=> SomeSave  BY <1>1, <1>2 DEF SomeSave, Saves, Alike
<1>7. QuietAgrees'
  <2> SUFFICES ASSUME ~SomeSave', Only({})' PROVE (Excused \/ On(mem.config))'
    BY DEF QuietAgrees
  <2>1. Only({t})  BY <1>2 DEF Only, Unsettled, Alike
  <2>2. CASE "overtaken" \in op[t].marks  BY <1>1, <2>2 DEF Excused
  <2>3. CASE "overtaken" \notin op[t].marks
    <3>1. Excused \/ On(Restored(t))
      BY <1>6, <2>1, <2>3 DEF LastInv, RamInv, CopyAgrees, Keeps, SomeSave
    <3> QED  BY <1>1, <1>5, <3>1 DEF On
  <2> QED  BY <2>2, <2>3
<1>8. CopyAgrees' /\ CopyCarried'  BY <1>3, <1>4 DEF CopyAgrees, CopyCarried
<1>9. SaveCarries'
  <2> SUFFICES ASSUME NEW s \in Tasks, Saves(s)' PROVE Left(s)'  BY DEF SaveCarries
  <2>1. s # t /\ Saves(s)  BY <1>2 DEF Saves, Alike
  <2>2. "overtaken" \in op[t].marks
    BY <1>1, <2>1 DEF LastInv, RamInv, UndoCrosses, SomeSave
  <2>3. op[s].name \in {"field", "settings", "poll"}
    BY <2>1, OpShapes DEF Saves, Shape, BeginAts, Ops, OpNames
  <2>4. "behind" \in op'[s].marks  BY <1>2, <2>1, <2>3 DEF Heeds
  <2> QED  BY <1>1, <2>2, <2>4 DEF Left
<1>10. PollDirty'  BY <1>1, <1>2 DEF LastInv, RamInv, PollDirty, Alike
<1>11. UndoCrosses'  BY <1>3 DEF UndoCrosses
<1>12. CommitShows'
  BY <1>1, <1>5, <1>6 DEF LastInv, RamInv, CommitShows, On, Committed
<1>13. RamInv'  BY <1>7, <1>8, <1>9, <1>10, <1>11, <1>12 DEF RamInv
<1>14. HealthInv'
  BY <1>1, <1>5, <1>6, HealthStays DEF LastInv, StoreInv, HealthInv, Committed
<1>15. GoodInv'  BY <1>1, GoodLeaves DEF LastInv, StoreInv, Leaves, GoodCall
<1> QED  BY <1>13, <1>14, <1>15 DEF LastInv

LEMMA UndoFieldLast == ASSUME StoreInv, LastInv, NEW t \in Tasks, UndoField(t) PROVE LastInv'
<1>1. /\ RollsBackTo(t, With(mem.config, "rest", op[t].prev.rest)) /\ op[t].name = "field"
      /\ op'[t] = NoOp /\ Rest(t, {"overtaken", "behind"})
  BY UndoFieldIs DEF StoreInv
<1>2. op[t].at = "undo" /\ op[t].undo = "revert"
  BY <1>1, OpShapes DEF RollsBackTo, Shape
<1>3. CanRevert(op[t]) /\ Restored(t) = With(mem.config, "rest", op[t].prev.rest)
  BY <1>1, <1>2 DEF CanRevert, Restored
<1>4. ~CanRevert(NoOp)  BY NoOpShape DEF CanRevert
<1> QED  BY <1>1, <1>3, <1>4, NoOpShape, RollsBackLast

LEMMA UndoSettingsLast == ASSUME StoreInv, LastInv, NEW t \in Tasks, UndoSettings(t) PROVE LastInv'
<1>1. /\ RollsBackTo(t, op[t].prev) /\ op[t].name = "settings" /\ Placed(t, "restore")
      /\ Rest(t, {"overtaken", "behind", "disturbed"})
  BY UndoSettingsIs DEF StoreInv
<1>2. CanRevert(op[t]) /\ Restored(t) = op[t].prev
  BY <1>1 DEF CanRevert, Restored, RollsBackTo
<1>3. ~CanRevert(op'[t]) /\ op'[t].at = "restore" /\ op'[t].name = "settings"
  BY <1>1 DEF CanRevert, Placed, Akin
<1>4. {"overtaken", "behind"} \subseteq {"overtaken", "behind", "disturbed"}  OBVIOUS
<1> QED  BY <1>1, <1>2, <1>3, <1>4, RollsBackLast

\* t changes RAM: it is unsettled now, so only what it would put back counts.
LEMMA ChangesLast ==
  ASSUME StoreInv, LastInv, NEW t \in Tasks, NEW marks \in SUBSET {"torn", "disturbed"},
         Rest(t, marks), UNCHANGED <<fs, job, history, suspect>>,
         mem'.dirty = mem.dirty, mem'.loaded = mem.loaded,
         mem'.pending = mem.pending, mem'.healthy = mem.healthy,
         Unsettled(op'[t]), op[t].at # "ends", op'[t].at \notin {"ends", "undo"}, op'[t].name # "poll",
         Keeps(t)' =>
           /\ Only({t}) /\ ~SomeSave => Excused \/ On(Restored(t)')
           /\ \A s \in Tasks \ {t} : Saves(s) /\ Only({s, t}) => Restored(t)' = job.value \/ Left(s)
  PROVE  LastInv'
<1>1. \A s \in Tasks \ {t} : Stays(s)  BY RestStays
<1>2. Visible(Config)' = Visible(Config) /\ (Excused' <=> Excused) /\ (Committed' <=> Committed)
  BY DEF Visible, Excused, history, Committed
<1>3. ~Saves(t) /\ ~Saves(t)' /\ \A s \in Tasks : Saves(s)' <=> Saves(s)
  BY <1>1 DEF Saves, Stays
<1>4. SomeSave' <=> SomeSave  BY <1>1 DEF SomeSave, Saves, Stays
<1>5. \A S : t \in S /\ Only(S)' => Only(S)  BY <1>1 DEF Only, Stays
<1>6. \A s \in Tasks \ {t} : Saves(s) /\ Left(s) => Left(s)'
  BY <1>1 DEF Left, Saves, Stays, history
<1>7. \A S : Only(S)' => t \in S  BY DEF Only
<1>8. QuietAgrees'  BY <1>7 DEF QuietAgrees
<1>9. CopyAgrees'
  <2> SUFFICES ASSUME Keeps(t)', Only({t})', \A s \in Tasks \ {t} : ~Saves(s)'
               PROVE  (Excused \/ On(Restored(t)))'
    BY <1>7 DEF CopyAgrees
  <2>1. Only({t}) /\ ~SomeSave  BY <1>3, <1>5 DEF SomeSave
  <2>2. Visible(Config) \in {Restored(t)', Partial} \/ Excused  BY <2>1 DEF On
  <2> QED  BY <1>2, <2>2 DEF On
<1>10. SaveCarries'  BY <1>3, <1>7 DEF SaveCarries
<1>11. CopyCarried'
  <2> SUFFICES ASSUME NEW h \in Tasks, NEW s \in Tasks \ {h}, Saves(h)', Keeps(s)', Only({s, h})'
               PROVE  (Restored(s) = job.value \/ Left(h))'
    BY DEF CopyCarried
  <2>1. h # t /\ s = t /\ Saves(h)  BY <1>3, <1>7
  <2>2. Only({h, t})
    <3>1. {s, h} = {h, t}  BY <2>1
    <3> QED  BY <1>5, <3>1
  <2>3. Restored(t)' = job.value \/ Left(h)  BY <2>1, <2>2
  <2> QED  BY <1>6, <2>1, <2>3
<1>12. PollDirty'  BY <1>1 DEF LastInv, RamInv, PollDirty, Stays
<1>13. UndoCrosses'
  <2> SUFFICES ASSUME NEW s \in Tasks, op'[s].at = "undo", SomeSave' PROVE "overtaken" \in op'[s].marks
    BY DEF UndoCrosses
  <2>1. s # t /\ op[s].at = "undo"  BY <1>1 DEF Stays
  <2> QED  BY <1>1, <1>4, <2>1 DEF LastInv, RamInv, UndoCrosses, Stays
<1>14. CommitShows'  BY <1>2, <1>4 DEF LastInv, RamInv, CommitShows, On
<1>15. RamInv'  BY <1>8, <1>9, <1>10, <1>11, <1>12, <1>13, <1>14 DEF RamInv
<1>16. HealthInv'  BY <1>2, <1>4, HealthStays DEF LastInv, StoreInv, HealthInv
<1>17. GoodInv'  BY GoodLeaves DEF LastInv, StoreInv, Leaves, GoodCall, history
<1> QED  BY <1>15, <1>16, <1>17 DEF LastInv

\* A copy of RAM that a task makes while nothing of its own is unsettled.
LEMMA FreshCopy ==
  ASSUME StoreInv, LastInv, NEW t \in Tasks, op[t].name = "none"
  PROVE  /\ Only({t}) /\ ~SomeSave => Excused \/ On(mem.config)
         /\ \A s \in Tasks \ {t} : Saves(s) /\ Only({s, t}) => mem.config = job.value \/ Left(s)
<1>1. ~Unsettled(op[t])  BY OpShapes DEF Shape, Unsettled
<1>2. Only({t}) => Only({})  BY <1>1 DEF Only
<1>3. \A s \in Tasks : Only({s, t}) => Only({s})  BY <1>1 DEF Only
<1> QED  BY <1>2, <1>3 DEF LastInv, RamInv, QuietAgrees, SaveCarries

LEMMA WithBack ==
  ASSUME NEW c \in Values, NEW v PROVE With(With(c, "rest", v), "rest", c.rest) = c
BY VersionsAssumption DEF With

LEMMA SaveFieldLast ==
  ASSUME StoreInv, LastInv, NEW t \in Tasks, NEW part, NEW undo,
         (part = "rest" /\ undo \in {"revert", "dirty"}) \/ (part = "wifi" /\ undo = "dirty"),
         SaveField(t, part, undo)
  PROVE  LastInv'
<1> DEFINE marks == IF part = "wifi" THEN {"disturbed"} ELSE {}
<1>1. /\ Rest(t, marks) /\ op[t].name = "none"
      /\ op'[t].name = "field" /\ op'[t].at = "save" /\ op'[t].undo = undo
      /\ undo = "revert" => op'[t].prev = mem.config
      /\ mem'.config = With(mem.config, part, made') /\ mem'.dirty = mem.dirty
      /\ mem'.loaded = mem.loaded /\ mem'.pending = mem.pending /\ mem'.healthy = mem.healthy
  BY SaveFieldIs DEF StoreInv
<1>2. marks \in SUBSET {"torn", "disturbed"}  OBVIOUS
<1> HIDE DEF marks
<1>3. UNCHANGED <<fs, job, history, suspect>>  BY NoFileAs DEF SaveField
<1>4. Unsettled(op'[t]) /\ op[t].at = "idle"  BY <1>1, OpShapes DEF Unsettled, Shape
<1>5. Keeps(t)' => Restored(t)' = mem.config
  <2> SUFFICES ASSUME Keeps(t)' PROVE Restored(t)' = mem.config  OBVIOUS
  <2>1. undo = "revert" /\ part = "rest"  BY <1>1 DEF Keeps, CanRevert
  <2>2. Restored(t)' = With(With(mem.config, "rest", made'), "rest", mem.config.rest)
    BY <1>1, <2>1 DEF Restored
  <2>3. mem.config \in Values  BY DEF StoreInv, Types, Mems
  <2> QED  BY <2>2, <2>3, WithBack
<1>6. Keeps(t)' =>
        /\ Only({t}) /\ ~SomeSave => Excused \/ On(Restored(t)')
        /\ \A s \in Tasks \ {t} : Saves(s) /\ Only({s, t}) => Restored(t)' = job.value \/ Left(s)
  BY <1>1, <1>5, FreshCopy
<1> QED  BY <1>1, <1>2, <1>3, <1>4, <1>6, ChangesLast

\* Settings that are half assigned would still be put back as they were.
LEMMA AssignsLast ==
  ASSUME StoreInv, LastInv, NEW t \in Tasks, NEW from, NEW v, NEW to,
         \/ from = "assign" /\ v = Mixed /\ to = "half"
         \/ from = "half" /\ v = op[t].new /\ to = "save",
         Assigns(t, from, v, to)
  PROVE  LastInv'
<1>1. /\ UNCHANGED <<fs, job, history>> /\ op[t].name = "settings" /\ op[t].at = from
      /\ Placed(t, to) /\ op'[t].marks = op[t].marks /\ Rest(t, {"disturbed"})
      /\ mem'.dirty = mem.dirty
      /\ mem'.loaded = mem.loaded /\ mem'.pending = mem.pending /\ mem'.healthy = mem.healthy
  BY AssignsIs DEF StoreInv
<1>2. {"disturbed"} \in SUBSET {"torn", "disturbed"} /\ suspect' = suspect  BY DEF Assigns
<1>3. op'[t].at = to /\ op'[t].name = "settings" /\ op'[t].prev = op[t].prev
  BY <1>1 DEF Placed, Akin
<1>4. Unsettled(op'[t]) /\ op[t].at # "ends"  BY <1>1, <1>3 DEF Unsettled
<1>5. Keeps(t)' => Keeps(t) /\ Restored(t)' = Restored(t)
  BY <1>1, <1>3 DEF Keeps, CanRevert, Restored
<1>6. ~Saves(t)  BY <1>4 DEF Saves
<1>7. \A s \in Tasks : {t, s} = {s, t}  OBVIOUS
<1>8. Keeps(t)' =>
        /\ Only({t}) /\ ~SomeSave => Excused \/ On(Restored(t)')
        /\ \A s \in Tasks \ {t} : Saves(s) /\ Only({s, t}) => Restored(t)' = job.value \/ Left(s)
  BY <1>5, <1>6, <1>7 DEF LastInv, RamInv, CopyAgrees, CopyCarried, SomeSave
<1> QED  BY <1>1, <1>2, <1>3, <1>4, <1>8, ChangesLast

\* A request copies what RAM holds: nothing changes but that it may be put back.
LEMMA AsksLast ==
  ASSUME StoreInv, LastInv, NEW t \in Tasks, NEW new \in Versions,
         NEW want \in [Certificates -> Text], NEW undo \in {"dirty", "revert"},
         Asks(t, new, want, undo)
  PROVE  LastInv'
<1>1. /\ Rest(t, {}) /\ UNCHANGED <<fs, job, mem, history, suspect>> /\ op[t].name = "none"
      /\ op'[t].name = "settings" /\ op'[t].at = "capture" /\ op'[t].prev = mem.config
  BY AsksIs DEF StoreInv, Asks
<1>2. \A s \in Tasks \ {t} : Stays(s)  BY <1>1, RestStays
<1>3. op[t].at = "idle" /\ ~Unsettled(op[t]) /\ ~Unsettled(op'[t])
  BY <1>1, OpShapes DEF Shape, Unsettled
<1>4. ~Saves(t) /\ \A s \in Tasks : Saves(s)' <=> Saves(s)
  BY <1>1, <1>2, <1>3 DEF Saves, Stays
<1>5. SomeSave' <=> SomeSave  BY <1>4 DEF SomeSave, Saves
<1>6. Visible(Config)' = Visible(Config) /\ (Excused' <=> Excused) /\ (Committed' <=> Committed)
      /\ \A v : On(v)' <=> On(v)
  BY <1>1 DEF Visible, Excused, history, Committed, On
<1>7. \A S : Only(S)' => Only(S)  BY <1>2, <1>3 DEF Only, Stays
<1>8. \A s \in Tasks : Saves(s) /\ Left(s) => Left(s)'
  BY <1>1, <1>2, <1>4 DEF Left, Saves, Stays, history
<1>9. \A s \in Tasks \ {t} : Keeps(s)' => Keeps(s) /\ Restored(s)' = Restored(s)
  BY <1>1, <1>2 DEF Keeps, Restored, Stays
<1>10. Restored(t)' = mem.config  BY <1>1 DEF Restored
<1>11. QuietAgrees' /\ SaveCarries' /\ PollDirty' /\ UndoCrosses' /\ CommitShows'
  <2>1. QuietAgrees'
    BY <1>1, <1>5, <1>6, <1>7 DEF LastInv, RamInv, QuietAgrees
  <2>2. SaveCarries'
    BY <1>1, <1>4, <1>7, <1>8 DEF LastInv, RamInv, SaveCarries
  <2>3. PollDirty'  BY <1>1, <1>2 DEF LastInv, RamInv, PollDirty, Stays
  <2>4. UndoCrosses'  BY <1>1, <1>2, <1>5 DEF LastInv, RamInv, UndoCrosses, Stays
  <2>5. CommitShows'  BY <1>1, <1>5, <1>6 DEF LastInv, RamInv, CommitShows
  <2> QED  BY <2>1, <2>2, <2>3, <2>4, <2>5
<1>12. CopyAgrees'
  <2> SUFFICES ASSUME NEW s \in Tasks, Keeps(s)', Only({s})',
                      \A r \in Tasks \ {s} : ~Saves(r)', ~(Saves(s)' /\ Committed')
               PROVE  (Excused \/ On(Restored(s)))'
    BY DEF CopyAgrees
  <2>1. Only({s}) /\ (\A r \in Tasks \ {s} : ~Saves(r)) /\ ~(Saves(s) /\ Committed)
    BY <1>4, <1>6, <1>7
  <2>2. CASE s = t
    <3>1. ~SomeSave  BY <1>4, <2>1, <2>2 DEF SomeSave
    <3>2. Excused \/ On(mem.config)  BY <1>1, <2>1, <2>2, <3>1, FreshCopy
    <3> QED  BY <1>6, <1>10, <2>2, <3>2 DEF On
  <2>3. CASE s # t
    <3>1. Keeps(s) /\ Restored(s)' = Restored(s)  BY <1>9, <2>3
    <3>2. Excused \/ On(Restored(s))  BY <2>1, <3>1 DEF LastInv, RamInv, CopyAgrees
    <3> QED  BY <1>6, <3>1, <3>2 DEF On
  <2> QED  BY <2>2, <2>3
<1>13. CopyCarried'
  <2> SUFFICES ASSUME NEW h \in Tasks, NEW s \in Tasks \ {h}, Saves(h)', Keeps(s)', Only({s, h})'
               PROVE  Restored(s)' = job'.value \/ Left(h)'
    BY DEF CopyCarried
  <2>1. Only({s, h}) /\ Saves(h) /\ h # t  BY <1>4, <1>7
  <2>2. CASE s = t
    <3>1. {s, h} = {h, t}  BY <2>2
    <3>2. mem.config = job.value \/ Left(h)  BY <1>1, <2>1, <3>1, FreshCopy
    <3> QED  BY <1>1, <1>8, <1>10, <2>1, <2>2, <3>2
  <2>3. CASE s # t
    <3>1. Keeps(s) /\ Restored(s)' = Restored(s)  BY <1>9, <2>3
    <3>2. Restored(s) = job.value \/ Left(h)  BY <2>1, <3>1 DEF LastInv, RamInv, CopyCarried
    <3> QED  BY <1>1, <1>8, <2>1, <3>1, <3>2
  <2> QED  BY <2>2, <2>3
<1>14. RamInv'  BY <1>11, <1>12, <1>13 DEF RamInv
<1>15. HealthInv'  BY <1>1, <1>5, <1>6, HealthStays DEF LastInv, StoreInv, HealthInv
<1>16. GoodInv'  BY <1>1, GoodLeaves DEF LastInv, StoreInv, Leaves, GoodCall, history
<1> QED  BY <1>14, <1>15, <1>16 DEF LastInv

-----------------------------------------------------------------------------
(* RAM and flash: the copy, the file calls and the boot.                   *)

LEMMA ReadsVisible ==
  ASSUME NEW path \in Paths, NEW found, Reads(path, found), found # None
  PROVE  found = Visible(path)
BY DEF Reads

\* What is copied has been healthy for the whole dwell: it is not bad, unless a
\* rollback has crossed a save, and then the copy is tainted.
LEMMA CommitLastGoodLast == ASSUME StoreInv, LastInv, CommitLastGood PROVE LastInv'
<1>1. /\ SameConfig /\ mem'.pending = mem.pending /\ mem'.healthy = mem.healthy
      /\ UNCHANGED <<crossed, suspect>> /\ op[Main].name = "none" /\ job.at = "idle"
      /\ ~mem.dirty /\ mem.pending /\ mem.healthy = Dwell
  BY CommitLastGoodIs DEF StoreInv
<1>2. PICK found \in Content :
        /\ Reads(Config, found)
        /\ \/ found = None /\ UNCHANGED <<job, op, tainted>>
           \/ /\ found # None /\ tainted' = (tainted \/ crossed) /\ Rest(Main, {})
              /\ op'[Main].name = "commit" /\ op'[Main].at = "copy"
              /\ job' = [at |-> "open", path |-> LastGood, value |-> found, kind |-> "copy",
                         ok |-> FALSE]
  BY CommitLastGoodIs DEF StoreInv
<1>3. Leaves  BY <1>2, ReadsLook, Constant DEF Leaves
<1>4. ~SomeSave  BY <1>1, OneSave
<1>5. CASE found = None
  <2>1. UNCHANGED <<job, op, history>>  BY <1>1, <1>2, <1>5 DEF history
  <2> QED  BY <1>1, <1>3, <2>1, UnmovedStays, LastStays
<1>6. CASE found # None
  <2>1. /\ tainted' = (tainted \/ crossed) /\ Rest(Main, {})
        /\ op'[Main].name = "commit" /\ op'[Main].at = "copy" /\ job'.value = found
    BY <1>2, <1>6
  <2>2. \A s \in Tasks \ {Main} : Stays(s)  BY <2>1, RestStays, Constant
  <2>3. Stays(Main)
    <3>1. op[Main].at = "idle"  BY <1>1, OpShapes, Constant DEF Shape
    <3> QED  BY <1>1, <2>1, <3>1 DEF Stays, Unsettled, CanRevert
  <2>4. SameFlash  BY <1>3, <1>4, FlashStays DEF StoreInv
  <2>5. RamInv'  BY <1>1, <2>2, <2>3, <2>4, RamStays DEF LastInv, SameConfig
  <2>6. HealthInv'
    BY <1>1, <1>4, <2>4, HealthStays
       DEF LastInv, HealthInv, StoreInv, SameFlash, Excused, SameConfig
  <2>7. GoodInv'
    <3> SUFFICES ASSUME ~tainted' PROVE GoodNow'  BY DEF GoodInv
    <3>1. ~tainted /\ ~crossed /\ GoodNow  BY <2>1 DEF StoreInv, Types, LastInv, GoodInv
    <3>2. GoodEntries'
      <4>1. CASE fs' = fs  BY <3>1, <4>1 DEF GoodNow, GoodEntries
      <4>2. CASE Looks  BY <3>1, <4>2, GoodLooks DEF GoodNow, StoreInv
      <4> QED  BY <1>3, <4>1, <4>2 DEF Leaves
    <3>3. found = Visible(Config)  BY <1>2, <1>6, ReadsVisible, Constant
    <3>4. ~Excused  BY <1>1, <3>1 DEF Excused, LastInv, HealthInv
    <3>5. suspect < Dwell /\ suspect \in Nat /\ Dwell \in Nat
      BY Constant DEF LastInv, HealthInv, StoreInv, Types
    <3>6. ~IsBad(found)  BY <1>1, <1>4, <3>3, <3>4, <3>5 DEF LastInv, HealthInv
    <3> QED  BY <2>1, <3>2, <3>6 DEF GoodNow
  <2> QED  BY <2>5, <2>6, <2>7 DEF LastInv
<1> QED  BY <1>5, <1>6

LEMMA CommitEndsLast == ASSUME StoreInv, LastInv, CommitEnds PROVE LastInv'
<1>1. /\ UNCHANGED <<fs, history, suspect>> /\ job' = NoJob
      /\ op[Main].name = "commit" /\ op[Main].at = "copy" /\ op'[Main] = NoOp /\ Rest(Main, {})
      /\ SameConfig /\ (mem'.pending => mem.pending)
      /\ mem'.healthy = mem.healthy \/ mem'.healthy = 0
  BY CommitEndsIs DEF StoreInv
<1>2. \A s \in Tasks \ {Main} : Stays(s)  BY <1>1, RestStays, Constant
<1>3. Stays(Main)  BY <1>1, NoOpShape DEF Stays, Unsettled, CanRevert
<1>4. ~SomeSave  BY <1>1, OneSave, Constant DEF CallAts
<1> QED  BY <1>1, <1>2, <1>3, <1>4, LastStays DEF Leaves, GoodCall

\* A file step of a save moves flash from what it was to what the save carries;
\* that of a copy or of the boot is nothing to a device that runs.
LEMMA FilingLast == ASSUME StoreInv, LastInv, Filing PROVE LastInv'
<1>1. FileStep /\ UNCHANGED <<mem, op, crossed, tainted, suspect>>
  BY FilingIs DEF StoreInv, history
<1>2. /\ Busy /\ Same /\ \A q \in Paths \ {here} : Visible(q)' = Visible(q)
      /\ job.kind # "remove" =>
           \/ (Committed <=> Committed') /\ Visible(here)' = Visible(here)
           \/ Committed' /\ Visible(here)' \in {job.value, Partial}
  BY <1>1, StepEffect DEF StoreInv
<1>3. job'.value = job.value /\ job.at # "idle"  BY <1>2 DEF Same, Busy
<1>4. GoodInv'
  BY <1>1, GoodStep DEF LastInv, GoodInv, StoreInv
<1>5. PICK t \in Tasks : op[t].at \in CallAts /\ Call(op[t].at)
  BY <1>3 DEF StoreInv, CallShape
<1>6. \A s \in Tasks : Stays(s)  BY <1>1, UnmovedStays
<1>7. (Excused' <=> Excused) /\ (SomeSave' <=> SomeSave)
  BY <1>1 DEF Excused, SomeSave, Saves
<1>8. CASE SameFlash
  <2>1. RamInv'  BY <1>1, <1>6, <1>8, RamStays DEF LastInv
  <2>2. HealthInv'
    BY <1>1, <1>7, <1>8, HealthStays DEF LastInv, StoreInv, SameFlash, HealthInv
  <2> QED  BY <1>4, <2>1, <2>2 DEF LastInv
<1>9. CASE SomeSave /\ ~SameFlash
  <2>1. PICK h \in Tasks : Saves(h)  BY <1>9 DEF SomeSave
  <2>2. job.path = Config /\ job.kind = "config" /\ h = t
    BY <1>5, <2>1, OneSave DEF StoreInv, CallShape, CallAts, Call, Saves
  <2>3. here = Config /\ here' = Config  BY <1>2, <2>2 DEF here, Same
  <2>4. Committed' /\ On(job.value)'
    <3>1. Visible(here)' = Visible(Config)' /\ Visible(here) = Visible(Config)
      BY <2>3 DEF Visible
    <3>2. ~((Committed <=> Committed') /\ Visible(here)' = Visible(here))
      BY <1>3, <1>9, <3>1 DEF SameFlash
    <3>3. Committed' /\ Visible(Config)' \in {job.value, Partial}
      BY <1>2, <2>2, <3>1, <3>2
    <3> QED  BY <1>3, <3>3 DEF On
  <2>5. \A s \in Tasks : Saves(s)' <=> Saves(s)  BY <1>1 DEF Saves
  <2>6. QuietAgrees'  BY <1>7, <1>9 DEF QuietAgrees
  <2>7. CopyAgrees'
    <3> SUFFICES ASSUME NEW s \in Tasks, \A r \in Tasks \ {s} : ~Saves(r)',
                        ~(Saves(s)' /\ Committed')
                 PROVE  FALSE
      BY DEF CopyAgrees
    <3> QED  BY <2>1, <2>4, <2>5
  <2>8. SaveCarries' /\ CopyCarried' /\ PollDirty' /\ UndoCrosses'
    <3>1. SaveCarries'
      BY <1>1, <1>3 DEF LastInv, RamInv, SaveCarries, Saves, Only, Left
    <3>2. CopyCarried'
      BY <1>1, <1>3 DEF LastInv, RamInv, CopyCarried, Saves, Keeps, Only, Restored, Left
    <3>3. PollDirty'  BY <1>1 DEF LastInv, RamInv, PollDirty
    <3>4. UndoCrosses'  BY <1>1, <1>7 DEF LastInv, RamInv, UndoCrosses
    <3> QED  BY <3>1, <3>2, <3>3, <3>4
  <2>9. CommitShows'  BY <2>4 DEF CommitShows
  <2>10. RamInv'  BY <2>6, <2>7, <2>8, <2>9 DEF RamInv
  <2>11. HealthInv'
    BY <1>1, <1>7, <1>9, <2>4 DEF LastInv, HealthInv
  <2> QED  BY <1>4, <2>10, <2>11 DEF LastInv
<1>10. CASE ~SomeSave /\ ~SameFlash
  <2>1. here = Config  BY <1>2, <1>10, Constant DEF SameFlash
  <2>2. op[t].at \in BeginAts
    BY <1>5, <1>10, <2>1, Constant DEF CallAts, Call, here, SomeSave, Saves, BeginAts
  <2>3. op[t].name = "begin" /\ t = Main
    BY <2>2, OpShapes DEF Shape, BeginAts, FieldAts, SettingsAts, Ops, OpNames
  <2>4. mem = Fresh /\ \A s \in Tasks \ {Main} : Resting(s)
    BY <2>3 DEF StoreInv, BootShape
  <2>5. Excused'  BY <1>1, <2>4 DEF Excused, Fresh
  <2>6. \A s \in Tasks : op'[s].at \notin {"ends", "undo"} /\ op'[s].name # "poll" /\ ~CanRevert(op'[s])
    BY <1>1, <2>2, <2>3, <2>4 DEF Resting, CanRevert, BeginAts
  <2>7. RamInv'  BY <2>5, <2>6, RamCalm
  <2>8. HealthInv'  BY <1>1, <2>5 DEF LastInv, HealthInv
  <2> QED  BY <1>4, <2>7, <2>8 DEF LastInv
<1> QED  BY <1>8, <1>9, <1>10

\* While the device boots, RAM holds the defaults and nothing is loaded.
LEMMA FreshLast ==
  ASSUME StoreInv, LastInv, Leaves, GoodCall, UNCHANGED tainted, mem' = Fresh,
         suspect' \in {suspect, 0},
         \A s \in Tasks : (op'[s].name = "begin" /\ op'[s].at \in BeginAts) \/ Resting(s)'
  PROVE  LastInv'
<1>1. Excused' /\ ~mem'.pending  BY DEF Excused, Fresh
<1>2. \A s \in Tasks : op'[s].at \notin {"ends", "undo"} /\ op'[s].name # "poll" /\ ~CanRevert(op'[s])
  BY DEF Resting, CanRevert, BeginAts
<1>3. RamInv'  BY <1>1, <1>2, RamCalm
<1>4. HealthInv'  BY <1>1, Constant DEF LastInv, HealthInv
<1>5. GoodInv'  BY GoodLeaves DEF LastInv, StoreInv
<1> QED  BY <1>3, <1>4, <1>5 DEF LastInv

LEMMA ResetsLast ==
  ASSUME StoreInv, LastInv, Panic \/ \E crash \in BOOLEAN : ResetAnywhere(crash)
  PROVE  LastInv'
<1>1. PICK crash \in BOOLEAN : Reset(crash) /\ Spends
  BY DEF Panic, Works, ResetAnywhere, Fault, Spends
<1>2. /\ mem' = Fresh /\ tainted' = tainted /\ suspect' = 0 /\ op' = [t \in Tasks |-> NoOp]
      /\ job' = NoJob /\ fs' = fs
  BY <1>1, ResetIs DEF StoreInv
<1>3. \A s \in Tasks : Resting(s)'  BY <1>2, NoOpShape DEF Resting
<1> QED  BY <1>2, <1>3, FreshLast DEF Leaves, GoodCall

LEMMA ApplyLast == ASSUME StoreInv, LastInv, Apply PROVE LastInv'
<1>1. /\ UNCHANGED <<fs, job, mem, history, suspect>> /\ boot.power = "reset"
      /\ op'[Main].name = "begin" /\ op'[Main].at \in {"load", "rollback", "clear"}
      /\ \A s \in Tasks \ {Main} : op'[s] = op[s]
  BY ApplyIs DEF StoreInv
<1>2. mem = Fresh /\ \A s \in Tasks : Resting(s)  BY <1>1 DEF StoreInv, BootShape
<1>3. op'[Main].at \in BeginAts /\ \A s \in Tasks \ {Main} : Resting(s)'
  BY <1>1, <1>2 DEF BeginAts, Resting
<1> QED  BY <1>1, <1>2, <1>3, FreshLast DEF Leaves, GoodCall, history

LEMMA BootGoesLast ==
  ASSUME StoreInv, LastInv, NEW from, NEW to \in BeginAts, BootGoes(from, to), Leaves, GoodCall
  PROVE  LastInv'
<1>1. /\ UNCHANGED <<mem, history, suspect>> /\ op[Main].name = "begin"
      /\ op'[Main].name = "begin" /\ op'[Main].at = to /\ Rest(Main, {})
  BY DEF BootGoes
<1>2. mem = Fresh /\ \A s \in Tasks \ {Main} : Resting(s)
  BY <1>1 DEF StoreInv, BootShape
<1>3. \A s \in Tasks \ {Main} : Resting(s)'  BY <1>1, <1>2 DEF Rest, Alike, Resting
<1> QED  BY <1>1, <1>2, <1>3, FreshLast DEF history

\* What begin() loads is what flash shows; else RAM keeps the defaults, unloaded.
LEMMA LoadConfigLast == ASSUME StoreInv, LastInv, LoadConfig PROVE LastInv'
<1>1. job.at = "idle"  BY BeginQuiet DEF LoadConfig, Runs, CallAts
<1>2. /\ UNCHANGED <<job, crossed, tainted, suspect>> /\ op[Main].name = "begin"
      /\ op'[Main] = NoOp /\ Rest(Main, {})
  BY <1>1, LoadConfigIs DEF StoreInv, history
<1>3. PICK found \in Content :
        /\ Reads(Config, found)
        /\ \/ mem' = mem
           \/ /\ found \in Values /\ mem'.config = found /\ mem'.dirty = mem.dirty
              /\ mem'.loaded /\ mem'.healthy = 0
  BY <1>1, LoadConfigIs DEF StoreInv
<1>4. mem = Fresh /\ \A s \in Tasks \ {Main} : Resting(s)
  BY <1>2 DEF StoreInv, BootShape
<1>5. \A s \in Tasks : Resting(s)'
  BY <1>2, <1>4, NoOpShape DEF Rest, Alike, Resting
<1>6. Leaves /\ GoodCall  BY <1>2, <1>3, ReadsLook, Constant DEF Leaves, GoodCall
<1>7. CASE mem' = mem
  BY <1>2, <1>4, <1>5, <1>6, <1>7, FreshLast
<1>8. CASE found \in Values /\ mem'.config = found /\ mem'.loaded /\ mem'.healthy = 0
  <2>1. found = Visible(Config)
    BY <1>3, <1>8, ReadsVisible, Constant, ContentAssumption
  <2>2. Visible(Config)' = Visible(Config)  BY <1>6, LeavesSame DEF StoreInv
  <2>3. On(mem.config)'  BY <1>8, <2>1, <2>2 DEF On
  <2>4. \A s \in Tasks : op'[s].at \notin {"ends", "undo"} /\ op'[s].name # "poll" /\ ~CanRevert(op'[s])
    BY <1>5 DEF Resting, CanRevert
  <2>5. RamInv'  BY <2>3, <2>4, RamCalm
  <2>6. HealthInv'
    BY <1>2, <1>8, Constant DEF LastInv, HealthInv, StoreInv, Types
  <2>7. GoodInv'  BY <1>2, <1>6, GoodLeaves DEF LastInv, StoreInv
  <2> QED  BY <2>5, <2>6, <2>7 DEF LastInv
<1> QED  BY <1>3, <1>7, <1>8

LEMMA BootLast ==
  ASSUME StoreInv, LastInv, RestoreLastGood \/ RestoreLastGoodEnds \/ ClearAll \/ LoadConfig
  PROVE  LastInv'
<1> USE Constant DEF StoreInv
<1>1. CASE RestoreLastGood
  <2>1. job.at = "idle"
    BY <1>1, BeginQuiet DEF RestoreLastGood, Runs, CallAts
  <2>2. ASSUME NEW found \in Content, Reads(LastGood, found) PROVE Leaves
    BY <2>2, ReadsLook DEF Leaves
  <2>3. CASE /\ BootGoes("rollback", "clear") /\ UNCHANGED job
             /\ \E found \in Content : Reads(LastGood, found)
    BY <2>2, <2>3, BootGoesLast DEF BeginAts, GoodCall
  <2>4. CASE /\ BootGoes("rollback", "rollbackEnds")
             /\ \E found \in Content \ {None} : Reads(LastGood, found) /\ Starts(Config, found, "copy")
    BY <2>2, <2>4, BootGoesLast DEF BeginAts, GoodCall, Starts
  <2> QED  BY <1>1, <2>1, <2>3, <2>4, RestoreLastGoodIs
<1>2. CASE RestoreLastGoodEnds
  BY <1>2, RestoreLastGoodEndsIs, BootGoesLast DEF BeginAts, GoodCall, Leaves
<1>3. ASSUME NEW path \in Paths, NEW from, NEW to \in {"clearEnds", "clearGoodEnds"},
             ClearFile(from, path, to)
      PROVE  LastInv'
  <2>1. BootGoes(from, to) /\ Starts(path, None, "remove") /\ fs' = fs
    BY <1>3, ClearFileIs DEF OpAts, BeginAts
  <2> QED  BY <2>1, BootGoesLast DEF BeginAts, GoodCall, Leaves, Starts
<1>4. ASSUME NEW from, NEW to \in {"clearGood", "clearText"}, ClearFileEnds(from, to)
      PROVE  LastInv'
  <2>1. BootGoes(from, to) /\ job' = NoJob /\ fs' = fs
    BY <1>4, ClearFileEndsIs DEF OpAts, BeginAts
  <2> QED  BY <2>1, BootGoesLast DEF BeginAts, GoodCall, Leaves
<1>5. CASE ClearText
  <2>1. BootGoes("clearText", "clearText") \/ BootGoes("clearText", "load")
    BY <1>5, ClearTextIs DEF BootGoes
  <2>2. UNCHANGED <<fs, job>>  BY <1>5, ClearTextIs
  <2> QED  BY <2>1, <2>2, BootGoesLast DEF BeginAts, GoodCall, Leaves
<1>6. CASE ClearAll
  BY <1>3, <1>4, <1>5, <1>6 DEF ClearAll
<1> QED  BY <1>1, <1>2, <1>6, LoadConfigLast

LEMMA GoesLast == ASSUME StoreInv, LastInv, NEW t \in Tasks, Goes(t) PROVE LastInv'
<1>1. CASE CaptureText(t) \/ SaveText(t) \/ SaveTextEnds(t) \/ RestoreText(t) \/ RestoreTextEnds(t)
  BY <1>1, CaptureTextIs, SaveTextIs, SaveTextEndsIs, RestoreTextIs, RestoreTextEndsIs, TextLast
     DEF StoreInv
<1>2. CASE AssignSome(t)  BY <1>2, AssignsLast DEF AssignSome
<1>3. CASE AssignAll(t)  BY <1>3, AssignsLast DEF AssignAll
<1> QED
  BY <1>1, <1>2, <1>3, SaveConfigLast, SaveConfigEndsLast, RequestLast, UndoFieldLast,
     UndoSettingsLast, SettingsReturnLast DEF Goes

LEMMA CallingLast == ASSUME StoreInv, LastInv, NEW t \in Tasks, Calling(t) PROVE LastInv'
<1>1. ASSUME NEW undo \in {"revert", "dirty"}, SaveField(t, "rest", undo) PROVE LastInv'
  BY <1>1, SaveFieldLast
<1>2. CASE SaveField(t, "wifi", "dirty")  BY <1>2, SaveFieldLast
<1>3. CASE ClearCredentials(t)
  <2>1. Asks(t, 0, NoTexts, "dirty")  BY <1>3 DEF ClearCredentials
  <2> QED  BY <2>1, AsksLast, Constant
<1> QED  BY <1>1, <1>2, <1>3 DEF Calling

LEMMA NextLast == ASSUME StoreInv, LastInv, Next PROVE LastInv'
<1>1. CASE Step
  <2>1. CASE Filing  BY <2>1, FilingLast
  <2>2. CASE Apply  BY <2>2, ApplyLast
  <2>3. CASE RestoreLastGood \/ RestoreLastGoodEnds \/ ClearAll \/ LoadConfig
    BY <2>3, BootLast
  <2>4. CASE CommitEnds  BY <2>4, CommitEndsLast
  <2>5. ASSUME NEW t \in Tasks, Goes(t) PROVE LastInv'  BY <2>5, GoesLast
  <2> QED  BY <1>1, <2>1, <2>2, <2>3, <2>4, <2>5 DEF Step, Booting
<1>2. ASSUME NEW t \in Tasks, Calling(t) PROVE LastInv'  BY <1>2, CallingLast
<1>3. CASE SaveSettings
  <2>1. PICK new \in Versions, want \in [Certificates -> Text] : Asks(Main, new, want, "revert")
    BY <1>3, SaveSettingsIs DEF StoreInv
  <2> QED  BY <2>1, AsksLast, Constant
<1>4. CASE PollSave  BY <1>4, PollSaveLast
<1>5. CASE CommitLastGood  BY <1>5, CommitLastGoodLast
<1>6. CASE \E counts \in BOOLEAN : ObserveHealthy(counts)  BY <1>6, ObserveHealthyLast
<1>7. CASE \/ \E health \in {"Unhealthy", "Unavailable"} : ObserveOther(health)
           \/ RetryReady \/ MarkStable
  BY <1>7, SampleLast
<1>8. CASE Panic \/ \E crash \in BOOLEAN : ResetAnywhere(crash)  BY <1>8, ResetsLast
<1> QED  BY <1>1, <1>2, <1>3, <1>4, <1>5, <1>6, <1>7, <1>8 DEF Next

LEMMA StutterLast == ASSUME StoreInv, LastInv, UNCHANGED vars PROVE LastInv'
<1>1. UNCHANGED <<fs, job, mem, op, history, suspect>>  BY DEF vars, files
<1> QED  BY <1>1, UnmovedStays, LastStays DEF Leaves, SameConfig

LEMMA LastInit == Init => LastInv
<1> SUFFICES ASSUME Init PROVE LastInv  OBVIOUS
<1>1. mem = Fresh /\ op = [t \in Tasks |-> NoOp] /\ suspect = 0 /\ job = NoJob  BY DEF Init, FilesInit
<1>2. Excused /\ ~mem.pending  BY <1>1 DEF Excused, Fresh
<1>3. \A t \in Tasks : op[t].at = "idle" /\ op[t].name = "none" /\ ~CanRevert(op[t])
  BY <1>1, NoOpShape DEF CanRevert
<1>4. RamInv
  BY <1>2, <1>3 DEF RamInv, QuietAgrees, CopyAgrees, SaveCarries, CopyCarried, PollDirty,
     UndoCrosses, CommitShows, SomeSave, Saves, Keeps
<1>5. HealthInv  BY <1>1, <1>2, Constant DEF HealthInv
<1>6. GoodInv
  BY <1>1, NothingBad, Constant, ContentAssumption
     DEF Init, FilesInit, NoJob, GoodInv, GoodNow, GoodEntries
<1> QED  BY <1>4, <1>5, <1>6 DEF LastInv

\* The inductive invariant behind the next two theorems, for any number of tasks
\* whose setters change, save and put back RAM without a lock: what RAM holds,
\* what an operation would put back and what a save in progress carries are on
\* flash or about to be, except where crossed tells that a rollback has restored
\* a copy another task's save had overtaken; the health that is counted is that
\* of the version on flash; and no entry of the last known good is bad unless
\* tainted tells that the copy was made while crossed was true.
THEOREM LastGoodInvariance == Spec => []LastInv
<1>1. StoreInv /\ LastInv /\ [Next]_vars => LastInv'  BY NextLast, StutterLast
<1> QED  BY LastInit, <1>1, StoreInvariance, PTL DEF Spec

\* Between operations the device runs with what it would boot with, or a save is
\* due, whatever the setters of any number of tasks do to each other and whatever
\* fails; until a rollback crosses another task's save, and then again after the
\* next save of what RAM holds or the next boot.
THEOREM RamStaysOnFlash == Spec => []RamIsOnFlash
<1>1. StoreInv /\ LastInv => RamIsOnFlash
  <2> SUFFICES ASSUME StoreInv, LastInv, ~Changing, mem.loaded, ~mem.dirty, ~crossed
               PROVE  Visible(Config) \in {mem.config, Partial}
    BY DEF RamIsOnFlash
  <2>1. \A t \in Tasks : op[t].at = "idle"  BY OpShapes DEF Changing, Shape
  <2>2. ~SomeSave /\ Only({})  BY <2>1 DEF SomeSave, Saves, Only, Unsettled
  <2> QED  BY <2>2 DEF LastInv, RamInv, QuietAgrees, Excused, On
<1> QED  BY <1>1, StoreInvariance, LastGoodInvariance, PTL

\* No version that makes the device crash becomes the last known good, through
\* any saves, samples, failed copies, rollbacks and resets; unless the copy was
\* made while a rollback that crossed a save had parted RAM and flash.
THEOREM LastGoodStaysSafe == Spec => []LastGoodIsSafe
<1>1. LastInv => LastGoodIsSafe
  BY DEF LastInv, GoodInv, GoodNow, GoodEntries, LastGoodIsSafe, Visible
<1> QED  BY <1>1, LastGoodInvariance, PTL

-----------------------------------------------------------------------------
(* The settings and their certificates: the invariant.                     *)

\* Calls of the file system have failed since the settings were given.
Spent(o) == faults > o.since

\* A certificate is saved, and put back as it was captured.
Saved(o, i) == texts[i] = o.want[i] \/ (o.want[i] = None /\ Spent(o))
PutBack(o, i) == faults <= o.since + 1 => texts[i] = o.certs[i]

\* The save of the configuration has met a failure.
FailedSave == job.at \in {"undo", "dropTmp"} \/ (job.at = "done" /\ ~job.ok)

\* The certificates before the one in hand are saved, or put back; and nothing
\* is put back before a call has failed.
TextsFollow(o) ==
  /\ o.at \in {"undo", "restore", "restoreEnds", "refused"} => Spent(o)
  /\ o.at \in {"cert", "certEnds"} => \A j \in Certificates : j < o.i => Saved(o, j)
  /\ o.at \in {"assign", "half", "save", "ends", "saved"} => \A j \in Certificates : Saved(o, j)
  /\ o.at \in {"restore", "restoreEnds"} => \A j \in Certificates : j < o.i => PutBack(o, j)
  /\ o.at = "refused" => \A j \in Certificates : PutBack(o, j)

\* RAM holds the Wi-Fi settings from before, then the new ones; and so do the
\* saves that follow, of whichever task, and flash.
RamFollows(o) ==
  /\ o.at \in {"capture", "cert", "certEnds", "assign", "restore", "restoreEnds", "refused"} =>
       mem.config.wifi = o.prev.wifi
  /\ o.at \in {"save", "ends", "saved"} => mem.config.wifi = o.new
FlashFollows(o) ==
  /\ o.at \in {"ends", "saved"} /\ SomeSave => job.value.wifi = o.new
  /\ o.at = "saved" => Visible(Config) = Partial \/ Visible(Config).wifi = o.new

Alone(o) == "disturbed" \notin o.marks
Follows(o) ==
  /\ o.since <= faults /\ ("torn" \in o.marks => ~Alone(o))
  /\ o.at \in {"assign", "half", "save", "ends", "undo"} => o.i = 1
  /\ o.at = "ends" /\ FailedSave => Spent(o)
  /\ Alone(o) => TextsFollow(o) /\ RamFollows(o) /\ FlashFollows(o)
SettingsInv == \A t \in Tasks : op[t].name = "settings" => Follows(op[t])

-----------------------------------------------------------------------------
(* The settings: what the other tasks do.                                  *)

\* Texts that a step leaves alone go on to follow.
LEMMA TextsFrame ==
  ASSUME Types, op' \in [Tasks -> Ops], NEW t \in Tasks, Akin(op'[t], op[t]),
         op'[t].at = op[t].at, op'[t].i = op[t].i, op'[t].certs = op[t].certs,
         faults <= faults', faults' \in Nat, texts' = texts, TextsFollow(op[t])
  PROVE  TextsFollow(op[t])'
<1>1. faults \in Nat /\ op[t].since \in Nat /\ op'[t].since = op[t].since /\ op'[t].want = op[t].want
  BY Constant DEF Types, Ops, Akin
<1>2. Spent(op[t]) => Spent(op[t])'  BY <1>1 DEF Spent
<1>3. \A j \in Certificates : (Saved(op[t], j) => Saved(op[t], j)') /\ (PutBack(op[t], j) => PutBack(op[t], j)')
  BY <1>1, <1>2 DEF Saved, PutBack
<1> QED  BY <1>2, <1>3 DEF TextsFollow

\* A step of task a is nothing to the settings of another, unless that is told.
LEMMA OthersFollow ==
  ASSUME StoreInv, SettingsInv, op' \in [Tasks -> Ops], NEW a \in Tasks, NEW marks, Rest(a, marks),
         "torn" \in marks => "disturbed" \in marks, Spends,
         "disturbed" \in marks \/ (texts' = texts /\ mem'.config.wifi = mem.config.wifi),
         Visible(Config)' = Visible(Config),
         \/ UNCHANGED job /\ (Saves(a)' => Saves(a))
         \/ op[a].at \in CallAts /\ ~Saves(a)'
         \/ job.at = "idle" /\ (Saves(a)' => job'.value.wifi = mem.config.wifi),
         NEW t \in Tasks \ {a}, op'[t].name = "settings"
  PROVE  Follows(op[t])'
<1>1. op[t] \in Ops /\ op'[t] \in Ops /\ Alike(op'[t], op[t])
      /\ op'[t].marks = op[t].marks \cup (marks \cap Heeds(op[t]))
  BY DEF Rest, StoreInv, Types
<1>2. op[t].name = "settings" /\ Follows(op[t])  BY <1>1 DEF SettingsInv, Alike
<1>3. Heeds(op[t]) = {"overtaken", "behind", "disturbed", "torn"}  BY <1>2 DEF Heeds
<1>4. faults \in Nat /\ faults' \in Nat /\ faults <= faults' /\ op[t].since \in Nat
  BY <1>1, Constant DEF StoreInv, Types, Ops, Spends
<1>5. /\ Akin(op'[t], op[t]) /\ op'[t].at = op[t].at /\ op'[t].i = op[t].i
      /\ op'[t].certs = op[t].certs /\ op'[t].since = op[t].since
      /\ op'[t].prev = op[t].prev /\ op'[t].new = op[t].new
  BY <1>1 DEF Alike, Akin
<1>6. "disturbed" \in marks => ~Alone(op[t])'  BY <1>1, <1>3 DEF Alone
<1>7. Alone(op[t])' => Alone(op[t])  BY <1>1 DEF Alone
<1>8. op[t].at = "ends" => UNCHANGED job
  <2> SUFFICES ASSUME op[t].at = "ends" PROVE UNCHANGED job  OBVIOUS
  <2>1. Saves(t) /\ op[t].at \in CallAts  BY DEF Saves, CallAts
  <2>2. op[a].at \notin CallAts  BY <2>1, OneSave
  <2>3. job.at # "idle"  BY <2>1, OneSave DEF SomeSave
  <2> QED  BY <2>2, <2>3
<1>9. /\ op'[t].since <= faults' /\ ("torn" \in op'[t].marks => ~Alone(op[t])')
      /\ op'[t].at \in {"assign", "half", "save", "ends", "undo"} => op'[t].i = 1
  BY <1>1, <1>2, <1>4, <1>5, <1>6 DEF Follows, Alone
<1>10. op'[t].at = "ends" /\ FailedSave' => Spent(op[t])'
  BY <1>2, <1>4, <1>5, <1>8 DEF Follows, FailedSave, Spent
<1>11. ASSUME Alone(op[t])' PROVE TextsFollow(op[t])' /\ RamFollows(op[t])' /\ FlashFollows(op[t])'
  <2>1. texts' = texts /\ mem'.config.wifi = mem.config.wifi  BY <1>6, <1>11
  <2>2. TextsFollow(op[t]) /\ RamFollows(op[t]) /\ FlashFollows(op[t])
    BY <1>2, <1>7, <1>11 DEF Follows
  <2>3. TextsFollow(op[t])'  BY <1>4, <1>5, <2>1, <2>2, TextsFrame DEF StoreInv
  <2>4. RamFollows(op[t])'  BY <1>5, <2>1, <2>2 DEF RamFollows
  <2>5. FlashFollows(op[t])'
    <3>1. ASSUME op'[t].at \in {"ends", "saved"}, SomeSave' PROVE job'.value.wifi = op'[t].new
      <4>1. \A s \in Tasks \ {a} : Saves(s)' <=> Saves(s)  BY DEF Rest, Alike, Saves
      <4>2. CASE UNCHANGED job /\ (Saves(a)' => Saves(a))
        <5>1. SomeSave  BY <3>1, <4>1, <4>2 DEF SomeSave
        <5> QED  BY <1>5, <2>2, <3>1, <4>2, <5>1 DEF FlashFollows
      <4>3. CASE op[a].at \in CallAts /\ ~Saves(a)'
        <5>1. \A s \in Tasks \ {a} : ~Saves(s)  BY <4>3, OneSave
        <5> QED  BY <3>1, <4>1, <4>3, <5>1 DEF SomeSave
      <4>4. CASE job.at = "idle" /\ (Saves(a)' => job'.value.wifi = mem.config.wifi)
        <5>1. ~SomeSave  BY <4>4, OneSave
        <5>2. Saves(a)'  BY <3>1, <4>1, <5>1 DEF SomeSave
        <5> QED  BY <1>5, <2>2, <3>1, <4>4, <5>2 DEF RamFollows
      <4> QED  BY <4>2, <4>3, <4>4
    <3> QED  BY <1>5, <2>2, <3>1 DEF FlashFollows
  <2> QED  BY <2>3, <2>4, <2>5
<1> QED  BY <1>9, <1>10, <1>11 DEF Follows

LEMMA SettingsStep ==
  ASSUME StoreInv, SettingsInv, op' \in [Tasks -> Ops], NEW a \in Tasks, NEW marks, Rest(a, marks),
         "torn" \in marks => "disturbed" \in marks, Spends,
         "disturbed" \in marks \/ (texts' = texts /\ mem'.config.wifi = mem.config.wifi),
         Visible(Config)' = Visible(Config),
         \/ UNCHANGED job /\ (Saves(a)' => Saves(a))
         \/ op[a].at \in CallAts /\ ~Saves(a)'
         \/ job.at = "idle" /\ (Saves(a)' => job'.value.wifi = mem.config.wifi),
         op'[a].name = "settings" => Follows(op[a])'
  PROVE  SettingsInv'
<1>1. ASSUME NEW t \in Tasks \ {a}, op'[t].name = "settings" PROVE Follows(op[t])'
  BY <1>1, OthersFollow
<1> QED  BY <1>1 DEF SettingsInv

-----------------------------------------------------------------------------
(* The settings: the saves, the changes and the rollbacks.                 *)

LEMMA SaveConfigFollows ==
  ASSUME StoreInv, SettingsInv, Types', NEW t \in Tasks, SaveConfig(t)
  PROVE  SettingsInv'
<1>1. /\ Rest(t, {"overtaken"}) /\ job.at = "idle" /\ SaveBegins
      /\ UNCHANGED <<fs, faults>> /\ op[t].at = "save"
      /\ op'[t].at = "ends" /\ Akin(op'[t], op[t]) /\ op'[t].certs = op[t].certs
      /\ op'[t].i = op[t].i /\ op'[t].marks = op[t].marks \ {"behind"}
  BY SaveConfigIs DEF StoreInv
<1>2. UNCHANGED <<mem, texts>>  BY DEF SaveConfig
<1>3. job'.at = "open" /\ job'.value = mem.config  BY <1>1 DEF SaveBegins
<1>4. Visible(Config)' = Visible(Config)  BY <1>1 DEF Visible
<1>5. ASSUME op'[t].name = "settings" PROVE Follows(op[t])'
  <2>1. /\ op'[t].since = op[t].since /\ op'[t].new = op[t].new /\ op'[t].want = op[t].want
        /\ op[t].name = "settings"
    BY <1>1, <1>5 DEF Akin
  <2>2. Follows(op[t])  BY <2>1 DEF SettingsInv
  <2>3. Alone(op[t])' <=> Alone(op[t])  BY <1>1 DEF Alone
  <2>4. ASSUME Alone(op[t]) PROVE (TextsFollow(op[t]) /\ RamFollows(op[t]) /\ FlashFollows(op[t]))'
    <3>1. TextsFollow(op[t]) /\ RamFollows(op[t])  BY <2>2, <2>4 DEF Follows
    <3>2. TextsFollow(op[t])'
      BY <1>1, <1>2, <2>1, <3>1 DEF TextsFollow, Saved, Spent
    <3>3. RamFollows(op[t])' /\ FlashFollows(op[t])'
      BY <1>1, <1>2, <1>3, <2>1, <3>1 DEF RamFollows, FlashFollows
    <3> QED  BY <3>2, <3>3
  <2> QED  BY <1>1, <1>3, <2>1, <2>2, <2>3, <2>4 DEF Follows, FailedSave
<1>6. op' \in [Tasks -> Ops] /\ Spends  BY <1>1 DEF Types, Spends
<1> QED  BY <1>1, <1>2, <1>3, <1>4, <1>5, <1>6, SettingsStep

LEMMA SaveConfigEndsFollows ==
  ASSUME StoreInv, LastInv, SettingsInv, Types', NEW t \in Tasks, SaveConfigEnds(t)
  PROVE  SettingsInv'
<1>1. /\ Rest(t, {}) /\ job' = NoJob /\ job.at = "done" /\ UNCHANGED <<fs, faults>>
      /\ op[t].at = "ends"
  BY SaveConfigEndsIs DEF StoreInv
<1>2. PICK ok \in BOOLEAN :
        /\ job.ok = ok /\ op'[t] = AfterSave(op[t], ok)
        /\ ok => mem' = Persisted(mem)
        /\ ~ok => UNCHANGED mem
  BY SaveConfigEndsIs DEF StoreInv
<1>3. mem'.config = mem.config  BY <1>2, PersistedGives DEF StoreInv, Types
<1>4. Visible(Config)' = Visible(Config)  BY <1>1 DEF Visible
<1>5. UNCHANGED texts  BY DEF SaveConfigEnds
<1>6. op[t] \in Ops  BY DEF StoreInv, Types
<1>7. ~Saves(t)'
  BY <1>2, <1>6, AfterSaveGives, NoOpShape DEF Saves
<1>8. ASSUME op'[t].name = "settings" PROVE Follows(op[t])'
  <2>1. /\ Akin(op'[t], op[t]) /\ op'[t].marks = op[t].marks /\ op'[t].i = op[t].i
        /\ op[t].name = "settings" /\ op'[t].at = IF ok THEN "saved" ELSE "undo"
    BY <1>2, <1>6, <1>8, AfterSaveGives, NoOpShape DEF Akin
  <2>2. Follows(op[t])  BY <2>1 DEF SettingsInv
  <2>3. /\ op'[t].since = op[t].since /\ op'[t].new = op[t].new /\ op'[t].want = op[t].want
        /\ (Alone(op[t])' <=> Alone(op[t]))
    BY <2>1 DEF Akin, Alone
  <2>4. ~ok => Spent(op[t])  BY <1>1, <1>2, <2>2 DEF Follows, FailedSave
  <2>5. ASSUME Alone(op[t]) PROVE (TextsFollow(op[t]) /\ RamFollows(op[t]) /\ FlashFollows(op[t]))'
    <3>1. TextsFollow(op[t]) /\ RamFollows(op[t]) /\ FlashFollows(op[t])
      BY <2>2, <2>5 DEF Follows
    <3>2. TextsFollow(op[t])'
      BY <1>1, <1>5, <2>1, <2>3, <2>4, <3>1 DEF TextsFollow, Saved, Spent
    <3>3. RamFollows(op[t])'  BY <1>1, <1>3, <2>1, <2>3, <3>1 DEF RamFollows
    <3>4. FlashFollows(op[t])'
      <4>1. ASSUME ok PROVE Visible(Config) = Partial \/ Visible(Config).wifi = op[t].new
        <5>1. SomeSave  BY <1>1 DEF SomeSave, Saves
        <5>2. Committed
          BY <1>1, <1>2, <4>1 DEF StoreInv, CallShape, CallAts, Call, Committed
        <5>3. On(job.value)  BY <5>1, <5>2 DEF LastInv, RamInv, CommitShows
        <5> QED  BY <1>1, <3>1, <5>1, <5>3 DEF On, FlashFollows
      <4>2. ~SomeSave'
        <5>1. \A s \in Tasks \ {t} : ~Saves(s)  BY <1>1, OneSave DEF CallAts
        <5>2. \A s \in Tasks \ {t} : Saves(s)' <=> Saves(s)  BY <1>1 DEF Rest, Alike, Saves
        <5> QED  BY <1>7, <5>1, <5>2 DEF SomeSave
      <4> QED  BY <1>4, <2>1, <2>3, <4>1, <4>2 DEF FlashFollows
    <3> QED  BY <3>2, <3>3, <3>4
  <2> QED  BY <1>1, <2>1, <2>2, <2>3, <2>4, <2>5 DEF Follows, Spent
<1>9. op' \in [Tasks -> Ops] /\ Spends /\ op[t].at \in CallAts
  BY <1>1 DEF Types, Spends, CallAts
<1> QED  BY <1>1, <1>3, <1>4, <1>5, <1>7, <1>8, <1>9, SettingsStep

\* A step of a task that is not busy with settings, and that leaves the
\* certificates alone.
LEMMA OtherFollows ==
  ASSUME StoreInv, SettingsInv, Types', NEW a \in Tasks, NEW marks \in SUBSET {"overtaken", "behind", "disturbed"},
         Rest(a, marks), op'[a].name # "settings", Leaves, Spends,
         texts' = texts, "disturbed" \in marks \/ mem'.config.wifi = mem.config.wifi,
         \/ UNCHANGED job /\ (Saves(a)' => Saves(a))
         \/ op[a].at \in CallAts /\ ~Saves(a)'
         \/ job.at = "idle" /\ (Saves(a)' => job'.value.wifi = mem.config.wifi)
  PROVE  SettingsInv'
<1>1. op' \in [Tasks -> Ops] /\ Visible(Config)' = Visible(Config)
  BY LeavesSame DEF Types, StoreInv
<1>2. "torn" \notin marks  OBVIOUS
<1> QED  BY <1>1, <1>2, SettingsStep

\* A step of a task that is busy with settings, and that leaves the files alone.
LEMMA MineFollows ==
  ASSUME StoreInv, SettingsInv, Types', NEW t \in Tasks, NEW marks \in SUBSET {"overtaken", "behind", "disturbed"},
         Rest(t, marks), UNCHANGED <<fs, job, faults, texts>>, op[t].name = "settings",
         Akin(op'[t], op[t]), op'[t].marks = op[t].marks, op'[t].i = op[t].i,
         op[t].at # "ends", op'[t].at # "ends", op[t].at \in {"assign", "half", "undo"} \/ op'[t].at = "request",
         "disturbed" \in marks \/ mem'.config.wifi = mem.config.wifi,
         Follows(op[t]) /\ Alone(op[t]) =>
           TextsFollow(op[t])' /\ RamFollows(op[t])' /\ op'[t].at # "saved"
  PROVE  SettingsInv'
<1>1. op' \in [Tasks -> Ops] /\ Visible(Config)' = Visible(Config) /\ Spends
  BY DEF Types, Visible, Spends
<1>2. Follows(op[t])  BY DEF SettingsInv
<1>3. Follows(op[t])'  BY <1>2 DEF Follows, FlashFollows, Alone, Akin
<1>4. "torn" \notin marks /\ (Saves(t)' => Saves(t))  BY DEF Saves
<1> QED  BY <1>1, <1>3, <1>4, SettingsStep

LEMMA WithWifi ==
  ASSUME NEW c, NEW v PROVE With(c, "rest", v).wifi = c.wifi /\ With(c, "wifi", v).wifi = v
BY DEF With

LEMMA AssignsFollows ==
  ASSUME StoreInv, SettingsInv, Types', NEW t \in Tasks, NEW from, NEW v, NEW to,
         \/ from = "assign" /\ v = Mixed /\ to = "half"
         \/ from = "half" /\ v = op[t].new /\ to = "save",
         Assigns(t, from, v, to)
  PROVE  SettingsInv'
<1>1. /\ UNCHANGED <<fs, job, faults, texts>>
      /\ op[t].name = "settings" /\ op[t].at = from /\ op'[t].at = to /\ op'[t].i = op[t].i
      /\ Akin(op'[t], op[t]) /\ op'[t].marks = op[t].marks /\ Rest(t, {"disturbed"})
      /\ mem'.config = With(mem.config, "wifi", v)
  BY AssignsIs DEF StoreInv, Placed
<1>2. op'[t].since = op[t].since /\ op'[t].want = op[t].want /\ op'[t].new = op[t].new
  BY <1>1 DEF Akin
<1>3. ASSUME TextsFollow(op[t]) PROVE TextsFollow(op[t])' /\ RamFollows(op[t])'
  <2>1. TextsFollow(op[t])'  BY <1>1, <1>2, <1>3 DEF TextsFollow, Saved, Spent
  <2>2. RamFollows(op[t])'  BY <1>1, <1>2, WithWifi DEF RamFollows
  <2> QED  BY <2>1, <2>2
<1>4. {"disturbed"} \in SUBSET {"overtaken", "behind", "disturbed"}  OBVIOUS
<1> QED  BY <1>1, <1>3, <1>4, MineFollows DEF Follows

LEMMA UndoSettingsFollows ==
  ASSUME StoreInv, SettingsInv, Types', NEW t \in Tasks, UndoSettings(t)
  PROVE  SettingsInv'
<1>1. /\ UNCHANGED <<fs, job, faults, texts>> /\ op[t].at = "undo" /\ mem'.config = op[t].prev
      /\ op[t].name = "settings" /\ op'[t].at = "restore" /\ op'[t].i = op[t].i
      /\ Akin(op'[t], op[t]) /\ op'[t].marks = op[t].marks
      /\ Rest(t, {"overtaken", "behind", "disturbed"})
  BY UndoSettingsIs DEF StoreInv, RollsBackTo, Placed
<1>2. op'[t].since = op[t].since /\ op'[t].prev = op[t].prev  BY <1>1 DEF Akin
<1>3. ASSUME Follows(op[t]), Alone(op[t]) PROVE TextsFollow(op[t])' /\ RamFollows(op[t])'
  <2>1. op[t].i = 1 /\ Spent(op[t])  BY <1>1, <1>3 DEF Follows, TextsFollow
  <2>2. \A j \in Certificates : ~(j < 1)  BY DEF Certificates
  <2>3. TextsFollow(op[t])'  BY <1>1, <1>2, <2>1, <2>2 DEF TextsFollow, Spent
  <2>4. RamFollows(op[t])'  BY <1>1, <1>2 DEF RamFollows
  <2> QED  BY <2>3, <2>4
<1>4. {"overtaken", "behind", "disturbed"} \in SUBSET {"overtaken", "behind", "disturbed"}  OBVIOUS
<1> QED  BY <1>1, <1>3, <1>4, MineFollows

LEMMA SettingsReturnFollows ==
  ASSUME StoreInv, SettingsInv, Types', NEW t \in Tasks, SettingsReturn(t)
  PROVE  SettingsInv'
<1>1. /\ UNCHANGED <<fs, job, faults, mem>> /\ op[t].at \in {"saved", "refused"} /\ Rest(t, {})
      /\ op'[t] = NoOp \/ (Placed(t, "request") /\ op'[t].marks = op[t].marks)
  BY SettingsReturnIs DEF StoreInv
<1>2. UNCHANGED texts  BY DEF SettingsReturn
<1>3. op[t].name = "settings"
  BY <1>1, OpShapes DEF Shape, FieldAts, BeginAts, Ops, OpNames
<1>4. {} \in SUBSET {"overtaken", "behind", "disturbed"}  OBVIOUS
<1>5. CASE op'[t] = NoOp
  <2>1. op'[t].name # "settings" /\ ~Saves(t)'  BY <1>5, NoOpShape DEF Saves
  <2> QED  BY <1>1, <1>2, <1>4, <2>1, OtherFollows DEF Leaves, Spends
<1>6. CASE Placed(t, "request") /\ op'[t].marks = op[t].marks
  <2>1. TextsFollow(op[t])' /\ RamFollows(op[t])'
    BY <1>6 DEF Placed, TextsFollow, RamFollows
  <2> QED  BY <1>1, <1>2, <1>3, <1>4, <1>6, <2>1, MineFollows DEF Placed
<1> QED  BY <1>1, <1>5, <1>6

LEMMA AsksFollows ==
  ASSUME StoreInv, SettingsInv, Types', NEW t \in Tasks, NEW new \in Versions,
         NEW want \in [Certificates -> Text], NEW undo \in {"dirty", "revert"},
         Asks(t, new, want, undo)
  PROVE  SettingsInv'
<1>1. /\ Rest(t, {}) /\ UNCHANGED <<fs, job, faults, mem, texts>>
      /\ op'[t].name = "settings" /\ op'[t].at = "capture" /\ op'[t].marks = {}
      /\ op'[t].prev = mem.config /\ op'[t].since = faults
  BY AsksIs DEF StoreInv
<1>2. faults \in Nat  BY Constant DEF StoreInv, Types
<1>3. TextsFollow(op[t])' /\ RamFollows(op[t])' /\ FlashFollows(op[t])'
  BY <1>1 DEF TextsFollow, RamFollows, FlashFollows
<1>4. Follows(op[t])'  BY <1>1, <1>2, <1>3 DEF Follows
<1>5. op' \in [Tasks -> Ops] /\ Spends /\ Visible(Config)' = Visible(Config) /\ ~Saves(t)'
  BY <1>1 DEF Types, Spends, Visible, Saves
<1> QED  BY <1>1, <1>4, <1>5, SettingsStep

LEMMA FieldFollows ==
  ASSUME StoreInv, SettingsInv, Types', NEW t \in Tasks,
         \/ UndoField(t) \/ Request(t) \/ SaveField(t, "wifi", "dirty")
         \/ \E undo \in {"revert", "dirty"} : SaveField(t, "rest", undo)
  PROVE  SettingsInv'
<1> USE DEF Leaves, Spends, Saves
<1>1. CASE UndoField(t)
  <2>1. /\ UNCHANGED <<fs, job, faults, texts>> /\ op'[t] = NoOp /\ Rest(t, {"overtaken", "behind"})
        /\ mem'.config = With(mem.config, "rest", op[t].prev.rest)
    BY <1>1, UndoFieldIs DEF StoreInv, RollsBackTo
  <2>2. mem'.config.wifi = mem.config.wifi  BY <2>1, WithWifi
  <2>3. {"overtaken", "behind"} \in SUBSET {"overtaken", "behind", "disturbed"}  OBVIOUS
  <2> QED  BY <2>1, <2>2, <2>3, NoOpShape, OtherFollows
<1>2. CASE Request(t)
  <2>1. Rest(t, {}) /\ op'[t] = NoOp /\ mem'.config = mem.config /\ UNCHANGED <<fs, job, faults, texts>>
    BY <1>2, RequestIs, NoFileAs DEF StoreInv, Request
  <2>2. {} \in SUBSET {"overtaken", "behind", "disturbed"}  OBVIOUS
  <2> QED  BY <2>1, <2>2, NoOpShape, OtherFollows
<1>3. CASE SaveField(t, "wifi", "dirty")
  <2>1. Rest(t, {"disturbed"}) /\ op'[t].name = "field" /\ op'[t].at = "save"
    BY <1>3, SaveFieldIs DEF StoreInv
  <2>2. UNCHANGED <<fs, job, faults, texts>>  BY <1>3, NoFileAs DEF SaveField
  <2>3. {"disturbed"} \in SUBSET {"overtaken", "behind", "disturbed"}  OBVIOUS
  <2> QED  BY <2>1, <2>2, <2>3, OtherFollows
<1>4. ASSUME NEW undo \in {"revert", "dirty"}, SaveField(t, "rest", undo) PROVE SettingsInv'
  <2>1. /\ Rest(t, {}) /\ op'[t].name = "field" /\ op'[t].at = "save"
        /\ mem'.config = With(mem.config, "rest", made')
    BY <1>4, SaveFieldIs DEF StoreInv
  <2>2. UNCHANGED <<fs, job, faults, texts>>  BY <1>4, NoFileAs DEF SaveField
  <2>3. {} \in SUBSET {"overtaken", "behind", "disturbed"}  OBVIOUS
  <2>4. mem'.config.wifi = mem.config.wifi  BY <2>1, WithWifi
  <2> QED  BY <2>1, <2>2, <2>3, <2>4, OtherFollows
<1> QED  BY <1>1, <1>2, <1>3, <1>4

LEMMA MainFollows ==
  ASSUME StoreInv, SettingsInv, Types',
         \/ PollSave \/ CommitLastGood \/ CommitEnds \/ RetryReady \/ MarkStable
         \/ \E counts \in BOOLEAN : ObserveHealthy(counts)
         \/ \E health \in {"Unhealthy", "Unavailable"} : ObserveOther(health)
  PROVE  SettingsInv'
<1> USE Constant DEF StoreInv
<1>1. {} \in SUBSET {"overtaken", "behind", "disturbed"}
      /\ {"overtaken"} \in SUBSET {"overtaken", "behind", "disturbed"}
  OBVIOUS
<1>2. CASE PollSave
  <2>1. /\ Rest(Main, {"overtaken"}) /\ job.at = "idle" /\ SaveBegins /\ UNCHANGED <<fs, faults>>
        /\ op'[Main].name = "poll" /\ UNCHANGED <<mem, texts>>
    BY <1>2, PollSaveIs DEF PollSave
  <2>2. job'.value = mem.config  BY <2>1 DEF SaveBegins
  <2> QED  BY <1>1, <2>1, <2>2, OtherFollows DEF Leaves, Spends
<1>3. CASE CommitLastGood
  <2>1. /\ SameConfig /\ UNCHANGED texts /\ op[Main].name = "none" /\ job.at = "idle"
    BY <1>3, CommitLastGoodIs
  <2>2. PICK found \in Content : Reads(Config, found)
           /\ (UNCHANGED op \/ (Rest(Main, {}) /\ op'[Main].name = "commit" /\ op'[Main].at = "copy"))
    BY <1>3, CommitLastGoodIs
  <2>3. Leaves /\ Spends  BY <2>2, ReadsLook, LooksSpend DEF Leaves
  <2>4. Rest(Main, {})  BY <2>2 DEF Rest, Alike
  <2>5. op'[Main].name # "settings" /\ ~Saves(Main)'
    BY <2>1, <2>2, OpShapes DEF Shape, Saves
  <2> QED  BY <1>1, <2>1, <2>3, <2>4, <2>5, OtherFollows DEF SameConfig
<1>4. CASE CommitEnds
  <2>1. /\ UNCHANGED <<fs, faults, texts>> /\ op[Main].at = "copy" /\ op'[Main] = NoOp
        /\ Rest(Main, {}) /\ SameConfig
    BY <1>4, CommitEndsIs
  <2> QED  BY <1>1, <2>1, NoOpShape, OtherFollows DEF Leaves, Spends, SameConfig, Saves, CallAts
<1>5. CASE \/ RetryReady \/ MarkStable
           \/ \E counts \in BOOLEAN : ObserveHealthy(counts)
           \/ \E health \in {"Unhealthy", "Unavailable"} : ObserveOther(health)
  <2>1. UNCHANGED <<fs, job, faults, op, texts>> /\ mem'.config = mem.config
    BY <1>5, RetryReadyIs, MarkStableIs, ObserveHealthyIs, ObserveOtherIs DEF SameConfig
  <2>2. op[Main].name = "none"
    BY <1>5 DEF RetryReady, MarkStable, ObserveHealthy, ObserveOther, Ready, Runs
  <2>3. Rest(Main, {})  BY <2>1 DEF Rest, Alike
  <2> QED  BY <1>1, <2>1, <2>2, <2>3, OtherFollows DEF Leaves, Spends, Saves
<1> QED  BY <1>2, <1>3, <1>4, <1>5

-----------------------------------------------------------------------------
(* The settings: the certificates.                                         *)

LEMMA TextFlash ==
  ASSUME NEW t \in Tasks, TextStep(t)
  PROVE  /\ op' \in [Tasks -> Ops] /\ Spends /\ Visible(Config)' = Visible(Config)
         /\ UNCHANGED <<job, mem>> /\ ~Saves(t)' /\ op[t].name = "settings"
         /\ op'[t].at \notin {"half", "save", "ends", "undo", "saved"}
         /\ Akin(op'[t], op[t])
BY DEF TextStep, TextOps, Visible, Saves, TextAts

\* What a certificate step owes for its own task: its certificates.
LEMMA TextFollows ==
  ASSUME StoreInv, NEW t \in Tasks, TextStep(t), Follows(op[t]),
         "torn" \in op'[t].marks => "disturbed" \in op'[t].marks,
         "disturbed" \in op[t].marks => "disturbed" \in op'[t].marks,
         op'[t].at = "assign" => op'[t].i = 1,
         Alone(op[t]) /\ Alone(op[t])' => TextsFollow(op[t])'
  PROVE  Follows(op[t])'
<1>1. /\ op'[t].at \notin {"half", "save", "ends", "undo", "saved"} /\ UNCHANGED <<job, mem>>
      /\ op'[t].since = op[t].since /\ op'[t].prev = op[t].prev
  BY TextFlash DEF Akin
<1>2. op[t].at \in TextAts  BY DEF TextStep, TextOps
<1>3. faults \in Nat /\ faults' \in Nat /\ faults <= faults' /\ op[t].since \in Nat
  BY TextFlash, Constant DEF StoreInv, Types, Ops, Spends
<1>4. Alone(op[t])' => Alone(op[t])  BY DEF Alone
<1>5. Alone(op[t])' => RamFollows(op[t])' /\ FlashFollows(op[t])'
  BY <1>1, <1>2, <1>4 DEF Follows, RamFollows, FlashFollows, TextAts
<1> QED  BY <1>1, <1>3, <1>4, <1>5 DEF Follows, Alone

\* With the certificate at i done, all up to the next one are.
LEMMA Further ==
  ASSUME NEW i \in Certificates
  PROVE  /\ \A j \in Certificates : j < i + 1 => j < i \/ j = i
         /\ i = CertCount => \A j \in Certificates : j < i \/ j = i
         /\ \A j \in Certificates : ~(j < 1)
BY Constant DEF Certificates

\* Nobody else writes a certificate: a file that is not found is not there, or a
\* call has failed.
LEMMA FindsNothing ==
  ASSUME Types, NEW t \in Tasks, Finds(t, None), \A s \in Tasks \ {t} : ~Calls(s)
  PROVE  texts[Cert(t)] = None \/ faults' = faults + 1
BY DEF Finds, Fault, Works

LEMMA TextStepFollows ==
  ASSUME StoreInv, SettingsInv, NEW t \in Tasks, TextStep(t),
         "torn" \in op'[t].marks => "disturbed" \in op'[t].marks,
         "disturbed" \in op[t].marks => "disturbed" \in op'[t].marks,
         op'[t].at = "assign" => op'[t].i = 1, texts' = texts \/ Rest(t, {"disturbed"}),
         Follows(op[t]) /\ Alone(op[t]) /\ Alone(op[t])' => TextsFollow(op[t])'
  PROVE  SettingsInv'
<1>1. Follows(op[t])  BY TextFlash DEF SettingsInv
<1>2. Follows(op[t])'  BY <1>1, TextFollows
<1>3. PICK marks \in SUBSET {"torn", "disturbed"} : ("torn" \in marks => "disturbed" \in marks) /\ Rest(t, marks)
  BY DEF TextStep, TextOps
<1>4. CASE texts' = texts  BY <1>2, <1>3, <1>4, TextFlash, SettingsStep
<1>5. CASE Rest(t, {"disturbed"})  BY <1>2, <1>5, TextFlash, SettingsStep
<1> QED  BY <1>4, <1>5

LEMMA CaptureTextFollows ==
  ASSUME StoreInv, SettingsInv, NEW t \in Tasks, CaptureText(t)
  PROVE  SettingsInv'
<1>1. /\ TextStep(t) /\ texts' = texts
      /\ op'[t].at = "capture" \/ (op'[t].at = "cert" /\ op'[t].i = 1)
      /\ "torn" \in op'[t].marks => "disturbed" \in op'[t].marks
      /\ "disturbed" \in op[t].marks => "disturbed" \in op'[t].marks
  BY CaptureTextIs DEF StoreInv
<1>2. \A j \in Certificates : ~(j < 1)  BY DEF Certificates
<1>3. TextsFollow(op[t])'  BY <1>1, <1>2 DEF TextsFollow
<1> QED  BY <1>1, <1>3, TextStepFollows

LEMMA SaveTextFollows ==
  ASSUME StoreInv, SettingsInv, NEW t \in Tasks, SaveText(t)
  PROVE  SettingsInv'
<1>1. PICK i \in Certificates, v \in Text : i = op[t].i /\ v = op[t].want[i]
  BY DEF StoreInv, Types, Ops
<1>2. /\ TextStep(t) /\ texts' = texts /\ op[t].at = "cert"
      /\ "torn" \in op'[t].marks => "disturbed" \in op'[t].marks
      /\ "disturbed" \in op[t].marks => "disturbed" \in op'[t].marks
      /\ \/ op'[t].at = "certEnds" /\ op'[t].i = i
         \/ /\ v = None /\ Finds(t, None)
            /\ (\E s \in Tasks \ {t} : Calls(s)) => "disturbed" \in op'[t].marks
            /\ op'[t].i = (IF i = CertCount THEN 1 ELSE i + 1)
            /\ op'[t].at = IF i = CertCount THEN "assign" ELSE "cert"
  <2>1. op[t].name = "settings" /\ op[t].at = "cert" /\ Types /\ texts' = texts
        /\ PutText(t, v, "certEnds", Nth(op[t], "cert", "assign"))
    BY <1>1 DEF StoreInv, SaveText, Runs, Cert
  <2>2. TextStep(t)  BY <2>1, SaveTextIs
  <2>3. /\ "torn" \in op'[t].marks => "disturbed" \in op'[t].marks
        /\ "disturbed" \in op[t].marks => "disturbed" \in op'[t].marks
        /\ op'[t].certs = op[t].certs
        /\ \/ op'[t].at = "certEnds" /\ op'[t].i = op[t].i
           \/ /\ v = None /\ Finds(t, None)
              /\ (\E s \in Tasks \ {t} : Calls(s)) => "disturbed" \in op'[t].marks
              /\ op'[t].i = (IF op[t].i = CertCount THEN 1 ELSE op[t].i + 1)
              /\ op'[t].at = IF op[t].i = CertCount THEN "assign" ELSE "cert"
    BY <2>1, PutTextIs
  <2> QED  BY <1>1, <2>1, <2>2, <2>3
<1>3. op'[t].since = op[t].since /\ op'[t].want = op[t].want
  BY <1>2, TextFlash DEF Akin
<1>4. ASSUME Follows(op[t]), Alone(op[t]), Alone(op[t])' PROVE TextsFollow(op[t])'
  <2>1. faults \in Nat /\ faults' \in Nat /\ faults <= faults' /\ op[t].since \in Nat
        /\ op[t].since <= faults
    <3>1. Spends /\ op[t].since <= faults  BY <1>2, <1>4, TextFlash DEF Follows
    <3> QED  BY <3>1, Constant DEF StoreInv, Types, Ops, Spends
  <2>2. \A j \in Certificates : j < i => Saved(op[t], j)
    BY <1>1, <1>2, <1>4 DEF Follows, TextsFollow
  <2>3. \A j \in Certificates : Saved(op[t], j) => Saved(op[t], j)'
    BY <1>2, <1>3, <2>1 DEF Saved, Spent
  <2>4. CASE op'[t].at = "certEnds" /\ op'[t].i = i
    BY <2>2, <2>3, <2>4 DEF TextsFollow
  <2>5. CASE /\ v = None /\ Finds(t, None)
             /\ (\E s \in Tasks \ {t} : Calls(s)) => "disturbed" \in op'[t].marks
             /\ op'[t].i = (IF i = CertCount THEN 1 ELSE i + 1)
             /\ op'[t].at = IF i = CertCount THEN "assign" ELSE "cert"
    <3>1. \A s \in Tasks \ {t} : ~Calls(s)  BY <1>4, <2>5 DEF Alone
    <3>2. texts[i] = None \/ faults' = faults + 1
      BY <1>1, <2>5, <3>1, FindsNothing DEF StoreInv, Cert
    <3>3. Saved(op[t], i)'  BY <1>1, <1>2, <1>3, <2>1, <2>5, <3>2 DEF Saved, Spent
    <3>4. \A j \in Certificates : j < i + 1 => Saved(op[t], j)'
      BY <2>2, <2>3, <3>3, Further
    <3>5. i = CertCount => \A j \in Certificates : Saved(op[t], j)'
      BY <2>2, <2>3, <3>3, Further
    <3> QED  BY <2>5, <3>4, <3>5 DEF TextsFollow
  <2> QED  BY <1>2, <2>4, <2>5
<1> QED  BY <1>2, <1>4, TextStepFollows

LEMMA RestoreTextFollows ==
  ASSUME StoreInv, SettingsInv, NEW t \in Tasks, RestoreText(t)
  PROVE  SettingsInv'
<1>1. PICK i \in Certificates, v \in Text : i = op[t].i /\ v = op[t].certs[i]
  BY DEF StoreInv, Types, Ops
<1>2. /\ TextStep(t) /\ texts' = texts /\ op[t].at = "restore" /\ op'[t].certs = op[t].certs
      /\ "torn" \in op'[t].marks => "disturbed" \in op'[t].marks
      /\ "disturbed" \in op[t].marks => "disturbed" \in op'[t].marks
      /\ \/ op'[t].at = "restoreEnds" /\ op'[t].i = i
         \/ /\ v = None /\ Finds(t, None)
            /\ (\E s \in Tasks \ {t} : Calls(s)) => "disturbed" \in op'[t].marks
            /\ op'[t].i = (IF i = CertCount THEN 1 ELSE i + 1)
            /\ op'[t].at = IF i = CertCount THEN "refused" ELSE "restore"
  <2>1. op[t].name = "settings" /\ op[t].at = "restore" /\ Types /\ texts' = texts
        /\ PutText(t, v, "restoreEnds", Nth(op[t], "restore", "refused"))
    BY <1>1 DEF StoreInv, RestoreText, Runs, Cert
  <2>2. TextStep(t)  BY <2>1, RestoreTextIs
  <2>3. /\ "torn" \in op'[t].marks => "disturbed" \in op'[t].marks
        /\ "disturbed" \in op[t].marks => "disturbed" \in op'[t].marks
        /\ op'[t].certs = op[t].certs
        /\ \/ op'[t].at = "restoreEnds" /\ op'[t].i = op[t].i
           \/ /\ v = None /\ Finds(t, None)
              /\ (\E s \in Tasks \ {t} : Calls(s)) => "disturbed" \in op'[t].marks
              /\ op'[t].i = (IF op[t].i = CertCount THEN 1 ELSE op[t].i + 1)
              /\ op'[t].at = IF op[t].i = CertCount THEN "refused" ELSE "restore"
    BY <2>1, PutTextIs
  <2> QED  BY <1>1, <2>1, <2>2, <2>3
<1>3. op'[t].since = op[t].since  BY <1>2, TextFlash DEF Akin
<1>4. ASSUME Follows(op[t]), Alone(op[t]), Alone(op[t])' PROVE TextsFollow(op[t])'
  <2>1. faults \in Nat /\ faults' \in Nat /\ faults <= faults' /\ op[t].since \in Nat
        /\ Spent(op[t]) /\ Spent(op[t])'
    <3>1. faults \in Nat /\ op[t].since \in Nat  BY DEF StoreInv, Types, Ops
    <3>2. Spends  BY <1>2, TextFlash
    <3>3. faults' \in Nat /\ faults <= faults'  BY <3>1, <3>2 DEF Spends
    <3>4. Spent(op[t])  BY <1>2, <1>4 DEF Follows, TextsFollow
    <3>5. Spent(op[t])'  BY <1>3, <3>1, <3>3, <3>4 DEF Spent
    <3> QED  BY <3>1, <3>3, <3>4, <3>5
  <2>2. \A j \in Certificates : j < i => PutBack(op[t], j)
    BY <1>1, <1>2, <1>4 DEF Follows, TextsFollow
  <2>3. \A j \in Certificates : PutBack(op[t], j) => PutBack(op[t], j)'
    BY <1>2, <1>3, <2>1 DEF PutBack
  <2>4. CASE op'[t].at = "restoreEnds" /\ op'[t].i = i
    BY <2>1, <2>2, <2>3, <2>4 DEF TextsFollow
  <2>5. CASE /\ v = None /\ Finds(t, None)
             /\ (\E s \in Tasks \ {t} : Calls(s)) => "disturbed" \in op'[t].marks
             /\ op'[t].i = (IF i = CertCount THEN 1 ELSE i + 1)
             /\ op'[t].at = IF i = CertCount THEN "refused" ELSE "restore"
    <3>1. \A s \in Tasks \ {t} : ~Calls(s)  BY <1>4, <2>5 DEF Alone
    <3>2. texts[i] = None \/ faults' = faults + 1
      BY <1>1, <2>5, <3>1, FindsNothing DEF StoreInv, Cert
    <3>3. PutBack(op[t], i)'
      BY <1>1, <1>2, <1>3, <2>1, <2>5, <3>2 DEF PutBack, Spent
    <3>4. \A j \in Certificates : j < i + 1 => PutBack(op[t], j)'
      BY <2>2, <2>3, <3>3, Further
    <3>5. i = CertCount => \A j \in Certificates : PutBack(op[t], j)'
      BY <2>2, <2>3, <3>3, Further
    <3> QED  BY <2>1, <2>5, <3>4, <3>5 DEF TextsFollow
  <2> QED  BY <1>2, <2>4, <2>5
<1> QED  BY <1>2, <1>4, TextStepFollows

\* What a call on the certificate at i leaves, when no other task disturbs it.
LEMMA PutTextLeaves ==
  ASSUME Types, NEW t \in Tasks, NEW i \in Certificates, i = op[t].i, NEW v, NEW ok \in BOOLEAN,
         PutTextEnds(t, v, ok), "torn" \notin op[t].marks
  PROVE  /\ \A j \in Certificates \ {i} : texts'[j] = texts[j]
         /\ \/ ok /\ texts'[i] = v /\ faults' = faults
            \/ faults' = faults + 1 /\ (ok => v = None)
BY DEF PutTextEnds, Cert, Works, Fault, Types

LEMMA SaveTextEndsFollows ==
  ASSUME StoreInv, SettingsInv, NEW t \in Tasks, SaveTextEnds(t)
  PROVE  SettingsInv'
<1>1. PICK i \in Certificates : i = op[t].i
  BY DEF StoreInv, Types, Ops
<1>2. /\ TextStep(t) /\ Rest(t, {"disturbed"}) /\ op[t].at = "certEnds"
      /\ op'[t].marks = op[t].marks
  BY SaveTextEndsIs DEF StoreInv
<1>3. PICK ok \in BOOLEAN :
        /\ PutTextEnds(t, op[t].want[i], ok)
        /\ ok => /\ op'[t].i = (IF i = CertCount THEN 1 ELSE i + 1)
                 /\ op'[t].at = IF i = CertCount THEN "assign" ELSE "cert"
        /\ ~ok => op'[t].at = "restore" /\ op'[t].i = 1
  BY <1>1, SaveTextEndsIs DEF StoreInv, Cert
<1>4. op'[t].since = op[t].since /\ op'[t].want = op[t].want
  BY <1>2, TextFlash DEF Akin
<1>5. ASSUME Follows(op[t]), Alone(op[t]) PROVE TextsFollow(op[t])'
  <2>1. faults \in Nat /\ faults' \in Nat /\ faults <= faults' /\ op[t].since \in Nat
        /\ op[t].since <= faults
    BY <1>2, <1>5, TextFlash, Constant DEF StoreInv, Types, Ops, Spends, Follows
  <2>2. \A j \in Certificates : j < i => Saved(op[t], j)
    BY <1>1, <1>2, <1>5 DEF Follows, TextsFollow
  <2>3. /\ \A j \in Certificates \ {i} : texts'[j] = texts[j]
        /\ \/ ok /\ texts'[i] = op[t].want[i] /\ faults' = faults
           \/ faults' = faults + 1 /\ (ok => op[t].want[i] = None)
    BY <1>1, <1>3, <1>5, PutTextLeaves DEF StoreInv, Follows
  <2>4. \A j \in Certificates : j < i => Saved(op[t], j)'
    BY <1>4, <2>1, <2>2, <2>3 DEF Saved, Spent, Certificates
  <2>5. CASE ok
    <3>1. Saved(op[t], i)'  BY <1>4, <2>1, <2>3, <2>5 DEF Saved, Spent
    <3>2. \A j \in Certificates : j < i + 1 => Saved(op[t], j)'  BY <2>4, <3>1, Further
    <3>3. i = CertCount => \A j \in Certificates : Saved(op[t], j)'  BY <2>4, <3>1, Further
    <3> QED  BY <1>3, <2>5, <3>2, <3>3 DEF TextsFollow
  <2>6. CASE ~ok
    <3>1. Spent(op[t])'  BY <1>4, <2>1, <2>3, <2>6 DEF Spent
    <3> QED  BY <1>1, <1>3, <2>6, <3>1, Further DEF TextsFollow
  <2> QED  BY <2>5, <2>6
<1>6. /\ "torn" \in op'[t].marks => "disturbed" \in op'[t].marks
      /\ op'[t].at = "assign" => op'[t].i = 1
  <2>1. Follows(op[t])  BY <1>2, TextFlash DEF SettingsInv
  <2> QED  BY <1>2, <1>3, <2>1 DEF Follows, Alone
<1> QED  BY <1>2, <1>5, <1>6, TextStepFollows

LEMMA RestoreTextEndsFollows ==
  ASSUME StoreInv, SettingsInv, NEW t \in Tasks, RestoreTextEnds(t)
  PROVE  SettingsInv'
<1>1. PICK i \in Certificates : i = op[t].i
  BY DEF StoreInv, Types, Ops
<1>2. /\ TextStep(t) /\ Rest(t, {"disturbed"}) /\ op[t].at = "restoreEnds"
      /\ op'[t].marks = op[t].marks /\ op'[t].certs = op[t].certs
      /\ op'[t].i = (IF i = CertCount THEN 1 ELSE i + 1)
      /\ op'[t].at = IF i = CertCount THEN "refused" ELSE "restore"
  BY <1>1, RestoreTextEndsIs DEF StoreInv
<1>3. PICK ok \in BOOLEAN : PutTextEnds(t, op[t].certs[i], ok)
  BY <1>1 DEF RestoreTextEnds, Cert
<1>4. op'[t].since = op[t].since  BY <1>2, TextFlash DEF Akin
<1>5. ASSUME Follows(op[t]), Alone(op[t]) PROVE TextsFollow(op[t])'
  <2>1. faults \in Nat /\ faults' \in Nat /\ faults <= faults' /\ op[t].since \in Nat
        /\ Spent(op[t]) /\ Spent(op[t])'
    BY <1>2, <1>4, <1>5, TextFlash, Constant
       DEF StoreInv, Types, Ops, Spends, Follows, TextsFollow, Spent
  <2>2. \A j \in Certificates : j < i => PutBack(op[t], j)
    BY <1>1, <1>2, <1>5 DEF Follows, TextsFollow
  <2>3. /\ \A j \in Certificates \ {i} : texts'[j] = texts[j]
        /\ (texts'[i] = op[t].certs[i] /\ faults' = faults) \/ faults' = faults + 1
    BY <1>1, <1>3, <1>5, PutTextLeaves DEF StoreInv, Follows
  <2>4. \A j \in Certificates : j < i => PutBack(op[t], j)'
    BY <1>2, <1>4, <2>1, <2>2, <2>3 DEF PutBack, Certificates
  <2>5. PutBack(op[t], i)'  BY <1>2, <1>4, <2>1, <2>3 DEF PutBack, Spent
  <2>6. \A j \in Certificates : j < i + 1 => PutBack(op[t], j)'  BY <2>4, <2>5, Further
  <2>7. i = CertCount => \A j \in Certificates : PutBack(op[t], j)'  BY <2>4, <2>5, Further
  <2> QED  BY <1>2, <2>1, <2>6, <2>7 DEF TextsFollow
<1>6. "torn" \in op'[t].marks => "disturbed" \in op'[t].marks
  <2>1. Follows(op[t])  BY <1>2, TextFlash DEF SettingsInv
  <2> QED  BY <1>2, <2>1 DEF Follows, Alone
<1> QED  BY <1>2, <1>5, <1>6, TextStepFollows

-----------------------------------------------------------------------------
(* The settings: file steps, the boot and resets.                          *)

LEMMA SaveMeetsFailure ==
  ASSUME FilesInv, FileStep, job.kind # "remove", FailedSave'
  PROVE  FailedSave \/ faults' = faults + 1
<1>1. Busy  BY StepEffect
<1>2. job \in Jobs /\ job.at \notin Removing  BY <1>1, Before
<1>3. ~(RmFinal \/ RmTmp \/ RmBak)  BY <1>2 DEF RmFinal, RmTmp, RmBak, RemoveEntry, Removing
<1>4. CASE Open  BY <1>2, <1>4 DEF Open, Goto, Returns, Fails, FailedSave, Jobs
<1>5. CASE Fill  BY <1>2, <1>5 DEF Fill, Goto, Fails, FailedSave, Jobs
<1>6. CASE Settle  BY <1>2, <1>6 DEF Settle, Goto, Fails, FailedSave, Jobs
<1>7. CASE DropBak \/ CleanBak
  BY <1>2, <1>7 DEF DropBak, CleanBak, Goto, Returns, FailedSave, Jobs
<1>8. CASE ToBak  BY <1>2, <1>8 DEF ToBak, Goto, Fails, FailedSave, Jobs
<1>9. CASE ToFinal  BY <1>2, <1>9 DEF ToFinal, Goto, Fails, FailedSave, Jobs
<1>10. CASE Undo \/ DropTmp  BY <1>10 DEF Undo, DropTmp, FailedSave
<1> QED  BY <1>3, <1>4, <1>5, <1>6, <1>7, <1>8, <1>9, <1>10 DEF FileStep

LEMMA FilingFollows == ASSUME StoreInv, SettingsInv, Filing PROVE SettingsInv'
<1>1. /\ Types' /\ FileStep /\ Spends /\ UNCHANGED <<mem, op, texts>>
  BY FilingIs, FileStepSpends DEF StoreInv
<1>2. /\ Busy /\ Same /\ job'.at # "idle" /\ \A q \in Paths \ {here} : Visible(q)' = Visible(q)
      /\ job.kind # "remove" =>
           Visible(here)' = Visible(here) \/ Visible(here)' \in {job.value, Partial}
  BY <1>1, StepEffect DEF StoreInv
<1>3. /\ job'.value = job.value /\ job.at # "idle" /\ here' = here /\ here = job.path
  BY <1>2 DEF Same, Busy, here
<1>4. SUFFICES ASSUME NEW t \in Tasks, op[t].name = "settings" PROVE Follows(op[t])'
  BY <1>1 DEF SettingsInv
<1>5. Follows(op[t])  BY <1>4 DEF SettingsInv
<1>6. faults \in Nat /\ faults' \in Nat /\ faults <= faults' /\ op[t].since \in Nat
  BY <1>1, Constant DEF StoreInv, Types, Ops, Spends
<1>7. SomeSave' <=> SomeSave  BY <1>1 DEF SomeSave, Saves
<1>8. op[t].at = "ends" /\ FailedSave' => Spent(op[t])'
  <2> SUFFICES ASSUME op[t].at = "ends", FailedSave' PROVE Spent(op[t])'  OBVIOUS
  <2>1. job.kind # "remove"  BY DEF StoreInv, CallShape, CallAts, Call
  <2>2. FailedSave \/ faults' = faults + 1  BY <1>1, <2>1, SaveMeetsFailure DEF StoreInv
  <2> QED  BY <1>1, <1>5, <1>6, <2>2 DEF Follows, Spent
<1>9. ASSUME Alone(op[t]) PROVE TextsFollow(op[t])' /\ RamFollows(op[t])' /\ FlashFollows(op[t])'
  <2>1. TextsFollow(op[t]) /\ RamFollows(op[t]) /\ FlashFollows(op[t])
    BY <1>5, <1>9 DEF Follows
  <2>2. Akin(op'[t], op[t]) /\ op' \in [Tasks -> Ops]  BY <1>1 DEF Akin, Types
  <2>3. TextsFollow(op[t])'  BY <1>1, <1>6, <2>1, <2>2, TextsFrame DEF StoreInv
  <2>4. RamFollows(op[t])'  BY <1>1, <2>1 DEF RamFollows
  <2>5. ASSUME op[t].at = "saved"
        PROVE  (Visible(Config) = Partial \/ Visible(Config).wifi = op[t].new)'
    <3>1. CASE here # Config
      BY <1>1, <1>2, <2>1, <2>5, <3>1, Constant DEF FlashFollows
    <3>2. CASE here = Config
      <4>1. PICK h \in Tasks : op[h].at \in CallAts /\ Call(op[h].at)
        BY <1>3 DEF StoreInv, CallShape
      <4>2. op[h].at \notin BeginAts
        <5> SUFFICES ASSUME op[h].at \in BeginAts PROVE FALSE  OBVIOUS
        <5>1. op[h].name = "begin" /\ h = Main
          BY OpShapes DEF Shape, BeginAts, FieldAts, SettingsAts, Ops, OpNames
        <5> QED  BY <1>4, <5>1 DEF StoreInv, BootShape, Resting
      <4>3. op[h].at = "ends" /\ job.kind # "remove"
        BY <1>3, <3>2, <4>1, <4>2, Constant DEF CallAts, Call, BeginAts
      <4>4. job.value.wifi = op[t].new
        BY <2>1, <2>5, <4>3 DEF FlashFollows, SomeSave, Saves
      <4>5. Visible(here)' = Visible(Config)' /\ Visible(here) = Visible(Config)
        BY <1>3, <3>2 DEF Visible
      <4>6. Visible(Config)' = Visible(Config) \/ Visible(Config)' \in {job.value, Partial}
        BY <1>2, <4>3, <4>5
      <4>7. Visible(Config) = Partial \/ Visible(Config).wifi = op[t].new
        BY <2>1, <2>5 DEF FlashFollows
      <4> QED  BY <1>1, <4>4, <4>6, <4>7
    <3> QED  BY <3>1, <3>2
  <2>6. FlashFollows(op[t])'
    BY <1>1, <1>3, <1>7, <2>1, <2>5 DEF FlashFollows
  <2> QED  BY <2>3, <2>4, <2>6
<1> QED  BY <1>1, <1>5, <1>6, <1>8, <1>9 DEF Follows, Alone

\* While the device boots or is reset no settings are given.
LEMMA BootFollows ==
  ASSUME StoreInv,
         \/ Apply \/ RestoreLastGood \/ RestoreLastGoodEnds \/ ClearAll \/ LoadConfig
         \/ Panic \/ \E crash \in BOOLEAN : ResetAnywhere(crash)
  PROVE  SettingsInv'
<1> SUFFICES \A s \in Tasks : op'[s].name # "settings"  BY DEF SettingsInv
<1>1. CASE Apply
  <2>1. /\ boot.power = "reset" /\ op'[Main].name = "begin"
        /\ \A s \in Tasks \ {Main} : op'[s] = op[s]
    BY <1>1, ApplyIs DEF StoreInv
  <2> QED  BY <2>1 DEF StoreInv, BootShape, Resting
<1>2. CASE Panic \/ \E crash \in BOOLEAN : ResetAnywhere(crash)
  <2>1. PICK crash \in BOOLEAN : Reset(crash) /\ Spends
    BY <1>2 DEF Panic, Works, ResetAnywhere, Fault, Spends
  <2>2. op' = [t \in Tasks |-> NoOp]  BY <2>1, ResetIs DEF StoreInv
  <2> QED  BY <2>2, NoOpShape
<1>3. ASSUME op[Main].name = "begin", op'[Main].name \in {"begin", "none"},
             \A s \in Tasks \ {Main} : op'[s].name = op[s].name
      PROVE  \A s \in Tasks : op'[s].name # "settings"
  BY <1>3 DEF StoreInv, BootShape, Resting
<1>4. ASSUME NEW from, NEW to, BootGoes(from, to) PROVE \A s \in Tasks : op'[s].name # "settings"
  BY <1>3, <1>4 DEF BootGoes, Rest, Alike
<1>5. CASE RestoreLastGood
  <2>1. job.at = "idle"
    BY <1>5, BeginQuiet DEF RestoreLastGood, Runs, CallAts
  <2> QED  BY <1>4, <1>5, <2>1, RestoreLastGoodIs DEF StoreInv
<1>6. CASE RestoreLastGoodEnds  BY <1>4, <1>6, RestoreLastGoodEndsIs DEF StoreInv
<1>7. CASE ClearAll
  <2>1. CASE ClearText
    <3>1. /\ op[Main].name = "begin" /\ op'[Main].name = "begin" /\ Rest(Main, {})
      BY <2>1, ClearTextIs DEF StoreInv
    <3> QED  BY <1>3, <3>1 DEF Rest, Alike
  <2>2. CASE ClearFile("clear", Config, "clearEnds") \/ ClearFile("clearGood", LastGood, "clearGoodEnds")
    BY <1>4, <2>2, ClearFileIs, Constant DEF StoreInv, OpAts, BeginAts
  <2>3. CASE ClearFileEnds("clearEnds", "clearGood") \/ ClearFileEnds("clearGoodEnds", "clearText")
    BY <1>4, <2>3, ClearFileEndsIs DEF StoreInv, OpAts, BeginAts
  <2> QED  BY <1>7, <2>1, <2>2, <2>3 DEF ClearAll
<1>8. CASE LoadConfig
  <2>1. job.at = "idle"  BY <1>8, BeginQuiet DEF LoadConfig, Runs, CallAts
  <2>2. op[Main].name = "begin" /\ op'[Main] = NoOp /\ Rest(Main, {})
    BY <1>8, <2>1, LoadConfigIs DEF StoreInv
  <2> QED  BY <1>3, <2>2, NoOpShape DEF Rest, Alike
<1> QED  BY <1>1, <1>2, <1>5, <1>6, <1>7, <1>8

LEMMA GoesFollows ==
  ASSUME StoreInv, LastInv, SettingsInv, Types', NEW t \in Tasks, Goes(t)
  PROVE  SettingsInv'
<1>1. CASE AssignSome(t)  BY <1>1, AssignsFollows DEF AssignSome
<1>2. CASE AssignAll(t)  BY <1>2, AssignsFollows DEF AssignAll
<1>3. CASE UndoField(t) \/ Request(t)  BY <1>3, FieldFollows
<1> QED
  BY <1>1, <1>2, <1>3, SaveConfigFollows, SaveConfigEndsFollows, CaptureTextFollows,
     SaveTextFollows, SaveTextEndsFollows, UndoSettingsFollows, RestoreTextFollows,
     RestoreTextEndsFollows, SettingsReturnFollows DEF Goes

LEMMA CallingFollows ==
  ASSUME StoreInv, SettingsInv, Types', NEW t \in Tasks, Calling(t)
  PROVE  SettingsInv'
<1>1. CASE ClearCredentials(t)
  <2>1. Asks(t, 0, NoTexts, "dirty")  BY <1>1 DEF ClearCredentials
  <2> QED  BY <2>1, AsksFollows, Constant
<1> QED  BY <1>1, FieldFollows DEF Calling

LEMMA NextFollows == ASSUME StoreInv, LastInv, SettingsInv, Next PROVE SettingsInv'
<1>1. Types'  BY NextKept DEF Kept
<1>2. CASE Step
  <2>1. CASE Filing  BY <2>1, FilingFollows
  <2>2. CASE Booting  BY <2>2, BootFollows DEF Booting
  <2>3. CASE CommitEnds  BY <1>1, <2>3, MainFollows
  <2>4. ASSUME NEW t \in Tasks, Goes(t) PROVE SettingsInv'  BY <1>1, <2>4, GoesFollows
  <2> QED  BY <1>2, <2>1, <2>2, <2>3, <2>4 DEF Step
<1>3. ASSUME NEW t \in Tasks, Calling(t) PROVE SettingsInv'  BY <1>1, <1>3, CallingFollows
<1>4. CASE SaveSettings
  <2>1. PICK new \in Versions, want \in [Certificates -> Text] : Asks(Main, new, want, "revert")
    BY <1>4, SaveSettingsIs DEF StoreInv
  <2> QED  BY <1>1, <2>1, AsksFollows, Constant
<1>5. CASE \/ PollSave \/ CommitLastGood \/ RetryReady \/ MarkStable
           \/ \E counts \in BOOLEAN : ObserveHealthy(counts)
           \/ \E health \in {"Unhealthy", "Unavailable"} : ObserveOther(health)
  BY <1>1, <1>5, MainFollows
<1>6. CASE Panic \/ \E crash \in BOOLEAN : ResetAnywhere(crash)  BY <1>6, BootFollows
<1> QED  BY <1>2, <1>3, <1>4, <1>5, <1>6 DEF Next

LEMMA StutterFollows == ASSUME SettingsInv, UNCHANGED vars PROVE SettingsInv'
<1>1. UNCHANGED <<fs, job, faults, mem, texts, op>>  BY DEF vars, files
<1> SUFFICES ASSUME NEW t \in Tasks, op[t].name = "settings" PROVE Follows(op[t])'
  BY <1>1 DEF SettingsInv
<1>2. Follows(op[t])  BY DEF SettingsInv
<1>3. TextsFollow(op[t]) => TextsFollow(op[t])'
  BY <1>1 DEF TextsFollow, Saved, PutBack, Spent
<1>4. RamFollows(op[t]) /\ FlashFollows(op[t]) => RamFollows(op[t])' /\ FlashFollows(op[t])'
  BY <1>1 DEF RamFollows, FlashFollows, SomeSave, Saves, Visible
<1> QED  BY <1>1, <1>2, <1>3, <1>4 DEF Follows, Alone, FailedSave, Spent

LEMMA SettingsInit == Init => SettingsInv
BY NoOpShape DEF Init, SettingsInv

\* The inductive invariant behind the next theorem: how far a change of the Wi-Fi
\* settings has come in its certificates, in RAM, in every save in progress, of
\* whichever task, and on flash; for any number of tasks and certificates, unless
\* another task has changed the same settings meanwhile, which "disturbed" tells.
THEOREM SettingsInvariance == Spec => []SettingsInv
<1>1. StoreInv /\ LastInv /\ SettingsInv /\ [Next]_vars => SettingsInv'
  BY NextFollows, StutterFollows
<1> QED  BY SettingsInit, <1>1, StoreInvariance, LastGoodInvariance, PTL DEF Spec

\* A change of the Wi-Fi settings and their certificates is complete when it
\* answers that it is saved, and undone when it answers that one failing call of
\* the file system refused it, whatever the other tasks change, save and roll
\* back of the other fields meanwhile.  Of two changes of the Wi-Fi settings at a
\* time nothing is said: the code takes no lock around them.
THEOREM SettingsAreAtomic == Spec => []SettingsAllOrNothing
<1>1. StoreInv /\ SettingsInv => SettingsAllOrNothing
  <2> SUFFICES ASSUME StoreInv, SettingsInv, NEW t \in Tasks, op[t].name = "settings",
                      op[t].at \in {"saved", "refused"}, Alone(op[t])
               PROVE  /\ mem.config.wifi = IF op[t].at = "saved" THEN op[t].new ELSE op[t].prev.wifi
                      /\ op[t].at = "saved" => Visible(Config) = Partial \/ Visible(Config).wifi = op[t].new
                      /\ \A i \in Certificates :
                           IF op[t].at = "saved"
                             THEN texts[i] = op[t].want[i] \/ (op[t].want[i] = None /\ faults > op[t].since)
                             ELSE faults <= op[t].since + 1 => texts[i] = op[t].certs[i]
    BY DEF SettingsAllOrNothing, Alone
  <2>1. TextsFollow(op[t]) /\ RamFollows(op[t]) /\ FlashFollows(op[t])
    BY DEF SettingsInv, Follows
  <2> QED  BY <2>1 DEF TextsFollow, RamFollows, FlashFollows, Saved, PutBack, Spent
<1> QED  BY <1>1, StoreInvariance, SettingsInvariance, PTL
=============================================================================
