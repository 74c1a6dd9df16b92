--------------------------- MODULE AtomicFilesProofs ---------------------------
(***************************************************************************)
(* AtomicFiles implements FileStore for any paths, contents, callers,      *)
(* resets and failing calls.  The invariant says which entries exist at    *)
(* each step of a replacement: at every one of them the file or its backup *)
(* holds a complete content.                                               *)
(***************************************************************************)
EXTENDS AtomicFiles, TLAPS

Writing == {"settle", "dropBak", "toBak", "toFinal"}
Removing == {"rmFinal", "rmTmp", "rmBak"}
Ats == {"idle", "open", "fill", "undo", "dropTmp", "cleanBak", "done"} \cup Writing \cup Removing

Entries == [final : Content, tmp : Content, bak : Content]
Jobs == [at : Ats, path : Paths \cup {None}, value : Content, kind : Kinds, ok : BOOLEAN]

FilesTypeOK == fs \in [Paths -> Entries] /\ job \in Jobs /\ faults \in Nat

\* A job that is under way has a path, and only a removal has no value.
JobShape ==
  /\ job.at = "idle" => job = NoJob
  /\ job.at # "idle" => job.path \in Paths
  /\ job.at # "idle" => (job.kind = "remove" <=> job.value = None)
  /\ job.at \in Removing => job.kind = "remove"
  /\ job.at \notin Removing \cup {"done", "idle"} => job.kind # "remove"

\* What a replacement finds in the entries r at the step called at.
Follow(r, at) ==
  /\ at = "fill" => r.tmp = Partial
  /\ at \in Writing => r.tmp = job.value \/ (Unchecked /\ r.tmp = Partial)
  /\ at \in {"dropBak", "toBak"} => r.final # None \/ r.bak = None
  /\ at \in {"toFinal", "undo"} => r.final = None
  /\ at = "cleanBak" => r.final # None
EntriesFollow == Follow(fs[here], job.at)

FilesInv == FilesTypeOK /\ JobShape /\ EntriesFollow

LEMMA FilesInitInv == FilesInit => FilesInv
BY ContentAssumption
   DEF FilesInit, FilesInv, FilesTypeOK, JobShape, EntriesFollow, Follow, NoJob, Entries, Jobs, Ats,
       Content, Kinds, Writing, Removing, Unchecked, here

\* Reading shows the store nothing new, whatever it repairs.
LEMMA LooksKeep ==
  ASSUME FilesInv, Looks
  PROVE  /\ fs' \in [Paths -> Entries] /\ faults' \in Nat
         /\ \A q \in Paths : Visible(q)' = Visible(q) /\ Behind(q)' = Behind(q)
<1> USE ContentAssumption, FaultsAssumption DEF FilesInv, FilesTypeOK, Visible, Behind
<1>1. CASE Skips
  BY <1>1 DEF Skips
<1>2. ASSUME NEW path \in Paths, NEW found \in Content, Reads(path, found)
      PROVE  /\ fs' \in [Paths -> Entries] /\ faults' \in Nat
             /\ \A q \in Paths : Visible(q)' = Visible(q) /\ Behind(q)' = Behind(q)
  BY <1>2 DEF Reads, Recovered, Works, Fails, Entries
<1> QED  BY <1>1, <1>2 DEF Looks

LEMMA StartKeeps ==
  ASSUME FilesInv, NEW path \in Paths, NEW v \in Content, NEW kind \in Kinds,
         (kind = "remove") <=> (v = None), Starts(path, v, kind), Looks
  PROVE  FilesInv' /\ Store!Begin(path, v, kind \notin {"config", "copy"})
<1> USE ContentAssumption DEF Starts, here
<1>1. FilesInv'
  BY LooksKeep
     DEF FilesInv, FilesTypeOK, JobShape, EntriesFollow, Follow, Jobs, Ats, Writing, Removing,
         Kinds, NoJob
<1>2. Store!Begin(path, v, kind \notin {"config", "copy"})
  <2>1. Work.path = None  BY DEF Work
  <2>2. Work' = [path |-> path, value |-> v, checked |-> kind \notin {"config", "copy"},
                 committed |-> FALSE, returned |-> FALSE, ok |-> FALSE]
    <3>1. job'.at \notin {"idle", "cleanBak", "done"} /\ job'.path = path /\ job'.value = v
          /\ job'.kind = kind
      OBVIOUS
    <3>2. ~Committed' /\ (~Unchecked)' = (kind \notin {"config", "copy"})
      BY <3>1 DEF Committed, Unchecked
    <3>3. Committed' = FALSE /\ (job'.at = "done") = FALSE
          /\ (job'.at = "done" /\ job'.ok) = FALSE
      BY <3>1, <3>2
    <3>4. Work' = [path |-> job'.path, value |-> job'.value, checked |-> (~Unchecked)',
                   committed |-> Committed', returned |-> job'.at = "done",
                   ok |-> job'.at = "done" /\ job'.ok]
      BY <3>1 DEF Work
    <3> HIDE DEF Starts, here
    <3> QED  BY <3>1, <3>2, <3>3, <3>4, Zenon
  <2>3. UNCHANGED <<[q \in Paths |-> Visible(q)], [q \in Paths |-> Behind(q)]>>
    BY LooksKeep
  <2> QED  BY <2>1, <2>2, <2>3 DEF Store!Begin
<1> QED  BY <1>1, <1>2

LEMMA ReadKeeps ==
  ASSUME FilesInv, job.at = "idle", Looks, UNCHANGED job
  PROVE  FilesInv' /\ UNCHANGED <<[q \in Paths |-> Visible(q)], [q \in Paths |-> Behind(q)], Work>>
<1>1. FilesInv'
  BY LooksKeep
     DEF FilesInv, FilesTypeOK, JobShape, EntriesFollow, Follow, Writing, Removing, here, Unchecked
<1>2. Work' = Work  BY DEF Work, Unchecked, Committed, here
<1> QED  BY <1>1, <1>2, LooksKeep

LEMMA EndKeeps ==
  ASSUME FilesInv, Ends, UNCHANGED fs, faults' \in Nat
  PROVE  FilesInv' /\ Store!End
<1> USE ContentAssumption DEF Ends, NoJob, here
<1>1. FilesInv'
  BY DEF FilesInv, FilesTypeOK, JobShape, EntriesFollow, Follow, Jobs, Ats, Writing, Removing, Kinds,
         Content, NoJob
<1>2. Store!End  BY DEF Store!End, Store!NoWork, Work, Visible, Behind
<1> QED  BY <1>1, <1>2

-----------------------------------------------------------------------------
(* A step of a job, seen at the path of the job.                           *)

Others == \A q \in Paths \ {here} : fs'[q] = fs[q]
Same == job'.path = job.path /\ job'.value = job.value /\ job'.kind = job.kind
Busy == job.at \notin {"idle", "done"}
StoreBar == [q \in Paths |-> Visible(q)]
StaleBar == [q \in Paths |-> Behind(q)]

\* What the store sees of a path: it stays, loses its backup, or, in a removal,
\* goes back to it.
Seen ==
  \/ Visible(here)' = Visible(here) /\ Behind(here)' \in {Behind(here), None}
  \/ job.value = None /\ Visible(here)' = Behind(here) /\ Behind(here)' = None

LEMMA MapAt ==
  ASSUME FilesInv, FilesTypeOK', Busy, Same, Others
  PROVE  /\ StoreBar' = [StoreBar EXCEPT ![here] = Visible(here)']
         /\ StaleBar' = [StaleBar EXCEPT ![here] = Behind(here)']
         /\ StoreBar = [StoreBar EXCEPT ![here] = Visible(here)]
         /\ StaleBar = [StaleBar EXCEPT ![here] = Behind(here)]
         /\ StoreBar[here] = Visible(here) /\ StaleBar[here] = Behind(here)
         /\ here \in Paths
<1>1. here \in Paths /\ here' = here
  BY DEF FilesInv, JobShape, Busy, Same, here
<1>2. \A q \in Paths \ {here} : Visible(q)' = Visible(q) /\ Behind(q)' = Behind(q)
  BY DEF Others, Visible, Behind
<1> QED  BY <1>1, <1>2 DEF StoreBar, StaleBar

LEMMA WorkFields ==
  ASSUME Busy
  PROVE  /\ Work = [path |-> here, value |-> job.value, checked |-> ~Unchecked,
                    committed |-> Committed, returned |-> FALSE, ok |-> FALSE]
         /\ Work.path = here /\ Work.value = job.value /\ Work.checked = ~Unchecked
         /\ Work.committed = Committed /\ ~Work.returned
<1>1. job.at # "idle" /\ (job.at = "done") = FALSE /\ (job.at = "done" /\ job.ok) = FALSE
  BY DEF Busy
<1>2. Work = [path |-> here, value |-> job.value, checked |-> ~Unchecked,
              committed |-> Committed, returned |-> job.at = "done",
              ok |-> job.at = "done" /\ job.ok]
  BY <1>1 DEF Work
<1>3. Work = [path |-> here, value |-> job.value, checked |-> ~Unchecked,
              committed |-> Committed, returned |-> FALSE, ok |-> FALSE]
  BY <1>1, <1>2, Zenon
<1> QED  BY <1>3, Zenon

LEMMA SeenClears ==
  ASSUME FilesInv, FilesTypeOK', Busy, Same, Others, Seen
  PROVE  Store!Running /\ Store!Clears
<1>1. Store!Running
  BY WorkFields, ContentAssumption DEF Store!Running, FilesInv, JobShape, Busy, here
<1>2. CASE Visible(here)' = Visible(here) /\ Behind(here)' = Behind(here)
  BY <1>1, <1>2, MapAt DEF Store!Clears, StoreBar, StaleBar
<1>3. CASE Visible(here)' = Visible(here) /\ Behind(here)' = None
  <2>1. StoreBar' = StoreBar /\ StaleBar' = [StaleBar EXCEPT ![Work.path] = None]
    BY <1>3, MapAt, WorkFields
  <2>2. Store!Forgets  BY <2>1 DEF Store!Forgets, Store!Set, StoreBar, StaleBar
  <2> QED  BY <1>1, <2>2 DEF Store!Clears
<1>4. CASE job.value = None /\ Visible(here)' = Behind(here) /\ Behind(here)' = None
  <2>1. /\ StoreBar' = [StoreBar EXCEPT ![Work.path] = StaleBar[Work.path]]
        /\ StaleBar' = [StaleBar EXCEPT ![Work.path] = None]
        /\ Work.value = None
    BY <1>4, MapAt, WorkFields
  <2>2. Store!Removes  BY <2>1 DEF Store!Removes, Store!Set, StoreBar, StaleBar
  <2> QED  BY <1>1, <2>2 DEF Store!Clears
<1> QED  BY <1>1, <1>2, <1>3, <1>4 DEF Seen

\* A step in the middle of a job.
LEMMA JobGoesOn ==
  ASSUME FilesInv, FilesTypeOK', Busy, Busy', Same, Others, Seen,
         Committed' = Committed
  PROVE  Store!Clean
<1>1. job'.at # "idle" /\ (job'.at = "done") = FALSE
      /\ (job'.at = "done" /\ job'.ok) = FALSE
  BY DEF Busy
<1>2. Work' = [path |-> here', value |-> job.value', checked |-> (~Unchecked)',
               committed |-> Committed', returned |-> job'.at = "done",
               ok |-> job'.at = "done" /\ job'.ok]
  BY <1>1 DEF Work
<1>3. here' = here /\ job.value' = job.value /\ (~Unchecked)' = ~Unchecked
  BY DEF Same, here, Unchecked
<1>4. Work = [path |-> here, value |-> job.value, checked |-> ~Unchecked,
              committed |-> Committed, returned |-> FALSE, ok |-> FALSE]
  BY WorkFields
<1>5. Work' = Work  BY <1>1, <1>2, <1>3, <1>4, Zenon
<1> QED  BY <1>5, SeenClears DEF Store!Clean

LEMMA TwoUpdates ==
  ASSUME NEW S, NEW T, NEW w \in [S -> T], "returned" \in S, "ok" \in S,
         NEW yes \in T, NEW ok \in T
  PROVE  /\ [w EXCEPT !["returned"] = yes, !["ok"] = ok] \in [S -> T]
         /\ \A i \in S : [w EXCEPT !["returned"] = yes, !["ok"] = ok][i]
                         = IF i = "ok" THEN ok ELSE IF i = "returned" THEN yes ELSE w[i]
BY SMT

\* The last step of a job.
LEMMA Answers ==
  ASSUME FilesInv, FilesTypeOK', Busy, job'.at = "done", Same, Others, Seen,
         job.kind # "remove" => job'.ok = Committed
  PROVE  Store!Return
<1>1. job'.at # "idle" /\ (job'.at = "done") = TRUE /\ job'.ok \in BOOLEAN
      /\ (job'.at = "done" /\ job'.ok) = job'.ok
  BY DEF FilesTypeOK, Jobs
<1>2. Committed' = Committed
  BY <1>1 DEF Committed, Busy, Same
<1>3. Work' = [path |-> here', value |-> job.value', checked |-> (~Unchecked)',
               committed |-> Committed', returned |-> job'.at = "done",
               ok |-> job'.at = "done" /\ job'.ok]
  BY <1>1 DEF Work
<1>4. here' = here /\ job.value' = job.value /\ (~Unchecked)' = ~Unchecked
  BY DEF Same, here, Unchecked
<1>5. Work' = [path |-> here, value |-> job.value, checked |-> ~Unchecked,
               committed |-> Committed, returned |-> TRUE, ok |-> job'.ok]
  BY <1>1, <1>2, <1>3, <1>4, Zenon
<1>6. Work = [path |-> here, value |-> job.value, checked |-> ~Unchecked,
              committed |-> Committed, returned |-> FALSE, ok |-> FALSE]
  BY WorkFields
<1>7. Work' = [Work EXCEPT !.returned = TRUE, !.ok = job'.ok]
  <2>1. /\ Work.path = here /\ Work.value = job.value /\ Work.checked = ~Unchecked
        /\ Work.committed = Committed /\ Work.returned = FALSE /\ Work.ok = FALSE
    BY <1>6, Zenon
  <2>2. Work'.returned = TRUE /\ Work'.ok = job'.ok  BY <1>5, Zenon
  <2> DEFINE w == Work
             u == Work'
             a == here
             b == job.value
             c == Work.checked
             d == Work.committed
             no == Work.returned
             yes == Work'.returned
             ok == job'.ok
             S == {"path", "value", "checked", "committed", "returned", "ok"}
             T == {a, b, c, d, no, yes, ok}
             v == [w EXCEPT !.returned = yes, !.ok = ok]
  <2>3. w = [path |-> a, value |-> b, checked |-> c, committed |-> d,
             returned |-> no, ok |-> no]
    BY <1>6, <2>1, Zenon
  <2>4. u = [path |-> a, value |-> b, checked |-> c, committed |-> d,
             returned |-> yes, ok |-> ok]
    BY <1>5, <2>1, <2>2, Zenon
  <2>5. yes = TRUE  BY <2>2
  <2> HIDE DEF w, u, a, b, c, d, no, yes, ok
  <2>6. w.path = a /\ w.value = b /\ w.checked = c /\ w.committed = d  BY <2>3, Zenon
  <2>7. /\ u.path = a /\ u.value = b /\ u.checked = c /\ u.committed = d
        /\ u.returned = yes /\ u.ok = ok
    BY <2>4, Zenon
  <2>8. w \in [S -> T] /\ u \in [S -> T]  BY <2>3, <2>4, SMT
  <2>9. "returned" \in S /\ "ok" \in S /\ yes \in T /\ ok \in T  OBVIOUS
  <2>10. \A i \in S : i \in {"path", "value", "checked", "committed", "returned", "ok"}
    OBVIOUS
  <2> HIDE DEF S, T
  <2>11. /\ v \in [S -> T]
         /\ \A i \in S : v[i] = IF i = "ok" THEN ok ELSE IF i = "returned" THEN yes ELSE w[i]
    BY <2>8, <2>9, TwoUpdates, Zenon
  <2> HIDE DEF v
  <2>12. \A i \in S : v[i] = u[i]  BY <2>6, <2>7, <2>10, <2>11
  <2>13. u = v  BY <2>8, <2>11, <2>12, SMT
  <2> QED  BY <2>5, <2>13, Zenon DEF u, v, w, ok
<1>8. Work.value # None => job'.ok = Work.committed
  <2>1. job.value # None => job.kind # "remove"  BY DEF FilesInv, JobShape, Busy
  <2>2. Work.value = job.value /\ Work.committed = Committed  BY WorkFields
  <2> QED  BY <2>1, <2>2, Zenon
<1> QED  BY <1>1, <1>7, <1>8, SeenClears DEF Store!Return

\* Every step of a job but the commit.
LEMMA StepMaps ==
  ASSUME FilesInv, FilesTypeOK', Busy, Same, Others, Seen,
         \/ Busy' /\ Committed' = Committed
         \/ job'.at = "done" /\ (job.kind # "remove" => job'.ok = Committed)
  PROVE  Store!Next
BY JobGoesOn, Answers DEF Store!Next

-----------------------------------------------------------------------------
(* The entries and the job after one call of the file system.              *)

EntryNames == {"final", "tmp", "bak"}

LEMMA EntrySet ==
  ASSUME NEW r \in Entries, NEW entry \in EntryNames, NEW v \in Content
  PROVE  /\ [r EXCEPT ![entry] = v] \in Entries
         /\ [r EXCEPT ![entry] = v].final = IF entry = "final" THEN v ELSE r.final
         /\ [r EXCEPT ![entry] = v].tmp = IF entry = "tmp" THEN v ELSE r.tmp
         /\ [r EXCEPT ![entry] = v].bak = IF entry = "bak" THEN v ELSE r.bak
<1>1. CASE entry = "final"  BY <1>1 DEF Entries
<1>2. CASE entry = "tmp"  BY <1>2 DEF Entries
<1>3. CASE entry = "bak"  BY <1>3 DEF Entries
<1> QED  BY <1>1, <1>2, <1>3 DEF EntryNames

LEMMA SetsAt ==
  ASSUME fs \in [Paths -> Entries], here \in Paths,
         NEW entry \in EntryNames, NEW v \in Content, Sets(entry, v)
  PROVE  /\ fs' \in [Paths -> Entries] /\ Others /\ faults' = faults
         /\ fs'[here].final = IF entry = "final" THEN v ELSE fs[here].final
         /\ fs'[here].tmp = IF entry = "tmp" THEN v ELSE fs[here].tmp
         /\ fs'[here].bak = IF entry = "bak" THEN v ELSE fs[here].bak
<1>1. fs[here] \in Entries  OBVIOUS
<1>2. fs' = [fs EXCEPT ![here] = [fs[here] EXCEPT ![entry] = v]]  BY DEF Sets
<1> DEFINE r == [fs[here] EXCEPT ![entry] = v]
<1>3. /\ r \in Entries
      /\ r.final = IF entry = "final" THEN v ELSE fs[here].final
      /\ r.tmp = IF entry = "tmp" THEN v ELSE fs[here].tmp
      /\ r.bak = IF entry = "bak" THEN v ELSE fs[here].bak
  BY <1>1, EntrySet
<1> HIDE DEF r
<1>4. fs' = [fs EXCEPT ![here] = r]  BY <1>2 DEF r
<1>5. fs' \in [Paths -> Entries] /\ fs'[here] = r /\ Others
  BY <1>3, <1>4 DEF Others
<1> QED  BY <1>3, <1>5 DEF Sets, Works

LEMMA RenamesAt ==
  ASSUME fs \in [Paths -> Entries], here \in Paths,
         NEW from \in EntryNames, NEW to \in EntryNames \ {from}, Renames(from, to)
  PROVE  /\ fs' \in [Paths -> Entries] /\ Others /\ faults' = faults
         /\ fs'[here].final = IF to = "final" THEN fs[here][from]
                              ELSE IF from = "final" THEN None ELSE fs[here].final
         /\ fs'[here].tmp = IF to = "tmp" THEN fs[here][from]
                            ELSE IF from = "tmp" THEN None ELSE fs[here].tmp
         /\ fs'[here].bak = IF to = "bak" THEN fs[here][from]
                            ELSE IF from = "bak" THEN None ELSE fs[here].bak
<1>1. fs[here] \in Entries  OBVIOUS
<1>2. fs[here][from] \in Content
  BY <1>1 DEF Entries, EntryNames
<1> DEFINE q == [fs[here] EXCEPT ![to] = fs[here][from]]
           r == [q EXCEPT ![from] = None]
<1>3. fs' = [fs EXCEPT ![here] = r]
  BY <1>1 DEF Renames
<1>4. /\ q \in Entries
      /\ q.final = IF to = "final" THEN fs[here][from] ELSE fs[here].final
      /\ q.tmp = IF to = "tmp" THEN fs[here][from] ELSE fs[here].tmp
      /\ q.bak = IF to = "bak" THEN fs[here][from] ELSE fs[here].bak
  BY <1>1, <1>2, EntrySet
<1> HIDE DEF q
<1>5. /\ r \in Entries
      /\ r.final = IF from = "final" THEN None ELSE q.final
      /\ r.tmp = IF from = "tmp" THEN None ELSE q.tmp
      /\ r.bak = IF from = "bak" THEN None ELSE q.bak
  BY <1>4, EntrySet DEF Content
<1> HIDE DEF r
<1>6. fs' \in [Paths -> Entries] /\ fs'[here] = r /\ Others
  BY <1>3, <1>5 DEF Others
<1>7. faults' = faults  BY DEF Renames, Works
<1> QED  BY <1>4, <1>5, <1>6, <1>7 DEF EntryNames

LEMMA GotoAt ==
  ASSUME job \in Jobs, NEW at \in Ats, Goto(at)
  PROVE  job' \in Jobs /\ job'.at = at /\ job'.ok = job.ok /\ Same
BY DEF Goto, Jobs, Same

LEMMA ReturnsAt ==
  ASSUME job \in Jobs, NEW ok \in BOOLEAN, Returns(ok)
  PROVE  job' \in Jobs /\ job'.at = "done" /\ job'.ok = ok /\ Same
<1> DEFINE j == [job EXCEPT !.at = "done"]
<1>1. j \in Jobs /\ j.at = "done" /\ j.path = job.path /\ j.value = job.value
      /\ j.kind = job.kind
  BY DEF Jobs, Ats
<1>2. job' = [j EXCEPT !.ok = ok]  BY DEF Returns
<1> HIDE DEF j
<1>3. job' \in Jobs /\ job'.at = j.at /\ job'.ok = ok /\ job'.path = j.path
      /\ job'.value = j.value /\ job'.kind = j.kind
  BY <1>1, <1>2 DEF Jobs
<1> QED  BY <1>1, <1>3 DEF Same

\* What every lemma below knows of the state before its step.
LEMMA Before ==
  ASSUME FilesInv, Busy
  PROVE  /\ fs \in [Paths -> Entries] /\ here \in Paths /\ job \in Jobs /\ faults \in Nat
         /\ job.kind = "remove" <=> job.value = None
         /\ job.at \in Removing <=> job.kind = "remove"
         /\ EntriesFollow
BY DEF FilesInv, FilesTypeOK, JobShape, Busy, here

\* What they have to show of the state after it.
LEMMA After ==
  ASSUME FilesInv, Busy, Same, fs' \in [Paths -> Entries], job' \in Jobs, faults' \in Nat,
         job'.at # "idle",
         job'.at = "done" \/ (job'.at \in Removing <=> job.at \in Removing),
         EntriesFollow'
  PROVE  FilesInv'
<1>1. FilesTypeOK'  BY DEF FilesTypeOK
<1>2. JobShape'
  BY Before DEF FilesInv, JobShape, Removing, Busy, Same, here
<1> QED  BY <1>1, <1>2 DEF FilesInv

\* The entries r of the job's path show the store what Seen allows.
Shows(r) == IF r.final # None THEN r.final ELSE r.bak
Hides(r) == IF r.final # None THEN r.bak ELSE None
Sees(r) ==
  \/ Shows(r) = Visible(here) /\ Hides(r) \in {Behind(here), None}
  \/ job.value = None /\ Shows(r) = Behind(here) /\ Hides(r) = None

LEMMA SeesSeen == ASSUME Same, Sees(fs'[here]) PROVE Seen
BY DEF Sees, Seen, Shows, Hides, Visible, Behind, Same, here

\* A step in the middle, and the last one.
LEMMA JobMoves ==
  ASSUME FilesInv, Busy, fs' \in [Paths -> Entries], faults' \in Nat, Others, Sees(fs'[here]),
         NEW at \in Ats \ {"idle", "done"}, Goto(at),
         at \in Removing <=> job.at \in Removing, at # "cleanBak", job.at # "cleanBak",
         Follow(fs'[here], at)
  PROVE  FilesInv' /\ Store!Next
<1>1. job' \in Jobs /\ job'.at = at /\ Same  BY Before, GotoAt
<1>2. here' = here /\ EntriesFollow'
  BY <1>1 DEF EntriesFollow, Follow, Same, here, Unchecked
<1>3. FilesInv'  BY <1>1, <1>2, After
<1>4. Busy' /\ Committed' = Committed  BY <1>1 DEF Busy, Committed
<1> QED  BY <1>1, <1>3, <1>4, SeesSeen, StepMaps DEF FilesInv

LEMMA Finishes ==
  ASSUME FilesInv, Busy, fs' \in [Paths -> Entries], faults' \in Nat, Others, Sees(fs'[here]),
         NEW ok \in BOOLEAN, Returns(ok), job.kind # "remove" => ok = Committed
  PROVE  FilesInv' /\ Store!Next
<1>1. job' \in Jobs /\ job'.at = "done" /\ job'.ok = ok /\ Same  BY Before, ReturnsAt
<1>2. EntriesFollow'  BY <1>1 DEF EntriesFollow, Follow, Writing
<1>3. FilesInv'  BY <1>1, <1>2, After
<1> QED  BY <1>1, <1>3, SeesSeen, StepMaps DEF FilesInv

LEMMA Untouched ==
  ASSUME FilesInv, Busy, Fails \/ Skips
  PROVE  fs' = fs /\ fs' \in [Paths -> Entries] /\ faults' \in Nat /\ Others /\ Sees(fs'[here])
<1>1. fs' = fs /\ faults' \in Nat  BY Before DEF Fails, Skips
<1>2. Others  BY <1>1 DEF Others
<1>3. fs \in [Paths -> Entries] /\ here \in Paths  BY Before
<1>4. Sees(fs[here])  BY DEF Sees, Shows, Hides, Visible, Behind
<1> QED  BY <1>1, <1>2, <1>3, <1>4

LEMMA RemovesAt ==
  ASSUME FilesInv, Busy, NEW entry \in EntryNames, Removes(entry)
  PROVE  /\ fs' \in [Paths -> Entries] /\ faults' \in Nat /\ Others
         /\ \/ fs'[here] = fs[here]
            \/ /\ fs'[here].final = IF entry = "final" THEN None ELSE fs[here].final
               /\ fs'[here].tmp = IF entry = "tmp" THEN None ELSE fs[here].tmp
               /\ fs'[here].bak = IF entry = "bak" THEN None ELSE fs[here].bak
<1>1. CASE Sets(entry, None)
  BY <1>1, Before, SetsAt DEF Content
<1>2. CASE Fails \/ Skips
  BY <1>2, Untouched
<1> QED  BY <1>1, <1>2 DEF Removes

-----------------------------------------------------------------------------
(* Every call of the file system, one by one.                              *)

LEMMA OpenMaps == ASSUME FilesInv, Open PROVE FilesInv' /\ Store!Next
<1>1. Busy /\ job.at = "open" /\ job.at \notin Removing  BY DEF Busy, Open, Removing
<1>2. CASE Sets("tmp", Partial) /\ Goto("fill")
  <2>1. /\ fs' \in [Paths -> Entries] /\ Others /\ faults' = faults
        /\ fs'[here].final = fs[here].final /\ fs'[here].bak = fs[here].bak
        /\ fs'[here].tmp = Partial
    BY <1>1, <1>2, Before, SetsAt DEF EntryNames, Content
  <2>2. Sees(fs'[here])  BY <2>1 DEF Sees, Shows, Hides, Visible, Behind
  <2>3. Follow(fs'[here], "fill")  BY <2>1 DEF Follow, Writing
  <2> QED  BY <1>1, <1>2, <2>1, <2>2, <2>3, Before, JobMoves DEF Ats, Removing
<1>3. CASE Fails /\ Returns(FALSE)
  BY <1>1, <1>3, Untouched, Finishes DEF Committed
<1> QED  BY <1>2, <1>3 DEF Open

LEMMA FillMaps == ASSUME FilesInv, Fill PROVE FilesInv' /\ Store!Next
<1>1. Busy /\ job.at = "fill" /\ job.at \notin Removing  BY DEF Busy, Fill, Removing
<1>2. fs[here].tmp = Partial  BY <1>1, Before DEF EntriesFollow, Follow
<1>3. CASE Sets("tmp", job.value) /\ Goto("settle")
  <2>1. /\ fs' \in [Paths -> Entries] /\ Others /\ faults' = faults
        /\ fs'[here].final = fs[here].final /\ fs'[here].bak = fs[here].bak
        /\ fs'[here].tmp = job.value
    BY <1>1, <1>3, Before, SetsAt DEF EntryNames, Jobs
  <2>2. Sees(fs'[here])  BY <2>1 DEF Sees, Shows, Hides, Visible, Behind
  <2>3. Follow(fs'[here], "settle")  BY <2>1 DEF Follow
  <2> QED  BY <1>1, <1>3, <2>1, <2>2, <2>3, Before, JobMoves DEF Ats, Removing, Writing
<1>4. CASE Fails /\ Goto("dropTmp")
  <2>1. Follow(fs[here], "dropTmp")  BY DEF Follow, Writing
  <2> QED  BY <1>1, <1>4, <2>1, Untouched, JobMoves DEF Ats, Removing
<1>5. CASE Unchecked /\ Fails /\ Goto("settle")
  <2>1. Follow(fs[here], "settle")  BY <1>2, <1>5 DEF Follow
  <2> QED  BY <1>1, <1>5, <2>1, Untouched, JobMoves DEF Ats, Removing, Writing
<1> QED  BY <1>3, <1>4, <1>5 DEF Fill

LEMMA SettleMaps == ASSUME FilesInv, Settle PROVE FilesInv' /\ Store!Next
<1>1. Busy /\ job.at = "settle" /\ job.at \notin Removing  BY DEF Busy, Settle, Removing
<1>2. fs[here].tmp = job.value \/ (Unchecked /\ fs[here].tmp = Partial)
  BY <1>1, Before DEF EntriesFollow, Follow, Writing
<1>3. CASE ~Has("final") /\ Has("bak") /\ Renames("bak", "final") /\ Goto("dropBak")
  <2>1. /\ fs' \in [Paths -> Entries] /\ Others /\ faults' = faults
        /\ fs'[here].final = fs[here].bak /\ fs'[here].bak = None
        /\ fs'[here].tmp = fs[here].tmp
    BY <1>1, <1>3, Before, RenamesAt DEF EntryNames
  <2>2. fs[here].final = None /\ fs[here].bak # None  BY <1>3 DEF Has
  <2>3. Sees(fs'[here])  BY <2>1, <2>2 DEF Sees, Shows, Hides, Visible, Behind
  <2>4. Follow(fs'[here], "dropBak")  BY <1>2, <2>1 DEF Follow
  <2> QED  BY <1>1, <1>3, <2>1, <2>3, <2>4, Before, JobMoves DEF Ats, Removing, Writing
<1>4. CASE Fails /\ Goto("dropTmp")
  <2>1. Follow(fs[here], "dropTmp")  BY DEF Follow, Writing
  <2> QED  BY <1>1, <1>4, <2>1, Untouched, JobMoves DEF Ats, Removing
<1>5. CASE ~(~Has("final") /\ Has("bak")) /\ Skips /\ Goto("dropBak")
  <2>1. Follow(fs[here], "dropBak")  BY <1>2, <1>5 DEF Follow, Has
  <2> QED  BY <1>1, <1>5, <2>1, Untouched, JobMoves DEF Ats, Removing, Writing
<1> QED  BY <1>3, <1>4, <1>5 DEF Settle

LEMMA DropBakMaps == ASSUME FilesInv, DropBak PROVE FilesInv' /\ Store!Next
<1>1. Busy /\ job.at = "dropBak" /\ job.at \notin Removing  BY DEF Busy, DropBak, Removing
<1>2. /\ fs[here].tmp = job.value \/ (Unchecked /\ fs[here].tmp = Partial)
      /\ fs[here].final # None \/ fs[here].bak = None
  BY <1>1, Before DEF EntriesFollow, Follow, Writing
<1>3. /\ fs' \in [Paths -> Entries] /\ faults' \in Nat /\ Others
      /\ fs'[here].final = fs[here].final /\ fs'[here].tmp = fs[here].tmp
      /\ fs'[here].bak \in {fs[here].bak, None}
  BY <1>1, RemovesAt DEF DropBak, EntryNames
<1>4. Sees(fs'[here])  BY <1>2, <1>3 DEF Sees, Shows, Hides, Visible, Behind
<1>5. Follow(fs'[here], "toBak")  BY <1>2, <1>3 DEF Follow
<1> QED  BY <1>1, <1>3, <1>4, <1>5, JobMoves DEF DropBak, Ats, Removing, Writing

LEMMA ToBakMaps == ASSUME FilesInv, ToBak PROVE FilesInv' /\ Store!Next
<1>1. Busy /\ job.at = "toBak" /\ job.at \notin Removing  BY DEF Busy, ToBak, Removing
<1>2. /\ fs[here].tmp = job.value \/ (Unchecked /\ fs[here].tmp = Partial)
      /\ fs[here].final # None \/ fs[here].bak = None
  BY <1>1, Before DEF EntriesFollow, Follow, Writing
<1>3. CASE Has("final") /\ Renames("final", "bak") /\ Goto("toFinal")
  <2>1. /\ fs' \in [Paths -> Entries] /\ Others /\ faults' = faults
        /\ fs'[here].bak = fs[here].final /\ fs'[here].final = None
        /\ fs'[here].tmp = fs[here].tmp
    BY <1>1, <1>3, Before, RenamesAt DEF EntryNames
  <2>2. fs[here].final # None  BY <1>3 DEF Has
  <2>3. Sees(fs'[here])  BY <2>1, <2>2 DEF Sees, Shows, Hides, Visible, Behind
  <2>4. Follow(fs'[here], "toFinal")  BY <1>2, <2>1 DEF Follow
  <2> QED  BY <1>1, <1>3, <2>1, <2>3, <2>4, Before, JobMoves DEF Ats, Removing, Writing
<1>4. CASE Fails /\ Goto("dropTmp")
  <2>1. Follow(fs[here], "dropTmp")  BY DEF Follow, Writing
  <2> QED  BY <1>1, <1>4, <2>1, Untouched, JobMoves DEF Ats, Removing
<1>5. CASE ~Has("final") /\ Skips /\ Goto("toFinal")
  <2>1. Follow(fs[here], "toFinal")  BY <1>2, <1>5 DEF Follow, Has
  <2> QED  BY <1>1, <1>5, <2>1, Untouched, JobMoves DEF Ats, Removing, Writing
<1> QED  BY <1>3, <1>4, <1>5 DEF ToBak

\* The rename that makes the new content visible.
LEMMA CommitMaps ==
  ASSUME FilesInv, job.at = "toFinal", Renames("tmp", "final"), Goto("cleanBak")
  PROVE  FilesInv' /\ Store!Next
<1>1. Busy /\ job.at \notin Removing /\ job.kind # "remove"
  BY Before DEF Busy, Removing
<1>2. /\ fs[here].tmp = job.value \/ (Unchecked /\ fs[here].tmp = Partial)
      /\ fs[here].final = None /\ job.value # None
  BY <1>1, Before DEF EntriesFollow, Follow, Writing
<1>3. /\ fs' \in [Paths -> Entries] /\ Others /\ faults' = faults
      /\ fs'[here].final = fs[here].tmp /\ fs'[here].tmp = None
      /\ fs'[here].bak = fs[here].bak
  BY <1>1, Before, RenamesAt DEF EntryNames
<1>4. job' \in Jobs /\ job'.at = "cleanBak" /\ Same
  BY <1>1, Before, GotoAt DEF Ats
<1>5. here' = here /\ fs'[here].final # None
  BY <1>2, <1>3, <1>4, ContentAssumption DEF Same, here
<1>6. FilesInv'
  <2>1. EntriesFollow'  BY <1>4, <1>5 DEF EntriesFollow, Follow, Writing
  <2> QED  BY <1>1, <1>3, <1>4, <2>1, Before, After DEF Removing
<1>7. Store!Running
  BY <1>1, WorkFields, Before, ContentAssumption DEF Store!Running
<1>8. Committed = FALSE /\ Committed' = TRUE
  BY <1>1, <1>4 DEF Committed, Same
<1>9. /\ StoreBar' = [StoreBar EXCEPT ![Work.path] = fs[here].tmp]
      /\ StaleBar' = [StaleBar EXCEPT ![Work.path] = fs[here].bak]
      /\ StoreBar[Work.path] = fs[here].bak
  <2>1. /\ Visible(here)' = fs[here].tmp /\ Behind(here)' = fs[here].bak
        /\ Visible(here) = fs[here].bak
    BY <1>2, <1>3, <1>5 DEF Visible, Behind
  <2>2. FilesTypeOK'  BY <1>6 DEF FilesInv
  <2> QED  BY <1>1, <1>3, <1>4, <2>1, <2>2, MapAt, WorkFields
<1>10. Work' = [Work EXCEPT !.committed = TRUE]
  <2>1. job'.at # "idle" /\ (job'.at = "done") = FALSE
        /\ (job'.at = "done" /\ job'.ok) = FALSE
    BY <1>4
  <2>2. Work' = [path |-> here', value |-> job.value', checked |-> (~Unchecked)',
                 committed |-> Committed', returned |-> job'.at = "done",
                 ok |-> job'.at = "done" /\ job'.ok]
    BY <2>1 DEF Work
  <2>3. job.value' = job.value /\ (~Unchecked)' = ~Unchecked
    BY <1>4 DEF Same, Unchecked
  <2>4. Work' = [path |-> here, value |-> job.value, checked |-> ~Unchecked,
                 committed |-> TRUE, returned |-> FALSE, ok |-> FALSE]
    BY <1>5, <1>8, <2>1, <2>2, <2>3, Zenon
  <2>5. Work = [path |-> here, value |-> job.value, checked |-> ~Unchecked,
                committed |-> FALSE, returned |-> FALSE, ok |-> FALSE]
    BY <1>1, <1>8, WorkFields, Zenon
  <2> DEFINE w == Work
             u == Work'
             c == Work.checked
             no == FALSE
             yes == TRUE
  <2>6. c = ~Unchecked  BY <2>5, Zenon
  <2>7. u = [path |-> here, value |-> job.value, checked |-> c,
             committed |-> yes, returned |-> no, ok |-> no]
    BY <2>4, <2>6, Zenon
  <2>8. w = [path |-> here, value |-> job.value, checked |-> c,
             committed |-> no, returned |-> no, ok |-> no]
    BY <2>5, <2>6, Zenon
  <2> HIDE DEF w, u, c, no, yes
  <2>9. u = [w EXCEPT !.committed = yes]  BY <2>7, <2>8
  <2> QED  BY <2>9, Zenon DEF w, u, yes
<1>11. Work.value = job.value /\ Work.checked = ~Unchecked /\ Work.committed = FALSE
  BY <1>1, <1>8, WorkFields, Zenon
<1>12. Store!Commit
  <2>1. \E v \in {Work.value, Partial} :
          (Work.checked => v = Work.value) /\ StoreBar' = Store!Set(StoreBar, v)
    BY <1>2, <1>9, <1>11 DEF Store!Set
  <2>2. \E old \in {StoreBar[Work.path], None} : StaleBar' = Store!Set(StaleBar, old)
    BY <1>9 DEF Store!Set
  <2> QED  BY <1>2, <1>7, <1>10, <1>11, <2>1, <2>2 DEF Store!Commit, StoreBar, StaleBar
<1> QED  BY <1>6, <1>12 DEF Store!Next

LEMMA ToFinalMaps == ASSUME FilesInv, ToFinal PROVE FilesInv' /\ Store!Next
<1>1. Busy /\ job.at = "toFinal" /\ job.at \notin Removing  BY DEF Busy, ToFinal, Removing
<1>2. CASE Renames("tmp", "final") /\ Goto("cleanBak")
  BY <1>1, <1>2, CommitMaps
<1>3. CASE Fails /\ Goto("undo")
  <2>1. Follow(fs[here], "undo")
    BY <1>1, Before DEF EntriesFollow, Follow, Writing
  <2> QED  BY <1>1, <1>3, <2>1, Untouched, JobMoves DEF Ats, Removing
<1> QED  BY <1>2, <1>3 DEF ToFinal

LEMMA UndoMaps == ASSUME FilesInv, Undo PROVE FilesInv' /\ Store!Next
<1>1. Busy /\ job.at = "undo" /\ job.at \notin Removing /\ Goto("dropTmp")
  BY DEF Busy, Undo, Removing
<1>2. \A r : Follow(r, "dropTmp")  BY DEF Follow, Writing
<1>3. CASE Renames("bak", "final")
  <2>1. /\ fs' \in [Paths -> Entries] /\ Others /\ faults' = faults
        /\ fs'[here].final = fs[here].bak /\ fs'[here].bak = None
    BY <1>1, <1>3, Before, RenamesAt DEF EntryNames
  <2>2. fs[here].final = None  BY <1>1, Before DEF EntriesFollow, Follow
  <2>3. Sees(fs'[here])  BY <2>1, <2>2 DEF Sees, Shows, Hides, Visible, Behind
  <2> QED  BY <1>1, <1>2, <2>1, <2>3, Before, JobMoves DEF Ats, Removing
<1>4. CASE Fails \/ Skips
  BY <1>1, <1>2, <1>4, Untouched, JobMoves DEF Ats, Removing
<1> QED  BY <1>3, <1>4 DEF Undo

LEMMA DropTmpMaps == ASSUME FilesInv, DropTmp PROVE FilesInv' /\ Store!Next
<1>1. Busy /\ job.at = "dropTmp" /\ Returns(FALSE)  BY DEF Busy, DropTmp
<1>2. /\ fs' \in [Paths -> Entries] /\ faults' \in Nat /\ Others
      /\ fs'[here].final = fs[here].final /\ fs'[here].bak = fs[here].bak
  BY <1>1, RemovesAt DEF DropTmp, EntryNames
<1>3. Sees(fs'[here])  BY <1>2 DEF Sees, Shows, Hides, Visible, Behind
<1> QED  BY <1>1, <1>2, <1>3, Finishes DEF Committed

LEMMA CleanBakMaps == ASSUME FilesInv, CleanBak PROVE FilesInv' /\ Store!Next
<1>1. Busy /\ job.at = "cleanBak" /\ Returns(TRUE)  BY DEF Busy, CleanBak
<1>2. fs[here].final # None  BY <1>1, Before DEF EntriesFollow, Follow
<1>3. /\ fs' \in [Paths -> Entries] /\ faults' \in Nat /\ Others
      /\ fs'[here].final = fs[here].final /\ fs'[here].bak \in {fs[here].bak, None}
  BY <1>1, RemovesAt DEF CleanBak, EntryNames
<1>4. Sees(fs'[here])  BY <1>2, <1>3 DEF Sees, Shows, Hides, Visible, Behind
<1> QED  BY <1>1, <1>3, <1>4, Finishes DEF Committed

LEMMA RemoveAt ==
  ASSUME job \in Jobs, NEW at, NEW entry, NEW next \in Ats, RemoveEntry(at, entry, next)
  PROVE  job' \in Jobs /\ job'.at = next /\ Same
<1> DEFINE j == [job EXCEPT !.at = next]
           ok == job.ok \/ fs' # fs
<1>1. j \in Jobs /\ j.at = next /\ j.path = job.path /\ j.value = job.value
      /\ j.kind = job.kind
  BY DEF Jobs
<1>2. job' = [j EXCEPT !.ok = ok]  BY DEF RemoveEntry
<1>3. ok \in BOOLEAN  OBVIOUS
<1> HIDE DEF j, ok
<1>4. job' \in Jobs /\ job'.at = j.at /\ job'.path = j.path
      /\ job'.value = j.value /\ job'.kind = j.kind
  BY <1>1, <1>2, <1>3 DEF Jobs
<1> QED  BY <1>1, <1>4 DEF Same

LEMMA RemovalMaps ==
  ASSUME FilesInv, NEW at \in Removing, NEW entry \in EntryNames, NEW next \in Removing \cup {"done"},
         RemoveEntry(at, entry, next)
  PROVE  FilesInv' /\ Store!Next
<1>1. /\ Busy /\ job.at = at /\ job.kind = "remove" /\ job.value = None
      /\ job \in Jobs /\ Removes(entry) /\ job' \in Jobs /\ job'.at = next /\ Same
  BY Before, RemoveAt DEF Busy, RemoveEntry, Removing, Ats
<1>2. /\ fs' \in [Paths -> Entries] /\ faults' \in Nat /\ Others
      /\ \/ fs'[here] = fs[here]
         \/ /\ fs'[here].final = IF entry = "final" THEN None ELSE fs[here].final
            /\ fs'[here].bak = IF entry = "bak" THEN None ELSE fs[here].bak
  BY <1>1, RemovesAt
<1>3. Sees(fs'[here])
  BY <1>1, <1>2 DEF Sees, Shows, Hides, Visible, Behind, EntryNames
<1>4. FilesInv'
  <2>1. EntriesFollow'  BY <1>1 DEF EntriesFollow, Follow, Writing, Removing
  <2> QED  BY <1>1, <1>2, <2>1, After DEF Removing
<1>5. next = "done" \/ (Busy' /\ Committed' = Committed)
  BY <1>1 DEF Busy, Committed, Removing, Same
<1> QED  BY <1>1, <1>2, <1>3, <1>4, <1>5, SeesSeen, StepMaps DEF FilesInv

LEMMA FileStepMaps == ASSUME FilesInv, FileStep PROVE FilesInv' /\ Store!Next
<1>1. RmFinal \/ RmTmp \/ RmBak => FilesInv' /\ Store!Next
  BY RemovalMaps DEF RmFinal, RmTmp, RmBak, Removing, EntryNames
<1> QED
  BY <1>1, OpenMaps, FillMaps, SettleMaps, DropBakMaps, ToBakMaps, ToFinalMaps, UndoMaps,
     DropTmpMaps, CleanBakMaps DEF FileStep

-----------------------------------------------------------------------------
(* The refinement.                                                         *)

LEMMA InitMaps == FilesInit => Store!Init
BY ContentAssumption
   DEF FilesInit, Store!Init, Store!Content, Store!NoWork, NoJob, Work, Visible, Behind

storeVars == <<StoreBar, StaleBar, Work>>

\* A caller may start and read what it likes; a job may end anywhere.
LEMMA CallerMaps ==
  ASSUME FilesInv, AnyCaller
  PROVE  FilesInv' /\ (Store!Next \/ UNCHANGED storeVars)
<1>1. ASSUME NEW path \in Paths, NEW v \in Values \cup {Partial},
             NEW kind \in Kinds \ {"remove"}, Starts(path, v, kind), Looks
      PROVE  FilesInv' /\ Store!Next
  <2>1. v \in Content /\ v # None /\ kind \in Kinds
    BY ContentAssumption DEF Content
  <2>2. FilesInv' /\ Store!Begin(path, v, kind \notin {"config", "copy"})
    BY <1>1, <2>1, StartKeeps
  <2> QED  BY <2>1, <2>2 DEF Store!Next, Store!Content, Content
<1>2. ASSUME NEW path \in Paths, Starts(path, None, "remove"), Looks
      PROVE  FilesInv' /\ Store!Next
  <2>1. FilesInv' /\ Store!Begin(path, None, "remove" \notin {"config", "copy"})
    BY <1>2, StartKeeps DEF Content, Kinds
  <2> QED  BY <2>1 DEF Store!Next, Store!Content
<1>3. ASSUME job.at = "idle", Looks, UNCHANGED job
      PROVE  FilesInv' /\ UNCHANGED storeVars
  BY <1>3, ReadKeeps DEF storeVars, StoreBar, StaleBar
<1>4. ASSUME Ends, Skips PROVE FilesInv' /\ Store!Next
  BY <1>4, EndKeeps DEF Skips, Store!Next, FilesInv, FilesTypeOK
<1> QED  BY <1>1, <1>2, <1>3, <1>4 DEF AnyCaller

LEMMA NextMaps ==
  ASSUME FilesInv, [FilesNext]_files
  PROVE  FilesInv' /\ (Store!Next \/ UNCHANGED storeVars)
<1>1. CASE UNCHANGED files
  <2>1. FilesInv'
    BY <1>1 DEF files, FilesInv, FilesTypeOK, JobShape, EntriesFollow, Follow, here, Unchecked
  <2> QED  BY <1>1, <2>1 DEF files, storeVars, StoreBar, StaleBar, Visible, Behind, Work,
              Committed, Unchecked, here
<1> QED  BY <1>1, FileStepMaps, CallerMaps DEF FilesNext

\* The inductive invariant: at each step of replaceFileAtomic and removeBlob the
\* entries of a path hold what that step of the job leaves there, and nothing
\* else, whichever calls fail and whenever the device resets.
THEOREM FilesInvariance == FilesSpec => []FilesInv
<1>1. FilesInv /\ [FilesNext]_files => FilesInv'  BY NextMaps
<1> QED  BY FilesInitInv, <1>1, PTL DEF FilesSpec

\* Under any caller the three renames of replaceFileAtomic are one atomic
\* change of the visible file: each step of the files is a step of FileStore
\* or a stutter.
THEOREM FilesImplementStore == FilesSpec => ImplementsFileStore
<1>1. FilesInv /\ [FilesNext]_files
        => [Store!Next]_<<[path \in Paths |-> Visible(path)],
                          [path \in Paths |-> Behind(path)], Work>>
  BY NextMaps DEF storeVars, StoreBar, StaleBar
<1> QED  BY InitMaps, <1>1, FilesInvariance, PTL
         DEF FilesSpec, ImplementsFileStore, Store!Spec
=============================================================================
