------------------------------ MODULE AtomicFiles ------------------------------
(***************************************************************************)
(* The file calls of StorageManager.cpp on LittleFS.  A path has three     *)
(* directory entries: the file, its .tmp and its .bak.  Every action is    *)
(* one call of the file system that changes an entry, and it may fail; a   *)
(* reset may come between any two.  One job runs at a time: the files it   *)
(* stands for, the configuration and its last known good copy, are written *)
(* under persistence_mutex_, while the certificates, which are not, are    *)
(* those of StorageManager.  A caller starts a job, the job's steps run,   *)
(* the caller reads job.ok.  Opening and reading a file change nothing.    *)
(* LittleFS itself is external: a rename replaces its target in one step.  *)
(***************************************************************************)
EXTENDS Naturals

CONSTANTS Paths, Values,
          None,        \* no such entry
          Partial,     \* an entry whose content was cut short
          MaxFaults    \* bound: calls of the file system that fail

ASSUME ContentAssumption ==
  None \notin Values \cup {Partial} /\ Partial \notin Values /\ None \notin Paths
ASSUME FaultsAssumption == MaxFaults \in Nat

Content == Values \cup {None, Partial}

VARIABLES
  fs,      \* the three entries of each path
  job,     \* the file call in progress
  faults   \* what MaxFaults bounds

files == <<fs, job, faults>>

NoJob == [at |-> "idle", path |-> None, value |-> None, kind |-> "text", ok |-> FALSE]

Kinds == {"text", "config", "copy", "remove"}

FilesInit ==
  /\ fs \in [Paths -> [final : Values \cup {None}, tmp : {None}, bak : {None}]]
  /\ job = NoJob /\ faults = 0

here == job.path
Has(entry) == fs[here][entry] # None
Visible(path) == IF fs[path].final # None THEN fs[path].final ELSE fs[path].bak

Goto(at) == job' = [job EXCEPT !.at = at]
Returns(ok) == job' = [job EXCEPT !.at = "done", !.ok = ok]
Works == UNCHANGED faults
Fails == faults < MaxFaults /\ faults' = faults + 1 /\ UNCHANGED fs

Sets(entry, v) == fs' = [fs EXCEPT ![here][entry] = v] /\ Works
Renames(from, to) ==
  fs' = [fs EXCEPT ![here][to] = fs[here][from], ![here][from] = None] /\ Works
Skips == UNCHANGED <<fs, faults>>

-----------------------------------------------------------------------------
(* recoverFileAtomic, as every reader calls it first.                      *)

Recovered(path) ==
  IF fs[path].final = None /\ fs[path].bak # None
    THEN [fs EXCEPT ![path].final = fs[path].bak, ![path].bak = None] ELSE fs

\* what the reader finds: None also when the rename or the open fails
Reads(path, found) ==
  \/ fs' = Recovered(path) /\ found = Visible(path) /\ Works
  \/ Visible(path) # None /\ found = None /\ Fails

-----------------------------------------------------------------------------
(* saveBlobAtomic, saveTextAtomic, saveConfigInternal, copyFileAtomic.     *)

Starts(path, v, kind) ==
  /\ job.at = "idle"
  /\ job' = [at |-> IF kind = "remove" THEN "rmFinal" ELSE "open",
             path |-> path, value |-> v, kind |-> kind, ok |-> FALSE]

Open ==
  /\ job.at = "open"
  /\ \/ Sets("tmp", Partial) /\ Goto("fill")
     \/ Fails /\ Returns(FALSE)

\* a short write is noticed by its length; but serializeJson() is asked only
\* whether it wrote nothing, and a read that yields nothing ends the copy
Unchecked == job.kind \in {"config", "copy"}

Fill ==
  /\ job.at = "fill"
  /\ \/ Sets("tmp", job.value) /\ Goto("settle")
     \/ Fails /\ Goto("dropTmp")
     \/ Unchecked /\ Fails /\ Goto("settle")

-----------------------------------------------------------------------------
(* replaceFileAtomic.                                                      *)

Settle ==
  /\ job.at = "settle"
  /\ IF ~Has("final") /\ Has("bak")
       THEN \/ Renames("bak", "final") /\ Goto("dropBak")
            \/ Fails /\ Goto("dropTmp")
       ELSE Skips /\ Goto("dropBak")

Removes(entry) == IF Has(entry) THEN Sets(entry, None) \/ Fails ELSE Skips

DropBak == job.at = "dropBak" /\ Removes("bak") /\ Goto("toBak")

ToBakRemoves ==       \* mutant: the old file is removed, not kept as .bak
  /\ job.at = "toBak"
  /\ IF Has("final") THEN Sets("final", None) ELSE Skips
  /\ Goto("toFinal")

ToBak ==
  /\ job.at = "toBak"
  /\ IF Has("final")
       THEN \/ Renames("final", "bak") /\ Goto("toFinal")
            \/ Fails /\ Goto("dropTmp")
       ELSE Skips /\ Goto("toFinal")

ToFinal ==
  /\ job.at = "toFinal"
  /\ \/ Renames("tmp", "final") /\ Goto("cleanBak")
     \/ Fails /\ Goto("undo")

Undo ==
  /\ job.at = "undo" /\ Goto("dropTmp")
  /\ IF Has("bak") THEN Renames("bak", "final") \/ Fails ELSE Skips

DropTmp == job.at = "dropTmp" /\ Removes("tmp") /\ Returns(FALSE)

CleanBak == job.at = "cleanBak" /\ Removes("bak") /\ Returns(TRUE)

-----------------------------------------------------------------------------
(* removeBlob: the answer tells whether any of the three entries went.     *)

RemoveEntry(at, entry, next) ==
  /\ job.at = at /\ Removes(entry)
  /\ job' = [job EXCEPT !.at = next, !.ok = job.ok \/ fs' # fs]

RmFinal == RemoveEntry("rmFinal", "final", "rmTmp")
RmTmp == RemoveEntry("rmTmp", "tmp", "rmBak")
RmBak == RemoveEntry("rmBak", "bak", "done")

FileStep ==
  \/ Open \/ Fill
  \/ Settle \/ DropBak \/ ToBak \/ ToFinal \/ Undo \/ DropTmp \/ CleanBak
  \/ RmFinal \/ RmTmp \/ RmBak

\* the caller has read the answer, or a reset ended the call
Ends == job' = NoJob

-----------------------------------------------------------------------------
(* The files on their own, under any caller.                               *)

Looks == Skips \/ \E path \in Paths, found \in Content : Reads(path, found)

AnyCaller ==
  \/ \E path \in Paths, v \in Values \cup {Partial}, kind \in Kinds \ {"remove"} :
       Starts(path, v, kind) /\ Looks
  \/ \E path \in Paths : Starts(path, None, "remove") /\ Looks
  \/ job.at = "idle" /\ Looks /\ UNCHANGED job
  \/ Ends /\ Skips

FilesNext == FileStep \/ AnyCaller

FilesSpec == FilesInit /\ [][FilesNext]_files

Behind(path) == IF fs[path].final # None THEN fs[path].bak ELSE None

Committed ==
  job.kind # "remove" /\ (job.at = "cleanBak" \/ (job.at = "done" /\ job.ok))

Work ==
  IF job.at = "idle"
    THEN [path |-> None, value |-> None, checked |-> FALSE, committed |-> FALSE,
          returned |-> FALSE, ok |-> FALSE]
    ELSE [path |-> here, value |-> job.value, checked |-> ~Unchecked,
          committed |-> Committed, returned |-> job.at = "done",
          ok |-> job.at = "done" /\ job.ok]

\* The renames implement a store whose saves are atomic.
Store == INSTANCE FileStore WITH
  store <- [path \in Paths |-> Visible(path)],
  stale <- [path \in Paths |-> Behind(path)],
  work  <- Work

\* Every save is all or nothing at whatever step it fails or the power goes,
\* its answer is the truth, and only an interrupted removal can bring back the
\* value that a save had replaced.
ImplementsFileStore == Store!Spec
=============================================================================
