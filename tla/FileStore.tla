------------------------------- MODULE FileStore -------------------------------
(***************************************************************************)
(* What the files of the device promise to their callers: one call at a    *)
(* time; a save takes effect at once or not at all, and its answer says    *)
(* which; a reset in the middle of a call ends it wherever it is.  One     *)
(* value that a save replaced may outlive it (stale), and only a removal   *)
(* can bring it back.  AtomicFiles implements this with renames.           *)
(***************************************************************************)
CONSTANTS Paths, Values, None, Partial

Content == Values \cup {None, Partial}    \* Partial: cut short

VARIABLES
  store,   \* what a reader finds at each path
  stale,   \* the replaced value that is still on the disk
  work     \* the call in progress, and its answer

NoWork == [path |-> None, value |-> None, checked |-> FALSE, committed |-> FALSE,
           returned |-> FALSE, ok |-> FALSE]

Init ==
  /\ store \in [Paths -> Content] /\ stale \in [Paths -> Content]
  /\ work = NoWork

Set(f, v) == [f EXCEPT ![work.path] = v]

\* checked: the caller notices a write that is cut short
Begin(p, v, checked) ==
  /\ work.path = None
  /\ work' = [path |-> p, value |-> v, checked |-> checked, committed |-> FALSE,
              returned |-> FALSE, ok |-> FALSE]
  /\ UNCHANGED <<store, stale>>

Running == work.path # None /\ ~work.returned

Commit ==
  /\ Running /\ work.value # None /\ ~work.committed
  /\ \E v \in {work.value, Partial} :
       (work.checked => v = work.value) /\ store' = Set(store, v)
  /\ \E old \in {store[work.path], None} : stale' = Set(stale, old)
  /\ work' = [work EXCEPT !.committed = TRUE]

\* what a save replaced is forgotten; a removal takes the path back to it
Forgets == stale' = Set(stale, None) /\ UNCHANGED store
Removes ==
  /\ work.value = None
  /\ store' = Set(store, stale[work.path]) /\ stale' = Set(stale, None)
Clears == UNCHANGED <<store, stale>> \/ Forgets \/ Removes

Clean == Running /\ Clears /\ UNCHANGED work

Return ==
  /\ Running /\ Clears
  /\ \E ok \in BOOLEAN :
       /\ work.value # None => ok = work.committed
       /\ work' = [work EXCEPT !.returned = TRUE, !.ok = ok]

End == work' = NoWork /\ UNCHANGED <<store, stale>>

Next ==
  \/ End \/ Commit \/ Clean \/ Return
  \/ \E p \in Paths, v \in Content, checked \in BOOLEAN : Begin(p, v, checked)

Spec == Init /\ [][Next]_<<store, stale, work>>
=============================================================================
