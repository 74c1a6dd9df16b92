---------------------------- MODULE RequestReply ----------------------------
(***************************************************************************)
(* What the web/UI bridge promises each caller, with no channel, token or  *)
(* id in sight.  A request is open until the UI takes it or its caller     *)
(* gives up; a request that was taken is applied once and then answered;   *)
(* a request that was cancelled is never applied.                          *)
(***************************************************************************)
CONSTANT Tickets            \* the requests

VARIABLE status             \* Tickets -> how far the request got

Stages == {"unused", "open", "taken", "applied", "answered", "cancelled"}

TypeOK == status \in [Tickets -> Stages]

Init == status = [t \in Tickets |-> "unused"]

Move(t, from, to) == /\ status[t] = from
                     /\ status' = [status EXCEPT ![t] = to]

Open(t)   == Move(t, "unused", "open")
Take(t)   == Move(t, "open", "taken")
Cancel(t) == Move(t, "open", "cancelled")
Apply(t)  == Move(t, "taken", "applied")
Answer(t) == Move(t, "applied", "answered")

Next == \E t \in Tickets :
          Open(t) \/ Take(t) \/ Cancel(t) \/ Apply(t) \/ Answer(t)

Spec == Init /\ [][Next]_status
=============================================================================
