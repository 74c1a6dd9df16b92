----------------------------- MODULE WebUiBridge -----------------------------
(***************************************************************************)
(* src/src/web/WebUiBridge.cpp: the rendezvous between the HTTP server     *)
(* task, which calls apply*(), and the main task, whose UiController polls *)
(* consumePending*() and answers with completePending*().  Six channels    *)
(* (settings, theme, DAC action, DAC auto, Wi-Fi save, MQTT save) have the *)
(* same code; here they are 1..NumChannels in the order the UI scans them. *)
(*                                                                         *)
(* Every block of code between lock() and unlock() is one action, and so   *)
(* is every wait on a reply semaphore.  An update is identified with the   *)
(* ticket of the call that posted it, and a result with the ticket of the  *)
(* update it was computed from, so a reply that reaches the wrong caller   *)
(* is visible.  The firmware calls setDispatchMode(DeferredReply) before   *)
(* it starts the network, so only that mode is modelled; a call refused    *)
(* with 503 because the channel is not idle changes nothing and is a       *)
(* stuttering step.                                                        *)
(***************************************************************************)
EXTENDS Naturals

CONSTANTS Clients,       \* tasks that call apply*()
          NumChannels,   \* channels, numbered in scan order
          IdSpace,       \* request ids are uint32_t: counted modulo IdSpace
          MaxTickets     \* bound on the calls accepted in one behaviour

ASSUME ChannelsAssumption == NumChannels \in Nat \ {0}
ASSUME IdSpaceAssumption == IdSpace \in Nat \ {0}
ASSUME MaxTicketsAssumption == MaxTickets \in Nat

Channels == 1 .. NumChannels
Tickets  == 1 .. MaxTickets
Ids      == 0 .. IdSpace - 1

RequestStates == {"Idle", "Queued", "InFlight", "Completed"}
WakePhases    == {"Idle", "PreQuiet", "Closed"}
NoTicket      == 0

VARIABLES
  state,       \* Channels -> pending_*_state_
  requestId,   \* Channels -> pending_*_request_id_
  update,      \* Channels -> pending_*_update_, as the ticket it belongs to
  result,      \* Channels -> pending_*_result_, as the ticket it answers
  resultId,    \* Channels -> pending_*_result_id_
  token,       \* Channels -> *_reply_semaphore_ holds its binary token
  pc,          \* Clients -> "ready" | "waiting" on the token | "woken"
  chan,        \* Clients -> the channel of its call
  id,          \* Clients -> the request_id of its call
  ticket,      \* Clients -> the ticket of its call
  patient,     \* Clients -> wait_without_timeout
  signaled,    \* Clients -> the wait ended with the token
  ui,          \* the poll of UiController: where it stands and what it holds
  wake,        \* the wake guard's phase, as far as the poll looks at it
  tickets,     \* history: calls accepted so far
  applied,     \* history: Tickets -> how often an applier ran for it
  answer       \* history: Tickets -> what the caller was told

channelVars == <<state, requestId, update, result, resultId, token>>
clientVars  == <<pc, chan, id, ticket, patient, signaled>>
historyVars == <<tickets, applied, answer>>
vars == <<channelVars, clientVars, ui, wake, historyVars>>

Pending == [kind |-> "pending", of |-> NoTicket]
Answers == [kind : {"pending", "reply", "timeout", "mismatch"},
            of   : Tickets \cup {NoTicket}]

UiIdle == [pc |-> "idle", at |-> 1, id |-> 0, update |-> NoTicket]

Init ==
  /\ state     = [k \in Channels |-> "Idle"]
  /\ requestId = [k \in Channels |-> 0]
  /\ update    = [k \in Channels |-> NoTicket]
  /\ result    = [k \in Channels |-> NoTicket]
  /\ resultId  = [k \in Channels |-> 0]
  /\ token     = [k \in Channels |-> FALSE]
  /\ pc        = [c \in Clients |-> "ready"]
  /\ chan      = [c \in Clients |-> 1]
  /\ id        = [c \in Clients |-> 0]
  /\ ticket    = [c \in Clients |-> NoTicket]
  /\ patient   = [c \in Clients |-> FALSE]
  /\ signaled  = [c \in Clients |-> FALSE]
  /\ ui        = UiIdle
  /\ wake      = "Idle"
  /\ tickets   = 0
  /\ applied   = [t \in Tickets |-> 0]
  /\ answer    = [t \in Tickets |-> Pending]

-----------------------------------------------------------------------------
(* The caller: apply*() and waitForDeferredReply().                        *)

NextId(n) == (n + 1) % IdSpace

\* The busy check of apply*(): anything but an idle channel is answered 503.
AcceptsAnyState(k) == TRUE
Accepts(k) == state[k] = "Idle"

\* apply*(): an idle channel takes the update under a new id.
Post(c, k) ==
  /\ pc[c] = "ready"
  /\ Accepts(k)
  /\ tickets < MaxTickets
  /\ tickets'   = tickets + 1
  /\ token'     = [token EXCEPT ![k] = FALSE]
  /\ update'    = [update EXCEPT ![k] = tickets + 1]
  /\ state'     = [state EXCEPT ![k] = "Queued"]
  /\ requestId' = [requestId EXCEPT ![k] = NextId(@)]
  /\ resultId'  = [resultId EXCEPT ![k] = 0]
  /\ pc'        = [pc EXCEPT ![c] = "waiting"]
  /\ chan'      = [chan EXCEPT ![c] = k]
  /\ id'        = [id EXCEPT ![c] = NextId(requestId[k])]
  /\ ticket'    = [ticket EXCEPT ![c] = tickets + 1]
  /\ patient'   = [patient EXCEPT ![c] = FALSE]
  /\ UNCHANGED <<result, signaled, ui, wake, applied, answer>>

\* xSemaphoreTake returns pdTRUE.
TakeToken(c) ==
  /\ pc[c] = "waiting"
  /\ token[chan[c]]
  /\ token'    = [token EXCEPT ![chan[c]] = FALSE]
  /\ signaled' = [signaled EXCEPT ![c] = TRUE]
  /\ pc'       = [pc EXCEPT ![c] = "woken"]
  /\ UNCHANGED <<state, requestId, update, result, resultId,
                 chan, id, ticket, patient, ui, wake, historyVars>>

\* xSemaphoreTake gives up after its five seconds.
TimeOut(c) ==
  /\ pc[c] = "waiting"
  /\ ~patient[c]
  /\ ~token[chan[c]]
  /\ signaled' = [signaled EXCEPT ![c] = FALSE]
  /\ pc'       = [pc EXCEPT ![c] = "woken"]
  /\ UNCHANGED <<channelVars, chan, id, ticket, patient, ui, wake, historyVars>>

\* What a woken caller concludes under the lock, in the order of the code.
VerdictCancelsInFlight(c) ==
  LET k == chan[c] IN
  IF requestId[k] # id[c] THEN "mismatch"
  ELSE IF state[k] = "Completed"
         THEN IF resultId[k] = id[c] THEN "reply" ELSE "mismatch"
  ELSE IF signaled[c] THEN "again" ELSE "timeout"

Verdict(c) ==
  LET k == chan[c] IN
  IF requestId[k] # id[c] THEN "mismatch"
  ELSE IF state[k] = "Completed"
         THEN IF resultId[k] = id[c] THEN "reply" ELSE "mismatch"
  ELSE IF signaled[c] \/ state[k] = "InFlight" THEN "again"
  ELSE IF state[k] = "Queued" THEN "timeout" ELSE "mismatch"

\* A caller whose wait timed out removes the token a completion left behind.
TokenAfterReturn(c) ==
  token[chan[c]] /\ (state[chan[c]] # "Completed" \/ signaled[c])

\* Loop: from here on the wait has no timeout iff the UI holds the request.
WaitAgain(c) ==
  /\ pc[c] = "woken"
  /\ Verdict(c) = "again"
  /\ patient' = [patient EXCEPT ![c] = state[chan[c]] = "InFlight"]
  /\ pc'      = [pc EXCEPT ![c] = "waiting"]
  /\ UNCHANGED <<channelVars, chan, id, ticket, signaled, ui, wake, historyVars>>

\* Return: a reply or a cancellation frees the channel, a mismatch does not.
Return(c) ==
  LET k == chan[c]
      v == Verdict(c)
      frees == v \in {"reply", "timeout"}
  IN
  /\ pc[c] = "woken"
  /\ v # "again"
  /\ state'    = [state EXCEPT ![k] = IF frees THEN "Idle" ELSE @]
  /\ resultId' = [resultId EXCEPT ![k] = IF frees THEN 0 ELSE @]
  /\ token'    = [token EXCEPT ![k] = TokenAfterReturn(c)]
  /\ answer'   = [answer EXCEPT ![ticket[c]] =
                    [kind |-> v, of |-> IF v = "reply" THEN result[k] ELSE NoTicket]]
  /\ pc'       = [pc EXCEPT ![c] = "ready"]
  /\ UNCHANGED <<requestId, update, result, chan, id, ticket, patient, signaled,
                 ui, wake, tickets, applied>>

-----------------------------------------------------------------------------
(* The UI: processWebUiBridgeCommands() on the main task.                  *)

\* UiController::poll serves the bridge only in these phases.
PollBegin ==
  /\ ui.pc = "idle"
  /\ wake \in {"Idle", "PreQuiet"}
  /\ ui' = [UiIdle EXCEPT !.pc = "scan"]
  /\ UNCHANGED <<channelVars, clientVars, wake, historyVars>>

\* After a channel: the next one, or the end of the poll.
Advance(u) == IF u.at = NumChannels THEN UiIdle
              ELSE [UiIdle EXCEPT !.pc = "scan", !.at = u.at + 1]

\* consumePending*() returns false.
SkipChannel ==
  /\ ui.pc = "scan"
  /\ state[ui.at] # "Queued"
  /\ ui' = Advance(ui)
  /\ UNCHANGED <<channelVars, clientVars, wake, historyVars>>

\* consumePending*() hands the request over.
Consume ==
  /\ ui.pc = "scan"
  /\ state[ui.at] = "Queued"
  /\ state' = [state EXCEPT ![ui.at] = "InFlight"]
  /\ ui' = [ui EXCEPT !.pc = "apply", !.id = requestId[ui.at],
                      !.update = update[ui.at]]
  /\ UNCHANGED <<requestId, update, result, resultId, token, clientVars, wake,
                 historyVars>>

\* The bound applier runs: persistent settings may change here.
Apply ==
  /\ ui.pc = "apply"
  /\ applied' = [applied EXCEPT ![ui.update] = @ + 1]
  /\ ui' = [ui EXCEPT !.pc = "complete"]
  /\ UNCHANGED <<channelVars, clientVars, wake, tickets, answer>>

\* xSemaphoreGive of completeDeferredReply().
NoSignal(k, matches) == token[k]
Signal(k, matches) == token[k] \/ matches

\* completeDeferredReply(), then the poll ends unless the wake guard is idle.
Complete ==
  LET k == ui.at
      matches == state[k] = "InFlight" /\ requestId[k] = ui.id
  IN
  /\ ui.pc = "complete"
  /\ result'   = [result EXCEPT ![k] = IF matches THEN ui.update ELSE @]
  /\ resultId' = [resultId EXCEPT ![k] = IF matches THEN ui.id ELSE @]
  /\ state'    = [state EXCEPT ![k] = IF matches THEN "Completed" ELSE @]
  /\ token'    = [token EXCEPT ![k] = Signal(k, matches)]
  /\ ui' = IF wake = "Idle" THEN Advance(ui) ELSE UiIdle
  /\ UNCHANGED <<requestId, update, clientVars, wake, historyVars>>

\* The wake guard moves on its own (module WakePowerGuard).
WakeMoves ==
  /\ wake' \in WakePhases \ {wake}
  /\ UNCHANGED <<channelVars, clientVars, ui, historyVars>>

-----------------------------------------------------------------------------
ClientNext(c) == \/ \E k \in Channels : Post(c, k)
                 \/ TakeToken(c)
                 \/ TimeOut(c)
                 \/ WaitAgain(c)
                 \/ Return(c)

UiNext == PollBegin \/ SkipChannel \/ Consume \/ Apply \/ Complete

Next == (\E c \in Clients : ClientNext(c)) \/ UiNext \/ WakeMoves

Spec == Init /\ [][Next]_vars

\* The HTTP task and the main task are scheduled, and a timed wait ends.
\* Nothing is assumed of the wake guard or of new calls.
Fairness == /\ \A c \in Clients : /\ WF_vars(TakeToken(c))
                                  /\ WF_vars(TimeOut(c))
                                  /\ WF_vars(WaitAgain(c))
                                  /\ WF_vars(Return(c))
            /\ WF_vars(UiNext)

FairSpec == Spec /\ Fairness

-----------------------------------------------------------------------------
(* Properties.                                                             *)

TypeOK ==
  /\ state     \in [Channels -> RequestStates]
  /\ requestId \in [Channels -> Ids]
  /\ update    \in [Channels -> Tickets \cup {NoTicket}]
  /\ result    \in [Channels -> Tickets \cup {NoTicket}]
  /\ resultId  \in [Channels -> Ids]
  /\ token     \in [Channels -> BOOLEAN]
  /\ pc        \in [Clients -> {"ready", "waiting", "woken"}]
  /\ chan      \in [Clients -> Channels]
  /\ id        \in [Clients -> Ids]
  /\ ticket    \in [Clients -> Tickets \cup {NoTicket}]
  /\ patient   \in [Clients -> BOOLEAN]
  /\ signaled  \in [Clients -> BOOLEAN]
  /\ ui        \in [pc : {"idle", "scan", "apply", "complete"},
                    at : Channels, id : Ids,
                    update : Tickets \cup {NoTicket}]
  /\ wake      \in WakePhases
  /\ tickets   \in 0 .. MaxTickets
  /\ applied   \in [Tickets -> Nat]
  /\ answer    \in [Tickets -> Answers]

\* A caller that gets a reply gets the result of its own update, which ran
\* exactly once, whatever calls came before on its channel and however the
\* reply raced its timeout.
ReplyIsOwn ==
  \A t \in Tickets : answer[t].kind = "reply" => answer[t].of = t /\ applied[t] = 1

\* 504 is a true cancellation: an update whose caller was told it timed out
\* has not been applied, is not being applied and never will be.
TimeoutIsCancellation ==
  \A t \in Tickets : answer[t].kind = "timeout" =>
      applied[t] = 0 /\ ~(ui.pc = "apply" /\ ui.update = t)

\* The internal-error replies of waitForDeferredReply ("response mismatch")
\* are unreachable, also when the request ids wrap around.
NoMismatch == \A t \in Tickets : answer[t].kind # "mismatch"

\* A token in a reply semaphore belongs to the completed request of its
\* channel: no stale token is left behind for a later generation.
TokenMeansCompleted == \A k \in Channels : token[k] => state[k] = "Completed"

\* A channel that is not idle has exactly one caller waiting for it, so it is
\* always freed again: no path leaves a channel answering 503 for ever.
OneOwner ==
  \A k \in Channels : state[k] # "Idle" =>
      \E c \in Clients : /\ pc[c] # "ready" /\ chan[c] = k
                         /\ \A d \in Clients \ {c} : ~(pc[d] # "ready" /\ chan[d] = k)

\* A request the UI accepted stays the channel's request until its own result
\* is published.
InFlightKeepsGeneration ==
  [][\A k \in Channels : state[k] = "InFlight" /\ state'[k] # "InFlight" =>
        state'[k] = "Completed" /\ result'[k] = update[k] /\ requestId'[k] = requestId[k]]_vars

\* Every accepted call returns, whatever the wake guard does.
EveryCallReturns == \A c \in Clients : (pc[c] = "waiting") ~> (pc[c] = "ready")

\* How far each ticket got, for the abstract specification.
Status(t) ==
  CASE t > tickets                    -> "unused"
    [] t <= tickets /\ answer[t].kind = "reply"   -> "answered"
    [] t <= tickets /\ answer[t].kind = "timeout" -> "cancelled"
    [] t <= tickets /\ answer[t].kind \notin {"reply", "timeout"} ->
         IF applied[t] > 0 THEN "applied"
         ELSE IF ui.pc = "apply" /\ ui.update = t THEN "taken" ELSE "open"

Promise == INSTANCE RequestReply WITH status <- [t \in Tickets |-> Status(t)]

\* The bridge implements the request/reply promise.
ImplementsRequestReply == Promise!Spec

-----------------------------------------------------------------------------
(* The inductive invariant behind the safety properties.                   *)

Busy(c) == pc[c] # "ready"
Serving == ui.pc \in {"apply", "complete"}

\* A calling task waits for the generation its channel holds.
CallersOwn ==
  \A c \in Clients : Busy(c) =>
    /\ state[chan[c]] # "Idle"
    /\ requestId[chan[c]] = id[c]
    /\ update[chan[c]] = ticket[c]
    /\ ticket[c] \in 1 .. tickets
    /\ answer[ticket[c]] = Pending

CallersDiffer ==
  \A c, d \in Clients : Busy(c) /\ Busy(d) /\ c # d =>
    chan[c] # chan[d] /\ ticket[c] # ticket[d]

ChannelsOwned ==
  \A k \in Channels : state[k] # "Idle" => \E c \in Clients : Busy(c) /\ chan[c] = k

\* What each state of a channel says about its update.
ChannelsConsistent ==
  \A k \in Channels :
    /\ state[k] = "Queued" => applied[update[k]] = 0
    /\ state[k] = "InFlight" => Serving /\ ui.at = k
    /\ state[k] = "Completed" => /\ resultId[k] = requestId[k]
                                 /\ result[k] = update[k]
                                 /\ applied[update[k]] = 1

UiConsistent ==
  Serving => /\ state[ui.at] = "InFlight"
             /\ ui.id = requestId[ui.at]
             /\ ui.update = update[ui.at]
             /\ applied[ui.update] = IF ui.pc = "apply" THEN 0 ELSE 1

HistoryConsistent ==
  \A t \in Tickets :
    /\ t > tickets => answer[t] = Pending /\ applied[t] = 0
    /\ answer[t].kind = "reply" => answer[t].of = t /\ applied[t] = 1
    /\ answer[t].kind = "timeout" => applied[t] = 0
    /\ answer[t].kind # "mismatch"

\* A caller woken by the token finds its request completed and the token gone.
TokenTaken ==
  \A c \in Clients : pc[c] = "woken" /\ signaled[c] =>
    state[chan[c]] = "Completed" /\ ~token[chan[c]]

\* Conjunction of the parts: holds initially and every step preserves it.
IndInv == /\ TypeOK
          /\ CallersOwn
          /\ CallersDiffer
          /\ ChannelsOwned
          /\ ChannelsConsistent
          /\ UiConsistent
          /\ HistoryConsistent
          /\ TokenMeansCompleted
          /\ TokenTaken
=============================================================================
