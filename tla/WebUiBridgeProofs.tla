-------------------------- MODULE WebUiBridgeProofs --------------------------
(***************************************************************************)
(* The safety of the bridge for every number of callers, channels, ids and *)
(* calls.  IndInv (module WebUiBridge) is the inductive invariant: one     *)
(* lemma per group of actions shows that it is preserved.                  *)
(***************************************************************************)
EXTENDS WebUiBridge, TLAPS

LEMMA InitEstablishes == Init => IndInv
<1> SUFFICES ASSUME Init PROVE IndInv
  OBVIOUS
<1> USE ChannelsAssumption, IdSpaceAssumption, MaxTicketsAssumption
<1> USE DEF Init, Channels, Tickets, Ids, UiIdle, Pending, NoTicket
<1>1. TypeOK
  BY DEF TypeOK, RequestStates, WakePhases, Answers
<1>2. CallersOwn /\ CallersDiffer
  BY DEF CallersOwn, CallersDiffer, Busy
<1>3. ChannelsOwned /\ ChannelsConsistent /\ TokenMeansCompleted /\ TokenTaken
  BY DEF ChannelsOwned, ChannelsConsistent, TokenMeansCompleted, TokenTaken
<1>4. UiConsistent
  BY DEF UiConsistent, Serving
<1>5. HistoryConsistent
  BY DEF HistoryConsistent
<1> QED
  BY <1>1, <1>2, <1>3, <1>4, <1>5 DEF IndInv

LEMMA PostPreserves ==
  ASSUME IndInv, NEW c \in Clients, NEW k \in Channels, Post(c, k)
  PROVE  IndInv'
<1> USE ChannelsAssumption, IdSpaceAssumption, MaxTicketsAssumption
<1> USE DEF Tickets, Ids, NoTicket
<1>1. TypeOK
  BY DEF IndInv
<1>2. NextId(requestId[k]) \in Ids
  BY <1>1 DEF TypeOK, NextId
<1>3. /\ tickets \in Nat /\ tickets + 1 \in Tickets
      /\ state[k] = "Idle" /\ pc[c] = "ready"
  BY <1>1 DEF TypeOK, Post, Accepts
<1>4. TypeOK'
  <2>1. /\ tickets' \in 0 .. MaxTickets
        /\ token' \in [Channels -> BOOLEAN] /\ state' \in [Channels -> RequestStates]
        /\ requestId' \in [Channels -> Ids] /\ resultId' \in [Channels -> Ids]
    BY <1>1, <1>2, <1>3 DEF TypeOK, Post, RequestStates
  <2>2. update' \in [Channels -> Tickets \cup {NoTicket}]
    BY <1>1, <1>3 DEF TypeOK, Post
  <2>3. /\ pc' \in [Clients -> {"ready", "waiting", "woken"}]
        /\ chan' \in [Clients -> Channels] /\ id' \in [Clients -> Ids]
        /\ patient' \in [Clients -> BOOLEAN]
    BY <1>1, <1>2 DEF TypeOK, Post
  <2>4. ticket' \in [Clients -> Tickets \cup {NoTicket}]
    BY <1>1, <1>3 DEF TypeOK, Post
  <2> QED
    BY <1>1, <2>1, <2>2, <2>3, <2>4 DEF TypeOK, Post
<1>5. \A d \in Clients : Busy(d) => chan[d] # k /\ ticket[d] \in 1 .. tickets
  BY <1>3 DEF IndInv, CallersOwn
<1>6. CallersOwn'
  <2> SUFFICES ASSUME NEW d \in Clients, Busy(d)'
               PROVE  CallersOwn!(d)!2'
    BY DEF CallersOwn
  <2>1. CASE d = c
    <3>1. answer[tickets + 1] = Pending
      BY <1>1, <1>3 DEF IndInv, HistoryConsistent, TypeOK
    <3> QED
      BY <1>1, <1>3, <2>1, <3>1 DEF Post, TypeOK, Pending
  <2>2. CASE d # c
    <3>1. Busy(d)
      BY <1>1, <2>2 DEF Busy, Post, TypeOK
    <3>2. CallersOwn!(d)!2 /\ chan[d] # k
      BY <1>5, <3>1 DEF IndInv, CallersOwn
    <3> QED
      BY <1>1, <1>3, <2>2, <3>2 DEF Post, TypeOK, Pending
  <2> QED
    BY <2>1, <2>2
<1>7. CallersDiffer'
  <2> SUFFICES ASSUME NEW d \in Clients, NEW e \in Clients,
                      Busy(d)', Busy(e)', d # e
               PROVE  chan'[d] # chan'[e] /\ ticket'[d] # ticket'[e]
    BY DEF CallersDiffer
  <2>1. \A f \in Clients \ {c} : /\ Busy(f)' <=> Busy(f)
                               /\ chan'[f] = chan[f] /\ ticket'[f] = ticket[f]
    BY <1>1 DEF Busy, Post, TypeOK
  <2>2. chan'[c] = k /\ ticket'[c] = tickets + 1
    BY <1>1 DEF Post, TypeOK
  <2> QED
    BY <1>3, <1>5, <2>1, <2>2 DEF IndInv, CallersDiffer
<1>8. ChannelsOwned'
  BY <1>1, <1>3 DEF IndInv, ChannelsOwned, Busy, Post, TypeOK
<1>9. ChannelsConsistent'
  BY <1>1, <1>3 DEF IndInv, ChannelsConsistent, HistoryConsistent, Serving, Post, TypeOK
<1>10. UiConsistent'
  BY <1>1, <1>3 DEF IndInv, UiConsistent, Serving, Post, TypeOK
<1>11. HistoryConsistent'
  BY <1>1, <1>3 DEF IndInv, HistoryConsistent, Post, TypeOK
<1>12. TokenMeansCompleted'
  BY <1>1, <1>3 DEF IndInv, TokenMeansCompleted, Post, TypeOK
<1>13. TokenTaken'
  <2>1. \A d \in Clients \ {c} : pc'[d] = pc[d] /\ chan'[d] = chan[d]
    BY <1>1 DEF Post, TypeOK
  <2>2. pc'[c] = "waiting"
    BY <1>1 DEF Post, TypeOK
  <2>3. \A j \in Channels \ {k} : state'[j] = state[j] /\ token'[j] = token[j]
    BY <1>1 DEF Post, TypeOK
  <2> QED
    BY <1>1, <1>5, <2>1, <2>2, <2>3 DEF IndInv, TokenTaken, Busy, Post, TypeOK
<1> QED
  BY <1>4, <1>6, <1>7, <1>8, <1>9, <1>10, <1>11, <1>12, <1>13 DEF IndInv

\* The steps of a wait that leave channels, tickets and history alone.
LEMMA WaitPreserves ==
  ASSUME IndInv, NEW c \in Clients, TakeToken(c) \/ TimeOut(c) \/ WaitAgain(c)
  PROVE  IndInv'
<1> USE DEF Tickets, Ids, NoTicket
<1>1. TypeOK
  BY DEF IndInv
<1>2. TypeOK'
  BY <1>1 DEF TypeOK, TakeToken, TimeOut, WaitAgain, channelVars, historyVars
<1>3. \A d \in Clients : Busy(d)' <=> Busy(d)
  BY <1>1 DEF TypeOK, Busy, TakeToken, TimeOut, WaitAgain
<1>4. /\ UNCHANGED <<state, requestId, update, result, resultId, chan, id, ticket,
                     ui, tickets, applied, answer>>
      /\ \A k \in Channels : token'[k] => token[k]
  BY <1>1 DEF TypeOK, TakeToken, TimeOut, WaitAgain, channelVars, historyVars
<1>5. CallersOwn' /\ CallersDiffer' /\ ChannelsOwned'
  BY <1>3, <1>4 DEF IndInv, CallersOwn, CallersDiffer, ChannelsOwned
<1>6. ChannelsConsistent' /\ UiConsistent' /\ HistoryConsistent'
  BY <1>4 DEF IndInv, ChannelsConsistent, UiConsistent, HistoryConsistent, Serving
<1>7. TokenMeansCompleted'
  BY <1>4 DEF IndInv, TokenMeansCompleted
<1>8. TokenTaken'
  <2>1. CASE TakeToken(c)
    <3>1. /\ pc' = [pc EXCEPT ![c] = "woken"]
          /\ token' = [token EXCEPT ![chan[c]] = FALSE]
          /\ signaled' = [signaled EXCEPT ![c] = TRUE]
          /\ state' = state /\ chan' = chan /\ pc[c] = "waiting" /\ token[chan[c]]
      BY <2>1 DEF TakeToken
    <3>2. chan[c] \in Channels /\ state[chan[c]] = "Completed"
      BY <1>1, <3>1 DEF IndInv, TokenMeansCompleted, TypeOK
    <3>3. \A d \in Clients \ {c} : pc[d] = "woken" => chan[d] # chan[c]
      BY <3>1 DEF IndInv, CallersDiffer, Busy
    <3> QED
      BY <1>1, <3>1, <3>2, <3>3 DEF IndInv, TokenTaken, TypeOK
  <2>2. CASE TimeOut(c)
    BY <1>1, <2>2 DEF IndInv, TokenTaken, TypeOK, TimeOut, channelVars
  <2>3. CASE WaitAgain(c)
    BY <1>1, <2>3 DEF IndInv, TokenTaken, TypeOK, WaitAgain, channelVars
  <2> QED
    BY <2>1, <2>2, <2>3
<1> QED
  BY <1>2, <1>5, <1>6, <1>7, <1>8 DEF IndInv

\* A woken caller concludes one of three things, never a mismatch.
LEMMA VerdictOfOwner ==
  ASSUME IndInv, NEW c \in Clients, Busy(c), Verdict(c) # "again"
  PROVE  /\ chan[c] \in Channels /\ ticket[c] \in Tickets
         /\ \/ /\ Verdict(c) = "reply"
               /\ state[chan[c]] = "Completed"
               /\ result[chan[c]] = ticket[c]
               /\ applied[ticket[c]] = 1
            \/ /\ Verdict(c) = "timeout"
               /\ state[chan[c]] = "Queued"
               /\ applied[ticket[c]] = 0
<1> USE MaxTicketsAssumption
<1>1. TypeOK /\ CallersOwn /\ ChannelsConsistent
  BY DEF IndInv
<1>2. /\ chan[c] \in Channels /\ state[chan[c]] \in RequestStates \ {"Idle"}
      /\ requestId[chan[c]] = id[c] /\ update[chan[c]] = ticket[c]
  BY <1>1 DEF TypeOK, CallersOwn
<1>3. ticket[c] \in Tickets
  BY <1>1 DEF TypeOK, CallersOwn, Tickets
<1> QED
  BY <1>1, <1>2, <1>3 DEF Verdict, ChannelsConsistent, RequestStates

LEMMA ReturnPreserves ==
  ASSUME IndInv, NEW c \in Clients, Return(c)
  PROVE  IndInv'
<1> DEFINE k == chan[c]
           t == ticket[c]
<1> USE MaxTicketsAssumption DEF Tickets, NoTicket
<1>1. TypeOK
  BY DEF IndInv
<1>2. Busy(c)
  BY DEF Busy, Return
<1>3. /\ k \in Channels /\ t \in Tickets
      /\ \/ /\ Verdict(c) = "reply" /\ state[k] = "Completed"
            /\ result[k] = t /\ applied[t] = 1
         \/ /\ Verdict(c) = "timeout" /\ state[k] = "Queued"
            /\ applied[t] = 0
  BY <1>2, VerdictOfOwner DEF Return
<1>4. /\ state' = [state EXCEPT ![k] = "Idle"]
      /\ resultId' = [resultId EXCEPT ![k] = 0]
      /\ token' = [token EXCEPT ![k] = TokenAfterReturn(c)]
      /\ answer' = [answer EXCEPT ![t] =
                      [kind |-> Verdict(c),
                       of |-> IF Verdict(c) = "reply" THEN t ELSE NoTicket]]
      /\ pc' = [pc EXCEPT ![c] = "ready"]
      /\ UNCHANGED <<requestId, update, result, chan, id, ticket, patient, signaled,
                     ui, wake, tickets, applied>>
  BY <1>3 DEF Return
<1>5. ~token'[k]
  <2>1. token[k] => state[k] = "Completed"
    BY <1>3 DEF IndInv, TokenMeansCompleted
  <2>2. token'[k] = TokenAfterReturn(c)
    BY <1>1, <1>3, <1>4 DEF TypeOK
  <2>3. ~(token[k] /\ signaled[c])
    BY <1>1 DEF IndInv, TokenTaken, Return, TypeOK
  <2> QED
    BY <1>3, <2>1, <2>2, <2>3 DEF TokenAfterReturn
<1>6. \A d \in Clients : Busy(d)' <=> (Busy(d) /\ d # c)
  BY <1>1, <1>4 DEF Busy, TypeOK
<1>7. \A d \in Clients : Busy(d) /\ d # c => chan[d] # k /\ ticket[d] # t
  BY <1>2 DEF IndInv, CallersDiffer
<1>8. TypeOK'
  <2>1. Verdict(c) \in {"reply", "timeout"} /\ TokenAfterReturn(c) \in BOOLEAN
    BY <1>1, <1>3 DEF TypeOK, TokenAfterReturn
  <2>2. [kind |-> Verdict(c), of |-> IF Verdict(c) = "reply" THEN t ELSE NoTicket]
          \in Answers
    BY <1>3, <2>1 DEF Answers
  <2>3. answer' \in [Tickets -> Answers]
    BY <1>1, <1>4, <2>2 DEF TypeOK
  <2>4. /\ state' \in [Channels -> RequestStates] /\ resultId' \in [Channels -> Ids]
        /\ token' \in [Channels -> BOOLEAN]
        /\ pc' \in [Clients -> {"ready", "waiting", "woken"}]
    BY <1>1, <1>4, <2>1, IdSpaceAssumption DEF TypeOK, RequestStates, Ids
  <2> QED
    BY <1>1, <1>4, <2>3, <2>4 DEF TypeOK
<1>9. CallersOwn'
  BY <1>1, <1>3, <1>4, <1>6, <1>7 DEF IndInv, CallersOwn, TypeOK
<1>10. CallersDiffer'
  BY <1>4, <1>6 DEF IndInv, CallersDiffer
<1>11. ChannelsOwned'
  BY <1>1, <1>3, <1>4, <1>6 DEF IndInv, ChannelsOwned, TypeOK
<1>12. ChannelsConsistent' /\ UiConsistent'
  BY <1>1, <1>3, <1>4 DEF IndInv, ChannelsConsistent, UiConsistent, Serving, TypeOK
<1>13. HistoryConsistent'
  <2>1. t \in 1 .. tickets /\ tickets \in Nat
    BY <1>1, <1>2 DEF IndInv, CallersOwn, TypeOK
  <2>2. \A s \in Tickets : s # t => answer'[s] = answer[s]
    BY <1>1, <1>4 DEF TypeOK
  <2>3. answer'[t] = [kind |-> Verdict(c),
                      of |-> IF Verdict(c) = "reply" THEN t ELSE NoTicket]
    BY <1>1, <1>3, <1>4 DEF TypeOK
  <2>4. applied' = applied /\ tickets' = tickets
    BY <1>4
  <2> SUFFICES ASSUME NEW s \in Tickets
               PROVE  HistoryConsistent!(s)'
    BY DEF HistoryConsistent
  <2>5. CASE s # t
    BY <2>2, <2>4, <2>5 DEF IndInv, HistoryConsistent
  <2>6. CASE s = t
    <3>1. ~(s > tickets)
      BY <2>1, <2>6
    <3> QED
      BY <1>3, <2>3, <2>4, <2>6, <3>1
  <2> QED
    BY <2>5, <2>6
<1>14. TokenMeansCompleted'
  BY <1>1, <1>3, <1>4, <1>5 DEF IndInv, TokenMeansCompleted, TypeOK
<1>15. TokenTaken'
  BY <1>1, <1>3, <1>4, <1>6, <1>7 DEF IndInv, TokenTaken, Busy, TypeOK
<1> QED
  BY <1>8, <1>9, <1>10, <1>11, <1>12, <1>13, <1>14, <1>15 DEF IndInv

\* UI steps that hand nothing over, and the wake guard.
LEMMA IdleUiPreserves ==
  ASSUME IndInv, PollBegin \/ SkipChannel \/ WakeMoves
  PROVE  IndInv'
<1> USE ChannelsAssumption, IdSpaceAssumption DEF Channels, Ids, NoTicket
<1>1. TypeOK
  BY DEF IndInv
<1>2. /\ UNCHANGED <<channelVars, clientVars, historyVars>>
      /\ ~Serving \/ ui' = ui
  BY DEF PollBegin, SkipChannel, WakeMoves, Serving
<1>3. /\ ~Serving' \/ ui' = ui
      /\ ui' \in [pc : {"idle", "scan", "apply", "complete"},
                 at : Channels, id : Ids, update : Tickets \cup {NoTicket}]
  <2>1. UiIdle \in [pc : {"idle", "scan", "apply", "complete"},
                   at : Channels, id : Ids, update : Tickets \cup {NoTicket}]
    BY DEF UiIdle
  <2>2. CASE PollBegin
    BY <2>1, <2>2 DEF PollBegin, Serving, UiIdle
  <2>3. CASE SkipChannel
    <3>1. ui.at \in Channels /\ ui' = Advance(ui)
      BY <1>1, <2>3 DEF TypeOK, SkipChannel
    <3>2. CASE ui.at = NumChannels
      BY <2>1, <3>1, <3>2 DEF Advance, Serving, UiIdle
    <3>3. CASE ui.at # NumChannels
      <4>1. ui.at + 1 \in Channels
        BY <3>1, <3>3
      <4>2. ui' = [pc |-> "scan", at |-> ui.at + 1, id |-> 0, update |-> NoTicket]
        BY <3>1, <3>3 DEF Advance, UiIdle
      <4> QED
        BY <4>1, <4>2 DEF Serving
    <3> QED
      BY <3>2, <3>3
  <2>4. CASE WakeMoves
    BY <1>1, <2>4 DEF TypeOK, WakeMoves
  <2> QED
    BY <2>2, <2>3, <2>4
<1>7. TypeOK'
  <2>1. wake' \in WakePhases
    BY <1>1 DEF TypeOK, PollBegin, SkipChannel, WakeMoves
  <2> QED
    BY <1>1, <1>2, <1>3, <2>1 DEF TypeOK, channelVars, clientVars, historyVars
<1>4. ChannelsConsistent' /\ UiConsistent'
  BY <1>2, <1>3 DEF IndInv, ChannelsConsistent, UiConsistent, Serving,
     channelVars, historyVars
<1>5. CallersOwn' /\ CallersDiffer' /\ ChannelsOwned' /\ HistoryConsistent'
  BY <1>2 DEF IndInv, CallersOwn, CallersDiffer, ChannelsOwned, HistoryConsistent, Busy,
     channelVars, clientVars, historyVars
<1>6. TokenMeansCompleted' /\ TokenTaken'
  BY <1>2 DEF IndInv, TokenMeansCompleted, TokenTaken, channelVars, clientVars
<1> QED
  BY <1>4, <1>5, <1>6, <1>7 DEF IndInv

\* The UI takes a queued request.
LEMMA ConsumePreserves ==
  ASSUME IndInv, Consume
  PROVE  IndInv'
<1> DEFINE k == ui.at
<1>1. TypeOK
  BY DEF IndInv
<1>2. /\ k \in Channels /\ state[k] = "Queued" /\ ~Serving
      /\ state' = [state EXCEPT ![k] = "InFlight"]
      /\ ui' = [ui EXCEPT !.pc = "apply", !.id = requestId[k], !.update = update[k]]
      /\ UNCHANGED <<requestId, update, result, resultId, token, clientVars, wake,
                     historyVars>>
  BY <1>1 DEF Consume, TypeOK, Serving
<1>3. ui'.pc = "apply" /\ ui'.at = k /\ ui'.id = requestId[k] /\ ui'.update = update[k]
  BY <1>1, <1>2 DEF TypeOK
<1>4. state'[k] = "InFlight" /\ \A j \in Channels \ {k} : state'[j] = state[j]
  BY <1>1, <1>2 DEF TypeOK
<1>5. TypeOK'
  <2>1. ui' \in [pc : {"idle", "scan", "apply", "complete"},
                 at : Channels, id : Ids, update : Tickets \cup {NoTicket}]
    BY <1>1, <1>2 DEF TypeOK
  <2>2. state' \in [Channels -> RequestStates]
    BY <1>1, <1>2 DEF TypeOK, RequestStates
  <2> QED
    BY <1>1, <1>2, <2>1, <2>2 DEF TypeOK, clientVars, historyVars
<1>6. CallersOwn' /\ CallersDiffer' /\ ChannelsOwned' /\ HistoryConsistent'
  <2>1. \A j \in Channels : state'[j] = "Idle" <=> state[j] = "Idle"
    BY <1>2, <1>4
  <2> QED
    BY <1>1, <1>2, <2>1 DEF IndInv, CallersOwn, CallersDiffer, ChannelsOwned,
       HistoryConsistent, Busy, clientVars, historyVars, TypeOK
<1>7. ChannelsConsistent'
  BY <1>2, <1>3, <1>4 DEF IndInv, ChannelsConsistent, Serving, historyVars
<1>8. UiConsistent'
  BY <1>2, <1>3, <1>4 DEF IndInv, ChannelsConsistent, UiConsistent, Serving, historyVars
<1>9. TokenMeansCompleted'
  BY <1>2, <1>4 DEF IndInv, TokenMeansCompleted
<1>10. TokenTaken'
  BY <1>1, <1>2, <1>4 DEF IndInv, TokenTaken, clientVars, TypeOK
<1> QED
  BY <1>5, <1>6, <1>7, <1>8, <1>9, <1>10 DEF IndInv

\* The applier runs: it touches the update of no other channel.
LEMMA ApplyPreserves ==
  ASSUME IndInv, Apply
  PROVE  IndInv'
<1> DEFINE k == ui.at
           u == ui.update
<1> USE MaxTicketsAssumption
<1>1. TypeOK
  BY DEF IndInv
<1>2. /\ k \in Channels /\ state[k] = "InFlight" /\ u = update[k] /\ applied[u] = 0
      /\ ui.pc = "apply" /\ ui.id = requestId[k]
      /\ applied' = [applied EXCEPT ![u] = @ + 1]
      /\ ui' = [ui EXCEPT !.pc = "complete"]
      /\ UNCHANGED <<channelVars, clientVars, wake, tickets, answer>>
  BY <1>1 DEF Apply, IndInv, UiConsistent, Serving, TypeOK
<1>3. PICK c \in Clients : Busy(c) /\ chan[c] = k
  BY <1>2 DEF IndInv, ChannelsOwned
<1>4. u = ticket[c] /\ u \in 1 .. tickets /\ u \in Tickets /\ answer[u] = Pending
  BY <1>1, <1>2, <1>3 DEF IndInv, CallersOwn, TypeOK, Tickets
<1>5. applied'[u] = 1 /\ \A t \in Tickets \ {u} : applied'[t] = applied[t]
  BY <1>1, <1>2, <1>4 DEF TypeOK
<1>6. \A j \in Channels \ {k} : state[j] # "Idle" => update[j] \in Tickets \ {u}
  <2> SUFFICES ASSUME NEW j \in Channels, j # k, state[j] # "Idle"
               PROVE  update[j] \in Tickets \ {u}
    OBVIOUS
  <2>1. PICK d \in Clients : Busy(d) /\ chan[d] = j
    BY DEF IndInv, ChannelsOwned
  <2>2. update[j] = ticket[d] /\ ticket[d] \in Tickets
    BY <1>1, <2>1 DEF IndInv, CallersOwn, TypeOK, Tickets
  <2>3. ticket[d] # ticket[c]
    BY <1>3, <2>1 DEF IndInv, CallersDiffer
  <2> QED
    BY <1>4, <2>2, <2>3
<1>7. ui'.pc = "complete" /\ ui'.at = k /\ ui'.id = ui.id /\ ui'.update = u
  BY <1>1, <1>2 DEF TypeOK
<1>8. TypeOK'
  <2>1. ui' \in [pc : {"idle", "scan", "apply", "complete"},
                 at : Channels, id : Ids, update : Tickets \cup {NoTicket}]
    BY <1>1, <1>2 DEF TypeOK
  <2>2. applied' \in [Tickets -> Nat]
    <3>1. applied \in [Tickets -> Nat] /\ applied[u] + 1 \in Nat
      BY <1>1, <1>2 DEF TypeOK
    <3>2. applied' = [applied EXCEPT ![u] = applied[u] + 1]
      BY <1>2
    <3> QED
      BY <3>1, <3>2
  <2> QED
    BY <1>1, <1>2, <2>1, <2>2 DEF TypeOK, channelVars, clientVars
<1>9. CallersOwn' /\ CallersDiffer' /\ ChannelsOwned' /\ TokenMeansCompleted' /\ TokenTaken'
  BY <1>2 DEF IndInv, CallersOwn, CallersDiffer, ChannelsOwned, TokenMeansCompleted,
     TokenTaken, Busy, channelVars, clientVars
<1>10. ChannelsConsistent'
  <2> SUFFICES ASSUME NEW j \in Channels
               PROVE  ChannelsConsistent!(j)'
    BY DEF ChannelsConsistent
  <2>1. state' = state /\ requestId' = requestId /\ update' = update
        /\ result' = result /\ resultId' = resultId
    BY <1>2 DEF channelVars
  <2>2. CASE j = k
    BY <1>2, <1>7, <2>1, <2>2 DEF Serving
  <2>3. CASE j # k /\ state[j] # "Idle"
    <3>1. applied'[update[j]] = applied[update[j]]
      BY <1>5, <1>6, <2>3
    <3>2. state[j] # "InFlight"
      BY <1>2, <2>3 DEF IndInv, ChannelsConsistent
    <3> QED
      BY <2>1, <3>1, <3>2 DEF IndInv, ChannelsConsistent
  <2>4. CASE state[j] = "Idle"
    BY <2>1, <2>4
  <2> QED
    BY <2>2, <2>3, <2>4
<1>11. UiConsistent'
  BY <1>2, <1>5, <1>7 DEF UiConsistent, Serving, channelVars
<1>12. HistoryConsistent'
  <2> SUFFICES ASSUME NEW t \in Tickets
               PROVE  HistoryConsistent!(t)'
    BY DEF HistoryConsistent
  <2>1. answer' = answer /\ tickets' = tickets
    BY <1>2
  <2>2. CASE t = u
    BY <1>1, <1>4, <2>1, <2>2 DEF Pending, TypeOK
  <2>3. CASE t # u
    BY <1>5, <2>1, <2>3 DEF IndInv, HistoryConsistent
  <2> QED
    BY <2>2, <2>3
<1> QED
  BY <1>8, <1>9, <1>10, <1>11, <1>12 DEF IndInv

\* The UI publishes the result: the request is still the one it took.
LEMMA CompletePreserves ==
  ASSUME IndInv, Complete
  PROVE  IndInv'
<1> DEFINE k == ui.at
<1> USE ChannelsAssumption, IdSpaceAssumption
<1>1. TypeOK
  BY DEF IndInv
<1>2. /\ k \in Channels /\ state[k] = "InFlight" /\ ui.id = requestId[k]
      /\ ui.update = update[k] /\ applied[update[k]] = 1
      /\ result' = [result EXCEPT ![k] = ui.update]
      /\ resultId' = [resultId EXCEPT ![k] = ui.id]
      /\ state' = [state EXCEPT ![k] = "Completed"]
      /\ token' = [token EXCEPT ![k] = TRUE]
      /\ UNCHANGED <<requestId, update, clientVars, wake, historyVars>>
  BY <1>1 DEF Complete, Signal, IndInv, UiConsistent, Serving, TypeOK
<1>3. ~Serving' /\ ui' \in [pc : {"idle", "scan", "apply", "complete"}, at : Channels,
                            id : Ids, update : Tickets \cup {NoTicket}]
  <2>1. CASE ui' = UiIdle
    BY <2>1 DEF UiIdle, Serving, Channels, Ids, NoTicket
  <2>2. CASE ui' # UiIdle
    <3>1. k # NumChannels /\ ui' = [pc |-> "scan", at |-> k + 1, id |-> 0, update |-> NoTicket]
      BY <2>2 DEF Complete, Advance, UiIdle
    <3>2. k + 1 \in Channels
      BY <1>2, <3>1 DEF Channels
    <3> QED
      BY <3>1, <3>2 DEF Serving, Ids
  <2> QED
    BY <2>1, <2>2
<1>4. /\ state'[k] = "Completed" /\ result'[k] = update[k] /\ resultId'[k] = requestId[k]
      /\ \A j \in Channels \ {k} : /\ state'[j] = state[j] /\ token'[j] = token[j]
                                   /\ result'[j] = result[j] /\ resultId'[j] = resultId[j]
  BY <1>1, <1>2 DEF TypeOK
<1>5. TypeOK'
  <2>1. /\ state' \in [Channels -> RequestStates] /\ token' \in [Channels -> BOOLEAN]
        /\ result' \in [Channels -> Tickets \cup {NoTicket}]
        /\ resultId' \in [Channels -> Ids]
    BY <1>1, <1>2 DEF TypeOK, RequestStates
  <2> QED
    BY <1>1, <1>2, <1>3, <2>1 DEF TypeOK, clientVars, historyVars
<1>6. CallersOwn' /\ CallersDiffer' /\ ChannelsOwned' /\ HistoryConsistent'
  <2>1. \A j \in Channels : state'[j] = "Idle" <=> state[j] = "Idle"
    BY <1>2, <1>4
  <2> QED
    BY <1>1, <1>2, <2>1 DEF IndInv, CallersOwn, CallersDiffer, ChannelsOwned,
       HistoryConsistent, Busy, clientVars, historyVars, TypeOK
<1>7. ChannelsConsistent'
  <2>1. \A j \in Channels : state[j] = "InFlight" => j = k
    BY <1>2 DEF IndInv, ChannelsConsistent
  <2> QED
    BY <1>2, <1>4, <2>1 DEF IndInv, ChannelsConsistent, historyVars
<1>8. UiConsistent'
  BY <1>3 DEF UiConsistent
<1>9. TokenMeansCompleted'
  BY <1>2, <1>4 DEF IndInv, TokenMeansCompleted
<1>10. TokenTaken'
  <2>1. \A c \in Clients : pc[c] = "woken" /\ signaled[c] => chan[c] \in Channels \ {k}
    BY <1>1, <1>2 DEF IndInv, TokenTaken, TypeOK
  <2> QED
    BY <1>2, <1>4, <2>1 DEF IndInv, TokenTaken, clientVars
<1> QED
  BY <1>3, <1>5, <1>6, <1>7, <1>8, <1>9, <1>10 DEF IndInv

LEMMA StepPreserves == IndInv /\ [Next]_vars => IndInv'
<1> SUFFICES ASSUME IndInv, [Next]_vars PROVE IndInv'
  OBVIOUS
<1>1. CASE UNCHANGED vars
  BY <1>1 DEF IndInv, TypeOK, CallersOwn, CallersDiffer, ChannelsOwned, ChannelsConsistent,
     UiConsistent, HistoryConsistent, TokenMeansCompleted, TokenTaken, Busy, Serving,
     vars, channelVars, clientVars, historyVars
<1>2. ASSUME NEW c \in Clients, ClientNext(c) PROVE IndInv'
  BY <1>2, PostPreserves, WaitPreserves, ReturnPreserves DEF ClientNext
<1>3. CASE UiNext \/ WakeMoves
  BY <1>3, IdleUiPreserves, ConsumePreserves, ApplyPreserves, CompletePreserves DEF UiNext
<1> QED
  BY <1>1, <1>2, <1>3 DEF Next

-----------------------------------------------------------------------------
(* The theorems.                                                           *)

\* The strengthened invariant of the bridge holds in every reachable state.
THEOREM Invariance == Spec => []IndInv
<1>1. Init => IndInv
  BY InitEstablishes
<1>2. IndInv /\ [Next]_vars => IndInv'
  BY StepPreserves
<1> QED
  BY <1>1, <1>2, PTL DEF Spec

\* Every variable of the bridge keeps its type, whatever the ids wrap to.
THEOREM TypeCorrect == Spec => []TypeOK
<1>1. IndInv => TypeOK
  BY DEF IndInv
<1> QED
  BY <1>1, Invariance, PTL

\* A caller that gets a reply gets the result of its own update, applied once.
THEOREM OwnReplies == Spec => []ReplyIsOwn
<1>1. IndInv => ReplyIsOwn
  BY DEF IndInv, HistoryConsistent, ReplyIsOwn
<1> QED
  BY <1>1, Invariance, PTL

\* No waiting caller ever meets the internal "response mismatch" replies.
THEOREM MismatchUnreachable == Spec => []NoMismatch
<1>1. IndInv => NoMismatch
  BY DEF IndInv, HistoryConsistent, NoMismatch
<1> QED
  BY <1>1, Invariance, PTL

\* A token in a semaphore belongs to the completed request of its channel.
THEOREM NoStaleToken == Spec => []TokenMeansCompleted
<1>1. IndInv => TokenMeansCompleted
  BY DEF IndInv
<1> QED
  BY <1>1, Invariance, PTL

\* A caller answered 504 can be sure that its update is not applied: not yet,
\* and by the refinement below never.
THEOREM TimeoutsCancel == Spec => []TimeoutIsCancellation
<1>1. IndInv => TimeoutIsCancellation
  <2> SUFFICES ASSUME IndInv, NEW t \in Tickets, answer[t].kind = "timeout"
               PROVE  applied[t] = 0 /\ ~(ui.pc = "apply" /\ ui.update = t)
    BY DEF TimeoutIsCancellation
  <2>1. applied[t] = 0
    BY DEF IndInv, HistoryConsistent
  <2>2. ASSUME ui.pc = "apply", ui.update = t PROVE FALSE
    <3>1. ui.at \in Channels /\ state[ui.at] = "InFlight" /\ t = update[ui.at]
      BY <2>2 DEF IndInv, TypeOK, UiConsistent, Serving
    <3>2. PICK c \in Clients : Busy(c) /\ chan[c] = ui.at
      BY <3>1 DEF IndInv, ChannelsOwned
    <3> QED
      BY <3>1, <3>2 DEF IndInv, CallersOwn, Pending
  <2> QED
    BY <2>1, <2>2
<1> QED
  BY <1>1, Invariance, PTL

\* A channel that is not idle has exactly one caller, who will free it.
THEOREM ChannelsHaveOneOwner == Spec => []OneOwner
<1>1. IndInv => OneOwner
  BY DEF IndInv, ChannelsOwned, CallersDiffer, OneOwner, Busy
<1> QED
  BY <1>1, Invariance, PTL

\* A request the UI took stays the channel's until its own result is published.
THEOREM InFlightSafe == Spec => InFlightKeepsGeneration
<1> DEFINE Keeps(k) == state[k] = "InFlight" /\ state'[k] # "InFlight" =>
             state'[k] = "Completed" /\ result'[k] = update[k] /\ requestId'[k] = requestId[k]
<1>1. IndInv /\ [Next]_vars => [\A k \in Channels : Keeps(k)]_vars
  <2> SUFFICES ASSUME IndInv, Next, NEW k \in Channels,
                      state[k] = "InFlight", state'[k] # "InFlight"
               PROVE  state'[k] = "Completed" /\ result'[k] = update[k]
                      /\ requestId'[k] = requestId[k]
    BY DEF vars
  <2>1. TypeOK
    BY DEF IndInv
  <2>2. ASSUME NEW c \in Clients, NEW j \in Channels, Post(c, j) PROVE FALSE
    BY <2>1, <2>2 DEF Post, Accepts, TypeOK
  <2>3. ASSUME NEW c \in Clients, TakeToken(c) \/ TimeOut(c) \/ WaitAgain(c) PROVE FALSE
    BY <2>3 DEF TakeToken, TimeOut, WaitAgain, channelVars
  <2>4. ASSUME NEW c \in Clients, Return(c) PROVE FALSE
    <3>1. state[chan[c]] # "InFlight" /\ chan[c] \in Channels
      BY <2>4, VerdictOfOwner DEF Return, Busy
    <3> QED
      BY <2>1, <2>4, <3>1 DEF Return, TypeOK
  <2>5. CASE PollBegin \/ SkipChannel \/ WakeMoves \/ Apply
    BY <2>5 DEF PollBegin, SkipChannel, WakeMoves, Apply, channelVars
  <2>6. CASE Consume
    BY <2>1, <2>6 DEF Consume, TypeOK
  <2>7. CASE Complete
    <3>1. k = ui.at
      BY <2>1, <2>7 DEF Complete, TypeOK
    <3> QED
      BY <2>1, <2>7, <3>1 DEF Complete, IndInv, UiConsistent, Serving, TypeOK
  <2> QED
    BY <2>2, <2>3, <2>4, <2>5, <2>6, <2>7 DEF Next, ClientNext, UiNext
<1> QED
  BY <1>1, Invariance, PTL DEF Spec, InFlightKeepsGeneration

-----------------------------------------------------------------------------
(* The refinement: each step of the bridge moves at most one ticket.       *)

Applying(t) == ui.pc = "apply" /\ ui.update = t

\* The update being applied belongs to an open call that is not applied yet.
LEMMA ApplyingIsOpen ==
  ASSUME IndInv, NEW t, Applying(t)
  PROVE  t \in 1 .. tickets /\ answer[t] = Pending /\ applied[t] = 0
         /\ t = update[ui.at] /\ state[ui.at] = "InFlight" /\ ui.at \in Channels
<1>1. /\ ui.at \in Channels /\ state[ui.at] = "InFlight"
      /\ t = update[ui.at] /\ applied[t] = 0
  BY DEF Applying, IndInv, TypeOK, UiConsistent, Serving
<1>2. PICK c \in Clients : Busy(c) /\ chan[c] = ui.at
  BY <1>1 DEF IndInv, ChannelsOwned
<1> QED
  BY <1>1, <1>2 DEF IndInv, CallersOwn

\* A ticket nothing happens to keeps its status.
LEMMA StatusKept ==
  ASSUME NEW t \in Tickets, tickets \in Nat, tickets' \in Nat, MaxTickets \in Nat,
         t > tickets' <=> t > tickets, answer'[t] = answer[t], applied'[t] = applied[t],
         Applying(t)' <=> Applying(t)
  PROVE  Status(t)' = Status(t)
BY DEF Status, Applying, Tickets

\* The status of every ticket, in terms of the history.
LEMMA StatusOf ==
  ASSUME NEW t \in Tickets, tickets \in Nat, MaxTickets \in Nat
  PROVE  /\ t > tickets => Status(t) = "unused"
         /\ t \in 1 .. tickets /\ answer[t].kind = "reply" => Status(t) = "answered"
         /\ t \in 1 .. tickets /\ answer[t].kind = "timeout" => Status(t) = "cancelled"
         /\ t \in 1 .. tickets /\ answer[t].kind = "pending" =>
              Status(t) = IF applied[t] > 0 THEN "applied"
                          ELSE IF Applying(t) THEN "taken" ELSE "open"
BY DEF Status, Applying, Tickets

\* The same after a step.
LEMMA StatusAfter ==
  ASSUME NEW t \in Tickets, tickets' \in Nat, MaxTickets \in Nat
  PROVE  /\ t \in 1 .. tickets' /\ answer'[t].kind = "reply" => Status(t)' = "answered"
         /\ t \in 1 .. tickets' /\ answer'[t].kind = "timeout" => Status(t)' = "cancelled"
         /\ t \in 1 .. tickets' /\ answer'[t].kind = "pending" =>
              Status(t)' = IF applied'[t] > 0 THEN "applied"
                           ELSE IF Applying(t)' THEN "taken" ELSE "open"
BY DEF Status, Applying, Tickets

\* One ticket moves, the others keep their status.
LEMMA MoveOf ==
  ASSUME NEW t \in Tickets, NEW from, NEW to, Status(t) = from, Status(t)' = to,
         \A s \in Tickets \ {t} : Status(s)' = Status(s)
  PROVE  Promise!Move(t, from, to)
BY DEF Promise!Move

\* Nothing that the abstract specification sees happens.
LEMMA StutterOf ==
  ASSUME \A s \in Tickets : Status(s)' = Status(s)
  PROVE  UNCHANGED [t \in Tickets |-> Status(t)]
OBVIOUS

LEMMA PostOpens ==
  ASSUME IndInv, NEW c \in Clients, NEW k \in Channels, Post(c, k)
  PROVE  Promise!Next
<1> USE MaxTicketsAssumption
<1>0. tickets \in Nat /\ tickets + 1 \in Tickets
  BY DEF IndInv, TypeOK, Post, Tickets
<1>t. PICK t \in Tickets : t = tickets + 1
  BY <1>0
<1>1. /\ tickets \in Nat /\ t \in Tickets /\ tickets' = t /\ t = tickets + 1
      /\ UNCHANGED <<ui, applied, answer>>
  BY <1>0, <1>t DEF Post
<1>2. answer[t] = Pending /\ applied[t] = 0
  BY <1>1 DEF IndInv, HistoryConsistent
<1>3. ~Applying(t) /\ Status(t) = "unused"
  BY <1>1, ApplyingIsOpen, StatusOf
<1>4. Status(t)' = "open"
  <2>1. tickets' \in Nat /\ t \in 1 .. tickets' /\ answer'[t].kind = "pending"
        /\ ~(applied'[t] > 0)
    BY <1>1, <1>2 DEF Pending
  <2>2. ~Applying(t)'
    BY <1>1, <1>3 DEF Applying
  <2> QED
    BY <1>1, <2>1, <2>2, StatusAfter
<1>5. ASSUME NEW s \in Tickets \ {t} PROVE Status(s)' = Status(s)
  <2>1. s > tickets' <=> s > tickets
    BY <1>1 DEF Tickets
  <2>2. Applying(s)' <=> Applying(s)
    BY <1>1 DEF Applying
  <2> QED
    BY <1>1, <2>1, <2>2, StatusKept
<1>9. Promise!Move(t, "unused", "open")
  <2> QED
    BY <1>1, <1>3, <1>4, <1>5, MoveOf
<1> QED
  BY <1>1, <1>9 DEF Promise!Next, Promise!Open

LEMMA ReturnAnswersOrCancels ==
  ASSUME IndInv, NEW c \in Clients, Return(c)
  PROVE  Promise!Next
<1> USE MaxTicketsAssumption
<1>1. Busy(c) /\ Verdict(c) # "again"
  BY DEF Busy, Return
<1>t. PICK t \in Tickets : t = ticket[c]
  BY <1>1, VerdictOfOwner
<1>2. /\ t \in Tickets /\ t = ticket[c]
      /\ \/ Verdict(c) = "reply" /\ applied[t] = 1
         \/ Verdict(c) = "timeout" /\ applied[t] = 0 /\ state[chan[c]] = "Queued"
  BY <1>1, <1>t, VerdictOfOwner
<1>3. tickets \in Nat /\ t \in 1 .. tickets /\ answer[t] = Pending
      /\ answer \in [Tickets -> Answers]
  BY <1>1, <1>t DEF IndInv, CallersOwn, TypeOK
<1>4. UNCHANGED <<ui, applied, tickets>> /\ answer'[t].kind = Verdict(c)
      /\ \A s \in Tickets \ {t} : answer'[s] = answer[s]
  BY <1>2, <1>3 DEF Return
<1>5. ASSUME NEW s \in Tickets \ {t} PROVE Status(s)' = Status(s)
  BY <1>3, <1>4, StatusKept DEF Applying
<1>6. CASE Verdict(c) = "reply"
  <2>1. Status(t) = "applied"
    BY <1>2, <1>3, <1>6, StatusOf DEF Pending
  <2>2. Status(t)' = "answered"
    BY <1>2, <1>3, <1>4, <1>6, StatusAfter
  <2>3. Promise!Move(t, "applied", "answered")
    BY <1>2, <1>5, <2>1, <2>2, MoveOf
  <2> QED
    BY <1>2, <2>3 DEF Promise!Next, Promise!Answer
<1>7. CASE Verdict(c) = "timeout"
  <2>1. ~Applying(t)
    <3> SUFFICES ASSUME Applying(t) PROVE FALSE
      OBVIOUS
    <3>1. t = update[ui.at] /\ state[ui.at] = "InFlight" /\ ui.at \in Channels
      BY <1>2, ApplyingIsOpen
    <3>2. PICK d \in Clients : Busy(d) /\ chan[d] = ui.at
      BY <3>1 DEF IndInv, ChannelsOwned
    <3>3. ticket[d] = t
      BY <3>1, <3>2 DEF IndInv, CallersOwn
    <3> QED
      BY <1>1, <1>2, <1>7, <3>1, <3>2, <3>3 DEF IndInv, CallersDiffer
  <2>2. Status(t) = "open"
    BY <1>2, <1>3, <1>7, <2>1, StatusOf DEF Pending
  <2>3. Status(t)' = "cancelled"
    BY <1>2, <1>3, <1>4, <1>7, StatusAfter
  <2>4. Promise!Move(t, "open", "cancelled")
    BY <1>2, <1>5, <2>2, <2>3, MoveOf
  <2> QED
    BY <1>2, <2>4 DEF Promise!Next, Promise!Cancel
<1> QED
  BY <1>2, <1>6, <1>7

LEMMA ConsumeTakes ==
  ASSUME IndInv, Consume
  PROVE  Promise!Next
<1> USE MaxTicketsAssumption
<1>0. update[ui.at] \in Tickets
  <2>1. PICK c \in Clients : Busy(c) /\ chan[c] = ui.at
    <3>1. ui.at \in Channels /\ state[ui.at] = "Queued"
      BY DEF IndInv, TypeOK, Consume
    <3> QED
      BY <3>1 DEF IndInv, ChannelsOwned
  <2> QED
    BY <2>1 DEF IndInv, CallersOwn, TypeOK, Tickets
<1>t. PICK t \in Tickets : t = update[ui.at]
  BY <1>0
<1>1. /\ ui.at \in Channels /\ state[ui.at] = "Queued" /\ ui.pc = "scan"
      /\ UNCHANGED <<tickets, applied, answer>> /\ tickets \in Nat
      /\ ui'.pc = "apply" /\ ui'.update = t /\ t = update[ui.at]
  BY <1>t DEF IndInv, TypeOK, Consume, historyVars
<1>2. PICK c \in Clients : Busy(c) /\ chan[c] = ui.at
  BY <1>1 DEF IndInv, ChannelsOwned
<1>3. t \in 1 .. tickets /\ answer[t] = Pending
  BY <1>1, <1>2 DEF IndInv, CallersOwn
<1>4. t \in Tickets
  BY <1>1, <1>3 DEF IndInv, TypeOK, Tickets
<1>5. applied[t] = 0
  BY <1>1 DEF IndInv, ChannelsConsistent
<1>6. Status(t) = "open"
  BY <1>1, <1>3, <1>4, <1>5, StatusOf DEF Applying, Pending
<1>7. Status(t)' = "taken"
  <2>1. Applying(t)' /\ ~(applied'[t] > 0)
    BY <1>1, <1>5 DEF Applying
  <2> QED
    BY <1>1, <1>3, <1>4, <2>1, StatusAfter DEF Pending
<1>8. ASSUME NEW s \in Tickets \ {t} PROVE Status(s)' = Status(s)
  BY <1>1, StatusKept DEF Applying
<1>9. Promise!Move(t, "open", "taken")
  <2> QED
    BY <1>4, <1>6, <1>7, <1>8, MoveOf
<1> QED
  BY <1>4, <1>9 DEF Promise!Next, Promise!Take

LEMMA ApplyApplies ==
  ASSUME IndInv, Apply
  PROVE  Promise!Next
<1> USE MaxTicketsAssumption
<1>0. Applying(ui.update)
  BY DEF Apply, Applying
<1>t. PICK t \in Tickets : t = ui.update
  BY <1>0, ApplyingIsOpen DEF IndInv, TypeOK, Tickets
<1>1. Applying(t) /\ t = ui.update /\ tickets \in Nat /\ applied \in [Tickets -> Nat]
      /\ UNCHANGED <<tickets, answer>> /\ ui'.pc = "complete"
  BY <1>0, <1>t DEF IndInv, TypeOK, Apply, Applying
<1>2. t \in 1 .. tickets /\ answer[t] = Pending /\ applied[t] = 0
  BY <1>1, ApplyingIsOpen
<1>3. t \in Tickets
  BY <1>1, <1>2 DEF IndInv, TypeOK, Tickets
<1>4. applied'[t] = 1 /\ \A s \in Tickets \ {t} : applied'[s] = applied[s]
  BY <1>1, <1>2, <1>3 DEF Apply
<1>5. Status(t) = "taken"
  BY <1>1, <1>2, <1>3, StatusOf DEF Pending
<1>6. Status(t)' = "applied"
  BY <1>1, <1>2, <1>3, <1>4, StatusAfter DEF Pending
<1>7. ASSUME NEW s \in Tickets \ {t} PROVE Status(s)' = Status(s)
  BY <1>1, <1>4, StatusKept DEF Applying
<1>9. Promise!Move(t, "taken", "applied")
  <2> QED
    BY <1>3, <1>5, <1>6, <1>7, MoveOf
<1> QED
  BY <1>3, <1>9 DEF Promise!Next, Promise!Apply

LEMMA OthersStutter ==
  ASSUME IndInv, \/ UNCHANGED vars
                 \/ \E c \in Clients : TakeToken(c) \/ TimeOut(c) \/ WaitAgain(c)
                 \/ PollBegin \/ SkipChannel \/ Complete \/ WakeMoves
  PROVE  UNCHANGED [t \in Tickets |-> Status(t)]
<1>1. /\ UNCHANGED <<tickets, applied, answer>> /\ tickets \in Nat
      /\ ui' = ui \/ (ui.pc # "apply" /\ ui'.pc # "apply")
  <2>1. tickets \in Nat
    BY DEF IndInv, TypeOK
  <2>2. CASE UNCHANGED vars
    BY <2>1, <2>2 DEF vars, historyVars
  <2>3. ASSUME NEW c \in Clients, TakeToken(c) \/ TimeOut(c) \/ WaitAgain(c)
        PROVE  UNCHANGED <<tickets, applied, answer, ui>>
    BY <2>3 DEF TakeToken, TimeOut, WaitAgain, historyVars
  <2>4. Advance(ui).pc # "apply"
    BY DEF Advance, UiIdle
  <2>5. CASE PollBegin
    BY <2>1, <2>5 DEF PollBegin, UiIdle, historyVars
  <2>6. CASE SkipChannel \/ Complete
    BY <2>1, <2>4, <2>6 DEF SkipChannel, Complete, UiIdle, historyVars
  <2>7. CASE WakeMoves
    BY <2>1, <2>7 DEF WakeMoves, historyVars
  <2> QED
    BY <2>1, <2>2, <2>3, <2>5, <2>6, <2>7
<1>2. ASSUME NEW s \in Tickets PROVE Status(s)' = Status(s)
  BY <1>1, StatusKept, MaxTicketsAssumption DEF Applying
<1> QED
  BY <1>2, StutterOf

\* The bridge implements the abstract promise of RequestReply: a call is
\* answered only after its update was applied, and a cancelled one is never
\* applied.
THEOREM Implementation == Spec => ImplementsRequestReply
<1>1. Init => Promise!Init
  BY MaxTicketsAssumption DEF Init, Promise!Init, Status, Tickets
<1>2. IndInv /\ [Next]_vars => [Promise!Next]_[t \in Tickets |-> Status(t)]
  <2> SUFFICES ASSUME IndInv, [Next]_vars
               PROVE  Promise!Next \/ UNCHANGED [t \in Tickets |-> Status(t)]
    OBVIOUS
  <2>1. ASSUME NEW c \in Clients, ClientNext(c)
        PROVE  Promise!Next \/ UNCHANGED [t \in Tickets |-> Status(t)]
    BY <2>1, PostOpens, ReturnAnswersOrCancels, OthersStutter DEF ClientNext
  <2>2. CASE UiNext \/ WakeMoves \/ UNCHANGED vars
    BY <2>2, ConsumeTakes, ApplyApplies, OthersStutter DEF UiNext
  <2> QED
    BY <2>1, <2>2 DEF Next
<1> QED
  BY <1>1, <1>2, Invariance, PTL DEF Spec, ImplementsRequestReply, Promise!Spec
=============================================================================
