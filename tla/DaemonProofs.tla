------------------------------ MODULE DaemonProofs ------------------------------
(***************************************************************************)
(* Theorems about the smaller components of the daemon, for every set of   *)
(* clients, events, providers, commands, prompts and requests, and every   *)
(* bound: the drain for an update, the outbox of notifications, the        *)
(* journal of prompts, the cloud connector, and the interrupts of source   *)
(* turns.  Each part has its inductive invariant first, and then the       *)
(* lemmas about its operators, one theorem for the invariant and one for   *)
(* every property that the runs check.                                     *)
(***************************************************************************)
EXTENDS PromptJournal, SourceTurnInterrupt, UpdateReadiness, NotificationOutbox,
        CloudConnector, TLAPS

(* Readiness for an update.                                                *)
ReadinessTypes ==
  /\ work \in [Works -> {"idle", "admitted", "running", "ended", "cut"}]
  /\ admission \in {"open", "draining"}
  /\ drain \in [step : {"idle", "counting", "counted", "quiescing", "saving", "leased", "failed"},
                seen : BOOLEAN]
  /\ drains \in Nat
  /\ services \in {"open", "closing", "closed"}
  /\ turn \in BOOLEAN

(* From the count to the close no work is admitted, so that what was not   *)
(* there when the drain looked does not come afterwards.                   *)
DrainInv ==
  /\ drain.step \in {"counting", "counted", "quiescing", "saving", "leased"} =>
       admission = "draining"
  /\ drain.step \in {"quiescing", "saving", "leased"} =>
       \A w \in Works : work[w] \notin {"admitted", "running"}
  /\ NothingCutOff

ReadinessInv == ReadinessTypes /\ DrainInv

LEMMA ReadinessStarts == ReadinessInit => ReadinessInv
  BY DEF ReadinessInit, ReadinessInv, ReadinessTypes, DrainInv, NothingCutOff

LEMMA WorkKeeps ==
  ASSUME ReadinessInv, NEW w \in Works, Admitted(w) \/ RequestEnds(w) \/ WorkEnds(w)
  PROVE  ReadinessInv'
  <1>1. PICK next \in {"admitted", "ended", "running"} :
          work' = [work EXCEPT ![w] = next] /\ next # "cut"
    BY DEF Admitted, RequestEnds, WorkEnds
  <1>2. /\ UNCHANGED <<admission, drain, drains, services, turn>>
        /\ work \in [Works -> {"idle", "admitted", "running", "ended", "cut"}]
    BY DEF Admitted, RequestEnds, WorkEnds, ReadinessInv, ReadinessTypes
  <1>3. \A v \in Works : work'[v] = IF v = w THEN next ELSE work[v]
    BY <1>1, <1>2
  <1>4. drain.step \in {"quiescing", "saving", "leased"} => work[w] \notin {"admitted", "running"}
                                                            /\ admission # "open"
    BY DEF ReadinessInv, DrainInv
  <1>5. admission = "open" \/ work[w] \in {"admitted", "running"}
    BY DEF Admitted, RequestEnds, WorkEnds
  <1>6. ReadinessTypes'
    BY <1>1, <1>2 DEF ReadinessInv, ReadinessTypes
  <1>7. DrainInv'
    BY <1>1, <1>2, <1>3, <1>4, <1>5 DEF ReadinessInv, DrainInv, NothingCutOff
  <1> QED BY <1>6, <1>7 DEF ReadinessInv

LEMMA DrainKeeps ==
  ASSUME ReadinessInv,
         \/ TurnChanges \/ DrainBegins \/ TurnsCounted \/ DrainRefused \/ QuiesceBegins
         \/ StoreCloses \/ BackupEnds
  PROVE  ReadinessInv'
  <1>1. ReadinessTypes /\ DrainInv
    BY DEF ReadinessInv
  <1>2. CASE TurnChanges
    BY <1>1, <1>2 DEF TurnChanges, ReadinessInv, ReadinessTypes, DrainInv, NothingCutOff
  <1>3. CASE DrainBegins
    BY <1>1, <1>3 DEF DrainBegins, ReadinessInv, ReadinessTypes, DrainInv, NothingCutOff
  <1>4. CASE TurnsCounted
    BY <1>1, <1>4 DEF TurnsCounted, ReadinessInv, ReadinessTypes, DrainInv, NothingCutOff
  <1>5. CASE DrainRefused
    BY <1>1, <1>5 DEF DrainRefused, ReadinessInv, ReadinessTypes, DrainInv, NothingCutOff
  <1>6. CASE QuiesceBegins
    BY <1>1, <1>6 DEF QuiesceBegins, Blocked, ReadinessInv, ReadinessTypes, DrainInv, NothingCutOff
  <1>7. CASE StoreCloses
    BY <1>1, <1>7 DEF StoreCloses, ReadinessInv, ReadinessTypes, DrainInv, NothingCutOff
  <1>8. CASE BackupEnds
    BY <1>1, <1>8 DEF BackupEnds, ReadinessInv, ReadinessTypes, DrainInv, NothingCutOff
  <1> QED BY <1>2, <1>3, <1>4, <1>5, <1>6, <1>7, <1>8

LEMMA QuiesceKeeps ==
  ASSUME ReadinessInv, Quiesced \/ QuiesceFails
  PROVE  ReadinessInv'
  <1>1. PICK how \in {"saving", "failed"} :
          /\ Closed(how) /\ (how = "saving" => UNCHANGED admission)
          /\ admission' \in {"open", admission}
    BY DEF Quiesced, QuiesceFails
  <1>2. /\ ReadinessTypes /\ DrainInv /\ drain.step = "quiescing"
        /\ \A w \in Works : work[w] \notin {"admitted", "running"}
    BY <1>1 DEF ReadinessInv, DrainInv, Closed
  <1>3. work' = [w \in Works |-> IF work[w] \in {"admitted", "running"} THEN "cut" ELSE work[w]]
    BY <1>1 DEF Closed
  <1>4. \A w \in Works : work'[w] = work[w]
    BY <1>2, <1>3
  <1>5. work' \in [Works -> {"idle", "admitted", "running", "ended", "cut"}]
    BY <1>2, <1>3 DEF ReadinessTypes
  <1>6. drain' = [drain EXCEPT !.step = how] /\ services' = "closed" /\ UNCHANGED <<drains, turn>>
    BY <1>1 DEF Closed
  <1>7. /\ drain' \in [step : {"idle", "counting", "counted", "quiescing", "saving", "leased", "failed"},
                       seen : BOOLEAN]
        /\ drain'.step = how
    BY <1>2, <1>6 DEF ReadinessTypes
  <1>8. ReadinessTypes'
    BY <1>1, <1>2, <1>5, <1>6, <1>7 DEF ReadinessTypes
  <1>9. DrainInv'
    BY <1>1, <1>2, <1>4, <1>7 DEF DrainInv, NothingCutOff
  <1> QED BY <1>8, <1>9 DEF ReadinessInv

LEMMA ReplacementKeeps ==
  ASSUME ReadinessInv, DaemonIsReplaced
  PROVE  ReadinessInv'
  <1>1. \A w \in Works : work'[w] \in {work[w], "ended"}
    BY DEF DaemonIsReplaced
  <1>2. work' \in [Works -> {"idle", "admitted", "running", "ended", "cut"}]
    BY DEF DaemonIsReplaced, ReadinessInv, ReadinessTypes
  <1> QED BY <1>1, <1>2 DEF DaemonIsReplaced, ReadinessInv, ReadinessTypes, DrainInv, NothingCutOff

LEMMA ReadinessSteps == ReadinessInv /\ [ReadinessNext]_ReadinessVars => ReadinessInv'
  <1> SUFFICES ASSUME ReadinessInv, [ReadinessNext]_ReadinessVars PROVE ReadinessInv'
    OBVIOUS
  <1>1. CASE UNCHANGED ReadinessVars
    BY <1>1 DEF ReadinessVars, ReadinessInv, ReadinessTypes, DrainInv, NothingCutOff
  <1> QED BY <1>1, WorkKeeps, DrainKeeps, QuiesceKeeps, ReplacementKeeps DEF ReadinessNext

(* NothingCutOff: what was admitted when an update is prepared is over     *)
(* before the services close (updateReadinessCoordinator.ts:74).           *)
THEOREM DrainCutsNothing == ReadinessSpec => []NothingCutOff
  <1>1. ReadinessInv => NothingCutOff
    BY DEF ReadinessInv, DrainInv
  <1> QED BY <1>1, ReadinessStarts, ReadinessSteps, PTL DEF ReadinessSpec

-----------------------------------------------------------------------------
(* The outbox of the notifications.                                        *)
Delivery == [step : {"none", "sending", "taken", "saving", "saved"}, attempt : Nat]

Retry == [step : {"none", "queued", "armed"}, attempt : Nat]

OutboxTypes ==
  /\ service \in {"up", "closing", "down"}
  /\ claimed \in Seq(Events)
  /\ outbox \in [Notifications -> Nat]
  /\ pending \in [Notifications -> Retry]
  /\ delivery \in [Notifications -> Delivery]
  /\ trial.sent \in [Notifications -> Nat]
  /\ trial = [sent |-> trial.sent, done |-> trial.done, stranded |-> trial.stranded,
              stops |-> trial.stops, saveFailures |-> trial.saveFailures]

(* An attempt has a number, and all before it were made.                   *)
AttemptsInv ==
  \A n \in Notifications :
    /\ outbox[n] <= trial.sent[n] + 1
    /\ pending[n].attempt <= trial.sent[n] + 1
    /\ delivery[n].attempt <= trial.sent[n] + 1
    /\ delivery[n].step \in {"sending", "taken"} => delivery[n].attempt <= trial.sent[n]
    /\ delivery[n].step = "taken" => n \in trial.done

OutboxInv == OutboxTypes /\ AttemptsInv /\ NothingLost

(* A step that claims nothing may lose a row only if it accounts for it.   *)
LEMMA OutboxStep ==
  ASSUME OutboxInv, OutboxTypes', AttemptsInv', claimed' = claimed,
         \A n \in Notifications :
           /\ n \in trial.done => n \in trial'.done
           /\ trial.sent[n] <= trial'.sent[n]
           /\ outbox'[n] = 0 =>
                outbox[n] = 0 \/ n \in trial'.done \/ trial'.sent[n] >= Limit(n)
  PROVE  OutboxInv'
  <1>1. \A n \in Notifications : Limit(n) \in Nat /\ trial.sent[n] \in Nat /\ trial'.sent[n] \in Nat
    BY MaxAttemptsAssumption DEF Limit, OutboxInv, OutboxTypes
  <1>2. NothingLost'
    BY <1>1 DEF OutboxInv, NothingLost, Limit
  <1> QED BY <1>2 DEF OutboxInv

LEMMA SentGrows ==
  ASSUME OutboxTypes, NEW now \in SUBSET Notifications
  PROVE  /\ Sent(now) \in [Notifications -> Nat]
         /\ \A n \in Notifications :
              Sent(now)[n] = IF n \in now THEN trial.sent[n] + 1 ELSE trial.sent[n]
  <1>1. \A n \in Notifications : trial.sent[n] \in Nat
    BY DEF OutboxTypes
  <1>2. \A n \in Notifications :
          Sent(now)[n] = IF n \in now THEN trial.sent[n] + 1 ELSE trial.sent[n]
    BY <1>1 DEF Sent
  <1> QED BY <1>1, <1>2 DEF Sent

LEMMA OutboxStarts == OutboxInit => OutboxInv
  <1> SUFFICES ASSUME OutboxInit PROVE OutboxInv
    OBVIOUS
  <1>1. <<>> \in Seq(Events) /\ Nothing \in Retry /\ Nothing \in Delivery
    BY DEF Nothing, Retry, Delivery
  <1>2. OutboxTypes
    BY <1>1 DEF OutboxInit, OutboxTypes
  <1>3. AttemptsInv /\ NothingLost
    BY DEF OutboxInit, AttemptsInv, NothingLost, Nothing, Contains
  <1> QED BY <1>2, <1>3 DEF OutboxInv

LEMMA TakesKeeps ==
  ASSUME OutboxInv, NEW n \in Notifications, ProviderTakes(n)
  PROVE  OutboxInv'
  <1>1. /\ OutboxTypes /\ AttemptsInv /\ delivery[n].step = "sending"
        /\ delivery' = [delivery EXCEPT ![n].step = "taken"]
        /\ trial' = [trial EXCEPT !.done = @ \cup {n}]
        /\ UNCHANGED <<service, claimed, outbox, pending>>
    BY DEF OutboxInv, ProviderTakes
  <1>2. /\ trial'.sent = trial.sent /\ trial'.done = trial.done \cup {n}
        /\ trial' = [sent |-> trial'.sent, done |-> trial'.done, stranded |-> trial'.stranded,
                     stops |-> trial'.stops, saveFailures |-> trial'.saveFailures]
    BY <1>1 DEF OutboxTypes
  <1>3. /\ delivery' \in [Notifications -> Delivery]
        /\ delivery'[n].step = "taken" /\ delivery'[n].attempt = delivery[n].attempt
        /\ \A m \in Notifications \ {n} : delivery'[m] = delivery[m]
    BY <1>1 DEF OutboxTypes, Delivery
  <1>4. OutboxTypes'
    BY <1>1, <1>2, <1>3 DEF OutboxTypes
  <1>5. AttemptsInv'
    BY <1>1, <1>2, <1>3 DEF AttemptsInv
  <1>6. \A m \in Notifications : trial.sent[m] <= trial'.sent[m]
    BY <1>1, <1>2 DEF OutboxTypes
  <1> QED BY <1>1, <1>2, <1>4, <1>5, <1>6, OutboxStep

LEMMA SettledKeeps ==
  ASSUME OutboxInv, NEW n \in Notifications, NotificationSettled(n)
  PROVE  OutboxInv'
  <1>1. /\ OutboxTypes /\ AttemptsInv /\ delivery[n].step \in {"sending", "taken"}
        /\ delivery' = [delivery EXCEPT ![n] = Nothing]
        /\ pending' = [pending EXCEPT ![n] = Nothing]
        /\ outbox' = [outbox EXCEPT ![n] = 0]
        /\ \/ delivery[n].step = "taken" /\ trial' = trial
           \/ delivery[n].step = "sending" /\ trial' = [trial EXCEPT !.done = @ \cup {n}]
           \/ delivery[n].attempt = Limit(n) /\ trial' = trial
        /\ UNCHANGED <<service, claimed>>
    BY DEF OutboxInv, NotificationSettled, Sending
  <1>2. /\ trial'.sent = trial.sent /\ trial.done \subseteq trial'.done
        /\ trial' = [sent |-> trial'.sent, done |-> trial'.done, stranded |-> trial'.stranded,
                     stops |-> trial'.stops, saveFailures |-> trial'.saveFailures]
    BY <1>1 DEF OutboxTypes
  <1>3. Nothing \in Retry /\ Nothing \in Delivery /\ Nothing.attempt = 0 /\ Nothing.step = "none"
    BY DEF Nothing, Retry, Delivery
  <1>4. OutboxTypes'
    BY <1>1, <1>2, <1>3 DEF OutboxTypes
  <1>5. AttemptsInv'
    BY <1>1, <1>2, <1>3 DEF AttemptsInv, OutboxTypes
  <1>6. n \in trial'.done \/ trial'.sent[n] >= Limit(n)
    <2>1. delivery[n].attempt <= trial.sent[n]
      BY <1>1 DEF AttemptsInv
    <2>2. delivery[n].step = "taken" => n \in trial.done
      BY <1>1 DEF AttemptsInv
    <2>3. CASE delivery[n].step = "sending" /\ trial' = [trial EXCEPT !.done = @ \cup {n}]
      BY <2>3, <1>1 DEF OutboxTypes
    <2> QED BY <1>1, <1>2, <2>1, <2>2, <2>3
  <1>7. \A m \in Notifications : /\ trial.sent[m] <= trial'.sent[m]
                                 /\ outbox'[m] = 0 => outbox[m] = 0 \/ m = n
    BY <1>1, <1>2 DEF OutboxTypes
  <1> QED BY <1>1, <1>2, <1>4, <1>5, <1>6, <1>7, OutboxStep

LEMMA QueuedKeeps ==
  ASSUME OutboxInv, NEW n \in Notifications, RetryQueued(n)
  PROVE  OutboxInv'
  <1> DEFINE next == delivery[n].attempt + 1
             old  == Excess(Pending \cup {n}, claimed)
  <1>1. /\ OutboxTypes /\ AttemptsInv /\ delivery[n].step \in {"sending", "taken"}
        /\ outbox' = [m \in Notifications |->
                        IF m \in old THEN 0 ELSE IF m = n THEN next ELSE outbox[m]]
        /\ pending' = [m \in Notifications |->
                        IF m \in old THEN Nothing
                        ELSE IF m = n THEN [step |-> "queued", attempt |-> next] ELSE pending[m]]
        /\ delivery' = [delivery EXCEPT ![n] = [step |-> "saving", attempt |-> next]]
        /\ trial' = [trial EXCEPT !.done = @ \cup old]
        /\ UNCHANGED <<service, claimed>>
    BY DEF OutboxInv, RetryQueued, Sending
  <1>2. /\ delivery[n].attempt \in Nat /\ trial.sent[n] \in Nat /\ delivery[n].attempt <= trial.sent[n]
        /\ next = delivery[n].attempt + 1
    BY <1>1 DEF OutboxTypes, Delivery, AttemptsInv
  <1> HIDE DEF next, old
  <1>3. /\ trial'.sent = trial.sent /\ trial'.done = trial.done \cup old
        /\ trial' = [sent |-> trial'.sent, done |-> trial'.done, stranded |-> trial'.stranded,
                     stops |-> trial'.stops, saveFailures |-> trial'.saveFailures]
    BY <1>1 DEF OutboxTypes
  <1>4. /\ Nothing \in Retry /\ Nothing.attempt = 0 /\ Nothing.step = "none"
        /\ next \in Nat \ {0} /\ next <= trial.sent[n] + 1
        /\ [step |-> "queued", attempt |-> next] \in Retry
        /\ [step |-> "saving", attempt |-> next] \in Delivery
    BY <1>2 DEF Nothing, Retry, Delivery
  <1>5. /\ outbox' \in [Notifications -> Nat] /\ pending' \in [Notifications -> Retry]
        /\ delivery' \in [Notifications -> Delivery]
    BY <1>1, <1>4 DEF OutboxTypes
  <1>6. \A m \in Notifications :
          /\ outbox'[m] = IF m \in old THEN 0 ELSE IF m = n THEN next ELSE outbox[m]
          /\ pending'[m].attempt =
               IF m \in old THEN 0 ELSE IF m = n THEN next ELSE pending[m].attempt
          /\ delivery'[m] = IF m = n THEN [step |-> "saving", attempt |-> next] ELSE delivery[m]
    BY <1>1, <1>4 DEF OutboxTypes
  <1>7. OutboxTypes'
    BY <1>1, <1>3, <1>5 DEF OutboxTypes
  <1>8. AttemptsInv'
    <2> SUFFICES ASSUME NEW m \in Notifications
                 PROVE  /\ outbox'[m] <= trial'.sent[m] + 1
                        /\ pending'[m].attempt <= trial'.sent[m] + 1
                        /\ delivery'[m].attempt <= trial'.sent[m] + 1
                        /\ delivery'[m].step \in {"sending", "taken"} =>
                             delivery'[m].attempt <= trial'.sent[m]
                        /\ delivery'[m].step = "taken" => m \in trial'.done
      BY DEF AttemptsInv
    <2>1. trial.sent[m] \in Nat
      BY <1>1 DEF OutboxTypes
    <2>2. CASE m = n
      BY <1>3, <1>4, <1>6, <2>1, <2>2
    <2>3. CASE m # n
      BY <1>1, <1>3, <1>6, <2>1, <2>3 DEF AttemptsInv
    <2> QED BY <2>2, <2>3
  <1>9. \A m \in Notifications : /\ trial.sent[m] <= trial'.sent[m]
                                 /\ outbox'[m] = 0 => outbox[m] = 0 \/ m \in trial'.done
    BY <1>1, <1>3, <1>4, <1>6 DEF OutboxTypes
  <1> QED BY <1>1, <1>3, <1>7, <1>8, <1>9, OutboxStep

LEMMA SavingKeeps ==
  ASSUME OutboxInv, NEW n \in Notifications, RetrySaved(n) \/ RetryArmed(n) \/ RetryNotSaved(n)
  PROVE  OutboxInv'
  <1>1. /\ OutboxTypes /\ AttemptsInv /\ delivery[n].step \in {"saving", "saved"}
        /\ UNCHANGED <<service, claimed, outbox>>
        /\ delivery' \in {[delivery EXCEPT ![n] = Nothing], [delivery EXCEPT ![n].step = "saved"]}
        /\ pending' \in {pending, [pending EXCEPT ![n] = [step |-> "armed", attempt |-> delivery[n].attempt]]}
        /\ trial' \in {trial, [trial EXCEPT !.saveFailures = @ + 1, !.stranded = @ \cup {n}]}
    BY DEF OutboxInv, RetrySaved, RetryArmed, RetryNotSaved
  <1>2. /\ trial'.sent = trial.sent /\ trial'.done = trial.done
        /\ trial' = [sent |-> trial'.sent, done |-> trial'.done, stranded |-> trial'.stranded,
                     stops |-> trial'.stops, saveFailures |-> trial'.saveFailures]
    BY <1>1 DEF OutboxTypes
  <1>3. Nothing \in Delivery /\ Nothing.attempt = 0 /\ Nothing.step = "none"
    BY DEF Nothing, Delivery
  <1>4. /\ delivery' \in [Notifications -> Delivery]
        /\ delivery'[n].step \in {"none", "saved"}
        /\ delivery'[n].attempt \in {0, delivery[n].attempt}
        /\ \A m \in Notifications \ {n} : delivery'[m] = delivery[m]
    <2>1. CASE delivery' = [delivery EXCEPT ![n] = Nothing]
      BY <1>1, <1>3, <2>1 DEF OutboxTypes
    <2>2. CASE delivery' = [delivery EXCEPT ![n].step = "saved"]
      BY <1>1, <2>2 DEF OutboxTypes, Delivery
    <2> QED BY <1>1, <2>1, <2>2
  <1>5. /\ pending' \in [Notifications -> Retry]
        /\ pending'[n].attempt \in {pending[n].attempt, delivery[n].attempt}
        /\ \A m \in Notifications \ {n} : pending'[m] = pending[m]
    <2> DEFINE armed == [step |-> "armed", attempt |-> delivery[n].attempt]
    <2>1. armed \in Retry /\ armed.attempt = delivery[n].attempt
      BY <1>1 DEF OutboxTypes, Delivery, Retry
    <2>2. pending \in [Notifications -> Retry] /\ pending' \in {pending, [pending EXCEPT ![n] = armed]}
      BY <1>1 DEF OutboxTypes
    <2> HIDE DEF armed
    <2> QED BY <2>1, <2>2
  <1>6. OutboxTypes'
    BY <1>1, <1>2, <1>4, <1>5 DEF OutboxTypes
  <1>7. \A m \in Notifications : trial.sent[m] \in Nat
    BY <1>1 DEF OutboxTypes
  <1>8. AttemptsInv'
    BY <1>1, <1>2, <1>4, <1>5, <1>7 DEF AttemptsInv
  <1> QED BY <1>1, <1>2, <1>6, <1>7, <1>8, OutboxStep

LEMMA FiresKeeps ==
  ASSUME OutboxInv, NEW n \in Notifications, RetryTimerFires(n)
  PROVE  OutboxInv'
  <1>1. /\ OutboxTypes /\ AttemptsInv
        /\ pending' = [pending EXCEPT ![n].step = "queued"]
        /\ delivery' = [delivery EXCEPT ![n] = [step |-> "sending", attempt |-> pending[n].attempt]]
        /\ trial' = [trial EXCEPT !.sent = Sent({n})]
        /\ UNCHANGED <<service, claimed, outbox>>
    BY DEF OutboxInv, RetryTimerFires
  <1>2. /\ Sent({n}) \in [Notifications -> Nat]
        /\ \A m \in Notifications :
             Sent({n})[m] = IF m \in {n} THEN trial.sent[m] + 1 ELSE trial.sent[m]
    BY <1>1, SentGrows
  <1>3. /\ trial'.sent = Sent({n}) /\ trial'.done = trial.done
        /\ trial' = [sent |-> trial'.sent, done |-> trial'.done, stranded |-> trial'.stranded,
                     stops |-> trial'.stops, saveFailures |-> trial'.saveFailures]
    BY <1>1 DEF OutboxTypes
  <1>4. /\ pending[n].attempt \in Nat /\ \A m \in Notifications : trial.sent[m] \in Nat
    BY <1>1 DEF OutboxTypes, Retry
  <1>5. /\ delivery' \in [Notifications -> Delivery]
        /\ delivery'[n].step = "sending" /\ delivery'[n].attempt = pending[n].attempt
        /\ \A m \in Notifications \ {n} : delivery'[m] = delivery[m]
    BY <1>1, <1>4 DEF OutboxTypes, Delivery
  <1>6. /\ pending' \in [Notifications -> Retry]
        /\ \A m \in Notifications : pending'[m].attempt = pending[m].attempt
    BY <1>1 DEF OutboxTypes, Retry
  <1>7. /\ OutboxTypes'
    BY <1>1, <1>2, <1>3, <1>5, <1>6 DEF OutboxTypes
  <1>8. /\ trial'.sent[n] = trial.sent[n] + 1
        /\ \A m \in Notifications \ {n} : trial'.sent[m] = trial.sent[m]
    BY <1>2, <1>3
  <1>9. AttemptsInv'
    <2> SUFFICES ASSUME NEW m \in Notifications
                 PROVE  /\ outbox'[m] <= trial'.sent[m] + 1
                        /\ pending'[m].attempt <= trial'.sent[m] + 1
                        /\ delivery'[m].attempt <= trial'.sent[m] + 1
                        /\ delivery'[m].step \in {"sending", "taken"} =>
                             delivery'[m].attempt <= trial'.sent[m]
                        /\ delivery'[m].step = "taken" => m \in trial'.done
      BY DEF AttemptsInv
    <2>1. outbox[m] \in Nat /\ pending[m].attempt \in Nat /\ trial.sent[m] \in Nat
      BY <1>1 DEF OutboxTypes, Retry
    <2>2. CASE m = n
      <3>1. outbox'[n] <= trial.sent[n] + 1 /\ pending[n].attempt <= trial.sent[n] + 1
        BY <1>1 DEF AttemptsInv
      <3>2. /\ outbox'[n] <= trial'.sent[n] + 1
            /\ pending'[n].attempt <= trial'.sent[n] + 1
        <4>1. outbox[n] \in Nat /\ pending[n].attempt \in Nat /\ trial.sent[n] \in Nat
          BY <1>1 DEF OutboxTypes, Retry
        <4>2. outbox'[n] = outbox[n] /\ pending'[n].attempt = pending[n].attempt
          BY <1>1, <1>6
        <4>3. outbox'[n] <= trial.sent[n] + 1
          BY <3>1
        <4>4. pending'[n].attempt <= trial.sent[n] + 1
          BY <3>1, <4>2
        <4>5. trial.sent[n] + 1 = trial'.sent[n]
          BY <1>8
        <4>6. /\ outbox'[n] <= trial'.sent[n]
              /\ pending'[n].attempt <= trial'.sent[n]
          BY <4>3, <4>4, <4>5
        <4>7. /\ outbox'[n] \in Nat /\ pending'[n].attempt \in Nat /\ trial'.sent[n] \in Nat
          BY <4>1, <4>2, <4>5
        <4> QED BY <4>6, <4>7
      <3>3. delivery'[n].attempt <= trial.sent[n] + 1 /\ trial.sent[n] + 1 = trial'.sent[n]
        BY <1>5, <1>8, <3>1
      <3>4. delivery'[n].attempt <= trial'.sent[n] /\ trial'.sent[n] \in Nat /\ delivery'[n].attempt \in Nat
        BY <1>4, <1>5, <3>3
      <3>5. delivery'[n].attempt <= trial'.sent[n] + 1 /\ delivery'[n].step # "taken"
        BY <1>5, <3>4
      <3> QED BY <2>2, <3>2, <3>4, <3>5
    <2>3. CASE m # n
      <3>1. /\ trial'.sent[m] = trial.sent[m] /\ delivery'[m] = delivery[m] /\ outbox'[m] = outbox[m]
            /\ pending'[m].attempt = pending[m].attempt /\ trial'.done = trial.done
        BY <1>1, <1>3, <1>5, <1>6, <1>8, <2>3
      <3> QED BY <1>1, <3>1 DEF AttemptsInv
    <2> QED BY <2>2, <2>3
  <1>10. \A m \in Notifications : trial.sent[m] <= trial'.sent[m]
    BY <1>4, <1>8
  <1> QED BY <1>1, <1>3, <1>7, <1>9, <1>10, OutboxStep

(* The service stops: what is in memory goes, what is in the table stays.  *)
LEMMA StopsKeep ==
  ASSUME OutboxInv, ServiceCloseBegins \/ ServiceCloseEnds \/ ServiceCrashes
  PROVE  OutboxInv'
  <1>1. /\ OutboxTypes /\ AttemptsInv /\ UNCHANGED <<claimed, outbox>>
        /\ service' \in {"closing", "down"}
        /\ trial' = trial \/ trial' = [trial EXCEPT !.stops = @ + 1]
        /\ \/ pending' = [n \in Notifications |-> Disarmed(pending[n])]
           \/ pending' = [n \in Notifications |-> Nothing]
        /\ delivery' = delivery \/ delivery' = [n \in Notifications |-> Nothing]
    BY DEF OutboxInv, ServiceCloseBegins, ServiceCloseEnds, ServiceCrashes, Crashed
  <1>2. /\ trial'.sent = trial.sent /\ trial'.done = trial.done
        /\ trial' = [sent |-> trial'.sent, done |-> trial'.done, stranded |-> trial'.stranded,
                     stops |-> trial'.stops, saveFailures |-> trial'.saveFailures]
    BY <1>1 DEF OutboxTypes
  <1>3. Nothing \in Delivery /\ Nothing \in Retry /\ Nothing.attempt = 0 /\ Nothing.step = "none"
    BY DEF Nothing, Delivery, Retry
  <1>4. /\ pending' \in [Notifications -> Retry]
        /\ \A m \in Notifications : pending'[m].attempt \in {0, pending[m].attempt}
    <2>1. CASE pending' = [n \in Notifications |-> Nothing]
      BY <1>3, <2>1
    <2>2. CASE pending' = [n \in Notifications |-> Disarmed(pending[n])]
      <3>1. \A n \in Notifications : Disarmed(pending[n]) \in Retry
                                     /\ Disarmed(pending[n]).attempt = pending[n].attempt
        BY <1>1 DEF OutboxTypes, Disarmed, Retry
      <3> QED BY <2>2, <3>1
    <2> QED BY <1>1, <2>1, <2>2
  <1>5. /\ delivery' \in [Notifications -> Delivery]
        /\ \A m \in Notifications : delivery'[m] = delivery[m] \/ delivery'[m] = Nothing
    BY <1>1, <1>3 DEF OutboxTypes
  <1>6. OutboxTypes'
    BY <1>1, <1>2, <1>4, <1>5 DEF OutboxTypes
  <1>7. \A m \in Notifications : trial.sent[m] \in Nat
    BY <1>1 DEF OutboxTypes
  <1>8. AttemptsInv'
    BY <1>1, <1>2, <1>3, <1>4, <1>5, <1>7 DEF AttemptsInv
  <1> QED BY <1>1, <1>2, <1>6, <1>7, <1>8, OutboxStep

LEMMA StartsKeep ==
  ASSUME OutboxInv, ServiceStarts
  PROVE  OutboxInv'
  <1>1. PICK gone :
          /\ outbox' = [n \in Notifications |-> IF n \in gone THEN 0 ELSE outbox[n]]
          /\ pending' = [n \in Notifications |->
                           IF n \in {m \in Notifications : outbox[m] # 0} \ gone
                           THEN [step |-> "armed", attempt |-> outbox[n]] ELSE Nothing]
          /\ trial' = [trial EXCEPT !.done = @ \cup gone, !.stranded = {}]
    BY DEF ServiceStarts
  <1>2. /\ OutboxTypes /\ AttemptsInv /\ service' = "up" /\ UNCHANGED <<claimed, delivery>>
    BY DEF OutboxInv, ServiceStarts
  <1>3. /\ trial'.sent = trial.sent /\ trial'.done = trial.done \cup gone
        /\ trial' = [sent |-> trial'.sent, done |-> trial'.done, stranded |-> trial'.stranded,
                     stops |-> trial'.stops, saveFailures |-> trial'.saveFailures]
    BY <1>1, <1>2 DEF OutboxTypes
  <1>4. /\ Nothing \in Retry /\ Nothing.attempt = 0
        /\ \A n \in Notifications : outbox[n] \in Nat /\ [step |-> "armed", attempt |-> outbox[n]] \in Retry
    BY <1>2 DEF Nothing, Retry, OutboxTypes
  <1>5. /\ pending' \in [Notifications -> Retry]
        /\ \A m \in Notifications : pending'[m].attempt \in {0, outbox[m]}
    BY <1>1, <1>4
  <1>6. /\ outbox' \in [Notifications -> Nat]
        /\ \A m \in Notifications : outbox'[m] = IF m \in gone THEN 0 ELSE outbox[m]
    BY <1>1, <1>4
  <1>7. OutboxTypes'
    BY <1>2, <1>3, <1>5, <1>6 DEF OutboxTypes
  <1>8. \A m \in Notifications : trial.sent[m] \in Nat
    BY <1>2 DEF OutboxTypes
  <1>9. AttemptsInv'
    BY <1>2, <1>3, <1>4, <1>5, <1>6, <1>8 DEF AttemptsInv
  <1> QED BY <1>2, <1>3, <1>6, <1>7, <1>8, <1>9, OutboxStep

(* An event is claimed once, with a row for each of its notifications.     *)
LEMMA ClaimDoes ==
  ASSUME OutboxTypes, NEW e \in Events, NEW wanted \in SUBSET NewOf(e), Claim(e, wanted)
  PROVE  /\ claimed' \in Seq(Events)
         /\ \A f \in Events : Contains(claimed', f) => Contains(claimed, f) \/ f = e
         /\ wanted \subseteq Notifications
         /\ \A n \in Notifications : n[1] \in Events /\ (n[1] = e => n \in NewOf(e))
  <1>1. claimed \in Seq(Events) /\ claimed' = Append(claimed, e)
    BY DEF OutboxTypes, Claim
  <1>2. /\ claimed' \in Seq(Events) /\ Len(claimed') = Len(claimed) + 1 /\ Len(claimed) \in Nat
        /\ \A i \in 1 .. Len(claimed) : claimed'[i] = claimed[i]
        /\ claimed'[Len(claimed) + 1] = e
    BY <1>1
  <1>3. \A i \in 1 .. Len(claimed') : i \in 1 .. Len(claimed) \/ i = Len(claimed) + 1
    BY <1>2
  <1>4. \A f \in Events : Contains(claimed', f) => Contains(claimed, f) \/ f = e
    BY <1>2, <1>3 DEF Contains
  <1>5. wanted \subseteq Notifications
    BY DEF NewOf, Notifications
  <1>6. \A n \in Notifications : n[1] \in Events /\ (n[1] = e => n \in NewOf(e))
    BY DEF NewOf, Notifications
  <1> QED BY <1>2, <1>4, <1>5, <1>6

LEMMA ClaimedKeeps ==
  ASSUME OutboxInv, OutboxTypes', AttemptsInv', NEW e \in Events, NEW wanted \in SUBSET NewOf(e),
         Claim(e, wanted), NewOf(e) \ wanted \subseteq trial'.done,
         \A n \in wanted : outbox'[n] # 0 \/ n \in trial'.done,
         \A n \in Notifications :
           /\ n \in trial.done => n \in trial'.done
           /\ trial.sent[n] <= trial'.sent[n]
           /\ outbox'[n] = 0 => outbox[n] = 0 \/ n \in trial'.done
  PROVE  OutboxInv'
  <1>1. \A n \in Notifications : Limit(n) \in Nat /\ trial.sent[n] \in Nat /\ trial'.sent[n] \in Nat
    BY MaxAttemptsAssumption DEF Limit, OutboxInv, OutboxTypes
  <1>2. /\ \A f \in Events : Contains(claimed', f) => Contains(claimed, f) \/ f = e
        /\ \A n \in Notifications : n[1] \in Events /\ (n[1] = e => n \in NewOf(e))
    BY ClaimDoes DEF OutboxInv
  <1>3. ASSUME NEW n \in Notifications, Contains(claimed', n[1])
        PROVE  outbox'[n] # 0 \/ n \in trial'.done \/ trial'.sent[n] >= Limit(n)
    <2>1. CASE n[1] = e
      BY <1>2, <2>1
    <2>2. CASE Contains(claimed, n[1])
      <3>1. outbox[n] # 0 \/ n \in trial.done \/ trial.sent[n] >= Limit(n)
        BY <2>2 DEF OutboxInv, NothingLost
      <3> QED BY <1>1, <3>1
    <2> QED BY <1>2, <1>3, <2>1, <2>2
  <1>4. NothingLost'
    BY <1>3 DEF NothingLost, Limit
  <1> QED BY <1>4 DEF OutboxInv

LEMMA CrashClaimKeeps ==
  ASSUME OutboxInv, NEW e \in Events, NEW wanted \in SUBSET NewOf(e), CrashAfterClaim(e, wanted)
  PROVE  OutboxInv'
  <1>1. /\ OutboxTypes /\ AttemptsInv /\ Claim(e, wanted) /\ service' = "down"
        /\ pending' = [n \in Notifications |-> Nothing]
        /\ delivery' = [n \in Notifications |-> Nothing]
        /\ outbox' = [n \in Notifications |-> IF n \in wanted THEN 1 ELSE outbox[n]]
        /\ trial' = [trial EXCEPT !.stops = @ + 1, !.done = @ \cup (NewOf(e) \ wanted)]
    BY DEF OutboxInv, CrashAfterClaim, Crashed
  <1>2. claimed' \in Seq(Events) /\ wanted \subseteq Notifications
    BY <1>1, ClaimDoes
  <1>3. /\ trial'.sent = trial.sent /\ trial'.done = trial.done \cup (NewOf(e) \ wanted)
        /\ trial' = [sent |-> trial'.sent, done |-> trial'.done, stranded |-> trial'.stranded,
                     stops |-> trial'.stops, saveFailures |-> trial'.saveFailures]
    BY <1>1 DEF OutboxTypes
  <1>4. Nothing \in Delivery /\ Nothing \in Retry /\ Nothing.attempt = 0 /\ Nothing.step = "none"
    BY DEF Nothing, Delivery, Retry
  <1>5. /\ outbox' \in [Notifications -> Nat]
        /\ \A m \in Notifications : /\ outbox'[m] = IF m \in wanted THEN 1 ELSE outbox[m]
                                    /\ pending'[m] = Nothing /\ delivery'[m] = Nothing
        /\ \A m \in Notifications : outbox[m] \in Nat /\ trial.sent[m] \in Nat
    BY <1>1 DEF OutboxTypes
  <1>6. OutboxTypes'
    BY <1>1, <1>2, <1>3, <1>4, <1>5 DEF OutboxTypes
  <1>7. AttemptsInv'
    BY <1>1, <1>3, <1>4, <1>5 DEF AttemptsInv
  <1>8. /\ NewOf(e) \ wanted \subseteq trial'.done
        /\ \A n \in wanted : outbox'[n] # 0
        /\ \A n \in Notifications :
             /\ n \in trial.done => n \in trial'.done
             /\ trial.sent[n] <= trial'.sent[n]
             /\ outbox'[n] = 0 => outbox[n] = 0
    BY <1>2, <1>3, <1>5
  <1> QED BY <1>1, <1>6, <1>7, <1>8, ClaimedKeeps

LEMMA NotifyKeeps ==
  ASSUME OutboxInv, NEW e \in Events, NEW wanted \in SUBSET NewOf(e), Notify(e, wanted)
  PROVE  OutboxInv'
  <1> DEFINE old  == Excess(Pending \cup wanted, claimed')
             kept == wanted \ old
  <1>1. /\ OutboxTypes /\ AttemptsInv /\ Claim(e, wanted) /\ service' = service
        /\ outbox' = [n \in Notifications |->
                        IF n \in old THEN 0 ELSE IF n \in wanted THEN 1 ELSE outbox[n]]
        /\ pending' = [n \in Notifications |->
                         IF n \in old THEN Nothing
                         ELSE IF n \in wanted THEN [step |-> "queued", attempt |-> 1]
                         ELSE pending[n]]
        /\ delivery' = [n \in Notifications |->
                          IF n \in kept THEN [step |-> "sending", attempt |-> 1] ELSE delivery[n]]
        /\ trial' = [trial EXCEPT !.done = @ \cup old \cup (NewOf(e) \ wanted), !.sent = Sent(kept)]
    BY DEF OutboxInv, Notify
  <1> HIDE DEF old
  <1>2. claimed' \in Seq(Events) /\ wanted \subseteq Notifications
    BY <1>1, ClaimDoes
  <1>3. /\ Sent(kept) \in [Notifications -> Nat]
        /\ \A n \in Notifications :
             Sent(kept)[n] = IF n \in kept THEN trial.sent[n] + 1 ELSE trial.sent[n]
    BY <1>1, <1>2, SentGrows
  <1> HIDE DEF kept
  <1>4. /\ trial'.sent = Sent(kept) /\ trial'.done = trial.done \cup old \cup (NewOf(e) \ wanted)
        /\ trial' = [sent |-> trial'.sent, done |-> trial'.done, stranded |-> trial'.stranded,
                     stops |-> trial'.stops, saveFailures |-> trial'.saveFailures]
    BY <1>1 DEF OutboxTypes
  <1>5. /\ Nothing \in Retry /\ Nothing.attempt = 0
        /\ [step |-> "queued", attempt |-> 1] \in Retry /\ [step |-> "sending", attempt |-> 1] \in Delivery
        /\ \A m \in Notifications : outbox[m] \in Nat /\ trial.sent[m] \in Nat
    BY <1>1 DEF Nothing, Delivery, Retry, OutboxTypes
  <1>6. /\ outbox' \in [Notifications -> Nat] /\ pending' \in [Notifications -> Retry]
        /\ delivery' \in [Notifications -> Delivery]
    BY <1>1, <1>5 DEF OutboxTypes
  <1>7. \A m \in Notifications :
          /\ outbox'[m] = IF m \in old THEN 0 ELSE IF m \in wanted THEN 1 ELSE outbox[m]
          /\ pending'[m].attempt \in {0, 1, pending[m].attempt}
          /\ \/ m \in kept /\ delivery'[m].step = "sending" /\ delivery'[m].attempt = 1
             \/ m \notin kept /\ delivery'[m] = delivery[m]
    <2>1. \A m \in Notifications :
            /\ outbox'[m] = IF m \in old THEN 0 ELSE IF m \in wanted THEN 1 ELSE outbox[m]
            /\ pending'[m] \in {Nothing, [step |-> "queued", attempt |-> 1], pending[m]}
            /\ delivery'[m] = IF m \in kept THEN [step |-> "sending", attempt |-> 1] ELSE delivery[m]
      BY <1>1
    <2> QED BY <1>5, <2>1
  <1>8. OutboxTypes'
    BY <1>1, <1>2, <1>3, <1>4, <1>6 DEF OutboxTypes
  <1>9. AttemptsInv'
    <2> SUFFICES ASSUME NEW m \in Notifications
                 PROVE  /\ outbox'[m] <= trial'.sent[m] + 1
                        /\ pending'[m].attempt <= trial'.sent[m] + 1
                        /\ delivery'[m].attempt <= trial'.sent[m] + 1
                        /\ delivery'[m].step \in {"sending", "taken"} =>
                             delivery'[m].attempt <= trial'.sent[m]
                        /\ delivery'[m].step = "taken" => m \in trial'.done
      BY DEF AttemptsInv
    <2>1. /\ outbox[m] \in Nat /\ pending[m].attempt \in Nat /\ delivery[m].attempt \in Nat
          /\ trial.sent[m] \in Nat
      BY <1>1 DEF OutboxTypes, Retry, Delivery
    <2>2. /\ outbox[m] <= trial.sent[m] + 1 /\ pending[m].attempt <= trial.sent[m] + 1
          /\ delivery[m].attempt <= trial.sent[m] + 1
          /\ delivery[m].step \in {"sending", "taken"} => delivery[m].attempt <= trial.sent[m]
          /\ delivery[m].step = "taken" => m \in trial.done
      BY <1>1 DEF AttemptsInv
    <2>3. /\ trial'.sent[m] = IF m \in kept THEN trial.sent[m] + 1 ELSE trial.sent[m]
          /\ m \in trial.done => m \in trial'.done
      BY <1>3, <1>4
    <2> QED BY <1>7, <2>1, <2>2, <2>3
  <1>10. /\ NewOf(e) \ wanted \subseteq trial'.done
         /\ \A n \in wanted : outbox'[n] # 0 \/ n \in trial'.done
         /\ \A n \in Notifications :
              /\ n \in trial.done => n \in trial'.done
              /\ trial.sent[n] <= trial'.sent[n]
              /\ outbox'[n] = 0 => outbox[n] = 0 \/ n \in trial'.done
    BY <1>2, <1>3, <1>4, <1>5, <1>7
  <1> QED BY <1>1, <1>8, <1>9, <1>10, ClaimedKeeps

LEMMA OutboxSteps == OutboxInv /\ [OutboxNext]_OutboxVars => OutboxInv'
  <1> SUFFICES ASSUME OutboxInv, [OutboxNext]_OutboxVars PROVE OutboxInv'
    OBVIOUS
  <1>1. CASE UNCHANGED OutboxVars
    BY <1>1 DEF OutboxVars, OutboxInv, OutboxTypes, AttemptsInv, NothingLost
  <1> QED BY <1>1, NotifyKeeps, CrashClaimKeeps, TakesKeeps, SettledKeeps, QueuedKeeps, SavingKeeps,
             FiresKeeps, StopsKeep, StartsKeep DEF OutboxNext

(* NothingLost: the row of a notification goes only with a reason, through *)
(* every retry, failed save and crash (notificationDeliveryScheduler.ts).  *)
THEOREM RowsAreAccounted == OutboxSpec => []NothingLost
  <1>1. OutboxInv => NothingLost
    BY DEF OutboxInv
  <1> QED BY <1>1, OutboxStarts, OutboxSteps, PTL DEF OutboxSpec

-----------------------------------------------------------------------------
(* The journal of prompts.                                                 *)

(* What any statement does to the rows of a session: they stay rows, and   *)
(* those that are settled stay as they are.                                *)
Follows(old, new) ==
  /\ new \in Rows
  /\ \A d \in Prompt : old[d] \in Settled => new[d] = old[d]

LEMMA StatementsFollow ==
  ASSUME NEW rows \in Rows, NEW from, from \cap Settled = {}, NEW to \in Phase, NEW d \in Prompt
  PROVE  /\ Follows(rows, ById(rows, d, from, to))
         /\ Follows(rows, LatestBySession(rows, from, to))
         /\ Follows(rows, Sweep(rows, from, to))
  BY DEF Follows, ById, LatestBySession, IsLatest, Sweep, Rows

LEMMA PhasesApart ==
  /\ {"prepared"} \cap Settled = {} /\ {"dispatching"} \cap Settled = {}
  /\ InFlight \cap Settled = {} /\ {"prepared", "dispatching"} \cap Settled = {}
  /\ (Recoverable \ {"not_sent"}) \cap Settled = {} /\ Recoverable \cap Settled = {}
  /\ {"not_sent", "outcome_unknown"} \cap Settled = {}
  /\ {"prepared", "dispatching", "accepted", "not_sent", "outcome_unknown", "observed",
      "completed", "interrupted"} \subseteq Phase
  BY DEF InFlight, Settled, Recoverable, Phase

LEMMA JournalStep ==
  ASSUME journal \in [Sessions -> Rows], Next
  PROVE  /\ journal' \in [Sessions -> Rows]
         /\ \A s \in Sessions : Follows(journal[s], journal'[s])
  <1>1. ASSUME NEW s \in Sessions, NEW rows, journal' = [journal EXCEPT ![s] = rows],
               Follows(journal[s], rows)
        PROVE  /\ journal' \in [Sessions -> Rows]
               /\ \A t \in Sessions : Follows(journal[t], journal'[t])
    BY <1>1 DEF Follows
  <1>2. ASSUME NEW s \in Sessions, Insert(s)
        PROVE  \E rows : journal' = [journal EXCEPT ![s] = rows] /\ Follows(journal[s], rows)
    <2>1. PICK d \in Prompt : /\ IsNext(journal[s], d)
                              /\ journal' = [journal EXCEPT ![s] = Prepare(journal[s], d)]
      BY <1>2 DEF Insert
    <2>2. Follows(journal[s], Prepare(journal[s], d))
      BY <2>1, PhasesApart DEF Follows, Prepare, IsNext, Rows, Settled
    <2> QED BY <2>1, <2>2
  <1>3. ASSUME NEW s \in Sessions, NEW d \in Prompt, UpdateDelivery(s, d)
        PROVE  \E rows : journal' = [journal EXCEPT ![s] = rows] /\ Follows(journal[s], rows)
    <2>1. journal[s] \in Rows
      OBVIOUS
    <2>2. /\ Follows(journal[s], MarkDispatching(journal[s], d))
          /\ Follows(journal[s], MarkAccepted(journal[s], d))
          /\ Follows(journal[s], MarkOutcomeUnknown(journal[s], d))
          /\ Follows(journal[s], MarkNotSent(journal[s], d))
          /\ Follows(journal[s], MarkNotSentAfterSynchronousSpawnFailure(journal[s], d))
      BY <2>1, PhasesApart, StatementsFollow
         DEF MarkDispatching, MarkAccepted, MarkOutcomeUnknown, MarkNotSent,
             MarkNotSentAfterSynchronousSpawnFailure
    <2> QED BY <1>3, <2>2 DEF UpdateDelivery
  <1>4. ASSUME NEW s \in Sessions, UpdateSession(s)
        PROVE  \E rows : journal' = [journal EXCEPT ![s] = rows] /\ Follows(journal[s], rows)
    <2>1. journal[s] \in Rows /\ 1 \in Prompt
      BY MaxPromptsAssumption DEF Prompt
    <2>2. /\ Follows(journal[s], MarkDispatchingBySession(journal[s]))
          /\ Follows(journal[s], MarkAcceptedBySession(journal[s]))
          /\ Follows(journal[s], MarkNotSentBySession(journal[s]))
          /\ Follows(journal[s], MarkOutcomeUnknownBySession(journal[s]))
          /\ Follows(journal[s], MarkNotSentAfterActiveWriterConflict(journal[s]))
          /\ Follows(journal[s], MarkObservedBySession(journal[s]))
          /\ Follows(journal[s], MarkCompleted(journal[s]))
          /\ Follows(journal[s], MarkInterrupted(journal[s]))
      BY <2>1, PhasesApart, StatementsFollow
         DEF MarkDispatchingBySession, MarkAcceptedBySession, MarkNotSentBySession,
             MarkOutcomeUnknownBySession, MarkNotSentAfterActiveWriterConflict,
             MarkObservedBySession, MarkCompleted, MarkInterrupted
    <2> QED BY <1>4, <2>2 DEF UpdateSession
  <1>5. ASSUME NEW rows \in Rows
        PROVE  /\ Follows(rows, MarkActiveOutcomeUnknownForShutdown(rows))
               /\ Follows(rows, RecoverActiveAfterRestart(rows))
    <2> DEFINE first == Sweep(rows, {"prepared"}, "not_sent")
    <2>1. 1 \in Prompt
      BY MaxPromptsAssumption DEF Prompt
    <2>2. Follows(rows, first) /\ Follows(rows, MarkActiveOutcomeUnknownForShutdown(rows))
      BY <1>5, <2>1, PhasesApart, StatementsFollow DEF MarkActiveOutcomeUnknownForShutdown
    <2>3. first \in Rows
      BY <2>2 DEF Follows
    <2>4. RecoverActiveAfterRestart(rows) = Sweep(first, InFlight, "outcome_unknown")
      BY DEF RecoverActiveAfterRestart
    <2> HIDE DEF first
    <2>5. Follows(first, Sweep(first, InFlight, "outcome_unknown"))
      BY <2>1, <2>3, PhasesApart, StatementsFollow
    <2> QED BY <2>2, <2>4, <2>5 DEF Follows
  <1>6. CASE Shutdown \/ Recover
    BY <1>5, <1>6 DEF Shutdown, Recover, Follows
  <1> QED BY <1>1, <1>2, <1>3, <1>4, <1>6 DEF Next

(* No method of the store, by id, by session or in a sweep, changes a row  *)
(* that is settled: every WHERE of promptDeliveryJournalStore names the    *)
(* phases it starts from, and none of them is settled.                     *)
THEOREM SettledStays == Spec => SettledIsFinal
  <1> DEFINE Typed == journal \in [Sessions -> Rows]
             Final == \A s \in Sessions, d \in Prompt :
                        journal[s][d] \in Settled => journal'[s][d] = journal[s][d]
  <1>1. Init => Typed
    BY DEF Init, NoRows, Rows, Phase
  <1>2. Typed /\ [Next]_journal => Typed' /\ [Final]_journal
    BY JournalStep DEF Follows
  <1> HIDE DEF Typed
  <1> QED BY <1>1, <1>2, PTL DEF Spec, SettledIsFinal

-----------------------------------------------------------------------------
(* The interrupts of source turns.                                         *)
Records == Interrupt \cup {NoInterrupt}
Table   == [Key -> Records]

Interrupter ==
  [step : {"idle", "read", "stopping", "forcing"}, view : View,
   target : Key \cup {NoKey}, rank : 0 .. MaxInterrupts]

ChatTypes ==
  /\ chat \in [begun : 0 .. MaxTurns, phase : [Turn -> Outcomes \cup {"active", "none"}]]
  /\ requested \in 0 .. MaxInterrupts
  /\ interrupts \in Table
  /\ interrupter \in [Interrupters -> Interrupter]

(* Ranks are given out once.                                               *)
RanksOf(t, n) ==
  \A k \in Key :
    /\ t[k].rank <= n
    /\ t[k] # NoInterrupt => \A j \in Key \ {k} : t[j].rank # t[k].rank

RankInv == RanksOf(interrupts, requested)

(* A request under way is about the turn that it saw active.               *)
OnTarget(i) ==
  i.step # "idle" =>
    \/ i.target = NoKey
    \/ /\ i.target \in Turn \X {"prompt", "start"}
       /\ i.view.turn = i.target[1] /\ i.view.known /\ i.view.phase = "active"

TargetInv == \A h \in Interrupters : OnTarget(interrupter[h])

InterruptInv == ChatTypes /\ RankInv /\ TargetInv

(* What becomes of a row unless it is requested anew.                      *)
Kept1(old, new) ==
  \/ new = NoInterrupt
  \/ /\ new.rank = old.rank
     /\ old.phase \in Confirmed =>
          /\ new.phase \in Confirmed
          /\ old.phase = "confirmed_source" => new.phase = "confirmed_source"

Keeps(old, new) == new \in Table /\ \A k \in Key : Kept1(old[k], new[k])

LEMMA RowIs ==
  ASSUME NEW r \in Records
  PROVE  /\ r # NoInterrupt => r \in Interrupt /\ r.phase \in Open \cup Confirmed /\ r.rank \in 1 .. MaxInterrupts
         /\ r = NoInterrupt => r.phase = "absent" /\ r.rank = 0
         /\ r.rank = 0 => r = NoInterrupt
         /\ r.phase = "absent" => r = NoInterrupt
         /\ r.rank \in Nat
  BY DEF Records, Interrupt, NoInterrupt, Open, Confirmed

LEMMA KeepsSelf == ASSUME NEW t \in Table PROVE Keeps(t, t)
  BY DEF Keeps, Kept1

LEMMA KeepsTwice ==
  ASSUME NEW t \in Table, NEW u, NEW w, Keeps(t, u), Keeps(u, w)
  PROVE  Keeps(t, w)
  <1> SUFFICES ASSUME NEW k \in Key PROVE Kept1(t[k], w[k])
    BY DEF Keeps
  <1>1. u[k] \in Records /\ w[k] \in Records /\ Kept1(t[k], u[k]) /\ Kept1(u[k], w[k])
    BY DEF Keeps, Table
  <1> QED BY <1>1, RowIs DEF Kept1

LEMMA ConfirmKeeps ==
  ASSUME NEW t \in Table
  PROVE  Keeps(t, ConfirmTransportExit(t))
  <1>1. ASSUME NEW r \in Records, r.phase \in Open
        PROVE  /\ [r EXCEPT !.phase = "confirmed_process", !.outcome = "interrupted"] \in Records
               /\ [r EXCEPT !.phase = "confirmed_process", !.outcome = "interrupted"].rank = r.rank
    <2>1. r \in Interrupt
      BY <1>1, RowIs DEF Open
    <2> QED BY <2>1, OutcomesAssumption DEF Records, Interrupt, Confirmed
  <1>2. ASSUME NEW k \in Key
        PROVE  ConfirmTransportExit(t)[k] \in Records /\ Kept1(t[k], ConfirmTransportExit(t)[k])
    <2>1. CASE IsLatestOf(t, k) /\ t[k].phase \in Open
      <3>1. ConfirmTransportExit(t)[k] =
              [t[k] EXCEPT !.phase = "confirmed_process", !.outcome = "interrupted"]
        BY <2>1 DEF ConfirmTransportExit
      <3>2. t[k] \in Records /\ t[k].phase \notin Confirmed
        BY <2>1 DEF Table, Open, Confirmed
      <3> QED BY <1>1, <2>1, <3>1, <3>2 DEF Kept1
    <2>2. CASE ~(IsLatestOf(t, k) /\ t[k].phase \in Open)
      BY <2>2 DEF ConfirmTransportExit, Kept1, Table
    <2> QED BY <2>1, <2>2
  <1>3. ConfirmTransportExit(t) = [k \in Key |-> ConfirmTransportExit(t)[k]]
    BY DEF ConfirmTransportExit
  <1> QED BY <1>2, <1>3 DEF Keeps, Table

LEMMA ReconciledKeeps ==
  ASSUME NEW k \in Key, NEW r \in Records, r # NoInterrupt, NEW v \in View, NEW late \in BOOLEAN
  PROVE  /\ Reconciled(k, r, v, late) \in Records /\ Kept1(r, Reconciled(k, r, v, late))
         /\ ~NewerTurn(k, r, v) => Reconciled(k, r, v, late) # NoInterrupt
  <1>1. r \in Interrupt
    BY RowIs
  <1>2. CASE NewerTurn(k, r, v)
    BY <1>2 DEF Reconciled, TerminalOf, Kept1, Records
  <1>3. CASE ~NewerTurn(k, r, v) /\ TerminalOf(k, r, v) /\ v.full
    <2>1. Reconciled(k, r, v, late) = [r EXCEPT !.phase = "confirmed_source", !.outcome = v.phase]
      BY <1>3 DEF Reconciled
    <2>2. v.phase \in Outcomes
      BY <1>3 DEF TerminalOf
    <2>3. /\ [r EXCEPT !.phase = "confirmed_source", !.outcome = v.phase] \in Interrupt
          /\ [r EXCEPT !.phase = "confirmed_source", !.outcome = v.phase].rank = r.rank
          /\ [r EXCEPT !.phase = "confirmed_source", !.outcome = v.phase].phase = "confirmed_source"
      BY <1>1, <2>2 DEF Interrupt, Confirmed
    <2> QED BY <1>3, <2>1, <2>3, RowIs DEF Kept1, Records, Confirmed
  <1>4. CASE ~NewerTurn(k, r, v) /\ Reconciled(k, r, v, late) = r
    BY <1>4 DEF Kept1
  <1>5. CASE ~NewerTurn(k, r, v) /\ r.phase = "requested"
               /\ Reconciled(k, r, v, late) = [r EXCEPT !.phase = "unresolved"]
    <2>1. /\ [r EXCEPT !.phase = "unresolved"] \in Interrupt
          /\ [r EXCEPT !.phase = "unresolved"].rank = r.rank
      BY <1>1 DEF Interrupt, Open
    <2> QED BY <1>5, <2>1 DEF Kept1, Records, Confirmed, Interrupt, NoInterrupt
  <1> QED BY <1>2, <1>3, <1>4, <1>5 DEF Reconciled

LEMMA DecorateKeeps ==
  ASSUME NEW t \in Table, NEW v \in View, NEW age
  PROVE  Keeps(t, Decorate(t, v, age))
  <1>1. ASSUME NEW k \in Key
        PROVE  Decorate(t, v, age)[k] \in Records /\ Kept1(t[k], Decorate(t, v, age)[k])
    <2>1. t[k] \in Records /\ NoInterrupt \in Records /\ (age = "late") \in BOOLEAN
      BY DEF Table, Records
    <2>2. CASE ~IsLatestOf(t, k)
      BY <2>1, <2>2 DEF Decorate, Kept1
    <2>3. CASE IsLatestOf(t, k) /\ age = "expired"
      BY <2>1, <2>3 DEF Decorate, Kept1
    <2>4. CASE IsLatestOf(t, k) /\ age # "expired"
      <3>1. Decorate(t, v, age)[k] = Reconciled(k, t[k], v, age = "late")
        BY <2>4 DEF Decorate
      <3>2. t[k] # NoInterrupt
        BY <2>4 DEF IsLatestOf
      <3> QED BY <2>1, <3>1, <3>2, ReconciledKeeps
    <2> QED BY <2>2, <2>3, <2>4
  <1>2. Decorate(t, v, age) = [k \in Key |-> Decorate(t, v, age)[k]]
    BY DEF Decorate
  <1> QED BY <1>1, <1>2 DEF Keeps, Table

(* A view of the turn of a row does not take it away.                      *)
LEMMA DecorateLeaves ==
  ASSUME NEW t \in Table, NEW v \in View, NEW age \in {"young", "late"}, NEW k \in Key,
         k # ForcedStop, v.known, v.phase = "active", v.turn = k[1], t[k] # NoInterrupt
  PROVE  Decorate(t, v, age)[k] # NoInterrupt
  <1>1. t[k] \in Records /\ (age = "late") \in BOOLEAN
    BY DEF Table
  <1>2. ~NewerTurn(k, t[k], v)
    BY OutcomesAssumption DEF NewerTurn
  <1>3. Reconciled(k, t[k], v, age = "late") # NoInterrupt
    BY <1>1, <1>2, ReconciledKeeps
  <1>4. Decorate(t, v, age)[k] = IF IsLatestOf(t, k) THEN Reconciled(k, t[k], v, age = "late") ELSE t[k]
    BY DEF Decorate
  <1> QED BY <1>3, <1>4

LEMMA CancelKeeps ==
  ASSUME NEW t \in Table, NEW k, NEW rank
  PROVE  /\ Keeps(t, Cancel(t, k, rank))
         /\ \A j \in Key : \/ Cancel(t, k, rank)[j] = t[j]
                           \/ j = k /\ t[k].rank = rank /\ rank # 0
  <1>1. /\ t \in [Key -> Records] /\ NoInterrupt \in Records
        /\ \/ Cancel(t, k, rank) = t
           \/ Cancel(t, k, rank) = [t EXCEPT ![k] = NoInterrupt] /\ t[k].rank = rank /\ rank # 0
    BY DEF Cancel, Delete, Table, Records
  <1> QED BY <1>1 DEF Keeps, Kept1, Table

(* What a step does to the table: at most one row is requested, and what   *)
(* follows leaves the ranks as they are.                                   *)
TableKept == Keeps(interrupts, interrupts') /\ requested' = requested

TableAsked(k, r) ==
  /\ r.rank = requested + 1 /\ requested' = requested + 1
  /\ Keeps(Upsert(interrupts, k, r), interrupts')

TableStep ==
  TableKept \/ (requested < MaxInterrupts /\ \E k \in Key, r \in Interrupt : TableAsked(k, r))

LEMMA UpsertGives ==
  ASSUME NEW t \in Table, NEW k \in Key, NEW r \in Interrupt
  PROVE  Upsert(t, k, r) \in Table
  BY DEF Table, Upsert, Records

LEMMA RequestGives ==
  ASSUME ChatTypes, requested < MaxInterrupts, NEW k \in Key
  PROVE  Request(k) \in Interrupt /\ Request(k).rank = requested + 1
         /\ Request(k).phase = "requested"
  <1>1. MaxTurns \in Nat /\ MaxInterrupts \in Nat /\ requested \in Nat
    BY MaxTurnsAssumption, MaxInterruptsAssumption DEF ChatTypes
  <1>2. chat.begun \in 0 .. MaxTurns /\ Ended \in 0 .. MaxTurns
    BY <1>1 DEF ChatTypes, Ended
  <1>3. k # ForcedStop => k[1] - 1 \in 0 .. MaxTurns
    BY <1>1 DEF Key, Turn
  <1> DEFINE after == IF k = ForcedStop THEN Ended ELSE k[1] - 1
             begun == IF k = ForcedStop THEN chat.begun ELSE 0
  <1>4. after \in 0 .. MaxTurns /\ begun \in 0 .. MaxTurns /\ requested + 1 \in 1 .. MaxInterrupts
    BY <1>1, <1>2, <1>3 DEF ChatTypes
  <1>5. Request(k) = [phase |-> "requested", rank |-> requested + 1, outcome |-> "none",
                      after |-> after, begun |-> begun]
    BY DEF Request
  <1> HIDE DEF after, begun
  <1> QED BY <1>4, <1>5 DEF Interrupt, Open

LEMMA ActiveIsTurn ==
  ASSUME ChatTypes, NEW v \in Views, v.phase = "active"
  PROVE  v \in View /\ v.turn = chat.begun /\ chat.begun \in Turn
  <1>1. v \in View /\ v.turn = chat.begun /\ v.phase \in SeenPhase
    BY DEF Views
  <1>2. chat.begun # 0
    BY <1>1 DEF SeenPhase
  <1> QED BY <1>1, <1>2, MaxTurnsAssumption DEF ChatTypes, Turn

(* A read, with what is reconciled before it.                              *)
LEMMA ReconcileSteps ==
  ASSUME ChatTypes, NEW v \in Views, NEW age, Reconcile(v, age)
  PROVE  TableStep
  <1>1. v \in View /\ interrupts \in Table
    BY DEF Views, ChatTypes
  <1>2. CASE ~(Reconcilable /\ LostRequest(v))
    <2>1. AfterExit(v) \in {interrupts, ConfirmTransportExit(interrupts)}
      BY <1>2 DEF AfterExit
    <2>2. Keeps(interrupts, AfterExit(v)) /\ AfterExit(v) \in Table
      BY <1>1, <2>1, KeepsSelf, ConfirmKeeps DEF Keeps
    <2>3. Keeps(AfterExit(v), Decorate(AfterExit(v), v, age))
      BY <1>1, <2>2, DecorateKeeps
    <2>4. Keeps(interrupts, interrupts') /\ requested' = requested
      BY <1>1, <1>2, <2>2, <2>3, KeepsTwice DEF Reconcile, ChatTypes
    <2> QED BY <2>4 DEF TableStep, TableKept
  <1>3. CASE Reconcilable /\ LostRequest(v)
    <2> DEFINE k == <<v.turn, "prompt">>
    <2>1. k \in Key /\ requested < MaxInterrupts
      BY <1>3, ActiveIsTurn DEF LostRequest, Key
    <2>2. Request(k) \in Interrupt /\ Request(k).rank = requested + 1
      BY <2>1, RequestGives
    <2> DEFINE asked == Upsert(interrupts, k, Request(k))
               exit  == ConfirmTransportExit(asked)
    <2>3. asked \in Table
      BY <1>1, <2>1, <2>2, UpsertGives
    <2>4. AfterExit(v) = exit
      BY <1>3 DEF AfterExit, RequestedAgain
    <2>5. interrupts' = Decorate(exit, v, age) /\ requested' = requested + 1
      BY <1>3, <2>4 DEF Reconcile
    <2> HIDE DEF asked
    <2>6. Keeps(asked, exit) /\ exit \in Table
      BY <2>3, ConfirmKeeps DEF Keeps
    <2> HIDE DEF exit
    <2>7. Keeps(asked, interrupts')
      BY <1>1, <2>3, <2>5, <2>6, DecorateKeeps, KeepsTwice
    <2>8. TableAsked(k, Request(k))
      BY <2>2, <2>5, <2>7 DEF TableAsked, asked
    <2> HIDE DEF k
    <2> QED BY <2>1, <2>2, <2>8 DEF TableStep
  <1> QED BY <1>2, <1>3

LEMMA ConfirmLeaves ==
  ASSUME NEW t \in Table, NEW k \in Key, t[k] # NoInterrupt
  PROVE  ConfirmTransportExit(t)[k] # NoInterrupt
  <1>1. ASSUME NEW r \in Records
        PROVE  [r EXCEPT !.phase = "confirmed_process", !.outcome = "interrupted"] # NoInterrupt
    BY DEF Records, Interrupt, NoInterrupt
  <1>2. t[k] \in Records
    BY DEF Table
  <1> QED BY <1>1, <1>2 DEF ConfirmTransportExit

(* What a request under way looks at, and what follows for the rows of its *)
(* turn.                                                                   *)
LEMMA TargetLeaves ==
  ASSUME InterruptInv, NEW h \in Interrupters, interrupter[h].step # "idle",
         interrupter[h].target # NoKey, NEW age \in {"young", "late"},
         NEW t \in Table, NEW k \in Key, k # ForcedStop, k[1] = interrupter[h].target[1],
         t[k] # NoInterrupt
  PROVE  Decorate(t, interrupter[h].view, age)[k] # NoInterrupt
  <1> DEFINE v == interrupter[h].view
  <1>1. v \in View /\ v.known /\ v.phase = "active" /\ v.turn = k[1]
    BY DEF InterruptInv, ChatTypes, Interrupter, TargetInv, OnTarget
  <1> HIDE DEF v
  <1>2. Decorate(t, v, age)[k] # NoInterrupt
    BY <1>1, DecorateLeaves
  <1> QED BY <1>2 DEF v

(* An interrupt that is asked for.                                         *)
LEMMA AskedSteps ==
  ASSUME InterruptInv, NEW h \in Interrupters, InterruptAsked(h)
  PROVE  /\ TableStep
         /\ \E rank \in 0 .. MaxInterrupts :
              \/ interrupter' = [interrupter EXCEPT ![h] = NoInterrupter]
              \/ interrupter' = [interrupter EXCEPT ![h] =
                                   [@ EXCEPT !.step = "stopping", !.rank = rank]]
         /\ \A j \in Key \ {ForcedStop} :
              /\ interrupter'[h].step = "idle"
              /\ j[1] = interrupter[h].target[1]
              /\ interrupts[j].phase = "requested"
              => interrupts'[j] # NoInterrupt
  <1> DEFINE k == interrupter[h].target
             v == interrupter[h].view
             new == k # NoKey /\ ~Shared(k)
             rank == IF new THEN requested + 1 ELSE 0
             asked == IF new THEN Upsert(interrupts, k, Request(k)) ELSE interrupts
             told(age) == IF k = NoKey THEN asked ELSE Decorate(asked, v, age)
  <1>1. /\ interrupter[h].step = "read" /\ (new => requested < MaxInterrupts)
        /\ requested' = IF new THEN rank ELSE requested
    BY DEF InterruptAsked
  <1>2. PICK age \in {"young", "late"} :
          \/ /\ interrupts' = IF k = NoKey THEN told(age)
                              ELSE Decorate(Cancel(told(age), k, rank), v, age)
             /\ interrupter' = [interrupter EXCEPT ![h] = NoInterrupter]
          \/ /\ interrupts' = told(age)
             /\ interrupter' = [interrupter EXCEPT ![h] =
                                  [@ EXCEPT !.step = "stopping", !.rank = rank]]
    BY DEF InterruptAsked, Ages
  <1>3. /\ interrupts \in Table /\ requested \in 0 .. MaxInterrupts /\ v \in View
        /\ k \in Key \cup {NoKey} /\ MaxInterrupts \in Nat
    BY MaxInterruptsAssumption DEF InterruptInv, ChatTypes, Interrupter
  <1>4. new => Request(k) \in Interrupt /\ Request(k).rank = requested + 1
    BY <1>1, <1>3, RequestGives DEF InterruptInv
  <1>5. asked \in Table
    BY <1>3, <1>4, UpsertGives
  <1>6. rank \in 0 .. MaxInterrupts
    BY <1>1, <1>3
  <1>7. new => k \in Key
    BY <1>3
  <1>8. asked = IF new THEN Upsert(interrupts, k, Request(k)) ELSE interrupts
    OBVIOUS
  <1>9. (new => requested' = requested + 1) /\ (~new => requested' = requested)
    BY <1>1
  <1>10. \A j \in Key \ {ForcedStop} :
           /\ interrupter'[h].step = "idle"
           /\ j[1] = k[1]
           /\ interrupts[j].phase = "requested"
           => interrupts'[j] # NoInterrupt
    <2> SUFFICES ASSUME NEW j \in Key, j # ForcedStop, interrupter'[h].step = "idle",
                        j[1] = k[1], interrupts[j].phase = "requested"
                 PROVE  interrupts'[j] # NoInterrupt
      OBVIOUS
    <2>1. k # NoKey /\ k \in Key
      BY <1>3 DEF Key, NoKey, ForcedStop, Turn
    <2>2. asked[j] # NoInterrupt /\ (j = k => rank = 0)
      <3>1. interrupts[j] # NoInterrupt
        BY DEF NoInterrupt
      <3>2. CASE j = k
        BY <3>1, <3>2 DEF Shared
      <3>3. CASE j # k
        BY <1>3, <2>1, <3>1, <3>3 DEF Upsert, Table
      <3> QED BY <3>2, <3>3
    <2>3. told(age) = Decorate(asked, v, age)
      BY <2>1
    <2> HIDE DEF asked, rank, new
    <2>4. Decorate(asked, v, age)[j] # NoInterrupt /\ Decorate(asked, v, age) \in Table
      BY <1>1, <1>3, <1>5, <2>1, <2>2, TargetLeaves, DecorateKeeps DEF Keeps
    <2>5. Cancel(Decorate(asked, v, age), k, rank)[j] # NoInterrupt
      BY <2>2, <2>4, CancelKeeps
    <2>6. Cancel(Decorate(asked, v, age), k, rank) \in Table
      BY <2>4, CancelKeeps DEF Keeps
    <2>7. Decorate(Cancel(Decorate(asked, v, age), k, rank), v, age)[j] # NoInterrupt
      BY <1>1, <2>1, <2>5, <2>6, TargetLeaves
    <2> QED BY <1>2, <2>1, <2>3, <2>4, <2>7
  <1> HIDE DEF asked, rank
  <1>11. Keeps(asked, interrupts')
    <2>1. Keeps(asked, told(age)) /\ told(age) \in Table
      BY <1>3, <1>5, DecorateKeeps, KeepsSelf DEF Keeps
    <2> HIDE DEF told
    <2>2. Keeps(told(age), Cancel(told(age), k, rank)) /\ Cancel(told(age), k, rank) \in Table
      BY <2>1, CancelKeeps DEF Keeps
    <2>3. Keeps(asked, Cancel(told(age), k, rank))
      BY <1>5, <2>1, <2>2, KeepsTwice
    <2>4. Keeps(asked, Decorate(Cancel(told(age), k, rank), v, age))
      BY <1>3, <1>5, <2>2, <2>3, DecorateKeeps, KeepsTwice
    <2> QED BY <1>2, <2>1, <2>4
  <1>12. TableStep
    <2>1. CASE new
      <3>1. TableAsked(k, Request(k))
        BY <1>4, <1>8, <1>9, <1>11, <2>1 DEF TableAsked
      <3> QED BY <1>1, <1>4, <1>7, <2>1, <3>1 DEF TableStep
    <2>2. CASE ~new
      BY <1>8, <1>9, <1>11, <2>2 DEF TableStep, TableKept
    <2> QED BY <2>1, <2>2
  <1>13. \E r \in 0 .. MaxInterrupts :
           \/ interrupter' = [interrupter EXCEPT ![h] = NoInterrupter]
           \/ interrupter' = [interrupter EXCEPT ![h] =
                                [@ EXCEPT !.step = "stopping", !.rank = r]]
    BY <1>2, <1>6
  <1> QED BY <1>10, <1>12, <1>13

LEMMA DeliveredSteps ==
  ASSUME InterruptInv, NEW h \in Interrupters, InterruptDelivered(h)
  PROVE  /\ TableKept
         /\ interrupter' = [interrupter EXCEPT ![h] = NoInterrupter]
         /\ \A j \in Key \ {ForcedStop} :
              /\ j[1] = interrupter[h].target[1] /\ interrupts[j] # NoInterrupt
              => interrupts'[j] # NoInterrupt
  <1> DEFINE k == interrupter[h].target
             v == interrupter[h].view
             exit == IF managed.child = "none" THEN ConfirmTransportExit(interrupts) ELSE interrupts
  <1>1. /\ interrupter[h].step # "idle" /\ requested' = requested
        /\ interrupter' = [interrupter EXCEPT ![h] = NoInterrupter]
    BY DEF InterruptDelivered
  <1>2. PICK age \in {"young", "late"} :
          interrupts' = IF k = NoKey THEN interrupts ELSE Decorate(exit, v, age)
    BY DEF InterruptDelivered, Ages
  <1>3. interrupts \in Table /\ v \in View
    BY DEF InterruptInv, ChatTypes, Interrupter
  <1>4. Keeps(interrupts, exit) /\ exit \in Table
    BY <1>3, KeepsSelf, ConfirmKeeps DEF Keeps
  <1>5. \A j \in Key : interrupts[j] # NoInterrupt => exit[j] # NoInterrupt
    BY <1>3, ConfirmLeaves
  <1> HIDE DEF exit
  <1>6. Keeps(interrupts, interrupts')
    BY <1>2, <1>3, <1>4, KeepsSelf, KeepsTwice, DecorateKeeps
  <1>7. ASSUME NEW j \in Key \ {ForcedStop}, j[1] = k[1], interrupts[j] # NoInterrupt
        PROVE  interrupts'[j] # NoInterrupt
    BY <1>1, <1>2, <1>4, <1>5, <1>7, TargetLeaves
  <1> QED BY <1>1, <1>6, <1>7 DEF TableKept

LEMMA FailsSteps ==
  ASSUME InterruptInv, NEW h \in Interrupters, InterruptFails(h)
  PROVE  /\ TableKept
         /\ interrupter' = [interrupter EXCEPT ![h] = NoInterrupter]
         /\ \A j \in Key \ {ForcedStop} :
              /\ j[1] = interrupter[h].target[1] /\ interrupts[j] # NoInterrupt
              /\ interrupts[j].rank # interrupter[h].rank
              => interrupts'[j] # NoInterrupt
  <1> DEFINE k == interrupter[h].target
             v == interrupter[h].view
             left == Cancel(interrupts, k, interrupter[h].rank)
  <1>1. /\ interrupter[h].step # "idle" /\ requested' = requested
        /\ interrupter' = [interrupter EXCEPT ![h] = NoInterrupter]
    BY DEF InterruptFails
  <1>2. PICK age \in {"young", "late"} :
          interrupts' = IF k = NoKey THEN interrupts ELSE Decorate(left, v, age)
    BY DEF InterruptFails, Ages
  <1>3. interrupts \in Table /\ v \in View
    BY DEF InterruptInv, ChatTypes, Interrupter
  <1>4. Keeps(interrupts, left) /\ left \in Table
    BY <1>3, CancelKeeps DEF Keeps
  <1>5. \A j \in Key : left[j] = interrupts[j] \/ interrupts[j].rank = interrupter[h].rank
    BY <1>3, CancelKeeps
  <1> HIDE DEF left
  <1>6. Keeps(interrupts, interrupts')
    BY <1>2, <1>3, <1>4, KeepsSelf, KeepsTwice, DecorateKeeps
  <1>7. ASSUME NEW j \in Key \ {ForcedStop}, j[1] = k[1], interrupts[j] # NoInterrupt,
               interrupts[j].rank # interrupter[h].rank
        PROVE  interrupts'[j] # NoInterrupt
    BY <1>1, <1>2, <1>4, <1>5, <1>7, TargetLeaves
  <1> QED BY <1>1, <1>6, <1>7 DEF TableKept

LEMMA ForcedSteps ==
  ASSUME InterruptInv, NEW h \in Interrupters, ForceStopDone(h)
  PROVE  TableStep
  <1> DEFINE k == IF interrupter[h].target = NoKey THEN ForcedStop ELSE interrupter[h].target
             r == [Request(k) EXCEPT !.phase = "confirmed_process", !.outcome = "interrupted"]
  <1>1. k \in Key /\ interrupts \in Table
    BY DEF InterruptInv, ChatTypes, Interrupter, Key
  <1>2. CASE UNCHANGED <<requested, interrupts>>
    BY <1>1, <1>2, KeepsSelf DEF TableStep, TableKept
  <1>3. CASE /\ requested < MaxInterrupts
             /\ requested' = requested + 1
             /\ interrupts' = Upsert(interrupts, k, r)
    <2>1. ASSUME NEW q \in Interrupt
          PROVE  LET p == [q EXCEPT !.phase = "confirmed_process", !.outcome = "interrupted"]
                 IN  p \in Interrupt /\ p.rank = q.rank
      BY OutcomesAssumption DEF Interrupt, Confirmed
    <2> HIDE DEF k
    <2>2. r \in Interrupt /\ r.rank = requested + 1
      BY <1>1, <1>3, <2>1, RequestGives DEF InterruptInv
    <2> HIDE DEF r
    <2>3. TableAsked(k, r)
      BY <1>1, <1>3, <2>2, UpsertGives, KeepsSelf DEF TableAsked
    <2> QED BY <1>1, <1>3, <2>2, <2>3 DEF TableStep
  <1> QED BY <1>2, <1>3 DEF ForceStopDone

(* The turn that a request is about is the one it saw active.              *)
LEMMA ReadSteps ==
  ASSUME InterruptInv, NEW h \in Interrupters, ActiveTurnRead(h)
  PROVE  /\ TableStep
         /\ \E v \in View, k \in Key \cup {NoKey} :
              /\ interrupter' = [interrupter EXCEPT ![h] =
                                   [@ EXCEPT !.step = "read", !.target = k, !.view = v]]
              /\ \/ k = NoKey
                 \/ /\ k \in Turn \X {"prompt", "start"}
                    /\ v.turn = k[1] /\ v.known /\ v.phase = "active"
  <1>0. PICK v \in Views :
          /\ v.known /\ Reconcile(v, "young")
          /\ \E k \in Targets(interrupts', v) :
               interrupter' = [interrupter EXCEPT ![h] =
                 [@ EXCEPT !.step = "read", !.target = k, !.view = IF k = NoKey THEN NoView ELSE v]]
    BY DEF ActiveTurnRead
  <1>1. PICK k \in Targets(interrupts', v) :
          interrupter' = [interrupter EXCEPT ![h] =
            [@ EXCEPT !.step = "read", !.target = k, !.view = IF k = NoKey THEN NoView ELSE v]]
    BY <1>0
  <1>2. TableStep
    BY <1>0, ReconcileSteps DEF InterruptInv
  <1> DEFINE w == IF k = NoKey THEN NoView ELSE v
  <1>3. v \in View /\ NoView \in View
    BY MaxTurnsAssumption DEF Views, View, NoView
  <1>4. k # NoKey => k \in {<<v.turn, "start">>, <<v.turn, "prompt">>} /\ v.phase = "active"
    BY <1>1 DEF Targets
  <1>5. k # NoKey => k \in Turn \X {"prompt", "start"} /\ v.turn = k[1]
    BY <1>4, ActiveIsTurn DEF InterruptInv
  <1>6. w \in View /\ (k # NoKey => w = v)
    BY <1>3
  <1>7. k \in Key \cup {NoKey}
    BY <1>5 DEF Key
  <1>8. interrupter' = [interrupter EXCEPT ![h] =
                          [@ EXCEPT !.step = "read", !.target = k, !.view = w]]
    BY <1>1
  <1> HIDE DEF w
  <1> QED BY <1>0, <1>2, <1>4, <1>5, <1>6, <1>7, <1>8

(* Every step changes the table this way.                                  *)
LEMMA TableSteps ==
  ASSUME InterruptInv, [InterruptNext]_InterruptVars
  PROVE  TableStep
  <1>1. interrupts \in Table /\ ChatTypes
    BY DEF InterruptInv, ChatTypes
  <1>2. CASE UNCHANGED <<interrupts, requested>>
    BY <1>1, <1>2, KeepsSelf DEF TableStep, TableKept
  <1>3. CASE TransportExits
    BY <1>1, <1>3, ConfirmKeeps DEF TransportExits, TableStep, TableKept
  <1>4. ASSUME NEW v \in Views, NEW age, ChatRead(v, age) PROVE TableStep
    BY <1>1, <1>4, ReconcileSteps DEF ChatRead
  <1>5. ASSUME NEW h \in Interrupters, InterruptAsked(h) PROVE TableStep
    BY <1>5, AskedSteps
  <1>6. ASSUME NEW h \in Interrupters, ActiveTurnRead(h) PROVE TableStep
    BY <1>6, ReadSteps
  <1>7. ASSUME NEW h \in Interrupters, InterruptDelivered(h) \/ InterruptFails(h) PROVE TableStep
    BY <1>7, DeliveredSteps, FailsSteps DEF TableStep
  <1>8. ASSUME NEW h \in Interrupters, ForceStopDone(h) PROVE TableStep
    BY <1>8, ForcedSteps
  <1>9. \/ TransportExits
        \/ \E v \in Views, age \in Ages \cup {"expired"} : ChatRead(v, age)
        \/ \E h \in Interrupters :
             \/ InterruptAsked(h) \/ ActiveTurnRead(h) \/ InterruptDelivered(h)
             \/ InterruptFails(h) \/ ForceStopDone(h)
        \/ UNCHANGED <<interrupts, requested>>
    BY DEF InterruptNext, InterruptVars, TurnBegins, TurnEnds, PromptSent, InterruptCrash,
           InterruptRefused, ForceStopAsked
  <1> QED BY <1>2, <1>3, <1>4, <1>5, <1>6, <1>7, <1>8, <1>9

LEMMA KeepsRanks ==
  ASSUME NEW t \in Table, NEW w, NEW n \in Nat, RanksOf(t, n), Keeps(t, w)
  PROVE  RanksOf(w, n)
  <1>1. ASSUME NEW k \in Key
        PROVE  t[k] \in Records /\ w[k] \in Records /\ Kept1(t[k], w[k])
    BY DEF Keeps, Table
  <1>2. ASSUME NEW k \in Key
        PROVE  (w[k].rank = 0 /\ w[k] = NoInterrupt) \/ (w[k].rank = t[k].rank /\ w[k].rank # 0)
    BY <1>1, RowIs DEF Kept1
  <1>3. \A k \in Key : t[k].rank \in Nat
    BY <1>1, RowIs
  <1>4. \A k \in Key : t[k].rank # 0 => t[k] # NoInterrupt
    BY <1>1, RowIs
  <1> QED BY <1>2, <1>3, <1>4 DEF RanksOf

LEMMA UpsertRanks ==
  ASSUME NEW t \in Table, NEW k \in Key, NEW r \in Interrupt, NEW n \in Nat,
         RanksOf(t, n), r.rank = n + 1
  PROVE  RanksOf(Upsert(t, k, r), n + 1)
  <1>1. \A j \in Key : t[j].rank \in Nat /\ Upsert(t, k, r)[j] = IF j = k THEN r ELSE t[j]
    BY RowIs DEF Table, Upsert
  <1>2. \A j \in Key : t[j].rank <= n
    BY DEF RanksOf
  <1> QED BY <1>1, <1>2 DEF RanksOf

LEMMA RankStep ==
  ASSUME InterruptInv, TableStep
  PROVE  /\ RankInv' /\ interrupts' \in Table /\ requested' \in 0 .. MaxInterrupts
         /\ \A k \in Key :
              /\ interrupts[k].phase \in Confirmed /\ interrupts'[k].rank = interrupts[k].rank
              => Kept1(interrupts[k], interrupts'[k])
  <1>1. /\ interrupts \in Table /\ requested \in Nat /\ requested \in 0 .. MaxInterrupts
        /\ RanksOf(interrupts, requested) /\ MaxInterrupts \in Nat
    BY MaxInterruptsAssumption DEF InterruptInv, ChatTypes, RankInv
  <1>2. CASE TableKept
    BY <1>1, <1>2, KeepsRanks DEF TableKept, RankInv, Keeps
  <1>3. ASSUME requested < MaxInterrupts, NEW k \in Key, NEW r \in Interrupt, TableAsked(k, r)
        PROVE  /\ RankInv' /\ interrupts' \in Table /\ requested' \in 0 .. MaxInterrupts
               /\ \A j \in Key :
                    /\ interrupts[j].phase \in Confirmed /\ interrupts'[j].rank = interrupts[j].rank
                    => Kept1(interrupts[j], interrupts'[j])
    <2>1. /\ r.rank = requested + 1 /\ requested' = requested + 1 /\ requested + 1 \in Nat
          /\ Keeps(Upsert(interrupts, k, r), interrupts')
      BY <1>1, <1>3 DEF TableAsked
    <2>2. Upsert(interrupts, k, r) \in Table
      BY <1>1, UpsertGives
    <2>3. RanksOf(Upsert(interrupts, k, r), requested + 1)
      BY <1>1, <2>1, UpsertRanks
    <2>4. RanksOf(interrupts', requested + 1) /\ interrupts' \in Table
      BY <2>1, <2>2, <2>3, KeepsRanks DEF Keeps
    <2>5. ASSUME NEW j \in Key, interrupts[j].phase \in Confirmed,
                 interrupts'[j].rank = interrupts[j].rank
          PROVE  Kept1(interrupts[j], interrupts'[j])
      <3>1. Upsert(interrupts, k, r)[j] = IF j = k THEN r ELSE interrupts[j]
        BY <1>1 DEF Upsert, Table
      <3>2. Kept1(Upsert(interrupts, k, r)[j], interrupts'[j])
        BY <2>1 DEF Keeps
      <3>3. interrupts[j] \in Records /\ interrupts'[j] \in Records
        BY <1>1, <2>4 DEF Table
      <3>4. interrupts[j].rank <= requested /\ interrupts[j].rank \in Nat
        BY <1>1, <3>3, RowIs DEF RanksOf
      <3>5. interrupts[j].rank # 0
        BY <2>5, <3>3, RowIs DEF Confirmed, Open
      <3>6. j # k
        <4> SUFFICES ASSUME j = k PROVE FALSE
          OBVIOUS
        <4>1. interrupts'[j] = NoInterrupt \/ interrupts'[j].rank = requested + 1
          BY <2>1, <3>1, <3>2 DEF Kept1
        <4> QED BY <1>1, <2>5, <3>3, <3>4, <3>5, <4>1, RowIs
      <3> QED BY <3>1, <3>2, <3>6
    <2> QED BY <1>1, <1>3, <2>1, <2>4, <2>5 DEF RankInv
  <1> QED BY <1>2, <1>3 DEF TableStep

(* What a step does to the requests under way.                             *)
LEMMA InterrupterSteps ==
  ASSUME InterruptInv, [InterruptNext]_InterruptVars
  PROVE  /\ interrupter' \in [Interrupters -> Interrupter]
         /\ \A h \in Interrupters : OnTarget(interrupter'[h])
  <1>1. /\ interrupter \in [Interrupters -> Interrupter]
        /\ \A g \in Interrupters : OnTarget(interrupter[g])
    BY DEF InterruptInv, ChatTypes, TargetInv
  <1>2. NoInterrupter \in Interrupter /\ OnTarget(NoInterrupter)
    BY MaxTurnsAssumption, MaxInterruptsAssumption
    DEF NoInterrupter, Interrupter, OnTarget, NoView, View
  <1> DEFINE P(i) == i \in Interrupter /\ OnTarget(i)
  <1>3. ASSUME NEW g \in Interrupters, NEW i, P(i), interrupter' = [interrupter EXCEPT ![g] = i]
        PROVE  interrupter' \in [Interrupters -> Interrupter] /\ (\A h \in Interrupters : OnTarget(interrupter'[h]))
    BY <1>1, <1>3
  <1>4. CASE UNCHANGED interrupter
    BY <1>1, <1>4
  <1>5. CASE InterruptCrash
    BY <1>2, <1>5 DEF InterruptCrash
  <1>6. ASSUME NEW g \in Interrupters,
               InterruptRefused(g) \/ InterruptDelivered(g) \/ InterruptFails(g) \/ ForceStopDone(g)
        PROVE  interrupter' \in [Interrupters -> Interrupter] /\ (\A h \in Interrupters : OnTarget(interrupter'[h]))
    <2>1. interrupter' = [interrupter EXCEPT ![g] = NoInterrupter]
      BY <1>6 DEF InterruptRefused, InterruptDelivered, InterruptFails, ForceStopDone
    <2> QED BY <1>2, <1>3, <2>1
  <1>7. ASSUME NEW g \in Interrupters, InterruptAsked(g)
        PROVE  interrupter' \in [Interrupters -> Interrupter] /\ (\A h \in Interrupters : OnTarget(interrupter'[h]))
    <2>1. PICK rank \in 0 .. MaxInterrupts :
            \/ interrupter' = [interrupter EXCEPT ![g] = NoInterrupter]
            \/ interrupter' = [interrupter EXCEPT ![g] =
                                 [@ EXCEPT !.step = "stopping", !.rank = rank]]
      BY <1>7, AskedSteps
    <2> DEFINE i == [interrupter[g] EXCEPT !.step = "stopping", !.rank = rank]
    <2>2. interrupter[g].step # "idle" /\ interrupter[g] \in Interrupter /\ OnTarget(interrupter[g])
      BY <1>1, <1>7 DEF InterruptAsked
    <2>3. i \in Interrupter
      BY <2>1, <2>2 DEF Interrupter
    <2>4. i.view = interrupter[g].view /\ i.target = interrupter[g].target
      BY <2>2 DEF Interrupter
    <2>5. P(i)
      BY <2>2, <2>3, <2>4 DEF OnTarget
    <2>6. CASE interrupter' = [interrupter EXCEPT ![g] = i]
      <3> HIDE DEF i
      <3> QED BY <1>3, <2>5, <2>6
    <2> QED BY <1>2, <1>3, <2>1, <2>6
  <1>8. ASSUME NEW g \in Interrupters, ActiveTurnRead(g)
        PROVE  interrupter' \in [Interrupters -> Interrupter] /\ (\A h \in Interrupters : OnTarget(interrupter'[h]))
    <2>1. PICK v \in View, k \in Key \cup {NoKey} :
            /\ interrupter' = [interrupter EXCEPT ![g] =
                                 [@ EXCEPT !.step = "read", !.target = k, !.view = v]]
            /\ \/ k = NoKey
               \/ /\ k \in Turn \X {"prompt", "start"}
                  /\ v.turn = k[1] /\ v.known /\ v.phase = "active"
      BY <1>8, ReadSteps
    <2> DEFINE i == [interrupter[g] EXCEPT !.step = "read", !.target = k, !.view = v]
    <2>2. interrupter[g] \in Interrupter
      BY <1>1
    <2>3. i \in Interrupter /\ i.target = k /\ i.view = v
      BY <2>1, <2>2 DEF Interrupter
    <2>4. P(i)
      BY <2>1, <2>3 DEF OnTarget
    <2>5. interrupter' = [interrupter EXCEPT ![g] = i]
      BY <2>1
    <2> HIDE DEF i
    <2> QED BY <1>3, <2>4, <2>5
  <1>9. ASSUME NEW g \in Interrupters, ForceStopAsked(g)
        PROVE  interrupter' \in [Interrupters -> Interrupter] /\ (\A h \in Interrupters : OnTarget(interrupter'[h]))
    <2> DEFINE i == [interrupter[g] EXCEPT !.step = "forcing"]
    <2>1. interrupter' = [interrupter EXCEPT ![g] = i]
      BY <1>9 DEF ForceStopAsked
    <2>2. interrupter[g].step # "idle" /\ interrupter[g] \in Interrupter /\ OnTarget(interrupter[g])
      BY <1>1, <1>9 DEF ForceStopAsked
    <2>3. i \in Interrupter /\ i.view = interrupter[g].view /\ i.target = interrupter[g].target
      BY <2>2 DEF Interrupter
    <2>4. P(i)
      BY <2>2, <2>3 DEF OnTarget
    <2> HIDE DEF i
    <2> QED BY <1>3, <2>1, <2>4
  <1>10. \/ UNCHANGED interrupter
         \/ InterruptCrash
         \/ \E g \in Interrupters :
              \/ InterruptRefused(g) \/ InterruptDelivered(g) \/ InterruptFails(g)
              \/ ForceStopDone(g) \/ InterruptAsked(g) \/ ActiveTurnRead(g) \/ ForceStopAsked(g)
    BY DEF InterruptNext, InterruptVars, TurnBegins, TurnEnds, PromptSent, TransportExits, ChatRead
  <1> HIDE DEF P
  <1> QED BY <1>4, <1>5, <1>6, <1>7, <1>8, <1>9, <1>10

LEMMA ChatSteps ==
  ASSUME InterruptInv, [InterruptNext]_InterruptVars
  PROVE  chat' \in [begun : 0 .. MaxTurns, phase : [Turn -> Outcomes \cup {"active", "none"}]]
  <1>1. /\ chat \in [begun : 0 .. MaxTurns, phase : [Turn -> Outcomes \cup {"active", "none"}]]
        /\ MaxTurns \in Nat
    BY MaxTurnsAssumption DEF InterruptInv, ChatTypes
  <1>2. CASE TurnBegins
    BY <1>1, <1>2 DEF TurnBegins, Turn
  <1>3. CASE TurnEnds
    BY <1>1, <1>3 DEF TurnEnds, Turn
  <1>4. CASE UNCHANGED chat
    BY <1>1, <1>4
  <1> QED
    BY <1>2, <1>3, <1>4 DEF InterruptNext, InterruptVars, PromptSent, TransportExits,
       InterruptCrash, ChatRead, ActiveTurnRead, InterruptRefused, InterruptAsked,
       InterruptDelivered, InterruptFails, ForceStopAsked, ForceStopDone

LEMMA InterruptStart == InterruptInit => InterruptInv
  <1> SUFFICES ASSUME InterruptInit PROVE InterruptInv
    OBVIOUS
  <1>1. MaxTurns \in Nat /\ MaxInterrupts \in Nat /\ NoInterrupt \in Records
    BY MaxTurnsAssumption, MaxInterruptsAssumption DEF Records
  <1>2. ChatTypes
    BY <1>1 DEF InterruptInit, ChatTypes, Interrupter, NoInterrupter, NoView, View, Table
  <1>3. RankInv
    BY DEF InterruptInit, RankInv, RanksOf, NoInterrupt
  <1>4. TargetInv
    BY DEF InterruptInit, TargetInv, OnTarget, NoInterrupter
  <1> QED BY <1>2, <1>3, <1>4 DEF InterruptInv

LEMMA InterruptStep == InterruptInv /\ [InterruptNext]_InterruptVars => InterruptInv'
  <1> SUFFICES ASSUME InterruptInv, [InterruptNext]_InterruptVars PROVE InterruptInv'
    OBVIOUS
  <1>1. RankInv' /\ interrupts' \in Table /\ requested' \in 0 .. MaxInterrupts
    BY TableSteps, RankStep
  <1>2. interrupter' \in [Interrupters -> Interrupter]
    BY InterrupterSteps
  <1>3. TargetInv'
    BY InterrupterSteps DEF TargetInv, OnTarget
  <1>4. ChatTypes'
    BY <1>1, <1>2, ChatSteps DEF ChatTypes, Interrupter
  <1> QED BY <1>1, <1>3, <1>4 DEF InterruptInv

(* Every reachable state of the interrupts has the invariant: the rows     *)
(* are of their type, ranks are given out once, and every request under    *)
(* way is about a turn that it saw active.                                 *)
THEOREM InterruptInvariant == InterruptSpec => []InterruptInv
  BY InterruptStart, InterruptStep, PTL DEF InterruptSpec

(* What is confirmed of a turn is not reopened, and the word of the        *)
(* transcript not replaced: SourceTurnInterruptLifecycle.reconcileRecord   *)
(* and confirmManagedTransportExit, however they interleave with requests, *)
(* exits, crashes and old views.                                           *)
THEOREM ConfirmationsStay == InterruptSpec => ConfirmedStays
  <1>1. InterruptInv /\ [InterruptNext]_InterruptVars =>
          [\A k \in Key :
             LET old == interrupts[k]
                 new == interrupts'[k]
             IN old.phase \in Confirmed /\ new.rank = old.rank =>
                  /\ new.phase \in Confirmed
                  /\ old.phase = "confirmed_source" => new.phase = "confirmed_source"]_InterruptVars
    <2> SUFFICES ASSUME InterruptInv, [InterruptNext]_InterruptVars, NEW k \in Key,
                        interrupts[k].phase \in Confirmed,
                        interrupts'[k].rank = interrupts[k].rank
                 PROVE  /\ interrupts'[k].phase \in Confirmed
                        /\ interrupts[k].phase = "confirmed_source"
                             => interrupts'[k].phase = "confirmed_source"
      OBVIOUS
    <2>1. Kept1(interrupts[k], interrupts'[k])
      BY TableSteps, RankStep
    <2>2. interrupts[k] \in Records
      BY DEF InterruptInv, ChatTypes, Table
    <2>3. interrupts[k].rank # 0
      BY <2>2, RowIs DEF Confirmed
    <2>4. interrupts'[k] # NoInterrupt
      BY <2>3 DEF NoInterrupt
    <2> QED BY <2>1, <2>4 DEF Kept1
  <1> QED BY <1>1, InterruptInvariant, PTL DEF InterruptSpec, ConfirmedStays

(* A request that fails takes back at most its own row of the turn it was  *)
(* about: cancelManagedRequest, and the old view that the handler          *)
(* decorates with afterwards.                                              *)
THEOREM OnlyOwnTakenBack == InterruptSpec => OwnRequestTakenBack
  <1>1. InterruptInv /\ [InterruptNext]_InterruptVars =>
          [\A h \in Interrupters, k \in Key :
             /\ interrupter[h].step \in {"read", "stopping"}
             /\ interrupter'[h].step = "idle"
             /\ k[1] = interrupter[h].target[1] /\ k # ForcedStop
             /\ interrupts[k].phase = "requested" /\ interrupts'[k] = NoInterrupt
             => interrupts[k].rank = interrupter[h].rank \/ InterruptCrash]_InterruptVars
    <2> SUFFICES ASSUME InterruptInv, [InterruptNext]_InterruptVars,
                        NEW h \in Interrupters, NEW k \in Key,
                        interrupter[h].step \in {"read", "stopping"},
                        interrupter'[h].step = "idle",
                        k[1] = interrupter[h].target[1], k # ForcedStop,
                        interrupts[k].phase = "requested", interrupts'[k] = NoInterrupt
                 PROVE  interrupts[k].rank = interrupter[h].rank \/ InterruptCrash
      OBVIOUS
    <2>1. interrupts[k] # NoInterrupt
      BY DEF NoInterrupt
    <2>2. interrupter \in [Interrupters -> Interrupter]
      BY DEF InterruptInv, ChatTypes, Interrupter
    <2>3. interrupter'[h] # interrupter[h]
      OBVIOUS
    <2>4. ASSUME NEW g \in Interrupters, NEW i, interrupter' = [interrupter EXCEPT ![g] = i]
          PROVE  g = h
      BY <2>2, <2>3, <2>4
    <2>5. ASSUME NEW g \in Interrupters, InterruptRefused(g) PROVE FALSE
      BY <2>1, <2>5 DEF InterruptRefused
    <2>6. ASSUME NEW g \in Interrupters, InterruptAsked(g) PROVE FALSE
      <3>1. g = h
        BY <2>4, <2>6, AskedSteps
      <3> QED BY <2>6, <3>1, AskedSteps
    <2>7. ASSUME NEW g \in Interrupters, InterruptDelivered(g) PROVE FALSE
      <3>1. g = h
        BY <2>4, <2>7, DeliveredSteps
      <3> QED BY <2>1, <2>7, <3>1, DeliveredSteps
    <2>8. ASSUME NEW g \in Interrupters, InterruptFails(g)
          PROVE  interrupts[k].rank = interrupter[h].rank
      <3>1. g = h
        BY <2>4, <2>8, FailsSteps
      <3> QED BY <2>1, <2>8, <3>1, FailsSteps
    <2>9. ASSUME NEW g \in Interrupters, ActiveTurnRead(g) PROVE FALSE
      <3>1. g = h /\ interrupter[g].step = "idle"
        BY <2>4, <2>9, ReadSteps DEF ActiveTurnRead
      <3> QED BY <3>1
    <2>10. ASSUME NEW g \in Interrupters, ForceStopAsked(g) PROVE FALSE
      <3>1. interrupter' = [interrupter EXCEPT ![g] = [@ EXCEPT !.step = "forcing"]]
        BY <2>10 DEF ForceStopAsked
      <3>2. g = h
        BY <2>4, <3>1
      <3>3. interrupter'[h] = [interrupter[h] EXCEPT !.step = "forcing"]
        BY <2>2, <3>1, <3>2
      <3> QED BY <2>2, <3>3 DEF Interrupter
    <2>11. ASSUME NEW g \in Interrupters, ForceStopDone(g) PROVE FALSE
      <3>1. g = h /\ interrupter[g].step = "forcing"
        BY <2>4, <2>11 DEF ForceStopDone
      <3> QED BY <3>1
    <2>12. \/ UNCHANGED interrupter
           \/ InterruptCrash
           \/ \E g \in Interrupters :
                \/ InterruptRefused(g) \/ InterruptDelivered(g) \/ InterruptFails(g)
                \/ ForceStopDone(g) \/ InterruptAsked(g) \/ ActiveTurnRead(g) \/ ForceStopAsked(g)
      BY DEF InterruptNext, InterruptVars, TurnBegins, TurnEnds, PromptSent, TransportExits, ChatRead
    <2> QED BY <2>3, <2>5, <2>6, <2>7, <2>8, <2>9, <2>10, <2>11, <2>12
  <1> QED BY <1>1, InterruptInvariant, PTL DEF InterruptSpec, OwnRequestTakenBack

-----------------------------------------------------------------------------
(* The cloud connector.                                                    *)

IsRelay(r) ==
  /\ r = [step |-> r.step, control |-> r.control, next |-> r.next,
          inFlight |-> r.inFlight, wire |-> r.wire]
  /\ r.control \in BOOLEAN

ConnectorTypes ==
  /\ profile \in [state : {"connecting", "connected", "degraded", "revoked"},
                  control : BOOLEAN, labels : BOOLEAN, repair : BOOLEAN]
  /\ receipts \in [RemoteCommands -> {"none", "pending", "completed"}]
  /\ IsRelay(relay)
  /\ permission \in [step : {"none", "asking", "taken", "failed"},
                     wanted : BOOLEAN, revoking : BOOLEAN]
  /\ commands \in [copies : [RemoteCommands -> Nat], running : [RemoteCommands -> BOOLEAN],
                   started : [RemoteCommands -> Nat]]

(* Nothing runs without a receipt, a socket never allows more than the     *)
(* profile does, and a revocation under way has revoked already.           *)
PermissionInv ==
  /\ \A c \in RemoteCommands : receipts[c] = "none" => commands.started[c] = 0
  /\ relay.control => profile.control
  /\ permission.step \in {"asking", "taken"} /\ permission.revoking =>
       ~permission.wanted /\ ~profile.control

ConnectorInv == ConnectorTypes /\ PermissionInv

LEMMA RelayGives ==
  ASSUME NEW step, NEW control \in BOOLEAN
  PROVE  IsRelay(Relay(step, control)) /\ Relay(step, control).control = control
  BY DEF Relay, IsRelay

LEMMA SenderKeeps ==
  ASSUME NEW r, IsRelay(r), NEW t, NEW p
  PROVE  IsRelay(SendNext(r, t, p)) /\ SendNext(r, t, p).control = r.control
  BY DEF SendNext, IsRelay

(* A step that changes neither permissions nor commands.                   *)
LEMMA ConnectorRests ==
  ASSUME ConnectorInv, UNCHANGED <<receipts, permission, commands>>,
         profile' \in [state : {"connecting", "connected", "degraded", "revoked"},
                       control : BOOLEAN, labels : BOOLEAN, repair : BOOLEAN],
         profile'.control = profile.control,
         IsRelay(relay'), relay'.control => profile.control
  PROVE  ConnectorInv'
  BY DEF ConnectorInv, ConnectorTypes, PermissionInv

LEMMA ProjectionsRest ==
  ASSUME ConnectorInv, ProjectionSteps \/ ProjectionFails \/ DisclosureChanges
                         \/ (\E s \in Synced : SummaryChanges(s))
  PROVE  ConnectorInv'
  <1>1. /\ profile \in [state : {"connecting", "connected", "degraded", "revoked"},
                        control : BOOLEAN, labels : BOOLEAN, repair : BOOLEAN]
        /\ IsRelay(relay) /\ (relay.control => profile.control)
    BY DEF ConnectorInv, ConnectorTypes, PermissionInv
  <1>2. /\ profile' \in [state : {"connecting", "connected", "degraded", "revoked"},
                         control : BOOLEAN, labels : BOOLEAN, repair : BOOLEAN]
        /\ profile'.control = profile.control
        /\ UNCHANGED <<receipts, permission, commands>>
    BY <1>1 DEF ProjectionSteps, ProjectionDue, ProjectionReads, ProjectionEnqueues, OutboxFull,
             ProjectionIsStale, ProjectionFails, DisclosureChanges, SummaryChanges
  <1>3. \/ relay' = relay \/ relay' = AfterClose(profile')
        \/ relay' = SendNext(relay, table', profile) \/ relay' = SendNext(relay, table, profile)
        \/ relay' = SendNext(relay, table, profile')
    BY DEF ProjectionSteps, ProjectionDue, ProjectionReads, ProjectionEnqueues, OutboxFull,
           ProjectionIsStale, ProjectionFails, DisclosureChanges, SummaryChanges
  <1>4. IsRelay(relay') /\ (relay'.control => profile.control)
    <2>1. IsRelay(AfterClose(profile')) /\ AfterClose(profile').control = FALSE
      BY RelayGives DEF AfterClose
    <2>2. ASSUME NEW t, NEW p, relay' = SendNext(relay, t, p)
          PROVE  IsRelay(relay') /\ (relay'.control => profile.control)
      BY <1>1, <2>2, SenderKeeps
    <2> QED BY <1>1, <1>3, <2>1, <2>2
  <1> QED BY <1>2, <1>4, ConnectorRests

LEMMA RelayEdits ==
  ASSUME NEW r, IsRelay(r), NEW step, NEW next, NEW inFlight, NEW wire
  PROVE  /\ IsRelay([r EXCEPT !.step = step]) /\ [r EXCEPT !.step = step].control = r.control
         /\ IsRelay([r EXCEPT !.wire = wire]) /\ [r EXCEPT !.wire = wire].control = r.control
         /\ IsRelay([r EXCEPT !.next = next]) /\ [r EXCEPT !.next = next].control = r.control
         /\ IsRelay([r EXCEPT !.inFlight = inFlight])
         /\ [r EXCEPT !.inFlight = inFlight].control = r.control
  <1>1. IsRelay([r EXCEPT !.step = step]) /\ [r EXCEPT !.step = step].control = r.control
    BY DEF IsRelay
  <1>2. IsRelay([r EXCEPT !.wire = wire]) /\ [r EXCEPT !.wire = wire].control = r.control
    BY DEF IsRelay
  <1>3. IsRelay([r EXCEPT !.next = next]) /\ [r EXCEPT !.next = next].control = r.control
    BY DEF IsRelay
  <1>4. /\ IsRelay([r EXCEPT !.inFlight = inFlight])
        /\ [r EXCEPT !.inFlight = inFlight].control = r.control
    BY DEF IsRelay
  <1> QED BY <1>1, <1>2, <1>3, <1>4

LEMMA RelayRests ==
  ASSUME ConnectorInv,
         \/ ConnectBegins \/ TokenArrives \/ StaleConnectEnds \/ WelcomeArrives \/ CloudTakes
         \/ AckArrives \/ RefusalArrives \/ RelayDrops \/ MachineRevoked \/ CloudRefuses
         \/ ConnectorStarts
  PROVE  ConnectorInv'
  <1>1. /\ profile \in [state : {"connecting", "connected", "degraded", "revoked"},
                        control : BOOLEAN, labels : BOOLEAN, repair : BOOLEAN]
        /\ IsRelay(relay) /\ (relay.control => profile.control) /\ profile.control \in BOOLEAN
    BY DEF ConnectorInv, ConnectorTypes, PermissionInv
  <1>2. /\ profile' \in [state : {"connecting", "connected", "degraded", "revoked"},
                         control : BOOLEAN, labels : BOOLEAN, repair : BOOLEAN]
        /\ profile'.control = profile.control
        /\ UNCHANGED <<receipts, permission, commands>>
    BY <1>1 DEF ConnectBegins, TokenArrives, StaleConnectEnds, WelcomeArrives, CloudTakes,
             AckArrives, RefusalArrives, RelayDrops, MachineRevoked, CloudRefuses,
             ConnectorStarts, RelayClosed
  <1>3. \/ relay' = Relay("token", profile.control) \/ relay' = [relay EXCEPT !.step = "opening"]
        \/ relay' = Relay("off", FALSE) \/ relay' = Relay("timer", FALSE)
        \/ relay' = AfterClose(profile')
        \/ relay' = [relay EXCEPT !.step = "welcomed", !.next = cloud.next]
        \/ relay' = [relay EXCEPT !.wire = [kind |-> "ack"]]
        \/ relay' = [relay EXCEPT !.wire = [kind |-> "refusal"]]
        \/ relay' = SendNext([relay EXCEPT !.inFlight = 0, !.wire = NoMessage,
                                           !.next = relay.inFlight + 1], table', profile)
    BY DEF ConnectBegins, TokenArrives, StaleConnectEnds, WelcomeArrives, CloudTakes,
           AckArrives, RefusalArrives, RelayDrops, MachineRevoked, CloudRefuses, ConnectorStarts
  <1>4. IsRelay(relay') /\ (relay'.control => profile.control)
    <2>1. ASSUME NEW step, NEW control \in BOOLEAN, relay' = Relay(step, control),
                 control => profile.control
          PROVE  IsRelay(relay') /\ (relay'.control => profile.control)
      BY <2>1, RelayGives
    <2>2. CASE relay' = AfterClose(profile')
      BY <2>1, <2>2 DEF AfterClose
    <2>3. CASE relay' = SendNext([relay EXCEPT !.inFlight = 0, !.wire = NoMessage,
                                               !.next = relay.inFlight + 1], table', profile)
      <3> DEFINE r == [relay EXCEPT !.inFlight = 0, !.wire = NoMessage, !.next = relay.inFlight + 1]
                 t == [relay EXCEPT !.inFlight = 0]
                 u == [t EXCEPT !.wire = NoMessage]
      <3>1. r = [u EXCEPT !.next = relay.inFlight + 1]
        OBVIOUS
      <3>2. IsRelay(t) /\ t.control = relay.control
        BY <1>1, RelayEdits
      <3> HIDE DEF t
      <3>3. IsRelay(u) /\ u.control = relay.control
        BY <3>2, RelayEdits
      <3> HIDE DEF u
      <3>4. relay' = SendNext(r, table', profile)
        BY <2>3
      <3> HIDE DEF r
      <3>5. IsRelay(r) /\ r.control = relay.control
        BY <3>1, <3>3, RelayEdits
      <3> QED BY <1>1, <3>4, <3>5, SenderKeeps
    <2>4. ASSUME NEW step, relay' = [relay EXCEPT !.step = step]
          PROVE  IsRelay(relay') /\ (relay'.control => profile.control)
      BY <1>1, <2>4, RelayEdits
    <2>5. ASSUME NEW wire, relay' = [relay EXCEPT !.wire = wire]
          PROVE  IsRelay(relay') /\ (relay'.control => profile.control)
      BY <1>1, <2>5, RelayEdits
    <2>6. CASE relay' = [relay EXCEPT !.step = "welcomed", !.next = cloud.next]
      <3> DEFINE t == [relay EXCEPT !.step = "welcomed"]
      <3>1. relay' = [t EXCEPT !.next = cloud.next]
        BY <2>6
      <3>2. IsRelay(t) /\ t.control = relay.control
        BY <1>1, RelayEdits
      <3> HIDE DEF t
      <3> QED BY <1>1, <3>1, <3>2, RelayEdits
    <2> QED BY <1>1, <1>3, <2>1, <2>2, <2>3, <2>4, <2>5, <2>6
  <1> QED BY <1>2, <1>4, ConnectorRests

(* The permissions: what is revoked is gone before anybody is asked.       *)
LEMMA PermissionsKeep ==
  ASSUME ConnectorInv,
         \/ PermissionTaken \/ PermissionApplied \/ ConnectorStops
         \/ (\E on \in BOOLEAN : PermissionAsked(on) \/ PermissionDenied(on))
  PROVE  ConnectorInv'
  <1>1. ConnectorTypes /\ PermissionInv /\ NoPermission.step = "none"
    BY DEF ConnectorInv, NoPermission
  <1>2. \A r : /\ IsRelay(Disconnected(r)) /\ Disconnected(r).control = FALSE
               /\ IsRelay(Relay("timer", FALSE)) /\ Relay("timer", FALSE).control = FALSE
               /\ IsRelay(Relay("off", FALSE)) /\ Relay("off", FALSE).control = FALSE
    BY RelayGives DEF Disconnected
  <1>3. ASSUME NEW on \in BOOLEAN, PermissionAsked(on)
        PROVE  ConnectorInv'
    <2> DEFINE revoking == profile.control /\ ~on
    <2>1. /\ UNCHANGED <<receipts, commands>> /\ revoking \in BOOLEAN
          /\ permission' = [step |-> "asking", wanted |-> on, revoking |-> revoking]
          /\ revoking => profile' = [profile EXCEPT !.control = FALSE, !.repair = FALSE,
                                                    !.state = "connecting"]
          /\ revoking => relay' = Disconnected(relay)
          /\ ~revoking => UNCHANGED <<profile, relay>>
          /\ revoking => ~on
      BY <1>3 DEF PermissionAsked
    <2> HIDE DEF revoking
    <2>2. /\ permission' \in [step : {"none", "asking", "taken", "failed"},
                              wanted : BOOLEAN, revoking : BOOLEAN]
          /\ permission'.revoking = revoking /\ permission'.wanted = on
      BY <2>1
    <2>3. CASE revoking
      <3>1. /\ profile' \in [state : {"connecting", "connected", "degraded", "revoked"},
                             control : BOOLEAN, labels : BOOLEAN, repair : BOOLEAN]
            /\ profile'.control = FALSE
        BY <1>1, <2>1, <2>3 DEF ConnectorTypes
      <3>2. IsRelay(relay') /\ ~relay'.control
        BY <1>2, <2>1, <2>3
      <3> QED BY <1>1, <2>1, <2>2, <2>3, <3>1, <3>2 DEF ConnectorInv, ConnectorTypes, PermissionInv
    <2>4. CASE ~revoking
      BY <1>1, <2>1, <2>2, <2>4 DEF ConnectorInv, ConnectorTypes, PermissionInv
    <2> QED BY <2>3, <2>4
  <1>4. ASSUME NEW on \in BOOLEAN, PermissionDenied(on)
        PROVE  ConnectorInv'
    <2>1. /\ UNCHANGED <<receipts, relay, commands>>
          /\ permission' \in {NoPermission, [NoPermission EXCEPT !.step = "failed"]}
          /\ profile' = profile \/ profile' = [profile EXCEPT !.state = "degraded", !.repair = on]
      BY <1>4 DEF PermissionDenied
    <2>2. /\ permission' \in [step : {"none", "asking", "taken", "failed"},
                              wanted : BOOLEAN, revoking : BOOLEAN]
          /\ permission'.step \notin {"asking", "taken"}
      <3> DEFINE none == NoPermission
      <3>1. /\ none \in [step : {"none", "asking", "taken", "failed"},
                          wanted : BOOLEAN, revoking : BOOLEAN]
            /\ none.step = "none"
        BY DEF NoPermission
      <3>2. permission' \in {none, [none EXCEPT !.step = "failed"]}
        BY <2>1
      <3> HIDE DEF none
      <3> QED BY <3>1, <3>2
    <2>3. /\ profile' \in [state : {"connecting", "connected", "degraded", "revoked"},
                           control : BOOLEAN, labels : BOOLEAN, repair : BOOLEAN]
          /\ profile'.control = profile.control
      BY <1>1, <2>1 DEF ConnectorTypes
    <2> QED BY <1>1, <2>1, <2>2, <2>3 DEF ConnectorInv, ConnectorTypes, PermissionInv
  <1>5. CASE PermissionTaken
    <2>1. /\ UNCHANGED <<receipts, commands>> /\ permission.step = "asking"
          /\ permission' = [permission EXCEPT !.step = "taken"]
          /\ profile' = [profile EXCEPT !.control = permission.wanted, !.state = "connecting",
                                        !.repair = FALSE]
          /\ relay' = IF permission.revoking THEN relay ELSE Disconnected(relay)
      BY <1>5 DEF PermissionTaken
    <2> QED BY <1>1, <1>2, <2>1 DEF ConnectorInv, ConnectorTypes, PermissionInv
  <1>6. CASE PermissionApplied
    BY <1>1, <1>2, <1>6 DEF PermissionApplied, ConnectorInv, ConnectorTypes, PermissionInv, NoPermission
  <1>7. CASE ConnectorStops
    <2>1. /\ UNCHANGED <<receipts, profile>> /\ relay' = Relay("off", FALSE)
          /\ permission' = NoPermission
          /\ commands' = [commands EXCEPT !.running = [c \in RemoteCommands |-> FALSE]]
      BY <1>7 DEF ConnectorStops
    <2> QED BY <1>1, <1>2, <2>1 DEF ConnectorInv, ConnectorTypes, PermissionInv, NoPermission
  <1> QED BY <1>3, <1>4, <1>5, <1>6, <1>7

(* The commands.                                                           *)
LEMMA CommandsRun ==
  ASSUME ConnectorInv, NEW c \in RemoteCommands,
         \/ RemoteRefused(c) \/ RemoteStarts(c) \/ (\E definitive \in BOOLEAN : RemoteEnds(c, definitive))
  PROVE  ConnectorInv'
  <1>1. ConnectorTypes /\ PermissionInv
    BY DEF ConnectorInv
  <1>2. CASE RemoteRefused(c)
    <2>1. /\ UNCHANGED <<receipts, permission>>
          /\ commands' = [commands EXCEPT !.copies[c] = @ + 1]
          /\ \/ profile' = [profile EXCEPT !.state = IF @ = "revoked" THEN @ ELSE "degraded"]
                /\ relay' = AfterClose(profile')
             \/ UNCHANGED <<profile, relay>>
      BY <1>2 DEF RemoteRefused, RelayClosed
    <2>2. IsRelay(AfterClose(profile')) /\ AfterClose(profile').control = FALSE
      BY RelayGives DEF AfterClose
    <2>3. /\ commands' \in [copies : [RemoteCommands -> Nat], running : [RemoteCommands -> BOOLEAN],
                            started : [RemoteCommands -> Nat]]
          /\ commands'.started = commands.started
      BY <1>1, <2>1 DEF ConnectorTypes
    <2>4. /\ profile' \in [state : {"connecting", "connected", "degraded", "revoked"},
                           control : BOOLEAN, labels : BOOLEAN, repair : BOOLEAN]
          /\ profile'.control = profile.control
      BY <1>1, <2>1 DEF ConnectorTypes
    <2>5. IsRelay(relay') /\ (relay'.control => profile.control)
      BY <1>1, <2>1, <2>2 DEF ConnectorTypes, PermissionInv
    <2> QED BY <1>1, <2>1, <2>3, <2>4, <2>5 DEF ConnectorInv, ConnectorTypes, PermissionInv
  <1>3. CASE RemoteStarts(c)
    <2>1. /\ UNCHANGED <<profile, relay, permission>>
          /\ receipts' = [receipts EXCEPT ![c] = "pending"]
          /\ commands' = [commands EXCEPT !.copies[c] = @ + 1, !.running[c] = TRUE, !.started[c] = @ + 1]
      BY <1>3 DEF RemoteStarts
    <2>2. /\ commands' \in [copies : [RemoteCommands -> Nat], running : [RemoteCommands -> BOOLEAN],
                            started : [RemoteCommands -> Nat]]
          /\ commands'.started = [commands.started EXCEPT ![c] = commands.started[c] + 1]
      <3> DEFINE copies == [commands.copies EXCEPT ![c] = commands.copies[c] + 1]
                 running == [commands.running EXCEPT ![c] = TRUE]
                 started == [commands.started EXCEPT ![c] = commands.started[c] + 1]
      <3>1. /\ copies \in [RemoteCommands -> Nat] /\ running \in [RemoteCommands -> BOOLEAN]
            /\ started \in [RemoteCommands -> Nat]
        BY <1>1 DEF ConnectorTypes
      <3>2. commands' = [copies |-> copies, running |-> running, started |-> started]
        BY <1>1, <2>1 DEF ConnectorTypes
      <3> HIDE DEF copies, running
      <3> QED BY <3>1, <3>2
    <2> QED BY <1>1, <2>1, <2>2 DEF ConnectorInv, ConnectorTypes, PermissionInv
  <1>4. ASSUME NEW definitive \in BOOLEAN, RemoteEnds(c, definitive)
        PROVE  ConnectorInv'
    <2>1. /\ UNCHANGED <<profile, relay, permission>>
          /\ receipts' \in {receipts, [receipts EXCEPT ![c] = "completed"]}
          /\ commands' = [commands EXCEPT !.running[c] = FALSE]
      BY <1>4 DEF RemoteEnds
    <2>2. /\ commands' \in [copies : [RemoteCommands -> Nat], running : [RemoteCommands -> BOOLEAN],
                            started : [RemoteCommands -> Nat]]
          /\ commands'.started = commands.started
      BY <1>1, <2>1 DEF ConnectorTypes
    <2> QED BY <1>1, <2>1, <2>2 DEF ConnectorInv, ConnectorTypes, PermissionInv
  <1> QED BY <1>2, <1>3, <1>4

LEMMA ConnectorBegins == CloudInit => ConnectorInv
  <1> SUFFICES ASSUME CloudInit PROVE ConnectorInv
    OBVIOUS
  <1>1. /\ profile \in [state : {"connecting", "connected", "degraded", "revoked"},
                        control : BOOLEAN, labels : BOOLEAN, repair : BOOLEAN]
        /\ receipts = [c \in RemoteCommands |-> "none"]
        /\ relay = Relay("timer", FALSE) /\ permission = NoPermission
        /\ commands = [copies  |-> [c \in RemoteCommands |-> 0],
                       running |-> [c \in RemoteCommands |-> FALSE],
                       started |-> [c \in RemoteCommands |-> 0]]
    BY DEF CloudInit
  <1>2. IsRelay(relay) /\ relay.control = FALSE
    BY <1>1, RelayGives
  <1> QED BY <1>1, <1>2 DEF ConnectorInv, ConnectorTypes, PermissionInv, NoPermission

LEMMA ConnectorKeeps == ConnectorInv /\ [CloudNext]_CloudVars => ConnectorInv'
  <1> SUFFICES ASSUME ConnectorInv, [CloudNext]_CloudVars PROVE ConnectorInv'
    OBVIOUS
  <1>1. CASE UNCHANGED CloudVars
    BY <1>1 DEF CloudVars, ConnectorInv, ConnectorTypes, PermissionInv
  <1>2. CASE CloudNext
    BY <1>2, ProjectionsRest, RelayRests, PermissionsKeep, CommandsRun DEF CloudNext, RelaySteps
  <1> QED BY <1>1, <1>2

(* The inductive invariant of the permissions and the receipts.            *)
THEOREM ConnectorInvariant == CloudSpec => []ConnectorInv
  BY ConnectorBegins, ConnectorKeeps, PTL DEF CloudSpec

(* A command is run at most once, and only while the profile allows it:    *)
(* its receipt is reserved before it is executed, and a socket that was    *)
(* opened with earlier permissions is closed before they change            *)
(* (cloudControlReceipts, CloudConnectorPermissions.apply).                *)
THEOREM CommandsRunOnce == CloudSpec => RunsOnceWhileAllowed
  <1> DEFINE Once == \A c \in RemoteCommands : commands'.started[c] # commands.started[c] =>
                       commands.started[c] = 0 /\ profile.control
  <1>1. ConnectorInv /\ [CloudNext]_CloudVars => [Once]_CloudVars
    <2> SUFFICES ASSUME ConnectorInv, CloudNext, NEW c \in RemoteCommands,
                        commands'.started[c] # commands.started[c]
                 PROVE  commands.started[c] = 0 /\ profile.control
      OBVIOUS
    <2>1. ConnectorTypes /\ PermissionInv
      BY DEF ConnectorInv
    <2>2. commands'.started = commands.started \/ \E d \in RemoteCommands : RemoteStarts(d)
      <3>1. commands' = commands \/ ConnectorStops
            \/ \E d \in RemoteCommands : RemoteRefused(d) \/ RemoteStarts(d)
                                         \/ \E definitive \in BOOLEAN : RemoteEnds(d, definitive)
        BY DEF CloudNext, ProjectionSteps, ProjectionDue, ProjectionReads, ProjectionEnqueues,
               OutboxFull, ProjectionIsStale, ProjectionFails, DisclosureChanges, SummaryChanges,
               RelaySteps, ConnectBegins, TokenArrives, StaleConnectEnds, WelcomeArrives,
               CloudTakes, AckArrives, RefusalArrives, RelayDrops, MachineRevoked, CloudRefuses,
               ConnectorStarts, PermissionTaken, PermissionApplied, PermissionAsked,
               PermissionDenied
      <3> QED BY <2>1, <3>1 DEF ConnectorTypes, ConnectorStops, RemoteRefused, RemoteEnds
    <2>3. PICK d \in RemoteCommands : RemoteStarts(d)
      BY <2>2
    <2>4. commands'.started = [commands.started EXCEPT ![d] = @ + 1]
      BY <2>1, <2>3 DEF RemoteStarts, ConnectorTypes
    <2>5. c = d
      BY <2>1, <2>4 DEF ConnectorTypes
    <2> QED BY <2>1, <2>3, <2>5 DEF RemoteStarts, PermissionInv
  <1> QED BY <1>1, ConnectorInvariant, PTL DEF CloudSpec, RunsOnceWhileAllowed
===============================================================================
