-------------------------- MODULE NotificationOutbox --------------------------
(***************************************************************************)
(* createNotificationDeliveryScheduler and its coordinator: an event is    *)
(* claimed once, each of its notifications gets a row in the durable       *)
(* outbox, and is sent, sent again after a delay, and deleted.  The        *)
(* service may be closed or may crash at any point, and is started again   *)
(* with what the database has.                                             *)
(***************************************************************************)
EXTENDS Naturals, Sequences, SequencesExt, FiniteSets

CONSTANTS Events,               \* what there is to notify of
          Providers,            \* "web_push" and others
          MaxAttempts,          \* retryDelaysMs.length + 1
          OutboxLimit,          \* outboxMaxRecords
          MaxStops,             \* how often the service closes or crashes
          MaxOutboxFailures       \* how often the state cannot be saved

ASSUME MaxAttemptsAssumption == MaxAttempts \in Nat \ {0}
ASSUME OutboxLimitAssumption == OutboxLimit \in Nat \ {0}

VARIABLES service,              \* "up", "closing" or "down"
          claimed,              \* the dedupe keys, in memory and in the state row
          outbox,               \* the table: the number of the next attempt
          pending,              \* pendingRetries: queued, or armed with a timer
          delivery,             \* runRetry and scheduleRetry of a notification
          trial                 \* history of what was tried, and bounds

OutboxVars == <<service, claimed, outbox, pending, delivery, trial>>

(* The key of a notification; its rank is its place by createdAt.          *)
Notifications == Events \X Providers

NewOf(e) == {e} \X Providers

Rank(n, events) == CHOOSE i \in DOMAIN events : events[i] = n[1]

Limit(n) == IF n[2] = "web_push" THEN 1 ELSE MaxAttempts

Nothing == [step |-> "none", attempt |-> 0]

OutboxInit ==
  /\ service = "up"
  /\ claimed = <<>>
  /\ outbox = [n \in Notifications |-> 0]
  /\ pending = [n \in Notifications |-> Nothing]
  /\ delivery = [n \in Notifications |-> Nothing]
  /\ trial = [sent |-> [n \in Notifications |-> 0], done |-> {}, stranded |-> {},
              stops |-> 0, saveFailures |-> 0]

-----------------------------------------------------------------------------
(* queueRetry drops the oldest while there are too many.                   *)
Pending == {n \in Notifications : pending[n] # Nothing}

Excess(set, events) ==
  LET many == Cardinality(set)
  IN CHOOSE old \in SUBSET set :
       /\ Cardinality(old) = IF many > OutboxLimit THEN many - OutboxLimit ELSE 0
       /\ \A n \in old, m \in set \ old : Rank(n, events) <= Rank(m, events)

(* sendEvent, once for an event: the claim and a row per provider in one   *)
(* transaction; then the rows are queued, and sent.  An event whose claim  *)
(* cannot be saved is dropped.  A close ignores what is published from     *)
(* then on, but not the next event of those it is waiting for.             *)
Claim(e, wanted) ==
  /\ service # "down" /\ ~Contains(claimed, e)
  /\ wanted \subseteq NewOf(e)
  /\ claimed' = Append(claimed, e)

Sent(now) == [n \in Notifications |-> trial.sent[n] + IF n \in now THEN 1 ELSE 0]

Notify(e, wanted) ==
  /\ Claim(e, wanted)
  /\ LET old  == Excess(Pending \cup wanted, claimed')
         kept == wanted \ old
     IN /\ outbox' = [n \in Notifications |->
                        IF n \in old THEN 0 ELSE IF n \in wanted THEN 1 ELSE outbox[n]]
        /\ pending' = [n \in Notifications |->
                         IF n \in old THEN Nothing
                         ELSE IF n \in wanted THEN [step |-> "queued", attempt |-> 1]
                         ELSE pending[n]]
        /\ delivery' = [n \in Notifications |->
                          IF n \in kept THEN [step |-> "sending", attempt |-> 1] ELSE delivery[n]]
        /\ trial' = [trial EXCEPT !.done = @ \cup old \cup (NewOf(e) \ wanted), !.sent = Sent(kept)]
  /\ UNCHANGED service

(* sendToProvider has an answer, or its deadline has passed, whether or    *)
(* not the provider took the notification.                                 *)
ProviderTakes(n) ==
  /\ delivery[n].step = "sending"
  /\ delivery' = [delivery EXCEPT ![n].step = "taken"]
  /\ trial' = [trial EXCEPT !.done = @ \cup {n}]
  /\ UNCHANGED <<service, claimed, outbox, pending>>

Sending(n) == delivery[n].step \in {"sending", "taken"}

(* It was delivered, refused for good, or this was the last attempt.       *)
NotificationSettled(n) ==
  /\ Sending(n)
  /\ delivery' = [delivery EXCEPT ![n] = Nothing]
  /\ pending' = [pending EXCEPT ![n] = Nothing]
  /\ outbox' = [outbox EXCEPT ![n] = 0]
  /\ \/ delivery[n].step = "taken" /\ trial' = trial
     \/ delivery[n].step = "sending" /\ trial' = [trial EXCEPT !.done = @ \cup {n}]
     \/ delivery[n].attempt = Limit(n) /\ trial' = trial
  /\ UNCHANGED <<service, claimed>>

(* scheduleRetry, up to its first await.                                   *)
RetryQueued(n) ==
  /\ Sending(n)
  /\ delivery[n].attempt < Limit(n)
  /\ LET next == delivery[n].attempt + 1
         old  == Excess(Pending \cup {n}, claimed)
     IN /\ outbox' = [m \in Notifications |->
                        IF m \in old THEN 0 ELSE IF m = n THEN next ELSE outbox[m]]
        /\ pending' = [m \in Notifications |->
                         IF m \in old THEN Nothing
                         ELSE IF m = n THEN [step |-> "queued", attempt |-> next] ELSE pending[m]]
        /\ delivery' = [delivery EXCEPT ![n] = [step |-> "saving", attempt |-> next]]
        /\ trial' = [trial EXCEPT !.done = @ \cup old]
  /\ UNCHANGED <<service, claimed>>

(* The state is saved twice before the timer is armed; a retry that was    *)
(* dropped during the first one is given up, one that was dropped during   *)
(* the second is armed without a row.                                      *)
RetrySaved(n) ==
  /\ delivery[n].step = "saving"
  /\ delivery' = [delivery EXCEPT ![n] = IF pending[n] = Nothing THEN Nothing
                                         ELSE [@ EXCEPT !.step = "saved"]]
  /\ UNCHANGED <<service, claimed, outbox, pending, trial>>

RetryArmed(n) ==
  /\ delivery[n].step = "saved"
  /\ delivery' = [delivery EXCEPT ![n] = Nothing]
  /\ pending' = IF service = "up"
                THEN [pending EXCEPT ![n] = [step |-> "armed", attempt |-> delivery[n].attempt]]
                ELSE pending
  /\ UNCHANGED <<service, claimed, outbox, trial>>

(* A save that fails leaves the row, and the retry without a timer.        *)
RetryNotSaved(n) ==
  /\ delivery[n].step \in {"saving", "saved"}
  /\ trial.saveFailures < MaxOutboxFailures
  /\ delivery' = [delivery EXCEPT ![n] = Nothing]
  /\ trial' = [trial EXCEPT !.saveFailures = @ + 1, !.stranded = @ \cup {n}]
  /\ UNCHANGED <<service, claimed, outbox, pending>>

RetryTimerFires(n) ==
  /\ service = "up" /\ pending[n].step = "armed"
  /\ pending' = [pending EXCEPT ![n].step = "queued"]
  /\ delivery' = [delivery EXCEPT ![n] = [step |-> "sending", attempt |-> pending[n].attempt]]
  /\ trial' = [trial EXCEPT !.sent = Sent({n})]
  /\ UNCHANGED <<service, claimed, outbox>>

-----------------------------------------------------------------------------
(* close(): the timers are cleared and the sends aborted; what they lead   *)
(* to is waited for, and then nothing is left in memory.                   *)
Disarmed(p) == IF p.step = "armed" THEN [p EXCEPT !.step = "queued"] ELSE p

ServiceCloseBegins ==
  /\ service = "up" /\ trial.stops < MaxStops
  /\ service' = "closing"
  /\ pending' = [n \in Notifications |-> Disarmed(pending[n])]
  /\ trial' = [trial EXCEPT !.stops = @ + 1]
  /\ UNCHANGED <<claimed, outbox, delivery>>

ServiceCloseEnds ==
  /\ service = "closing"
  /\ \A n \in Notifications : delivery[n] = Nothing
  /\ service' = "down"
  /\ pending' = [n \in Notifications |-> Nothing]
  /\ UNCHANGED <<claimed, outbox, delivery, trial>>

(* A crash, which may come between the transaction of an event and the     *)
(* queueing of its notifications.                                          *)
Crashed ==
  /\ service # "down" /\ trial.stops < MaxStops
  /\ service' = "down"
  /\ pending' = [n \in Notifications |-> Nothing]
  /\ delivery' = [n \in Notifications |-> Nothing]

ServiceCrashes ==
  /\ Crashed
  /\ trial' = [trial EXCEPT !.stops = @ + 1]
  /\ UNCHANGED <<claimed, outbox>>

(* Variant: the state and the rows are written one after the other.        *)
CrashBetweenWrites(e, wanted) ==
  /\ Crashed /\ Claim(e, wanted)
  /\ trial' = [trial EXCEPT !.stops = @ + 1, !.done = @ \cup (NewOf(e) \ wanted)]
  /\ UNCHANGED outbox

CrashAfterClaim(e, wanted) ==
  /\ Crashed /\ Claim(e, wanted)
  /\ outbox' = [n \in Notifications |-> IF n \in wanted THEN 1 ELSE outbox[n]]
  /\ trial' = [trial EXCEPT !.stops = @ + 1, !.done = @ \cup (NewOf(e) \ wanted)]

(* Variant: only retries are armed, as if a first attempt were under way.  *)
ServiceStartsWithRetries ==
  /\ service = "down"
  /\ service' = "up"
  /\ pending' = [n \in Notifications |->
                   IF outbox[n] > 1 THEN [step |-> "armed", attempt |-> outbox[n]] ELSE Nothing]
  /\ trial' = [trial EXCEPT !.stranded = {}]
  /\ UNCHANGED <<claimed, outbox, delivery>>

(* loadPushNotificationState and resumePendingRetries: rows that are too   *)
(* old or too many are deleted, the others armed.                          *)
ServiceStarts ==
  /\ service = "down"
  /\ service' = "up"
  /\ \E oldest \in 0 .. Len(claimed) :
       LET rows  == {n \in Notifications : outbox[n] # 0}
           stale == {n \in rows : Rank(n, claimed) <= oldest}
           gone  == stale \cup Excess(rows \ stale, claimed)
       IN /\ outbox' = [n \in Notifications |-> IF n \in gone THEN 0 ELSE outbox[n]]
          /\ pending' = [n \in Notifications |->
                           IF n \in rows \ gone THEN [step |-> "armed", attempt |-> outbox[n]] ELSE Nothing]
          /\ trial' = [trial EXCEPT !.done = @ \cup gone, !.stranded = {}]
  /\ UNCHANGED <<claimed, delivery>>

OutboxNext ==
  \/ \E e \in Events : \E wanted \in SUBSET NewOf(e) :
       Notify(e, wanted) \/ CrashAfterClaim(e, wanted)
  \/ \E n \in Notifications :
       \/ ProviderTakes(n) \/ NotificationSettled(n) \/ RetryQueued(n) \/ RetrySaved(n)
       \/ RetryArmed(n) \/ RetryNotSaved(n) \/ RetryTimerFires(n)
  \/ ServiceCloseBegins \/ ServiceCloseEnds \/ ServiceCrashes \/ ServiceStarts

(* A send has a deadline, a save ends, timers fire, and the daemon is      *)
(* started again.                                                          *)
OutboxFairness ==
  /\ \A n \in Notifications :
       /\ WF_OutboxVars(NotificationSettled(n) \/ RetryQueued(n))
       /\ WF_OutboxVars(RetrySaved(n) \/ RetryArmed(n) \/ RetryNotSaved(n))
       /\ WF_OutboxVars(RetryTimerFires(n))
  /\ WF_OutboxVars(ServiceCloseEnds)
  /\ WF_OutboxVars(ServiceStarts)

OutboxSpec == OutboxInit /\ [][OutboxNext]_OutboxVars /\ OutboxFairness

-----------------------------------------------------------------------------
(* A notification of a claimed event is in the outbox until a provider has *)
(* had it, it was dropped or refused, or all of its attempts were made:    *)
(* what is claimed will never be announced again, so nothing else may make *)
(* the row go away, a crash included.                                      *)
NothingLost ==
  \A n \in Notifications :
    Contains(claimed, n[1]) =>
      outbox[n] # 0 \/ n \in trial.done \/ trial.sent[n] >= Limit(n)

(* Each row is settled in the end, however often the service stops; only a *)
(* state that could not be saved leaves one to the next start.             *)
EachSettles ==
  \A n \in Notifications : outbox[n] # 0 ~> outbox[n] = 0 \/ n \in trial.stranded
=============================================================================
