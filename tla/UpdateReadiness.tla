--------------------------- MODULE UpdateReadiness ---------------------------
(***************************************************************************)
(* UpdateAdmission and UpdateReadinessCoordinator: before the host installs*)
(* an update the daemon admits no more work, looks whether any is under    *)
(* way, and if not closes its services and makes a backup.  Looking at the *)
(* source agents takes an await, and so does each step of the close.  One  *)
(* source chat has turns of its own.                                       *)
(***************************************************************************)
EXTENDS Naturals, FiniteSets

CONSTANTS Works,                \* what clients ask the daemon to do
          MaxDrains             \* how often the host asks for readiness

VARIABLES work,                 \* how far each of it is
          admission,            \* whether draining
          drain,                \* beginUpdateDrain: its step, what it has seen
          drains,               \* how many there were
          services,             \* the application: "open", "closing", "closed"
          turn                  \* whether the source chat has an active turn

ReadinessVars == <<work, admission, drain, drains, services, turn>>

ReadinessInit ==
  /\ work = [w \in Works |-> "idle"]
  /\ admission = "open"
  /\ drain = [step |-> "idle", seen |-> FALSE]
  /\ drains = 0
  /\ services = "open"
  /\ turn \in BOOLEAN

-----------------------------------------------------------------------------
(* run(): a mutation, the middleware of the routes and the services ask    *)
(* the same question.                                                      *)
Admitted(w) ==
  /\ admission = "open" /\ services = "open" /\ work[w] = "idle"
  /\ work' = [work EXCEPT ![w] = "admitted"]
  /\ UNCHANGED <<admission, drain, drains, services, turn>>

(* The request ends with the work done or refused, or with a session or a  *)
(* generation that runs on and has a probe of its own.                     *)
RequestEnds(w) ==
  /\ work[w] = "admitted"
  /\ \E next \in {"ended", "running"} : work' = [work EXCEPT ![w] = next]
  /\ UNCHANGED <<admission, drain, drains, services, turn>>

WorkEnds(w) ==
  /\ work[w] = "running"
  /\ work' = [work EXCEPT ![w] = "ended"]
  /\ UNCHANGED <<admission, drain, drains, services, turn>>

(* Another program works in the source chat.                               *)
TurnChanges ==
  /\ turn' = ~turn
  /\ UNCHANGED <<work, admission, drain, drains, services>>

-----------------------------------------------------------------------------
(* The drain.  A message of the host waits for the one before it; with the *)
(* lease held it is answered at once.                                      *)
DrainBegins ==
  /\ drain.step = "idle" /\ drains < MaxDrains
  /\ admission' = "draining"
  /\ drain' = [drain EXCEPT !.step = "counting"]
  /\ drains' = drains + 1
  /\ UNCHANGED <<work, services, turn>>

(* countActiveTurnsForUpdate reads the chats of the source agents.         *)
TurnsCounted ==
  /\ drain.step = "counting"
  /\ drain' = [step |-> "counted", seen |-> turn]
  /\ UNCHANGED <<work, admission, drains, services, turn>>

(* Variant: only what the probes of the services see is counted.           *)
ProbedOnly == drain.seen \/ \E w \in Works : work[w] = "running"

(* What the services count, or what is admitted.                           *)
Blocked == drain.seen \/ \E w \in Works : work[w] \in {"admitted", "running"}

DrainRefused ==
  /\ drain.step = "counted" /\ Blocked
  /\ admission' = "open"
  /\ drain' = [step |-> "idle", seen |-> FALSE]
  /\ UNCHANGED <<work, drains, services, turn>>

QuiesceBegins ==
  /\ drain.step = "counted" /\ ~Blocked
  /\ drain' = [drain EXCEPT !.step = "quiescing"]
  /\ UNCHANGED <<work, admission, drains, services, turn>>

(* close(): the connector, the maintenance and the reads come first; only  *)
(* then the store closes.                                                  *)
StoreCloses ==
  /\ drain.step = "quiescing" /\ services = "open"
  /\ services' = "closing"
  /\ UNCHANGED <<work, admission, drain, drains, turn>>

Closed(how) ==
  /\ drain.step = "quiescing" /\ services = "closing"
  /\ services' = "closed"
  /\ work' = [w \in Works |-> IF work[w] \in {"admitted", "running"} THEN "cut" ELSE work[w]]
  /\ drain' = [drain EXCEPT !.step = how]
  /\ UNCHANGED <<drains, turn>>

Quiesced == Closed("saving") /\ UNCHANGED admission

(* A service did not close, or there is no backup: admission is open again,*)
(* the services are not.                                                   *)
QuiesceFails == Closed("failed") /\ admission' = "open"

BackupEnds ==
  /\ drain.step = "saving"
  /\ \/ drain' = [drain EXCEPT !.step = "leased"] /\ UNCHANGED admission
     \/ drain' = [drain EXCEPT !.step = "failed"] /\ admission' = "open"
  /\ UNCHANGED <<work, drains, services, turn>>

(* The host stops a daemon that is ready, that failed, or that did not     *)
(* answer in time, and starts one again.                                   *)
DaemonIsReplaced ==
  /\ drain.step # "idle"
  /\ work' = [w \in Works |-> IF work[w] \in {"idle", "cut"} THEN work[w] ELSE "ended"]
  /\ admission' = "open"
  /\ drain' = [step |-> "idle", seen |-> FALSE]
  /\ services' = "open"
  /\ UNCHANGED <<drains, turn>>

ReadinessNext ==
  \/ \E w \in Works : Admitted(w) \/ RequestEnds(w) \/ WorkEnds(w)
  \/ TurnChanges \/ DrainBegins \/ TurnsCounted \/ DrainRefused \/ QuiesceBegins
  \/ StoreCloses \/ Quiesced \/ QuiesceFails \/ BackupEnds \/ DaemonIsReplaced

ReadinessSpec == ReadinessInit /\ [][ReadinessNext]_ReadinessVars

-----------------------------------------------------------------------------
(* Preparing an update cuts nothing off that was admitted: what was not    *)
(* over when admission closed is counted, whatever happened during the     *)
(* await (updateReadinessCoordinator.ts:74).                               *)
NothingCutOff == \A w \in Works : work[w] # "cut"
===============================================================================
