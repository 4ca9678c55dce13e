------------------------------ MODULE PromptRows ------------------------------
(***************************************************************************)
(* The rows that one session owns in the table prompt_delivery_journal,    *)
(* and what each SQL statement of SqlitePromptDeliveryJournalStore does to *)
(* them.  Rows are numbered in the order of requested_at, which is the     *)
(* only order the store ever asks for.  A statement is a function from     *)
(* rows to rows, so that a handler which issues several of them is their   *)
(* composition.  A definition marked Variant is a bug one could make here; *)
(* the properties are tried against it.                                    *)
(***************************************************************************)
EXTENDS Naturals

CONSTANT MaxPrompts             \* how many prompts a session is ever sent

ASSUME MaxPromptsAssumption == MaxPrompts \in Nat \ {0}

Prompt == 1 .. MaxPrompts

Recoverable == {"prepared", "dispatching", "accepted", "not_sent", "outcome_unknown"}
InFlight    == {"dispatching", "accepted"}
Settled     == {"completed", "interrupted", "observed"}
Phase       == Recoverable \cup Settled \cup {"absent"}

Rows == [Prompt -> Phase]

NoRows == [d \in Prompt |-> "absent"]

-----------------------------------------------------------------------------
(* The three shapes of UPDATE that the store is written from.              *)

ById(rows, d, from, to) ==
  [e \in Prompt |-> IF e = d /\ rows[e] \in from THEN to ELSE rows[e]]

IsLatest(rows, d, from) ==
  rows[d] \in from /\ \A e \in Prompt : e > d => rows[e] \notin from

LatestBySession(rows, from, to) ==
  [d \in Prompt |-> IF IsLatest(rows, d, from) THEN to ELSE rows[d]]

Sweep(rows, from, to) ==
  [d \in Prompt |-> IF rows[d] \in from THEN to ELSE rows[d]]

-----------------------------------------------------------------------------
(* INSERT: a new row is younger than every row of the session.             *)

(* Variant: any free place in the order of requested_at.                   *)
IsNextAnywhere(rows, d) == rows[d] = "absent"

IsNext(rows, d) ==
  rows[d] = "absent" /\ \A e \in Prompt : e < d <=> rows[e] # "absent"

Prepare(rows, d) == [rows EXCEPT ![d] = "prepared"]

(* Statements on the row of one delivery.                                  *)

MarkDispatching(rows, d)    == ById(rows, d, {"prepared"}, "dispatching")
MarkAccepted(rows, d)       == ById(rows, d, {"dispatching"}, "accepted")
MarkOutcomeUnknown(rows, d) == ById(rows, d, InFlight, "outcome_unknown")

(* Variant: a failure is taken for one before the dispatch.                *)
MarkNotSentAtAnyTime(rows, d) == ById(rows, d, {"prepared"} \cup InFlight, "not_sent")

MarkNotSent(rows, d)        == ById(rows, d, {"prepared"}, "not_sent")
MarkNotSentAfterSynchronousSpawnFailure(rows, d) ==
  ById(rows, d, {"prepared", "dispatching"}, "not_sent")

(* Statements on the latest matching row of the session.                   *)

MarkDispatchingBySession(rows) == LatestBySession(rows, {"prepared"}, "dispatching")
MarkAcceptedBySession(rows)    == LatestBySession(rows, {"dispatching"}, "accepted")
MarkNotSentBySession(rows)     == LatestBySession(rows, {"prepared"}, "not_sent")

MarkOutcomeUnknownBySession(rows) ==
  LatestBySession(rows, InFlight, "outcome_unknown")

(* Variant: without LIMIT 1.                                               *)
MarkNotSentOfEvery(rows) == Sweep(rows, Recoverable \ {"not_sent"}, "not_sent")

MarkNotSentAfterActiveWriterConflict(rows) ==
  LatestBySession(rows, Recoverable \ {"not_sent"}, "not_sent")

(* Statements on every matching row of the session.                        *)

MarkObservedBySession(rows) ==
  Sweep(rows, {"not_sent", "outcome_unknown"}, "observed")

(* Variant: the phase is not looked at.                                    *)
MarkCompletedAgain(rows) == Sweep(rows, Phase \ {"absent"}, "completed")

MarkCompleted(rows)   == Sweep(rows, Recoverable, "completed")
MarkInterrupted(rows) == Sweep(rows, Recoverable, "interrupted")

(* Variant: a shutdown that gives up what it started.                      *)
MarkActiveNotSentForShutdown(rows) == Sweep(rows, InFlight, "not_sent")

MarkActiveOutcomeUnknownForShutdown(rows) ==
  Sweep(rows, InFlight, "outcome_unknown")

RecoverActiveAfterRestart(rows) ==
  Sweep(Sweep(rows, {"prepared"}, "not_sent"), InFlight, "outcome_unknown")
=============================================================================
