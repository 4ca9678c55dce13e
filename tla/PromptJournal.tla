----------------------------- MODULE PromptJournal ----------------------------
(***************************************************************************)
(* SqlitePromptDeliveryJournalStore as a component: the table of prompt    *)
(* deliveries of every session, and one action per method of the store.    *)
(* Its callers may call any method at any time; what is stated here is     *)
(* what the store guarantees them whatever they do.                        *)
(***************************************************************************)
EXTENDS PromptRows

CONSTANT Sessions

VARIABLE journal                \* [Sessions -> Rows]

Init == journal = [s \in Sessions |-> NoRows]

Insert(s) ==
  \E d \in Prompt :
    /\ IsNext(journal[s], d)
    /\ journal' = [journal EXCEPT ![s] = Prepare(@, d)]

(* A method that is given a delivery id.                                   *)
UpdateDelivery(s, d) ==
  \/ journal' = [journal EXCEPT ![s] = MarkDispatching(@, d)]
  \/ journal' = [journal EXCEPT ![s] = MarkAccepted(@, d)]
  \/ journal' = [journal EXCEPT ![s] = MarkOutcomeUnknown(@, d)]
  \/ journal' = [journal EXCEPT ![s] = MarkNotSent(@, d)]
  \/ journal' = [journal EXCEPT ![s] = MarkNotSentAfterSynchronousSpawnFailure(@, d)]

(* A method that is given a session id.                                    *)
UpdateSession(s) ==
  \/ journal' = [journal EXCEPT ![s] = MarkDispatchingBySession(@)]
  \/ journal' = [journal EXCEPT ![s] = MarkAcceptedBySession(@)]
  \/ journal' = [journal EXCEPT ![s] = MarkNotSentBySession(@)]
  \/ journal' = [journal EXCEPT ![s] = MarkOutcomeUnknownBySession(@)]
  \/ journal' = [journal EXCEPT ![s] = MarkNotSentAfterActiveWriterConflict(@)]
  \/ journal' = [journal EXCEPT ![s] = MarkObservedBySession(@)]
  \/ journal' = [journal EXCEPT ![s] = MarkCompleted(@)]
  \/ journal' = [journal EXCEPT ![s] = MarkInterrupted(@)]

(* A method that is given nothing and sweeps the whole table.              *)
Shutdown ==
  journal' = [s \in Sessions |-> MarkActiveOutcomeUnknownForShutdown(journal[s])]

Recover ==
  journal' = [s \in Sessions |-> RecoverActiveAfterRestart(journal[s])]

Next ==
  \/ \E s \in Sessions :
       \/ Insert(s)
       \/ \E d \in Prompt : UpdateDelivery(s, d)
       \/ UpdateSession(s)
  \/ Shutdown
  \/ Recover

Spec == Init /\ [][Next]_journal

-----------------------------------------------------------------------------
(* The rows of every session are in the order in which they were asked     *)
(* for, without a gap: the order that LIMIT 1 of the by-session statements *)
(* relies on.                                                              *)
TypeOK ==
  /\ journal \in [Sessions -> Rows]
  /\ \A s \in Sessions : \A d, e \in Prompt :
       d < e /\ journal[s][e] # "absent" => journal[s][d] # "absent"

(* A row that has been settled is history: no method, by id, by session or *)
(* in a sweep, changes it again.                                           *)
SettledIsFinal ==
  [][\A s \in Sessions, d \in Prompt :
       journal[s][d] \in Settled => journal'[s][d] = journal[s][d]]_journal
=============================================================================
