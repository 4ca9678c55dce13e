-------------------------- MODULE PromptDeliveryProofs ------------------------
(***************************************************************************)
(* Theorems about PromptDelivery, for every number of prompts and, unless  *)
(* a hypothesis says otherwise, for either adapter and every set of faults.*)
(* Each of the six parts has its invariant first: types, what the journal  *)
(* knows, who attends to the latest prompt, what a recovery blocks, what   *)
(* is offered to be sent again, and the child of a reply.                  *)
(***************************************************************************)
EXTENDS PromptDelivery, TLAPS

-----------------------------------------------------------------------------
(* The statements on the journal return rows.                              *)

LEMMA RowsTyped ==
  ASSUME NEW rs \in Rows, NEW d \in Prompt
  PROVE  /\ Prepare(rs, d) \in Rows
         /\ MarkDispatching(rs, d) \in Rows
         /\ MarkAccepted(rs, d) \in Rows
         /\ MarkNotSentAfterSynchronousSpawnFailure(rs, d) \in Rows
         /\ FailedRows(rs, d) \in Rows
         /\ MarkOutcomeUnknownBySession(rs) \in Rows
         /\ MarkNotSentAfterActiveWriterConflict(rs) \in Rows
         /\ MarkObservedBySession(rs) \in Rows
         /\ MarkCompleted(rs) \in Rows
         /\ MarkInterrupted(rs) \in Rows
         /\ MarkActiveOutcomeUnknownForShutdown(rs) \in Rows
         /\ RecoverActiveAfterRestart(rs) \in Rows
  <1>1. {"prepared", "dispatching", "accepted", "not_sent", "outcome_unknown",
         "completed", "interrupted", "observed"} \subseteq Phase
    BY DEF Phase, Recoverable, Settled
  <1>2. \A rt \in Rows : \A from, to :
          to \in Phase => /\ ById(rt, d, from, to) \in Rows
                          /\ LatestBySession(rt, from, to) \in Rows
                          /\ Sweep(rt, from, to) \in Rows
    BY DEF ById, LatestBySession, Sweep, Rows
  <1>3. Prepare(rs, d) \in Rows
    BY <1>1 DEF Prepare, Rows
  <1>4. /\ MarkDispatching(rs, d) \in Rows
        /\ MarkAccepted(rs, d) \in Rows
        /\ MarkNotSentAfterSynchronousSpawnFailure(rs, d) \in Rows
        /\ MarkNotSent(rs, d) \in Rows
    BY <1>1, <1>2
    DEF MarkDispatching, MarkAccepted, MarkNotSentAfterSynchronousSpawnFailure, MarkNotSent
  <1>5. FailedRows(rs, d) \in Rows
    BY <1>1, <1>2, <1>4 DEF FailedRows, MarkOutcomeUnknown
  <1>6. /\ MarkOutcomeUnknownBySession(rs) \in Rows
        /\ MarkNotSentAfterActiveWriterConflict(rs) \in Rows
    BY <1>1, <1>2 DEF MarkOutcomeUnknownBySession, MarkNotSentAfterActiveWriterConflict
  <1>7. /\ MarkObservedBySession(rs) \in Rows
        /\ MarkCompleted(rs) \in Rows
        /\ MarkInterrupted(rs) \in Rows
        /\ MarkActiveOutcomeUnknownForShutdown(rs) \in Rows
    BY <1>1, <1>2 DEF MarkObservedBySession, MarkCompleted, MarkInterrupted,
                      MarkActiveOutcomeUnknownForShutdown
  <1>8. RecoverActiveAfterRestart(rs) \in Rows
    BY <1>1, <1>2 DEF RecoverActiveAfterRestart
  <1> QED BY <1>3, <1>4, <1>5, <1>6, <1>7, <1>8

-----------------------------------------------------------------------------
(* Finishing a session, and recording a failure in it, return a session.   *)

LEMMA SessionFields ==
  ASSUME NEW s \in SessionDetail
  PROVE  /\ s.reply \in ReplyState
         /\ s.recovery \in PromptRecovery
         /\ s.reply.linked \in BOOLEAN
         /\ s.reply.observed \in BOOLEAN
         /\ s.reply.phase # "idle" \/ s.reply.prompt # NoPrompt => s.reply.prompt \in Prompt
  <1>1. s.reply \in ReplyState /\ s.recovery \in PromptRecovery
    BY DEF SessionDetail
  <1>2. CASE s.reply = EmptyReply
    BY <1>1, <1>2 DEF EmptyReply, Reply, NoPrompt
  <1>3. CASE s.reply # EmptyReply
    <2>1. s.reply \in [phase : {"sending", "waiting"}, prompt : Prompt,
                       linked : BOOLEAN, observed : BOOLEAN]
      BY <1>1, <1>3 DEF ReplyState
    <2> QED BY <1>1, <2>1
  <1> QED BY <1>2, <1>3

LEMMA FinishTyped ==
  ASSUME NEW s \in SessionDetail, NEW rs \in Rows,
         NEW status \in {"done", "read_only", "stopped", "failed"}, NEW code \in ExitCode,
         NEW conflict \in BOOLEAN, conflict => s.reply.phase # "idle"
  PROVE  /\ FinishedRows(s, rs, status, code, conflict) \in Rows
         /\ FinishedSession(s, rs, status, code, conflict) \in SessionDetail
  <1>1. FinishedRows(s, rs, status, code, conflict) \in Rows
    BY RowsTyped, MaxPromptsAssumption DEF FinishedRows, Prompt
  <1>2. s.reply.phase # "idle" \/ s.reply.prompt # NoPrompt => s.reply.prompt \in Prompt
    BY SessionFields
  <1>3. /\ s.reply.linked \in BOOLEAN /\ s.reply.observed \in BOOLEAN
        /\ s.recovery \in PromptRecovery /\ s.reply \in ReplyState
    BY SessionFields
  <1>4. FinishedRecovery(s, rs, status, code, conflict) \in PromptRecovery
    BY <1>2, <1>3 DEF FinishedRecovery, UncertainRecovery, ObservedReply, PromptRecovery, Reply
  <1>5. s.reply.phase = "sending" => [s.reply EXCEPT !.phase = "waiting"] \in ReplyState
    BY <1>3 DEF ReplyState, EmptyReply, Reply
  <1>6. EmptyReply \in ReplyState
    BY DEF ReplyState
  <1>7. FinishedSession(s, rs, status, code, conflict) \in SessionDetail
    BY <1>3, <1>4, <1>5, <1>6 DEF FinishedSession, SessionDetail
  <1> QED BY <1>1, <1>7

LEMMA ExitTyped ==
  ASSUME NEW s \in SessionDetail, NEW rs \in Rows, NEW c, NEW code \in ExitCode,
         NEW conflict \in BOOLEAN, MayExit(s, c, code, conflict)
  PROVE  /\ ExitRows(s, rs, c, code, conflict) \in Rows
         /\ ExitSession(s, rs, c, code, conflict) \in SessionDetail
  <1>1. ExitedStatus(s, code) \in {"done", "read_only", "stopped", "failed"}
    BY DEF ExitedStatus, ExitCode
  <1>2. conflict => s.reply.phase # "idle"
    BY DEF MayExit
  <1> QED BY <1>1, <1>2, FinishTyped DEF ExitRows, ExitSession

Noting(d) == [pc |-> "recording", prompt |-> d, child |-> NoChild, verdict |-> "none"]

LEMMA OpTyped ==
  /\ NoOp \in Operation /\ NoOp.pc = "idle"
  /\ \A d \in Prompt : Noting(d) \in Operation /\ Noting(d).prompt = d
  BY DEF NoOp, Noting, Operation, OpPc, NoPrompt, Child

LEMMA RecordedTyped ==
  ASSUME NEW s \in SessionDetail, NEW d \in Prompt,
         NEW verdict \in {"none", "not_sent", "outcome_unknown"}
  PROVE  /\ Recorded(s, d, verdict) \in SessionDetail
         /\ AfterRecording(s, d, verdict) \in {NoOp, Noting(d)}
  <1>1. AfterRecording(s, d, verdict) \in {NoOp, Noting(d)}
    BY DEF AfterRecording, Noting
  <1>2. CASE verdict = "none" \/ (verdict = "not_sent" /\ s.recovery # NoRecovery)
    BY <1>1, <1>2 DEF Recorded
  <1>3. CASE ~ (verdict = "none" \/ (verdict = "not_sent" /\ s.recovery # NoRecovery))
    <2>1. Reply(verdict, d, TRUE, FALSE) \in PromptRecovery
      BY <1>3 DEF PromptRecovery, Reply
    <2>2. Recorded(s, d, verdict) = [s EXCEPT !.recovery = Reply(verdict, d, TRUE, FALSE)]
      BY <1>3 DEF Recorded
    <2> QED BY <1>1, <2>1, <2>2 DEF SessionDetail
  <1> QED BY <1>2, <1>3

-----------------------------------------------------------------------------
(* Type correctness.                                                       *)

LEMMA InitTyped == Init => TypeOK
  <1> SUFFICES ASSUME Init PROVE TypeOK
    OBVIOUS
  <1>1. Detached \in SessionDetail /\ Attached \in SessionDetail
    BY DEF Detached, Attached, SessionDetail, ReplyState, PromptRecovery, NoRecovery
  <1>2. session \in SessionDetail /\ disk \in SessionDetail
    BY <1>1 DEF Init
  <1>3. current \in Child \cup {NoChild} /\ alive \subseteq Child
    BY DEF Init, Child
  <1>4. EmptyReply \in ReplyState
    BY DEF ReplyState
  <1> QED
    BY <1>2, <1>3, <1>4, OpTyped DEF Init, TypeOK, NoRows, Rows, Phase, NoStop, NoResolution,
       Stopping, Resolution, TurnState, Child

LEMMA FailTyped ==
  ASSUME TypeOK, op.pc # "idle", NEW cur \in Child \cup {NoChild}, Fail(cur)
  PROVE  TypeOK'
  <1>1. op.prompt \in Prompt
    BY DEF TypeOK
  <1>2. FailedVerdict(rows, op.prompt) \in {"none", "not_sent", "outcome_unknown"}
    BY DEF FailedVerdict
  <1>3. rows' \in Rows
    BY <1>1, RowsTyped DEF Fail, TypeOK
  <1>4. session' \in SessionDetail
    BY <1>1, <1>2, RecordedTyped DEF Fail, TypeOK
  <1>5. op' \in {NoOp, Noting(op.prompt)}
    BY <1>1, <1>2, RecordedTyped DEF Fail, TypeOK
  <1>6. op' \in Operation /\ (op'.pc # "idle" => op'.prompt \in Prompt)
    BY <1>1, <1>5, OpTyped
  <1> QED
    BY <1>3, <1>4, <1>6 DEF Fail, TypeOK

LEMMA PcTyped ==
  ASSUME NEW o \in Operation, NEW pc \in OpPc
  PROVE  /\ [o EXCEPT !.pc = pc] \in Operation
         /\ [o EXCEPT !.pc = pc].prompt = o.prompt
         /\ [o EXCEPT !.pc = pc].child = o.child
         /\ [o EXCEPT !.pc = pc].pc = pc
  BY DEF Operation

LEMMA SyncTyped ==
  ASSUME TypeOK, Sync
  PROVE  TypeOK'
  <1>1. ASSUME NEW completed \in BOOLEAN
        PROVE  Resolving(completed) \in Resolution
    BY DEF Resolving, TypeOK, Resolution
  <1>2. ASSUME NEW s, NEW completed \in BOOLEAN, Reconciled(s, completed)
        PROVE  resolution' \in Resolution
    BY <1>1, <1>2 DEF Reconciled, TypeOK
  <1>3. EmptyReply \in ReplyState
    BY DEF ReplyState
  <1>4. ASSUME SyncUnchanged PROVE TypeOK'
    BY <1>2, <1>4 DEF SyncUnchanged, TypeOK
  <1>5. ASSUME NEW v \in Snapshot, SyncRecovery(v) PROVE TypeOK'
    <2>1. NoRecovery \in PromptRecovery
      BY DEF PromptRecovery
    <2>2. session.recovery.phase # "none" /\ session.recovery \in PromptRecovery
      BY <1>5, SessionFields DEF SyncRecovery, Recovering, TypeOK
    <2>3. Reply("outcome_unknown", session.recovery.prompt, session.recovery.linked,
                session.recovery.observed) \in PromptRecovery
      BY <2>2 DEF PromptRecovery, NoRecovery, Reply
    <2>4. RecoveredSession(v) \in SessionDetail
      BY <1>3, <2>1, <2>3 DEF RecoveredSession, SessionDetail, TypeOK
    <2>5. resolution' \in Resolution
      BY <1>2, <1>5 DEF SyncRecovery
    <2> QED
      BY <1>5, <2>4, <2>5 DEF SyncRecovery, TypeOK
  <1>6. ASSUME NEW v \in Snapshot, SyncBusy(v) PROVE TypeOK'
    <2>1. PICK d \in Prompt :
            session' = [session EXCEPT !.reply = Reply("waiting", d, FALSE, FALSE)]
      BY <1>6 DEF SyncBusy
    <2>2. Reply("waiting", d, FALSE, FALSE) \in ReplyState
      BY DEF Reply, ReplyState
    <2>3. session' \in SessionDetail
      BY <2>1, <2>2 DEF SessionDetail, TypeOK
    <2>4. resolution' \in Resolution
      BY <1>2, <1>6 DEF SyncBusy
    <2> QED
      BY <1>6, <2>3, <2>4 DEF SyncBusy, TypeOK
  <1>7. ASSUME NEW v \in Snapshot, SyncWaiting(v) PROVE TypeOK'
    <2>1. session.reply.phase # "idle" /\ session.reply \in ReplyState
      BY <1>7, SessionFields DEF SyncWaiting, OwnedTurn, TypeOK
    <2>2. [session.reply EXCEPT !.phase = "waiting", !.observed = TRUE] \in ReplyState
      <3>1. session.reply \in [phase : {"sending", "waiting"}, prompt : Prompt,
                               linked : BOOLEAN, observed : BOOLEAN]
        BY <2>1 DEF ReplyState, EmptyReply, Reply
      <3>2. [session.reply EXCEPT !.phase = "waiting", !.observed = TRUE]
              \in [phase : {"sending", "waiting"}, prompt : Prompt,
                   linked : BOOLEAN, observed : BOOLEAN]
        BY <3>1
      <3> QED BY <3>2 DEF ReplyState
    <2>3. session' = [session EXCEPT !.reply =
                        [session.reply EXCEPT !.phase = "waiting", !.observed = TRUE]]
      BY <1>7 DEF SyncWaiting, TypeOK, SessionDetail
    <2>4. session' \in SessionDetail
      BY <2>2, <2>3 DEF SessionDetail, TypeOK
    <2>5. resolution' \in Resolution
      BY <1>2, <1>7 DEF SyncWaiting
    <2> QED
      BY <1>7, <2>4, <2>5 DEF SyncWaiting, TypeOK
  <1>8. ASSUME NEW v \in Snapshot, SyncCompleted(v) PROVE TypeOK'
    <2> DEFINE s == [session EXCEPT !.reply = EmptyReply, !.recovery = NoRecovery]
    <2>1. s \in SessionDetail
      BY <1>3 DEF SessionDetail, TypeOK, PromptRecovery
    <2>2. /\ FinishedRows(s, rows, "done", "zero", FALSE) \in Rows
          /\ FinishedSession(s, rows, "done", "zero", FALSE) \in SessionDetail
      BY <2>1, FinishTyped DEF TypeOK, ExitCode
    <2>3. resolution' \in Resolution
      BY <1>2, <1>8 DEF SyncCompleted
    <2> QED
      BY <1>8, <2>2, <2>3 DEF SyncCompleted, TypeOK
  <1> QED
    BY <1>4, <1>5, <1>6, <1>7, <1>8 DEF Sync

LEMMA PromptStepTyped ==
  ASSUME TypeOK, PromptStep
  PROVE  TypeOK'
  <1>1. ASSUME op.pc # "idle" PROVE op.prompt \in Prompt /\ op.child \in Child \cup {NoChild}
    BY <1>1 DEF TypeOK, Operation
  <1>2. NoChild \in Child \cup {NoChild}
    OBVIOUS
  <1>3. ASSUME PreflightPasses PROVE TypeOK'
    <2>1. op.pc # "idle" /\ op' \in Operation /\ op'.prompt = op.prompt
      <3>1. PICK pc \in OpPc : op' = [op EXCEPT !.pc = pc]
        BY <1>3 DEF PreflightPasses, OpPc
      <3> QED BY <1>3, <3>1, PcTyped DEF PreflightPasses, TypeOK
    <2> QED BY <1>1, <1>3, <2>1 DEF PreflightPasses, TypeOK
  <1>4. ASSUME PreflightFails PROVE TypeOK'
    BY <1>4, FailTyped DEF PreflightFails, TypeOK
  <1>5. ASSUME KillDone PROVE TypeOK'
    <2>1. op.pc # "idle" /\ op' \in Operation /\ op'.prompt = op.prompt
      BY <1>5, PcTyped DEF KillDone, TypeOK, OpPc
    <2> QED BY <1>1, <1>5, <2>1 DEF KillDone, TypeOK
  <1>6. ASSUME KillFails PROVE TypeOK'
    <2> DEFINE cur == IF op.child \in alive /\ current = NoChild THEN op.child ELSE current
    <2>1. op.pc # "idle" /\ Fail(cur)
      BY <1>6 DEF KillFails
    <2>2. cur \in Child \cup {NoChild}
      BY <1>1, <2>1 DEF TypeOK
    <2> HIDE DEF cur
    <2> QED BY <2>1, <2>2, FailTyped
  <1>7. ASSUME Dispatch PROVE TypeOK'
    <2>1. op.pc = "ready" /\ op.prompt \in Prompt
      BY <1>1, <1>7 DEF Dispatch
    <2>2. rows' \in Rows
      BY <1>7, <2>1, RowsTyped DEF Dispatch, TypeOK
    <2>3. PICK pc \in {"spawnFailed", "startup"}, cur \in {NoChild, op.prompt},
               procs \in {{}, {op.prompt}} :
            /\ op' = [op EXCEPT !.pc = pc, !.child = cur]
            /\ current' = IF cur = NoChild THEN current ELSE cur
            /\ alive' = alive \cup procs
      BY <1>7 DEF Dispatch
    <2>4. op' \in Operation /\ op'.prompt = op.prompt
      BY <2>1, <2>3 DEF TypeOK, Operation, OpPc, Child
    <2>5. current' \in Child \cup {NoChild} /\ alive' \subseteq Child
      BY <2>1, <2>3 DEF TypeOK, Child
    <2> QED BY <1>7, <2>1, <2>2, <2>4, <2>5 DEF Dispatch, TypeOK
  <1>8. ASSUME StartupReady PROVE TypeOK'
    <2>1. op.pc = "startup" /\ op.prompt \in Prompt
      BY <1>1, <1>8 DEF StartupReady
    <2>2. rows' \in Rows
      BY <1>8, <2>1, RowsTyped DEF StartupReady, TypeOK
    <2>3. /\ Reply("sending", op.prompt, TRUE, FALSE) \in ReplyState
          /\ NoRecovery \in PromptRecovery
          /\ Reply("outcome_unknown", op.prompt, TRUE, FALSE) \in PromptRecovery
      BY <2>1 DEF Reply, ReplyState, PromptRecovery
    <2>4. session' \in SessionDetail
      BY <1>8, <2>1, <2>3 DEF StartupReady, TypeOK, SessionDetail
    <2>5. op' \in Operation /\ op'.prompt = op.prompt
      BY <1>8, PcTyped DEF StartupReady, TypeOK, OpPc
    <2> QED BY <1>8, <2>1, <2>2, <2>4, <2>5 DEF StartupReady, TypeOK
  <1>9. ASSUME StartupFails PROVE TypeOK'
    <2>1. op.pc = "spawnFailed" /\ op.prompt \in Prompt
      BY <1>1, <1>9 DEF StartupFails
    <2>2. rows' \in Rows
      BY <1>9, <2>1, RowsTyped DEF StartupFails, TypeOK
    <2>3. op' \in Operation /\ op'.prompt = op.prompt
      <3>1. FailedVerdict(rows, op.prompt) \in {"none", "not_sent", "outcome_unknown"}
        BY DEF FailedVerdict
      <3>2. PICK verdict \in {"none", "not_sent", "outcome_unknown"} :
              op' = [op EXCEPT !.pc = "disposing", !.verdict = verdict]
        BY <1>9, <3>1 DEF StartupFails
      <3> QED BY <3>2 DEF TypeOK, Operation, OpPc
    <2> QED BY <1>9, <2>1, <2>2, <2>3 DEF StartupFails, TypeOK
  <1>10. ASSUME Dispose PROVE TypeOK'
    <2> DEFINE settled == IF Adapter = "codex"
                 THEN [session EXCEPT !.status = "read_only", !.finished = TRUE,
                                      !.reply = EmptyReply, !.recovery = NoRecovery]
                 ELSE session
    <2>1. op.pc = "disposing" /\ op.prompt \in Prompt
      BY <1>1, <1>10 DEF Dispose
    <2>2. op.verdict \in {"none", "not_sent", "outcome_unknown"}
      BY DEF TypeOK, Operation
    <2>3. settled \in SessionDetail
      BY DEF TypeOK, SessionDetail, ReplyState, PromptRecovery
    <2>4. /\ session' = Recorded(settled, op.prompt, op.verdict)
          /\ op' = AfterRecording(settled, op.prompt, op.verdict)
          /\ UNCHANGED <<rows, disk, alive, turn, stop, resolution, daemon>>
          /\ current' \in {current, NoChild}
      BY <1>10 DEF Dispose
    <2> HIDE DEF settled
    <2>5. /\ session' \in SessionDetail
          /\ op' \in {NoOp, Noting(op.prompt)}
      BY <2>1, <2>2, <2>3, <2>4, RecordedTyped
    <2>6. op' \in Operation /\ (op'.pc # "idle" => op'.prompt \in Prompt)
      BY <2>1, <2>5, OpTyped
    <2> QED BY <2>4, <2>5, <2>6 DEF TypeOK
  <1>11. ASSUME RecordingDone PROVE TypeOK'
    BY <1>11, OpTyped DEF RecordingDone, TypeOK
  <1>12. ASSUME NEW saved \in BOOLEAN, op.pc # "idle", Started(saved) PROVE TypeOK'
    <2> DEFINE d == op.prompt
               exits == d \notin alive
    <2>1. PICK code \in ExitCode, conflict \in BOOLEAN :
            LET rs == IF exits THEN ExitRows(session, rows, d, code, conflict) ELSE rows
                s  == IF exits THEN ExitSession(session, rows, d, code, conflict) ELSE session
                verdict == IF saved THEN "none" ELSE FailedVerdict(rs, d)
            IN
            /\ exits => MayExit(session, d, code, conflict)
            /\ rows' = IF saved THEN rs ELSE FailedRows(rs, d)
            /\ session' = Recorded(s, d, verdict)
            /\ op' = AfterRecording(s, d, verdict)
            /\ current' = IF exits THEN ExitCurrent(d) ELSE current
            /\ UNCHANGED <<disk, alive, turn, stop, resolution, daemon>>
      BY <1>12 DEF Started
    <2> DEFINE rs == IF exits THEN ExitRows(session, rows, d, code, conflict) ELSE rows
               s  == IF exits THEN ExitSession(session, rows, d, code, conflict) ELSE session
               verdict == IF saved THEN "none" ELSE FailedVerdict(rs, d)
    <2>2. d \in Prompt
      BY <1>1, <1>12
    <2>3. rs \in Rows /\ s \in SessionDetail
      BY <2>1, ExitTyped DEF TypeOK
    <2>4. verdict \in {"none", "not_sent", "outcome_unknown"}
      BY DEF FailedVerdict
    <2>5. current' \in Child \cup {NoChild}
      BY <2>1 DEF ExitCurrent, TypeOK
    <2>6. /\ rows' = IF saved THEN rs ELSE FailedRows(rs, d)
          /\ session' = Recorded(s, d, verdict)
          /\ op' = AfterRecording(s, d, verdict)
          /\ UNCHANGED <<disk, alive, turn, stop, resolution, daemon>>
      BY <2>1
    <2> HIDE DEF d, exits, rs, s, verdict
    <2>7. rows' \in Rows
      BY <2>2, <2>3, <2>6, RowsTyped
    <2>8. session' \in SessionDetail /\ op' \in {NoOp, Noting(d)}
      BY <2>2, <2>3, <2>4, <2>6, RecordedTyped
    <2>9. op' \in Operation /\ (op'.pc # "idle" => op'.prompt \in Prompt)
      BY <2>2, <2>8, OpTyped
    <2> QED BY <2>5, <2>6, <2>7, <2>8, <2>9 DEF TypeOK
  <1>13. ASSUME StartPersisted PROVE TypeOK'
    BY <1>12, <1>13 DEF StartPersisted
  <1>14. ASSUME StartPersistFails PROVE TypeOK'
    BY <1>12, <1>14 DEF StartPersistFails
  <1> QED
    BY <1>3, <1>4, <1>5, <1>6, <1>7, <1>8, <1>9, <1>10, <1>11, <1>13, <1>14 DEF PromptStep

LEMMA HaltTyped ==
  ASSUME TypeOK, NEW saved \in SessionDetail, Halt(saved), rows' \in Rows
  PROVE  TypeOK'
  <1>1. NoStop \in Stopping /\ NoResolution \in Resolution
    BY DEF NoStop, Stopping, NoResolution, Resolution, ReplyState, Child
  <1> QED BY <1>1, OpTyped DEF Halt, TypeOK

LEMMA StepTyped ==
  ASSUME TypeOK, [Next]_vars
  PROVE  TypeOK'
  <1>1. EmptyReply \in ReplyState /\ NoRecovery \in PromptRecovery
    BY DEF ReplyState, PromptRecovery
  <1>2. NoStop \in Stopping /\ NoResolution \in Resolution
    BY <1>1 DEF NoStop, Stopping, NoResolution, Resolution, Child
  <1>3. ASSUME SendPrompt PROVE TypeOK'
    <2>1. PICK d \in Prompt :
            /\ rows' = Prepare(rows, d)
            /\ op' = [pc |-> IF TransportAccepts THEN "preflight" ELSE "refused",
                      prompt |-> d, child |-> current, verdict |-> "none"]
            /\ UNCHANGED <<session, disk, current, alive, turn, stop, resolution, daemon>>
      BY <1>3 DEF SendPrompt
    <2>2. rows' \in Rows
      BY <2>1, RowsTyped DEF TypeOK
    <2>3. op' \in Operation /\ op'.prompt \in Prompt
      BY <2>1 DEF TypeOK, Operation, OpPc
    <2> QED BY <2>1, <2>2, <2>3 DEF TypeOK
  <1>4. ASSUME NEW c \in Child, NEW code \in ExitCode, NEW conflict \in BOOLEAN,
               ProcessExits(c, code, conflict)
        PROVE  TypeOK'
    <2>1. rows' \in Rows /\ session' \in SessionDetail
      BY <1>4, ExitTyped DEF ProcessExits, TypeOK
    <2>2. current' \in Child \cup {NoChild} /\ alive' \subseteq Child
      BY <1>4 DEF ProcessExits, ExitCurrent, TypeOK
    <2> QED BY <1>4, <2>1, <2>2 DEF ProcessExits, TypeOK
  <1>5. ASSUME NEW d \in Prompt, RuntimeTakesPrompt(d) PROVE TypeOK'
    BY <1>5 DEF RuntimeTakesPrompt, TypeOK, TurnState
  <1>6. ASSUME NEW d \in Prompt, TurnEnds(d) PROVE TypeOK'
    BY <1>6 DEF TurnEnds, TypeOK, TurnState, Terminal
  <1>7. ASSUME RequestStop PROVE TypeOK'
    <2>1. session' \in SessionDetail
      BY <1>1, <1>7 DEF RequestStop, TypeOK, SessionDetail
    <2>2. stop' \in Stopping
      BY <1>7, SessionFields DEF RequestStop, TypeOK, Stopping, SessionDetail
    <2> QED BY <1>7, <2>1, <2>2 DEF RequestStop, TypeOK
  <1>8. ASSUME StopDetached PROVE TypeOK'
    <2>1. session' \in SessionDetail
      BY <1>1, <1>8 DEF StopDetached, TypeOK, SessionDetail
    <2> QED BY <1>8, <2>1 DEF StopDetached, TypeOK
  <1>9. ASSUME StopDone PROVE TypeOK'
    BY <1>2, <1>9 DEF StopDone, TypeOK
  <1>10. ASSUME StopFails PROVE TypeOK'
    <2>1. session' \in SessionDetail
      BY <1>10 DEF StopFails, TypeOK, SessionDetail, Stopping
    <2> QED BY <1>2, <1>10, <2>1 DEF StopFails, TypeOK
  <1>11. ASSUME Resolve PROVE TypeOK'
    <2>1. 1 \in Prompt
      BY MaxPromptsAssumption DEF Prompt
    <2>2. rows' \in Rows
      BY <1>11, <2>1, RowsTyped DEF Resolve, TypeOK
    <2> QED BY <1>2, <1>11, <2>2 DEF Resolve, TypeOK
  <1>12. ASSUME ResolvePersistFails PROVE TypeOK'
    BY <1>12 DEF ResolvePersistFails, TypeOK, Resolution
  <1>13. ASSUME GiveUpChecking PROVE TypeOK'
    <2>1. session.recovery \in PromptRecovery /\ session.recovery.phase = "checking"
      BY <1>13, SessionFields DEF GiveUpChecking, TypeOK
    <2>2. [session.recovery EXCEPT !.phase = "outcome_unknown"] \in PromptRecovery
      BY <2>1 DEF PromptRecovery, NoRecovery, Reply
    <2>3. session' \in SessionDetail
      BY <1>1, <1>13, <2>2 DEF GiveUpChecking, TypeOK, SessionDetail
    <2> QED BY <1>13, <2>3 DEF GiveUpChecking, TypeOK
  <1>14. ASSUME Persist PROVE TypeOK'
    <2>1. op' \in Operation /\ op'.prompt = op.prompt /\ (op'.pc # "idle" => op.pc # "idle")
      BY <1>14, PcTyped DEF Persist, TypeOK, OpPc
    <2>2. resolution' \in Resolution
      BY <1>14 DEF Persist, TypeOK, Resolution
    <2> QED BY <1>14, <2>1, <2>2 DEF Persist, TypeOK
  <1>15. ASSUME BeginShutdown PROVE TypeOK'
    <2>1. 1 \in Prompt
      BY MaxPromptsAssumption DEF Prompt
    <2> QED BY <1>15, <2>1, RowsTyped DEF BeginShutdown, TypeOK
  <1>16. ASSUME CloseRunner PROVE TypeOK'
    BY <1>16 DEF CloseRunner, TypeOK
  <1>17. ASSUME Close PROVE TypeOK'
    <2> DEFINE survives == current # NoChild /\ session.status = "running"
               detached == [session EXCEPT !.status = "read_only", !.finished = TRUE,
                                           !.reply = EmptyReply]
               saved == IF survives THEN detached ELSE session
    <2>1. 1 \in Prompt
      BY MaxPromptsAssumption DEF Prompt
    <2>2. rows' \in Rows
      BY <1>17, <2>1, RowsTyped DEF Close, TypeOK
    <2>3. saved \in SessionDetail
      BY <1>1 DEF TypeOK, SessionDetail
    <2>4. Halt(saved)
      BY <1>17 DEF Close
    <2> HIDE DEF saved
    <2> QED BY <2>2, <2>3, <2>4, HaltTyped
  <1>18. ASSUME Crash PROVE TypeOK'
    BY <1>18, HaltTyped DEF Crash, TypeOK
  <1>19. ASSUME Restart PROVE TypeOK'
    <2> DEFINE s == Hydrated(disk)
    <2>1. s \in SessionDetail
      <3>1. disk.reply \in ReplyState
        BY SessionFields DEF TypeOK
      <3> QED BY <1>1, <3>1 DEF Hydrated, TypeOK, SessionDetail
    <2>2. ASSUME NEW d \in Prompt
          PROVE  Reply(RestartPhase(s, d), d, TRUE, ObservedOnDisk(s, d)) \in PromptRecovery
      <3>1. RestartPhase(s, d) \in {"not_sent", "checking", "outcome_unknown"}
        BY DEF RestartPhase
      <3>2. ObservedOnDisk(s, d) \in BOOLEAN
        <4>1. s.reply \in ReplyState /\ s.reply.linked \in BOOLEAN /\ s.reply.observed \in BOOLEAN
          BY <2>1, SessionFields
        <4>2. s.recovery.linked \in BOOLEAN /\ s.recovery.observed \in BOOLEAN
          <5>1. s.recovery \in PromptRecovery
            BY <2>1, SessionFields
          <5>2. CASE s.recovery = NoRecovery
            BY <5>2 DEF NoRecovery, Reply
          <5>3. CASE s.recovery # NoRecovery
            <6>1. s.recovery \in [phase : {"not_sent", "checking", "outcome_unknown"},
                                  prompt : Prompt, linked : BOOLEAN, observed : BOOLEAN]
              BY <5>1, <5>3 DEF PromptRecovery
            <6> QED BY <6>1
          <5> QED BY <5>2, <5>3
        <4> QED BY <4>1, <4>2 DEF ObservedOnDisk, Materialized, ObservedReply
      <3> QED BY <3>1, <3>2 DEF Reply, PromptRecovery
    <2>3. \E rec \in PromptRecovery : session' = [s EXCEPT !.reply = EmptyReply, !.recovery = rec]
      BY <1>1, <1>19, <2>2 DEF Restart
    <2> HIDE DEF s
    <2>4. session' \in SessionDetail
      BY <1>1, <2>1, <2>3 DEF SessionDetail
    <2>5. rows' \in Rows
      <3>1. 1 \in Prompt
        BY MaxPromptsAssumption DEF Prompt
      <3> QED BY <1>19, <3>1, RowsTyped DEF Restart, TypeOK
    <2> QED BY <1>19, <2>4, <2>5 DEF Restart, TypeOK
  <1>20. ASSUME RestartDone PROVE TypeOK'
    BY <1>20 DEF RestartDone, TypeOK
  <1>21. ASSUME UNCHANGED vars PROVE TypeOK'
    BY <1>21 DEF vars, TypeOK
  <1> QED
    BY PromptStepTyped, SyncTyped, <1>3, <1>4, <1>5, <1>6, <1>7, <1>8, <1>9, <1>10, <1>11, <1>12,
       <1>13, <1>14, <1>15, <1>16, <1>17, <1>18, <1>19, <1>20, <1>21 DEF Next

(* Every variable has its type: in particular a recovery always names a    *)
(* prompt, and an operation in flight always knows its own.                *)
THEOREM TypeCorrect == Spec => []TypeOK
  <1>1. Init => TypeOK
    BY InitTyped
  <1>2. TypeOK /\ [Next]_vars => TypeOK'
    BY StepTyped
  <1> QED BY <1>1, <1>2, PTL DEF Spec

-----------------------------------------------------------------------------
(* SafetyInv is inductive: whatever fails, and however many prompts there  *)
(* are, a row that says its prompt was not sent tells the truth.           *)

(* What statements on the journal have in common.  rs are the rows before, *)
(* rt the rows after.                                                      *)

Unstarted == {"absent", "prepared", "not_sent"}

Fades(rs, rt) ==                \* no row appears, and none is reopened
  \A e \in Prompt : /\ rt[e] = "absent" <=> rs[e] = "absent"
                    /\ rt[e] = "prepared" => rs[e] = "prepared"
                    /\ rt[e] \in Unsettled => rs[e] \in Unsettled
                    /\ rs[e] \in Settled => rt[e] \in Settled

Honest(rs, rt) ==               \* no row newly says that it was not started
  \A e \in Prompt : rt[e] \in Unstarted => rs[e] \in Unstarted

Holds(rs, rt, c) ==             \* the row of c stays what a refusal looks for
  /\ rs[c] \in Unsettled => rt[c] \in Unsettled
  /\ rt[c] = "outcome_unknown" => rs[c] = "outcome_unknown"

LEMMA ByIdEffect ==
  ASSUME NEW rs \in Rows, NEW d \in Prompt
  PROVE  /\ LET rt == MarkDispatching(rs, d) IN
              Fades(rs, rt) /\ Honest(rs, rt) /\ \A c \in Prompt : Holds(rs, rt, c)
         /\ LET rt == MarkAccepted(rs, d) IN
              Fades(rs, rt) /\ Honest(rs, rt) /\ \A c \in Prompt : Holds(rs, rt, c)
         /\ LET rt == FailedRows(rs, d) IN
              /\ Fades(rs, rt) /\ Honest(rs, rt)
              /\ \A c \in Prompt \ {d} : rt[c] = rs[c]
         /\ LET rt == FailedRows(MarkNotSentAfterSynchronousSpawnFailure(rs, d), d) IN
              /\ Fades(rs, rt)
              /\ \A c \in Prompt \ {d} : rt[c] = rs[c]
  <1> USE DEF ById, Rows, InFlight, Unsettled, Recoverable, Settled
  <1>1. LET rt == MarkDispatching(rs, d) IN
          Fades(rs, rt) /\ Honest(rs, rt) /\ \A c \in Prompt : Holds(rs, rt, c)
    BY DEF MarkDispatching, Fades, Honest, Holds, Unstarted
  <1>2. LET rt == MarkAccepted(rs, d) IN
          Fades(rs, rt) /\ Honest(rs, rt) /\ \A c \in Prompt : Holds(rs, rt, c)
    BY DEF MarkAccepted, Fades, Honest, Holds, Unstarted
  <1>3. ASSUME NEW rr \in Rows
        PROVE  LET rt == FailedRows(rr, d) IN
                 /\ Fades(rr, rt) /\ Honest(rr, rt)
                 /\ \A c \in Prompt \ {d} : rt[c] = rr[c]
    BY DEF FailedRows, MarkNotSent, MarkOutcomeUnknown, Fades, Honest, Unstarted
  <1>4. LET rt == MarkNotSentAfterSynchronousSpawnFailure(rs, d) IN
          Fades(rs, rt) /\ \A c \in Prompt \ {d} : rt[c] = rs[c]
    BY DEF MarkNotSentAfterSynchronousSpawnFailure, Fades
  <1>5. MarkNotSentAfterSynchronousSpawnFailure(rs, d) \in Rows
    BY RowsTyped
  <1> QED BY <1>1, <1>2, <1>3, <1>4, <1>5 DEF Fades

LEMMA BySessionEffect ==
  ASSUME NEW rs \in Rows
  PROVE  /\ LET rt == MarkOutcomeUnknownBySession(rs) IN Fades(rs, rt) /\ Honest(rs, rt)
         /\ LET rt == MarkObservedBySession(rs) IN
              /\ Fades(rs, rt) /\ Honest(rs, rt)
              /\ \A c \in Prompt : rs[c] # "outcome_unknown" => Holds(rs, rt, c)
         /\ LET rt == MarkCompleted(rs) IN
              Fades(rs, rt) /\ Honest(rs, rt) /\ \A c \in Prompt : rt[c] \notin Unsettled
         /\ LET rt == MarkInterrupted(rs) IN
              Fades(rs, rt) /\ Honest(rs, rt) /\ \A c \in Prompt : rt[c] \notin Unsettled
         /\ LET rt == MarkActiveOutcomeUnknownForShutdown(rs) IN Fades(rs, rt) /\ Honest(rs, rt)
         /\ LET rt == RecoverActiveAfterRestart(rs) IN Fades(rs, rt) /\ Honest(rs, rt)
         /\ LET rt == MarkNotSentAfterActiveWriterConflict(rs) IN
              /\ Fades(rs, rt)
              /\ \A e \in Prompt :
                   rt[e] \in Unstarted /\ rs[e] \notin Unstarted => IsLatest(rs, e, Unsettled)
  <1> USE DEF Sweep, LatestBySession, Rows, InFlight, Unsettled, Recoverable, Settled, Unstarted
  <1>1. LET rt == MarkOutcomeUnknownBySession(rs) IN Fades(rs, rt) /\ Honest(rs, rt)
    BY DEF MarkOutcomeUnknownBySession, IsLatest, Fades, Honest
  <1>2. LET rt == MarkObservedBySession(rs) IN
          /\ Fades(rs, rt) /\ Honest(rs, rt)
          /\ \A c \in Prompt : rs[c] # "outcome_unknown" => Holds(rs, rt, c)
    BY DEF MarkObservedBySession, Fades, Honest, Holds
  <1>3. LET rt == MarkCompleted(rs) IN
          Fades(rs, rt) /\ Honest(rs, rt) /\ \A c \in Prompt : rt[c] \notin Unsettled
    BY DEF MarkCompleted, Fades, Honest
  <1>4. LET rt == MarkInterrupted(rs) IN
          Fades(rs, rt) /\ Honest(rs, rt) /\ \A c \in Prompt : rt[c] \notin Unsettled
    BY DEF MarkInterrupted, Fades, Honest
  <1>5. LET rt == MarkActiveOutcomeUnknownForShutdown(rs) IN Fades(rs, rt) /\ Honest(rs, rt)
    BY DEF MarkActiveOutcomeUnknownForShutdown, Fades, Honest
  <1>6. LET rt == RecoverActiveAfterRestart(rs) IN Fades(rs, rt) /\ Honest(rs, rt)
    BY DEF RecoverActiveAfterRestart, Fades, Honest
  <1>7. LET rt == MarkNotSentAfterActiveWriterConflict(rs) IN
          /\ Fades(rs, rt)
          /\ \A e \in Prompt :
               rt[e] \in Unstarted /\ rs[e] \notin Unstarted => IsLatest(rs, e, Unsettled)
    BY DEF MarkNotSentAfterActiveWriterConflict, IsLatest, Fades
  <1> QED BY <1>1, <1>2, <1>3, <1>4, <1>5, <1>6, <1>7

-----------------------------------------------------------------------------
(* A step that leaves the rows, the processes and the operation alone.     *)
LEMMA Quiet ==
  ASSUME SafetyInv, UNCHANGED <<rows, current, alive, turn, op, daemon>>,
         \A c \in Prompt : session.recovery = Reply("outcome_unknown", c, TRUE, FALSE)
                             => session'.recovery = session.recovery
  PROVE  SafetyInv'
  <1>1. RecoveryIsSound' /\ OpInv' /\ DownInv' /\ TrackedInv'
    BY DEF SafetyInv, RecoveryIsSound, OpInv, DownInv, TrackedInv, Tracked, Pending, Untaken
  <1>2. RefusedInv'
    BY DEF SafetyInv, RefusedInv, Tracked, Pending, Refusable, Starting
  <1> QED BY <1>1, <1>2 DEF SafetyInv

(* A step that ends the operation or leaves it as it is, and starts no     *)
(* process.                                                                *)
LEMMA Settling ==
  ASSUME SafetyInv, Fades(rows, rows'), alive' \subseteq alive, turn' = turn,
         current' \in {current, NoChild} \cup (IF Pending THEN {op.child} ELSE {}),
         \/ op' = op /\ current' \in {current, NoChild}
         \/ op'.pc = "idle"
         \/ op'.pc = "recording" /\ op'.prompt = op.prompt /\ op.pc # "idle"
  PROVE  OpInv' /\ TrackedInv'
  <1>1. OpInv'
    BY DEF SafetyInv, OpInv, Fades, Pending, Untaken
  <1>2. Tracked' \subseteq Tracked
    BY DEF Tracked, Pending
  <1>3. TrackedInv'
    BY <1>2 DEF SafetyInv, TrackedInv, Untaken
  <1> QED BY <1>1, <1>3

(* The exit of a child, c: LIMIT 1 of the active-writer conflict finds the *)
(* row of a prompt that no runtime has.                                    *)
LEMMA ExitSound ==
  ASSUME TypeOK, SafetyInv,
         NEW c, NEW code \in ExitCode, NEW conflict \in BOOLEAN,
         MayExit(session, c, code, conflict),
         c \in alive \/ Starting(c), alive' \subseteq alive, c \notin alive'
  PROVE  LET rt == ExitRows(session, rows, c, code, conflict) IN
           /\ rt \in Rows
           /\ Fades(rows, rt)
           /\ \A e \in Prompt : rt[e] \in Unstarted => e \notin alive' /\ turn[e] = "absent"
  <1> DEFINE rt == ExitRows(session, rows, c, code, conflict)
             status == ExitedStatus(session, code)
  <1>1. rt \in Rows
    BY ExitTyped DEF TypeOK
  <1>2. \A e \in Prompt : rows[e] \in Unstarted => e \notin alive' /\ turn[e] = "absent"
    BY DEF SafetyInv, RecoveryIsSound, Unstarted, Untaken
  <1>3. CASE ~ ExitIsNews(session, c)
    BY <1>1, <1>2, <1>3 DEF ExitRows, Fades
  <1>4. CASE ExitIsNews(session, c) /\ ~ (daemon = "up" /\ conflict)
    <2>1. rt \in {MarkOutcomeUnknownBySession(rows), MarkInterrupted(rows), MarkCompleted(rows)}
      BY <1>4 DEF ExitRows, FinishedRows
    <2>2. Fades(rows, rt) /\ Honest(rows, rt)
      BY <2>1, BySessionEffect DEF TypeOK
    <2> QED BY <1>1, <1>2, <2>2 DEF Honest
  <1>5. CASE ExitIsNews(session, c) /\ daemon = "up" /\ conflict
    <2>1. rt = MarkNotSentAfterActiveWriterConflict(rows)
      BY <1>5 DEF ExitRows, FinishedRows
    <2>2. /\ Fades(rows, rt)
          /\ \A e \in Prompt :
               rt[e] \in Unstarted /\ rows[e] \notin Unstarted => IsLatest(rows, e, Unsettled)
      BY <2>1, BySessionEffect DEF TypeOK
    <2>3. c \in Prompt /\ turn[c] = "absent" /\ c = current
      BY <1>5 DEF MayExit, ExitIsNews
    <2>4. c \in Tracked /\ Refusable(c)
      BY <2>3 DEF Tracked, Refusable
    <2>5. ASSUME NEW e \in Prompt, IsLatest(rows, e, Unsettled)
          PROVE  e \notin alive' /\ turn[e] = "absent"
      <3>1. CASE e > c
        BY <2>4, <3>1 DEF SafetyInv, TrackedInv, Untaken
      <3>2. CASE e = c
        BY <2>3, <3>2
      <3>3. CASE e < c
        <4>1. rows[e] \in Unsettled /\ rows[c] \notin Unsettled
          BY <2>3, <2>5, <3>3 DEF IsLatest, Prompt
        <4>2. rows[c] \in Unsettled \/ rows[e] \notin Unsettled
          BY <1>5, <2>4, <3>3 DEF SafetyInv, RefusedInv
        <4> QED BY <4>1, <4>2
      <3> QED BY <2>3, <3>1, <3>2, <3>3 DEF Prompt
    <2>6. \A e \in Prompt : rt[e] \in Unstarted => e \notin alive' /\ turn[e] = "absent"
      BY <1>2, <2>2, <2>5
    <2> QED BY <1>1, <2>2, <2>6
  <1> QED BY <1>3, <1>4, <1>5

LEMMA FailSafe ==
  ASSUME TypeOK, SafetyInv, Live, Pending, NEW cur \in {current, op.child}, Fail(cur)
  PROVE  SafetyInv'
  <1> DEFINE d == op.prompt
  <1>1. d \in Prompt /\ op.pc # "idle"
    BY DEF TypeOK, Pending
  <1>2. rows' = FailedRows(rows, d)
    BY DEF Fail
  <1>3. /\ Fades(rows, rows') /\ Honest(rows, rows')
        /\ \A c \in Prompt \ {d} : rows'[c] = rows[c]
    BY <1>1, <1>2, ByIdEffect DEF TypeOK
  <1>4. /\ alive' = alive /\ turn' = turn /\ daemon' = daemon /\ current' = cur
    BY DEF Fail
  <1>5. op' \in {NoOp, Noting(d)}
    BY DEF Fail, AfterRecording, Noting
  <1>6. op'.pc = "idle" \/ (op'.pc = "recording" /\ op'.prompt = d)
    BY <1>5 DEF NoOp, Noting
  <1>7. RecoveryIsSound'
    BY <1>3, <1>4 DEF SafetyInv, RecoveryIsSound, Honest, Untaken, Unstarted
  <1>8. OpInv' /\ TrackedInv'
    BY <1>1, <1>3, <1>4, <1>6, Settling
  <1>9. DownInv'
    BY <1>4 DEF DownInv, Live
  <1>10. RefusedInv'
    <2> SUFFICES ASSUME daemon' = "up", NEW c \in Tracked', Refusable(c)'
                 PROVE  /\ \/ rows'[c] \in Unsettled
                           \/ \A e \in Prompt : e < c => rows'[e] \notin Unsettled
                        /\ rows'[c] # "outcome_unknown"
      BY DEF RefusedInv
    <2>1. c \in Tracked /\ c \in Prompt
      BY <1>4, <1>6 DEF Tracked, Pending
    <2>2. c \in alive /\ turn[c] = "absent"
      BY <1>4, <1>6 DEF Refusable, Starting
    <2>3. c # d
      BY <2>2 DEF SafetyInv, OpInv, Untaken
    <2>4. /\ rows[c] \in Unsettled \/ \A e \in Prompt : e < c => rows[e] \notin Unsettled
          /\ rows[c] = "outcome_unknown" => op.pc \in {"idle", "recording"}
      BY <1>4, <2>1, <2>2 DEF SafetyInv, RefusedInv, Refusable
    <2> QED BY <1>3, <2>1, <2>3, <2>4 DEF Fades, Pending
  <1> QED BY <1>7, <1>8, <1>9, <1>10 DEF SafetyInv

LEMMA SendSafe ==
  ASSUME TypeOK, SafetyInv, SendPrompt
  PROVE  SafetyInv'
  <1>1. PICK d \in Prompt :
          /\ CanStart
          /\ IsNext(rows, d)
          /\ rows' = Prepare(rows, d)
          /\ op' = [pc |-> IF TransportAccepts THEN "preflight" ELSE "refused",
                    prompt |-> d, child |-> current, verdict |-> "none"]
          /\ UNCHANGED <<session, disk, current, alive, turn, stop, resolution, daemon>>
    BY DEF SendPrompt
  <1>2. /\ rows[d] = "absent"
        /\ rows'[d] = "prepared"
        /\ \A e \in Prompt \ {d} : rows'[e] = rows[e]
        /\ \A e \in Prompt : e > d => rows[e] = "absent"
    BY <1>1 DEF IsNext, Prepare, TypeOK, Rows, Prompt
  <1>3. Untaken(d)
    BY <1>2 DEF SafetyInv, RecoveryIsSound
  <1>4. /\ op'.prompt = d /\ op'.child = current /\ op'.pc \in {"preflight", "refused"}
    BY <1>1
  <1>5. RecoveryIsSound'
    BY <1>1, <1>2, <1>3 DEF SafetyInv, RecoveryIsSound, Untaken
  <1>6. OpInv'
    BY <1>1, <1>2, <1>3, <1>4 DEF OpInv, Pending, Untaken, Prompt
  <1>7. DownInv'
    BY <1>1 DEF DownInv, CanStart
  <1>8. Tracked' \subseteq Tracked
    BY <1>1, <1>4 DEF Tracked
  <1>9. TrackedInv'
    BY <1>1, <1>8 DEF SafetyInv, TrackedInv, Untaken
  <1>10. RefusedInv'
    <2> SUFFICES ASSUME daemon' = "up", NEW c \in Tracked', Refusable(c)'
                 PROVE  /\ \/ rows'[c] \in Unsettled
                           \/ \A e \in Prompt : e < c => rows'[e] \notin Unsettled
                        /\ rows'[c] # "outcome_unknown"
      BY DEF RefusedInv
    <2>1. c \in Tracked /\ c \in Prompt
      BY <1>8 DEF Tracked
    <2>2. c \in alive /\ turn[c] = "absent"
      BY <1>1, <1>4 DEF Refusable, Starting
    <2>3. rows[c] \notin {"absent", "prepared", "not_sent"}
      BY <2>1, <2>2 DEF SafetyInv, RecoveryIsSound, Untaken
    <2>4. c < d
      BY <1>2, <2>1, <2>3 DEF Prompt
    <2>5. rows[c] = "outcome_unknown" =>
            session.recovery = Reply("outcome_unknown", c, TRUE, FALSE)
      BY <1>1, <2>1, <2>2 DEF SafetyInv, RefusedInv, Refusable, CanStart
    <2>6. rows[c] # "outcome_unknown"
      BY <1>1, <2>5 DEF CanStart, Reply
    <2>7. rows[c] \in Unsettled \/ \A e \in Prompt : e < c => rows[e] \notin Unsettled
      BY <1>1, <2>1, <2>2 DEF SafetyInv, RefusedInv, Refusable, CanStart
    <2> QED BY <1>2, <2>1, <2>4, <2>6, <2>7 DEF Prompt
  <1> QED BY <1>5, <1>6, <1>7, <1>9, <1>10 DEF SafetyInv

LEMMA DispatchSafe ==
  ASSUME TypeOK, SafetyInv, Dispatch
  PROVE  SafetyInv'
  <1> DEFINE d == op.prompt
  <1>1. /\ d \in Prompt /\ op.pc = "ready" /\ Live /\ Untaken(d)
        /\ \A e \in Prompt : e > d => rows[e] = "absent"
    BY DEF Dispatch, TypeOK, SafetyInv, OpInv, Pending
  <1>2. rows' = MarkDispatching(rows, d) /\ turn' = turn /\ daemon' = daemon
    BY DEF Dispatch
  <1>3. Fades(rows, rows') /\ Honest(rows, rows') /\ \A c \in Prompt : Holds(rows, rows', c)
    BY <1>1, <1>2, ByIdEffect DEF TypeOK
  <1>4. \/ op'.pc = "spawnFailed" /\ current' = current /\ alive' = alive
        \/ op'.pc = "spawnFailed" /\ current' = d /\ alive' = alive
        \/ /\ op'.pc = "startup" /\ current' = d /\ alive' = alive \cup {d}
           /\ rows[d] = "prepared"
    <2>1. d # NoChild
      BY <1>1, MaxPromptsAssumption DEF NoChild, Prompt
    <2>2. \A pc, cur : [op EXCEPT !.pc = pc, !.child = cur].pc = pc
      BY DEF TypeOK, Operation
    <2>3. alive \cup {} = alive
      OBVIOUS
    <2>4. PICK pc \in {"spawnFailed", "startup"}, cur \in {NoChild, d}, procs \in {{}, {d}} :
            /\ op' = [op EXCEPT !.pc = pc, !.child = cur]
            /\ current' = IF cur = NoChild THEN current ELSE cur
            /\ alive' = alive \cup procs
            /\ \/ pc = "spawnFailed" /\ procs = {}
               \/ pc = "startup" /\ cur = d /\ procs = {d} /\ rows[d] = "prepared"
      BY DEF Dispatch
    <2>5. op'.pc = pc
      BY <2>2, <2>4
    <2> QED BY <2>1, <2>3, <2>4, <2>5
  <1>5. op'.prompt = d
    BY DEF Dispatch, TypeOK, Operation
  <1>6. rows[d] = "prepared" => rows'[d] = "dispatching"
    BY <1>1, <1>2 DEF MarkDispatching, ById
  <1>7. RecoveryIsSound'
    BY <1>1, <1>2, <1>3, <1>4, <1>6
    DEF SafetyInv, RecoveryIsSound, Honest, Unstarted, Untaken
  <1>8. OpInv'
    BY <1>1, <1>2, <1>3, <1>4, <1>5 DEF OpInv, Pending, Fades, Untaken
  <1>9. DownInv'
    BY <1>1, <1>2 DEF DownInv, Live
  <1>10. Tracked' \subseteq {current, d} \cap Prompt /\ (current \in Prompt => current \in Tracked)
    BY <1>4 DEF Tracked, Pending
  <1>11. \A e \in Prompt : e > d => Untaken(e)
    BY <1>1 DEF SafetyInv, RecoveryIsSound
  <1>12. TrackedInv'
    <2> SUFFICES ASSUME NEW c \in Tracked', NEW e \in Prompt, e > c
                 PROVE  Untaken(e)'
      BY DEF TrackedInv
    <2>1. CASE c = d
      BY <1>2, <1>4, <1>11, <2>1 DEF Untaken, Prompt
    <2>2. CASE c # d
      <3>1. c = current /\ c \in Tracked /\ alive' = alive
        BY <1>4, <1>10, <2>2 DEF Tracked, Pending
      <3> QED BY <1>2, <3>1 DEF SafetyInv, TrackedInv, Untaken
    <2> QED BY <2>1, <2>2
  <1>13. RefusedInv'
    <2> SUFFICES ASSUME daemon' = "up", NEW c \in Tracked', Refusable(c)'
                 PROVE  /\ \/ rows'[c] \in Unsettled
                           \/ \A e \in Prompt : e < c => rows'[e] \notin Unsettled
                        /\ rows'[c] # "outcome_unknown"
      BY DEF RefusedInv
    <2>1. CASE c = d
      <3>1. op'.pc = "startup" /\ rows[d] = "prepared"
        BY <1>1, <1>4, <1>5, <2>1 DEF Refusable, Starting, Untaken
      <3> QED BY <1>6, <2>1, <3>1 DEF Unsettled, Recoverable
    <2>2. CASE c # d
      <3>1. c = current /\ c \in Tracked /\ c \in alive /\ turn[c] = "absent"
        BY <1>2, <1>4, <1>5, <1>10, <2>2 DEF Tracked, Refusable, Starting, Pending
      <3>2. /\ rows[c] \in Unsettled \/ \A e \in Prompt : e < c => rows[e] \notin Unsettled
            /\ rows[c] = "outcome_unknown" => op.pc \in {"idle", "recording"}
        BY <1>2, <3>1 DEF SafetyInv, RefusedInv, Refusable
      <3> QED BY <1>1, <1>3, <1>10, <3>1, <3>2 DEF Fades, Holds
    <2> QED BY <2>1, <2>2
  <1> QED BY <1>7, <1>8, <1>9, <1>12, <1>13 DEF SafetyInv

LEMMA StartedSafe ==
  ASSUME TypeOK, SafetyInv, Live, NEW saved \in BOOLEAN,
         op.pc \in {"persisting", "persisted"}, Started(saved)
  PROVE  SafetyInv'
  <1> DEFINE d == op.prompt
             exits == d \notin alive
  <1>1. PICK code \in ExitCode, conflict \in BOOLEAN :
          LET rs == IF exits THEN ExitRows(session, rows, d, code, conflict) ELSE rows
              s  == IF exits THEN ExitSession(session, rows, d, code, conflict) ELSE session
              verdict == IF saved THEN "none" ELSE FailedVerdict(rs, d)
          IN
          /\ exits => MayExit(session, d, code, conflict)
          /\ rows' = IF saved THEN rs ELSE FailedRows(rs, d)
          /\ session' = Recorded(s, d, verdict)
          /\ op' = AfterRecording(s, d, verdict)
          /\ current' = IF exits THEN ExitCurrent(d) ELSE current
          /\ UNCHANGED <<disk, alive, turn, stop, resolution, daemon>>
    BY DEF Started
  <1> DEFINE rs == IF exits THEN ExitRows(session, rows, d, code, conflict) ELSE rows
             s  == IF exits THEN ExitSession(session, rows, d, code, conflict) ELSE session
             verdict == IF saved THEN "none" ELSE FailedVerdict(rs, d)
  <1>2. /\ alive' = alive /\ turn' = turn /\ daemon' = daemon
        /\ current' = IF exits THEN ExitCurrent(d) ELSE current
        /\ rows' = IF saved THEN rs ELSE FailedRows(rs, d)
        /\ session' = Recorded(s, d, verdict)
    BY <1>1
  <1>3. d \in Prompt /\ op.pc # "idle" /\ Starting(d) /\ ~ Pending
    BY DEF TypeOK, Starting, Pending
  <1>4. op'.pc = "idle" \/ (op'.pc = "recording" /\ op'.prompt = d)
    BY <1>1 DEF AfterRecording, NoOp
  <1>5. /\ rs \in Rows /\ Fades(rows, rs)
        /\ \A e \in Prompt : rs[e] \in Unstarted => e \notin alive /\ turn[e] = "absent"
    <2>1. CASE exits
      BY <1>1, <1>2, <1>3, <2>1, ExitSound
    <2>2. CASE ~ exits
      BY <2>2 DEF TypeOK, SafetyInv, RecoveryIsSound, Fades, Unstarted, Untaken
    <2> QED BY <2>1, <2>2
  <1>6. /\ rows' \in Rows /\ Fades(rows, rows')
        /\ \A e \in Prompt : rows'[e] \in Unstarted => e \notin alive /\ turn[e] = "absent"
    <2>1. CASE saved
      BY <1>2, <1>5, <2>1
    <2>2. CASE ~ saved
      <3>1. rows' = FailedRows(rs, d)
        BY <1>2, <2>2
      <3>2. rows' \in Rows /\ Fades(rs, rows') /\ Honest(rs, rows')
        BY <1>3, <1>5, <3>1, RowsTyped, ByIdEffect
      <3> QED BY <1>5, <3>2 DEF Fades, Honest
    <2> QED BY <2>1, <2>2
  <1>7. RecoveryIsSound'
    BY <1>2, <1>6 DEF RecoveryIsSound, Unstarted, Untaken
  <1>8. current' \in {current, NoChild}
    BY <1>2 DEF ExitCurrent
  <1>9. OpInv' /\ TrackedInv'
    BY <1>2, <1>3, <1>4, <1>6, <1>8, Settling
  <1>10. DownInv'
    BY <1>2 DEF DownInv, Live
  <1>11. RefusedInv'
    <2> SUFFICES ASSUME daemon' = "up", NEW c \in Tracked', Refusable(c)'
                 PROVE  /\ \/ rows'[c] \in Unsettled
                           \/ \A e \in Prompt : e < c => rows'[e] \notin Unsettled
                        /\ rows'[c] = "outcome_unknown" =>
                             /\ session'.recovery = Reply("outcome_unknown", c, TRUE, FALSE)
                             /\ op'.pc \in {"idle", "recording"}
      BY DEF RefusedInv
    <2>1. c = current /\ c \in Tracked /\ c \in Prompt /\ c = current'
      BY <1>3, <1>4, <1>8 DEF Tracked, Pending, NoChild, Prompt
    <2>2. c \in alive /\ turn[c] = "absent"
      BY <1>2, <1>4 DEF Refusable, Starting
    <2>3. /\ rows[c] \in Unsettled \/ \A e \in Prompt : e < c => rows[e] \notin Unsettled
          /\ rows[c] # "outcome_unknown"
      BY <1>2, <2>1, <2>2 DEF SafetyInv, RefusedInv, Refusable
    <2>4. ~ (exits /\ ExitIsNews(session, d))
      BY <1>2, <2>1, <2>2 DEF ExitIsNews
    <2>5. rs = rows /\ s = session
      BY <2>4 DEF ExitRows, ExitSession
    <2>6. rows[c] \notin Unstarted
      BY <1>5, <2>1, <2>2, <2>5
    <2>7. CASE saved
      BY <1>2, <2>3, <2>5, <2>7
    <2>8. CASE ~ saved /\ c # d
      <3>1. rows'[c] = rows[c]
        BY <1>2, <1>3, <2>1, <2>5, <2>8, ByIdEffect DEF TypeOK
      <3> QED BY <1>6, <2>3, <3>1 DEF Fades
    <2>9. CASE ~ saved /\ c = d /\ rows[d] \in InFlight
      <3>1. verdict = "outcome_unknown"
        BY <2>5, <2>9 DEF FailedVerdict, InFlight
      <3>2. rows'[c] = "outcome_unknown"
        BY <1>2, <1>3, <2>5, <2>9
        DEF FailedRows, MarkNotSent, MarkOutcomeUnknown, ById, InFlight
      <3>3. session'.recovery = Reply("outcome_unknown", c, TRUE, FALSE)
        BY <1>2, <2>5, <2>9, <3>1 DEF Recorded, TypeOK, SessionDetail
      <3> QED BY <1>4, <3>2, <3>3 DEF Unsettled, Recoverable
    <2>10. CASE ~ saved /\ c = d /\ rows[d] \notin InFlight
      <3>1. rows'[c] = rows[c]
        BY <1>2, <1>3, <2>3, <2>5, <2>6, <2>10
        DEF FailedRows, MarkNotSent, MarkOutcomeUnknown, ById, Unstarted
      <3> QED BY <1>6, <2>3, <3>1 DEF Fades
    <2> QED BY <2>7, <2>8, <2>9, <2>10
  <1> QED BY <1>7, <1>9, <1>10, <1>11 DEF SafetyInv

LEMMA ExitsSafe ==
  ASSUME TypeOK, SafetyInv, NEW c \in Child, NEW code \in ExitCode, NEW conflict \in BOOLEAN,
         ProcessExits(c, code, conflict)
  PROVE  SafetyInv'
  <1> DEFINE seen == Live /\ Watched(c)
  <1>1. /\ c \in alive /\ alive' = alive \ {c} /\ turn' = turn /\ op' = op /\ daemon' = daemon
        /\ MayExit(session, c, code, conflict)
    BY DEF ProcessExits
  <1>2. seen => /\ rows' = ExitRows(session, rows, c, code, conflict)
                /\ session' = ExitSession(session, rows, c, code, conflict)
                /\ current' = ExitCurrent(c)
    BY DEF ProcessExits
  <1>3. ~ seen => UNCHANGED <<rows, session, current>>
    BY DEF ProcessExits
  <1>4. current' \in {current, NoChild}
    BY <1>2, <1>3 DEF ExitCurrent
  <1>5. /\ Fades(rows, rows')
        /\ \A e \in Prompt : rows'[e] \in Unstarted => e \notin alive' /\ turn[e] = "absent"
    <2>1. CASE seen
      BY <1>1, <1>2, <2>1, ExitSound
    <2>2. CASE ~ seen
      BY <1>1, <1>3, <2>2 DEF SafetyInv, RecoveryIsSound, Fades, Unstarted, Untaken
    <2> QED BY <2>1, <2>2
  <1>6. RecoveryIsSound'
    BY <1>1, <1>5 DEF RecoveryIsSound, Unstarted, Untaken
  <1>7. OpInv' /\ TrackedInv'
    BY <1>1, <1>4, <1>5, Settling
  <1>8. DownInv'
    BY <1>1, <1>4 DEF SafetyInv, DownInv
  <1>9. RefusedInv'
    <2> SUFFICES ASSUME daemon' = "up", NEW b \in Tracked', Refusable(b)'
                 PROVE  /\ \/ rows'[b] \in Unsettled
                           \/ \A e \in Prompt : e < b => rows'[e] \notin Unsettled
                        /\ rows'[b] = "outcome_unknown" =>
                             /\ session'.recovery = Reply("outcome_unknown", b, TRUE, FALSE)
                             /\ op'.pc \in {"idle", "recording"}
      BY DEF RefusedInv
    <2>1. b \in Tracked /\ Refusable(b)
      BY <1>1, <1>4 DEF Tracked, Refusable, Starting, Pending, NoChild, Prompt
    <2>2. CASE seen /\ ExitIsNews(session, c)
      <3>1. current = c /\ current' = NoChild
        BY <1>2, <2>2 DEF ExitIsNews, ExitCurrent
      <3>2. Pending' <=> Pending
        BY <1>1 DEF Pending
      <3>3. current' \notin Prompt
        BY <3>1, MaxPromptsAssumption DEF NoChild, Prompt
      <3>4. Pending /\ b = op.child /\ b \in Prompt
        BY <1>1, <3>2, <3>3 DEF Tracked
      <3>5. b = c
        <4>1. c # NoChild
          BY MaxPromptsAssumption DEF Child, Shell, NoChild, Prompt
        <4> QED BY <3>1, <3>4, <4>1 DEF SafetyInv, OpInv
      <3> QED BY <1>1, <3>4, <3>5 DEF Refusable, Starting, Pending
    <2>3. CASE ~ (seen /\ ExitIsNews(session, c))
      <3>1. rows' = rows /\ session' = session
        BY <1>2, <1>3, <2>3 DEF ExitRows, ExitSession
      <3> QED BY <1>1, <2>1, <3>1 DEF SafetyInv, RefusedInv
    <2> QED BY <2>2, <2>3
  <1> QED BY <1>6, <1>7, <1>8, <1>9 DEF SafetyInv

LEMMA PromptStepSafe ==
  ASSUME TypeOK, SafetyInv, PromptStep
  PROVE  SafetyInv'
  <1>1. ASSUME op.pc # "idle" PROVE op.prompt \in Prompt
    BY <1>1 DEF TypeOK
  <1>2. ASSUME op.pc \notin {"idle", "recording"}, daemon = "up", NEW c \in Tracked, Refusable(c)
        PROVE  /\ rows[c] # "outcome_unknown"
               /\ rows[c] \in Unsettled \/ \A e \in Prompt : e < c => rows[e] \notin Unsettled
    BY <1>2 DEF SafetyInv, RefusedInv
  <1>3. ASSUME PreflightPasses \/ KillDone PROVE SafetyInv'
    <2>1. /\ UNCHANGED <<rows, session, alive, turn, daemon>>
          /\ Pending /\ op'.pc \in {"killing", "ready"}
          /\ current' \in {current, NoChild}
      BY <1>3 DEF PreflightPasses, KillDone, TypeOK, Operation, Pending
    <2>2. op'.prompt = op.prompt /\ op'.child = op.child
      BY <1>3 DEF PreflightPasses, KillDone, TypeOK, Operation
    <2>3. Pending' /\ ~ Starting(op.prompt) /\ \A c : ~ Starting(c) /\ ~ Starting(c)'
      BY <2>1, <2>2 DEF Pending, Starting
    <2>4. OpInv'
      BY <2>1, <2>2, <2>3 DEF SafetyInv, OpInv, Untaken, Pending
    <2>5. DownInv'
      BY <1>3, <2>1 DEF PreflightPasses, KillDone, Live, DownInv
    <2>6. Tracked' \subseteq Tracked
      BY <2>1, <2>2, <2>3, MaxPromptsAssumption DEF Tracked, NoChild, Prompt
    <2>7. TrackedInv'
      BY <2>1, <2>6 DEF SafetyInv, TrackedInv, Untaken
    <2>8. RefusedInv'
      BY <1>2, <2>1, <2>3, <2>6 DEF RefusedInv, Refusable, Pending
    <2> QED BY <2>1, <2>4, <2>5, <2>7, <2>8 DEF SafetyInv, RecoveryIsSound, Untaken
  <1>4. ASSUME PreflightFails PROVE SafetyInv'
    BY <1>4, FailSafe DEF PreflightFails, Pending
  <1>5. ASSUME KillFails PROVE SafetyInv'
    <2> DEFINE cur == IF op.child \in alive /\ current = NoChild THEN op.child ELSE current
    <2>1. cur \in {current, op.child} /\ Fail(cur) /\ Live /\ Pending
      BY <1>5 DEF KillFails, Pending
    <2> HIDE DEF cur
    <2> QED BY <2>1, FailSafe
  <1>6. ASSUME Dispatch PROVE SafetyInv'
    BY <1>6, DispatchSafe
  <1>7. ASSUME StartupReady PROVE SafetyInv'
    <2>1. /\ UNCHANGED <<current, alive, turn, daemon>> /\ Live
          /\ op.pc = "startup" /\ op' = [op EXCEPT !.pc = "persisting"]
          /\ rows' = MarkAccepted(rows, op.prompt)
      BY <1>7 DEF StartupReady
    <2>2. op'.prompt = op.prompt /\ op'.pc = "persisting"
      BY <2>1 DEF TypeOK, Operation
    <2>3. Fades(rows, rows') /\ Honest(rows, rows') /\ \A c \in Prompt : Holds(rows, rows', c)
      BY <1>1, <2>1, ByIdEffect DEF TypeOK
    <2>4. RecoveryIsSound'
      BY <2>1, <2>3 DEF SafetyInv, RecoveryIsSound, Honest, Unstarted, Untaken
    <2>5. OpInv' /\ DownInv'
      BY <2>1, <2>2, <2>3 DEF SafetyInv, OpInv, Pending, DownInv, Live, Fades
    <2>6. Tracked' \subseteq Tracked
      BY <2>1, <2>2 DEF Tracked, Pending
    <2>7. TrackedInv'
      BY <2>1, <2>6 DEF SafetyInv, TrackedInv, Untaken
    <2>8. RefusedInv'
      <3> SUFFICES ASSUME daemon' = "up", NEW c \in Tracked', Refusable(c)'
                   PROVE  /\ \/ rows'[c] \in Unsettled
                             \/ \A e \in Prompt : e < c => rows'[e] \notin Unsettled
                          /\ rows'[c] # "outcome_unknown"
        BY DEF RefusedInv
      <3>1. c \in Tracked /\ c \in Prompt /\ Refusable(c)
        BY <2>1, <2>2, <2>6 DEF Tracked, Refusable, Starting
      <3> QED BY <1>2, <2>1, <2>3, <3>1 DEF Fades, Holds
    <2> QED BY <2>4, <2>5, <2>7, <2>8 DEF SafetyInv
  <1>8. ASSUME StartupFails PROVE SafetyInv'
    <2> DEFINE d == op.prompt
    <2>1. /\ UNCHANGED <<current, alive, turn, daemon>> /\ Live /\ d \in Prompt
          /\ op.pc = "spawnFailed" /\ op'.pc = "disposing" /\ op'.prompt = d
          /\ rows' = FailedRows(MarkNotSentAfterSynchronousSpawnFailure(rows, d), d)
      BY <1>1, <1>8 DEF StartupFails, TypeOK, Operation
    <2>2. Untaken(d)
      BY <2>1 DEF SafetyInv, OpInv
    <2>3. Fades(rows, rows') /\ \A c \in Prompt \ {d} : rows'[c] = rows[c]
      BY <2>1, ByIdEffect DEF TypeOK
    <2>4. RecoveryIsSound'
      BY <2>1, <2>2, <2>3 DEF SafetyInv, RecoveryIsSound, Untaken
    <2>5. OpInv' /\ DownInv'
      BY <2>1, <2>2, <2>3 DEF SafetyInv, OpInv, Pending, DownInv, Live, Fades, Untaken
    <2>6. Tracked' \subseteq Tracked
      BY <2>1 DEF Tracked, Pending
    <2>7. TrackedInv'
      BY <2>1, <2>6 DEF SafetyInv, TrackedInv, Untaken
    <2>8. RefusedInv'
      <3> SUFFICES ASSUME daemon' = "up", NEW c \in Tracked', Refusable(c)'
                   PROVE  /\ \/ rows'[c] \in Unsettled
                             \/ \A e \in Prompt : e < c => rows'[e] \notin Unsettled
                          /\ rows'[c] # "outcome_unknown"
        BY DEF RefusedInv
      <3>1. c \in Tracked /\ c \in Prompt /\ Refusable(c) /\ c # d
        BY <2>1, <2>2, <2>6 DEF Tracked, Refusable, Starting, Untaken
      <3> QED BY <1>2, <2>1, <2>3, <3>1 DEF Fades
    <2> QED BY <2>4, <2>5, <2>7, <2>8 DEF SafetyInv
  <1>9. ASSUME Dispose PROVE SafetyInv'
    <2>1. /\ UNCHANGED <<rows, alive, turn, daemon>> /\ Live /\ op.pc = "disposing"
          /\ current' \in {current, NoChild}
      BY <1>9 DEF Dispose
    <2>2. op'.pc = "idle" \/ (op'.pc = "recording" /\ op'.prompt = op.prompt)
      BY <1>9 DEF Dispose, AfterRecording, NoOp
    <2>3. Fades(rows, rows')
      BY <2>1 DEF Fades
    <2>4. OpInv' /\ TrackedInv'
      BY <2>1, <2>2, <2>3, Settling
    <2>5. DownInv'
      BY <2>1 DEF DownInv, Live
    <2>6. Tracked' \subseteq Tracked
      BY <2>1, <2>2, MaxPromptsAssumption DEF Tracked, Pending, NoChild, Prompt
    <2>7. \A c : Refusable(c)' => Refusable(c)
      BY <2>1, <2>2 DEF Refusable, Starting
    <2>8. RefusedInv'
      BY <1>2, <2>1, <2>6, <2>7 DEF RefusedInv
    <2> QED BY <2>1, <2>4, <2>5, <2>8 DEF SafetyInv, RecoveryIsSound, Untaken
  <1>10. ASSUME RecordingDone PROVE SafetyInv'
    <2>1. /\ UNCHANGED <<rows, session, current, alive, turn, daemon>> /\ Live
          /\ op.pc = "recording" /\ op'.pc = "idle"
      BY <1>10 DEF RecordingDone, NoOp
    <2>2. OpInv' /\ DownInv'
      BY <2>1 DEF OpInv, DownInv, Pending, Live
    <2>3. Tracked' = Tracked /\ \A c : Refusable(c)' => Refusable(c)
      BY <2>1 DEF Tracked, Pending, Refusable, Starting
    <2>4. TrackedInv' /\ RefusedInv'
      BY <2>1, <2>3 DEF SafetyInv, TrackedInv, RefusedInv, Untaken
    <2> QED BY <2>1, <2>2, <2>4 DEF SafetyInv, RecoveryIsSound, Untaken
  <1>11. ASSUME StartPersisted PROVE SafetyInv'
    BY <1>11, StartedSafe DEF StartPersisted
  <1>12. ASSUME StartPersistFails PROVE SafetyInv'
    BY <1>12, StartedSafe DEF StartPersistFails
  <1> QED
    BY <1>3, <1>4, <1>5, <1>6, <1>7, <1>8, <1>9, <1>10, <1>11, <1>12 DEF PromptStep

LEMMA SyncSafe ==
  ASSUME TypeOK, SafetyInv, Sync
  PROVE  SafetyInv'
  <1>1. ASSUME SyncUnchanged PROVE SafetyInv'
    BY <1>1, Quiet DEF SyncUnchanged
  <1>2. ASSUME NEW v, SyncRecovery(v) PROVE SafetyInv'
    <2>1. ASSUME NEW c \in Prompt, session.recovery = Reply("outcome_unknown", c, TRUE, FALSE)
          PROVE  session'.recovery = session.recovery
      <3>1. session' = RecoveredSession(v)
        BY <1>2 DEF SyncRecovery
      <3>2. session.recovery.observed = FALSE /\ session.recovery.phase = "outcome_unknown"
        BY <2>1 DEF Reply
      <3>3. session'.recovery = Reply("outcome_unknown", session.recovery.prompt,
                                      session.recovery.linked, session.recovery.observed)
        BY <3>1, <3>2 DEF RecoveredSession, TypeOK, SessionDetail, Terminal
      <3> QED BY <2>1, <3>3 DEF Reply
    <2> QED BY <1>2, <2>1, Quiet DEF SyncRecovery
  <1>3. ASSUME NEW v, SyncBusy(v) \/ SyncWaiting(v) PROVE SafetyInv'
    <2>1. session'.recovery = session.recovery
      BY <1>3 DEF SyncBusy, SyncWaiting, TypeOK, SessionDetail
    <2> QED BY <1>3, <2>1, Quiet DEF SyncBusy, SyncWaiting
  <1>4. ASSUME NEW v, daemon = "up", SyncCompleted(v) PROVE SafetyInv'
    <2> DEFINE s == [session EXCEPT !.reply = EmptyReply, !.recovery = NoRecovery]
    <2>1. /\ rows' = FinishedRows(s, rows, "done", "zero", FALSE)
          /\ UNCHANGED <<alive, turn, op, daemon>>
          /\ current' \in {current, NoChild}
      BY <1>4 DEF SyncCompleted
    <2>2. s.reply.phase = "idle" /\ s.recovery = NoRecovery
      BY DEF TypeOK, SessionDetail, EmptyReply, Reply
    <2>3. rows' = MarkCompleted(rows)
      BY <1>4, <2>1, <2>2 DEF FinishedRows, Uncertain
    <2>4. Fades(rows, rows') /\ Honest(rows, rows') /\ \A c \in Prompt : rows'[c] \notin Unsettled
      BY <2>3, BySessionEffect DEF TypeOK
    <2>5. RecoveryIsSound'
      BY <2>1, <2>4 DEF SafetyInv, RecoveryIsSound, Honest, Unstarted, Untaken
    <2>6. OpInv' /\ TrackedInv'
      BY <2>1, <2>4, Settling
    <2>7. DownInv'
      BY <1>4, <2>1 DEF DownInv
    <2>8. RefusedInv'
      BY <2>4 DEF RefusedInv, Tracked, Unsettled, Recoverable
    <2> QED BY <2>5, <2>6, <2>7, <2>8 DEF SafetyInv
  <1> QED BY <1>1, <1>2, <1>3, <1>4 DEF Sync

LEMMA HaltSafe ==
  ASSUME SafetyInv, NEW saved, Halt(saved), Fades(rows, rows'), Honest(rows, rows')
  PROVE  SafetyInv'
  <1>1. /\ UNCHANGED <<alive, turn>> /\ daemon' = "down" /\ current' = NoChild /\ op'.pc = "idle"
    BY DEF Halt, NoOp
  <1>2. RecoveryIsSound'
    BY <1>1 DEF SafetyInv, RecoveryIsSound, Honest, Unstarted, Untaken
  <1>3. OpInv' /\ TrackedInv'
    BY <1>1, Settling
  <1> QED BY <1>1, <1>2, <1>3 DEF SafetyInv, DownInv, RefusedInv

LEMMA DaemonSafe ==
  ASSUME TypeOK, SafetyInv,
         Resolve \/ Persist \/ BeginShutdown \/ CloseRunner \/ Close \/ Crash \/ Restart \/ RestartDone
  PROVE  SafetyInv'
  <1> USE DEF Fades, Honest
  <1>1. ASSUME Resolve PROVE SafetyInv'
    <2>1. /\ UNCHANGED <<session, current, alive, turn, op, daemon>>
          /\ \/ rows' = rows
             \/ rows' = MarkCompleted(rows)
             \/ rows' = MarkObservedBySession(rows) /\ session.recovery = NoRecovery
      BY <1>1 DEF Resolve
    <2>2. /\ Fades(rows, rows') /\ Honest(rows, rows')
          /\ \/ \A c \in Prompt : rows'[c] \notin Unsettled
             \/ \A c \in Prompt : rows[c] # "outcome_unknown" \/ session.recovery # NoRecovery
                                    => Holds(rows, rows', c)
      BY <2>1, BySessionEffect DEF TypeOK, Holds
    <2>3. RecoveryIsSound'
      BY <2>1, <2>2 DEF SafetyInv, RecoveryIsSound, Unstarted, Untaken
    <2>4. OpInv' /\ TrackedInv'
      BY <2>1, <2>2, Settling
    <2>5. DownInv'
      BY <2>1 DEF SafetyInv, DownInv
    <2>6. RefusedInv'
      <3> SUFFICES ASSUME daemon' = "up", NEW c \in Tracked', Refusable(c)'
                   PROVE  /\ \/ rows'[c] \in Unsettled
                             \/ \A e \in Prompt : e < c => rows'[e] \notin Unsettled
                          /\ rows'[c] = "outcome_unknown" =>
                               /\ session'.recovery = Reply("outcome_unknown", c, TRUE, FALSE)
                               /\ op'.pc \in {"idle", "recording"}
        BY DEF RefusedInv
      <3>1. c \in Tracked /\ c \in Prompt /\ Refusable(c)
        BY <2>1 DEF Tracked, Pending, Refusable, Starting
      <3>2. /\ rows[c] \in Unsettled \/ \A e \in Prompt : e < c => rows[e] \notin Unsettled
            /\ rows[c] = "outcome_unknown" =>
                 /\ session.recovery = Reply("outcome_unknown", c, TRUE, FALSE)
                 /\ op.pc \in {"idle", "recording"}
        BY <2>1, <3>1 DEF SafetyInv, RefusedInv
      <3>3. CASE \A b \in Prompt : rows'[b] \notin Unsettled
        BY <3>1, <3>3 DEF Unsettled, Recoverable
      <3>4. CASE \A b \in Prompt : rows[b] # "outcome_unknown" \/ session.recovery # NoRecovery
                                     => Holds(rows, rows', b)
        <4>1. rows[c] = "outcome_unknown" => session.recovery # NoRecovery
          BY <3>2 DEF Reply, NoRecovery
        <4>2. Holds(rows, rows', c)
          BY <3>1, <3>4, <4>1
        <4> QED BY <2>1, <2>2, <3>1, <3>2, <4>2 DEF Holds
      <3> QED BY <2>2, <3>3, <3>4
    <2> QED BY <2>3, <2>4, <2>5, <2>6 DEF SafetyInv
  <1>2. ASSUME Persist PROVE SafetyInv'
    <2>1. /\ UNCHANGED <<rows, session, current, alive, turn, daemon>>
          /\ op' = op \/ (op.pc = "persisting" /\ op' = [op EXCEPT !.pc = "persisted"])
      BY <1>2 DEF Persist
    <2>2. /\ op'.prompt = op.prompt /\ op'.child = op.child
          /\ op'.pc = op.pc \/ (op.pc = "persisting" /\ op'.pc = "persisted")
      BY <2>1 DEF TypeOK, Operation
    <2>3. OpInv' /\ DownInv'
      BY <2>1, <2>2 DEF SafetyInv, OpInv, DownInv, Pending, Untaken
    <2>4. Tracked' = Tracked /\ \A c : Refusable(c)' => Refusable(c)
      BY <2>1, <2>2 DEF Tracked, Pending, Refusable, Starting
    <2>5. TrackedInv' /\ RefusedInv'
      BY <2>1, <2>2, <2>4 DEF SafetyInv, TrackedInv, RefusedInv, Untaken
    <2> QED BY <2>1, <2>3, <2>5 DEF SafetyInv, RecoveryIsSound, Untaken
  <1>3. ASSUME BeginShutdown PROVE SafetyInv'
    <2>1. /\ UNCHANGED <<current, alive, turn, op>> /\ daemon' = "draining"
          /\ rows' = MarkActiveOutcomeUnknownForShutdown(rows)
      BY <1>3 DEF BeginShutdown
    <2>2. Fades(rows, rows') /\ Honest(rows, rows')
      BY <2>1, BySessionEffect DEF TypeOK
    <2>3. RecoveryIsSound'
      BY <2>1, <2>2 DEF SafetyInv, RecoveryIsSound, Unstarted, Untaken
    <2>4. OpInv' /\ TrackedInv'
      BY <2>1, <2>2, Settling
    <2> QED BY <2>1, <2>3, <2>4 DEF SafetyInv, DownInv, RefusedInv
  <1>4. ASSUME CloseRunner PROVE SafetyInv'
    <2>1. /\ UNCHANGED <<rows, alive, turn, op>> /\ daemon' = "closing"
          /\ current' \in {current, NoChild}
      BY <1>4 DEF CloseRunner
    <2>2. OpInv' /\ TrackedInv'
      BY <2>1, Settling
    <2> QED BY <2>1, <2>2 DEF SafetyInv, DownInv, RefusedInv, RecoveryIsSound, Untaken
  <1>5. ASSUME Close PROVE SafetyInv'
    <2>1. PICK saved : Halt(saved)
      BY <1>5 DEF Close
    <2>2. rows' = rows \/ rows' = MarkOutcomeUnknownBySession(rows)
      BY <1>5 DEF Close
    <2>3. Fades(rows, rows') /\ Honest(rows, rows')
      BY <2>2, BySessionEffect DEF TypeOK
    <2> QED BY <2>1, <2>3, HaltSafe
  <1>6. ASSUME Crash PROVE SafetyInv'
    BY <1>6, HaltSafe DEF Crash
  <1>7. ASSUME Restart PROVE SafetyInv'
    <2>1. /\ UNCHANGED <<current, alive, turn, op>> /\ daemon = "down" /\ daemon' = "starting"
          /\ rows' = RecoverActiveAfterRestart(rows)
      BY <1>7 DEF Restart
    <2>2. Fades(rows, rows') /\ Honest(rows, rows')
      BY <2>1, BySessionEffect DEF TypeOK
    <2>3. RecoveryIsSound'
      BY <2>1, <2>2 DEF SafetyInv, RecoveryIsSound, Unstarted, Untaken
    <2>4. OpInv' /\ TrackedInv'
      BY <2>1, <2>2, Settling
    <2> QED BY <2>1, <2>3, <2>4 DEF SafetyInv, DownInv, RefusedInv
  <1>8. ASSUME RestartDone PROVE SafetyInv'
    <2>1. /\ UNCHANGED <<rows, current, alive, turn, op>> /\ daemon = "starting" /\ daemon' = "up"
          /\ current = NoChild /\ op.pc = "idle"
      BY <1>8 DEF RestartDone, SafetyInv, DownInv
    <2>2. OpInv' /\ TrackedInv'
      BY <2>1, Settling
    <2>3. Tracked' = {}
      BY <2>1, MaxPromptsAssumption DEF Tracked, Pending, NoChild, Prompt
    <2> QED BY <2>1, <2>2, <2>3 DEF SafetyInv, DownInv, RefusedInv, RecoveryIsSound, Untaken
  <1> QED BY <1>1, <1>2, <1>3, <1>4, <1>5, <1>6, <1>7, <1>8

LEMMA StepSafe ==
  ASSUME TypeOK, SafetyInv, [Next]_vars
  PROVE  SafetyInv'
  <1>1. ASSUME NEW d \in Prompt, RuntimeTakesPrompt(d) \/ TurnEnds(d) PROVE SafetyInv'
    <2>1. /\ UNCHANGED <<rows, session, current, alive, op, daemon>>
          /\ d \in alive /\ turn'[d] # "absent"
          /\ \A e \in Prompt \ {d} : turn'[e] = turn[e]
      BY <1>1 DEF RuntimeTakesPrompt, TurnEnds, Terminal, TypeOK
    <2>2. \A e \in Prompt : Untaken(e) => Untaken(e)'
      BY <2>1 DEF Untaken
    <2>3. RecoveryIsSound' /\ TrackedInv' /\ Tracked' = Tracked
      BY <2>1, <2>2 DEF SafetyInv, RecoveryIsSound, TrackedInv, Tracked, Pending
    <2>4. op.pc # "idle" => op.prompt \in Prompt
      BY DEF TypeOK
    <2>5. OpInv' /\ DownInv'
      BY <2>1, <2>2, <2>4 DEF SafetyInv, OpInv, DownInv, Pending
    <2>6. \A c \in Prompt : Refusable(c)' => Refusable(c)
      BY <2>1 DEF Refusable, Starting
    <2>7. RefusedInv'
      BY <2>1, <2>3, <2>6 DEF SafetyInv, RefusedInv, Tracked
    <2> QED BY <2>3, <2>5, <2>7 DEF SafetyInv
  <1>2. ASSUME RequestStop \/ StopDetached \/ StopDone \/ StopFails PROVE SafetyInv'
    <2>1. session'.recovery = session.recovery
      BY <1>2 DEF RequestStop, StopDetached, StopDone, StopFails, TypeOK, SessionDetail
    <2> QED BY <1>2, <2>1, Quiet DEF RequestStop, StopDetached, StopDone, StopFails
  <1>3. ASSUME ResolvePersistFails \/ UNCHANGED vars PROVE SafetyInv'
    BY <1>3, Quiet DEF ResolvePersistFails, vars
  <1>4. ASSUME GiveUpChecking PROVE SafetyInv'
    BY <1>4, Quiet DEF GiveUpChecking, Reply
  <1> QED
    BY SendSafe, PromptStepSafe, ExitsSafe, SyncSafe, DaemonSafe, <1>1, <1>2, <1>3, <1>4 DEF Next

LEMMA InitSafe == Init => SafetyInv
  <1> SUFFICES ASSUME Init PROVE SafetyInv
    OBVIOUS
  <1>1. alive \cap Prompt = {} /\ current \notin Prompt /\ op.pc = "idle" /\ daemon = "up"
    BY MaxPromptsAssumption DEF Init, NoOp, Prompt, Shell, NoChild
  <1>2. \A d \in Prompt : Untaken(d)
    BY <1>1 DEF Init, Untaken
  <1>3. Tracked = {}
    BY <1>1 DEF Tracked, Pending
  <1> QED
    BY <1>1, <1>2, <1>3
    DEF SafetyInv, RecoveryIsSound, OpInv, DownInv, TrackedInv, RefusedInv, Pending

(* A tracked child belongs to the youngest prompt that was started, and    *)
(* one that can still be refused to a row that is not settled, so that a   *)
(* refusal of an active writer settles the row of its own prompt.          *)
THEOREM SafetyInvariant == Spec => []SafetyInv
  <1>1. Init => SafetyInv
    BY InitSafe
  <1>2. TypeOK /\ SafetyInv /\ [Next]_vars => SafetyInv'
    BY StepSafe
  <1> QED BY <1>1, <1>2, TypeCorrect, PTL DEF Spec

(* A row that says that its prompt was not sent, or that a restart would   *)
(* take for one, is the row of a prompt that no process and no runtime has.*)
THEOREM RecoverySound == Spec => []RecoveryIsSound
  <1>1. SafetyInv => RecoveryIsSound
    BY DEF SafetyInv
  <1> QED BY <1>1, SafetyInvariant, PTL

-----------------------------------------------------------------------------
(* The latest prompt in flight is attended to.                             *)

IsLatestRow(d) == rows[d] # "absent" /\ \A e \in Prompt : e > d => rows[e] = "absent"

(* Who will tell what became of prompt d: the operation that is starting   *)
(* it, or the exit of its child.                                           *)
Noticed(d) ==
  \/ op.prompt = d /\ op.pc \in {"spawnFailed", "startup"}
  \/ current = d /\ ~ session.finished

(* An operation has a row of its own, which is in flight only between its  *)
(* Dispatch and the save that follows the start.                           *)
OpRowInv ==
  /\ op.pc # "idle" => rows[op.prompt] # "absent"
  /\ daemon = "up" /\ op.pc # "idle" /\ rows[op.prompt] \in InFlight =>
       /\ op.pc \in {"spawnFailed", "startup", "persisting", "persisted"}
       /\ op.pc = "startup" => current = op.prompt

NoticedInv ==
  daemon = "up" => \A d \in Prompt : IsLatestRow(d) /\ rows[d] \in InFlight => Noticed(d)

SweptInv == daemon = "starting" => \A d \in Prompt : rows[d] \notin InFlight

AttendedInv == OpRowInv /\ NoticedInv /\ SweptInv

Cools(rs, rt) ==                \* no row appears, and none gets in flight
  \A e \in Prompt : /\ rt[e] = "absent" <=> rs[e] = "absent"
                    /\ rt[e] \in InFlight => rs[e] \in InFlight

LEMMA Cooling ==
  ASSUME NEW rs \in Rows, NEW d \in Prompt
  PROVE  /\ LET rt == FailedRows(rs, d) IN Cools(rs, rt) /\ rt[d] \notin InFlight
         /\ LET rt == FailedRows(MarkNotSentAfterSynchronousSpawnFailure(rs, d), d) IN
              Cools(rs, rt) /\ rt[d] \notin InFlight
         /\ Cools(rs, MarkOutcomeUnknownBySession(rs))
         /\ Cools(rs, MarkNotSentAfterActiveWriterConflict(rs))
         /\ Cools(rs, MarkObservedBySession(rs))
         /\ LET rt == MarkCompleted(rs) IN
              Cools(rs, rt) /\ \A e \in Prompt : rt[e] \notin InFlight
         /\ LET rt == MarkInterrupted(rs) IN
              Cools(rs, rt) /\ \A e \in Prompt : rt[e] \notin InFlight
         /\ LET rt == MarkActiveOutcomeUnknownForShutdown(rs) IN
              Cools(rs, rt) /\ \A e \in Prompt : rt[e] \notin InFlight
         /\ LET rt == RecoverActiveAfterRestart(rs) IN
              Cools(rs, rt) /\ \A e \in Prompt : rt[e] \notin InFlight
  <1> USE DEF Cools, Rows, InFlight, Recoverable
  <1>1. ASSUME NEW rr \in Rows
        PROVE  Cools(rr, FailedRows(rr, d)) /\ FailedRows(rr, d)[d] \notin InFlight
    BY DEF FailedRows, MarkNotSent, MarkOutcomeUnknown, ById
  <1>2. Cools(rs, MarkNotSentAfterSynchronousSpawnFailure(rs, d))
    BY DEF MarkNotSentAfterSynchronousSpawnFailure, ById
  <1>3. LET rt == FailedRows(MarkNotSentAfterSynchronousSpawnFailure(rs, d), d) IN
          Cools(rs, rt) /\ rt[d] \notin InFlight
    <2> DEFINE rr == MarkNotSentAfterSynchronousSpawnFailure(rs, d)
    <2>1. rr \in Rows /\ Cools(rs, rr)
      BY <1>2, RowsTyped
    <2> HIDE DEF rr
    <2>2. Cools(rr, FailedRows(rr, d)) /\ FailedRows(rr, d)[d] \notin InFlight
      BY <1>1, <2>1
    <2>3. Cools(rs, FailedRows(rr, d))
      BY <2>1, <2>2
    <2> QED BY <2>2, <2>3 DEF rr
  <1>4. /\ Cools(rs, MarkOutcomeUnknownBySession(rs))
        /\ Cools(rs, MarkNotSentAfterActiveWriterConflict(rs))
    BY DEF MarkOutcomeUnknownBySession, MarkNotSentAfterActiveWriterConflict,
           LatestBySession, IsLatest
  <1>5. Cools(rs, MarkObservedBySession(rs))
    BY DEF MarkObservedBySession, Sweep
  <1>6. LET rt == MarkCompleted(rs) IN
          Cools(rs, rt) /\ \A e \in Prompt : rt[e] \notin InFlight
    BY DEF MarkCompleted, Sweep
  <1>7. LET rt == MarkInterrupted(rs) IN
          Cools(rs, rt) /\ \A e \in Prompt : rt[e] \notin InFlight
    BY DEF MarkInterrupted, Sweep
  <1>8. LET rt == MarkActiveOutcomeUnknownForShutdown(rs) IN
          Cools(rs, rt) /\ \A e \in Prompt : rt[e] \notin InFlight
    BY DEF MarkActiveOutcomeUnknownForShutdown, Sweep
  <1>9. LET rt == RecoverActiveAfterRestart(rs) IN
          Cools(rs, rt) /\ \A e \in Prompt : rt[e] \notin InFlight
    BY DEF RecoverActiveAfterRestart, Sweep
  <1> QED BY <1>1, <1>3, <1>4, <1>5, <1>6, <1>7, <1>8, <1>9

(* While an operation is under way its prompt is the latest.               *)
LEMMA OwnRowIsLatest ==
  ASSUME TypeOK, SafetyInv, AttendedInv, op.pc # "idle", Cools(rows, rows'),
         NEW d \in Prompt, IsLatestRow(d)'
  PROVE  d = op.prompt
  <1>1. op.prompt \in Prompt /\ rows[op.prompt] # "absent"
    BY DEF TypeOK, AttendedInv, OpRowInv
  <1>2. rows[d] # "absent" /\ \A e \in Prompt : e > d => rows[e] = "absent"
    BY DEF IsLatestRow, Cools
  <1>3. \A e \in Prompt : e > op.prompt => rows[e] = "absent"
    BY DEF SafetyInv, OpInv
  <1> QED BY <1>1, <1>2, <1>3 DEF Prompt

(* A step after which the row of the operation is not in flight.           *)
LEMMA OperationRests ==
  ASSUME TypeOK, SafetyInv, AttendedInv, Cools(rows, rows'), daemon' = daemon,
         op.pc # "idle", rows'[op.prompt] \notin InFlight,
         op'.pc = "idle" \/ op'.prompt = op.prompt
  PROVE  AttendedInv'
  <1>1. op.prompt \in Prompt
    BY DEF TypeOK
  <1>2. OpRowInv'
    BY <1>1 DEF AttendedInv, OpRowInv, Cools
  <1>3. NoticedInv'
    BY OwnRowIsLatest DEF NoticedInv
  <1>4. SweptInv'
    BY DEF AttendedInv, SweptInv, Cools
  <1> QED BY <1>2, <1>3, <1>4 DEF AttendedInv

(* A step that leaves the operation and the tracked child alone.           *)
LEMMA AttendedQuiet ==
  ASSUME TypeOK, AttendedInv, Cools(rows, rows'), UNCHANGED <<current, op, daemon>>,
         session'.finished => session.finished \/ current = NoChild
  PROVE  AttendedInv'
  <1>1. OpRowInv' /\ SweptInv'
    BY DEF TypeOK, AttendedInv, OpRowInv, SweptInv, Cools
  <1>2. NoticedInv'
    <2> SUFFICES ASSUME daemon = "up", NEW d \in Prompt, IsLatestRow(d)', rows'[d] \in InFlight
                 PROVE  Noticed(d)'
      BY DEF NoticedInv
    <2>1. IsLatestRow(d) /\ rows[d] \in InFlight
      BY DEF IsLatestRow, Cools
    <2>2. Noticed(d) /\ d # NoChild
      BY <2>1, MaxPromptsAssumption DEF AttendedInv, NoticedInv, NoChild, Prompt
    <2> QED BY <2>2 DEF Noticed
  <1> QED BY <1>1, <1>2 DEF AttendedInv

(* The exit of a child that is news settles the latest prompt.             *)
LEMMA ExitCools ==
  ASSUME TypeOK, NEW c, NEW code \in ExitCode, NEW conflict \in BOOLEAN,
         MayExit(session, c, code, conflict)
  PROVE  LET rt == ExitRows(session, rows, c, code, conflict) IN
           /\ rt \in Rows /\ Cools(rows, rt)
           /\ ~ ExitIsNews(session, c) => rt = rows
           /\ ExitIsNews(session, c) =>
                \A d \in Prompt : IsLatestRow(d) => rt[d] \notin InFlight
  <1> DEFINE rt == ExitRows(session, rows, c, code, conflict)
  <1>1. rt \in Rows
    BY ExitTyped DEF TypeOK
  <1>2. 1 \in Prompt
    BY MaxPromptsAssumption DEF Prompt
  <1>3. CASE ~ ExitIsNews(session, c)
    BY <1>1, <1>3 DEF ExitRows, Cools
  <1>4. CASE ExitIsNews(session, c)
    <2>1. rt \in {MarkOutcomeUnknownBySession(rows), MarkNotSentAfterActiveWriterConflict(rows),
                  MarkInterrupted(rows), MarkCompleted(rows)}
      BY <1>4 DEF ExitRows, FinishedRows
    <2>2. Cools(rows, rt)
      BY <1>2, <2>1, Cooling DEF TypeOK
    <2>3. ASSUME NEW d \in Prompt, IsLatestRow(d)
          PROVE  rt[d] \notin InFlight
      <3>1. rows \in Rows
        BY DEF TypeOK
      <3>2. MarkOutcomeUnknownBySession(rows)[d] \notin InFlight
        BY <2>3 DEF MarkOutcomeUnknownBySession, LatestBySession, IsLatest, IsLatestRow, InFlight
      <3>3. MarkNotSentAfterActiveWriterConflict(rows)[d] \notin InFlight
        BY <2>3 DEF MarkNotSentAfterActiveWriterConflict, LatestBySession, IsLatest, IsLatestRow,
                    InFlight, Recoverable
      <3>4. MarkInterrupted(rows)[d] \notin InFlight /\ MarkCompleted(rows)[d] \notin InFlight
        BY <3>1, Cooling
      <3> QED BY <2>1, <3>2, <3>3, <3>4
    <2> QED BY <1>1, <1>4, <2>2, <2>3
  <1> QED BY <1>3, <1>4

LEMMA StartedAttended ==
  ASSUME TypeOK, SafetyInv, AttendedInv, NEW saved \in BOOLEAN,
         op.pc \in {"persisting", "persisted"}, Started(saved)
  PROVE  AttendedInv'
  <1> DEFINE d == op.prompt
             exits == d \notin alive
  <1>1. PICK code \in ExitCode, conflict \in BOOLEAN :
          LET rs == IF exits THEN ExitRows(session, rows, d, code, conflict) ELSE rows
              s  == IF exits THEN ExitSession(session, rows, d, code, conflict) ELSE session
              verdict == IF saved THEN "none" ELSE FailedVerdict(rs, d)
          IN
          /\ exits => MayExit(session, d, code, conflict)
          /\ rows' = IF saved THEN rs ELSE FailedRows(rs, d)
          /\ session' = Recorded(s, d, verdict)
          /\ op' = AfterRecording(s, d, verdict)
          /\ current' = IF exits THEN ExitCurrent(d) ELSE current
          /\ UNCHANGED <<disk, alive, turn, stop, resolution, daemon>>
    BY DEF Started
  <1> DEFINE rs == IF exits THEN ExitRows(session, rows, d, code, conflict) ELSE rows
             s  == IF exits THEN ExitSession(session, rows, d, code, conflict) ELSE session
  <1>2. /\ daemon' = daemon
        /\ rows' = IF saved THEN rs ELSE FailedRows(rs, d)
        /\ op'.pc = "idle" \/ op'.prompt = d
        /\ saved => op'.pc = "idle" /\ session' = s
    BY <1>1 DEF AfterRecording, Recorded, NoOp
  <1>3. /\ d \in Prompt
        /\ \A e \in Prompt : e > d => rows[e] = "absent"
        /\ rows[d] # "absent"
    BY DEF TypeOK, SafetyInv, OpInv, AttendedInv, OpRowInv
  <1>4. IsLatestRow(d)
    BY <1>3 DEF IsLatestRow
  <1>5. /\ rs \in Rows /\ Cools(rows, rs)
        /\ rs = rows \/ rs[d] \notin InFlight
        /\ exits /\ rs = rows => ~ ExitIsNews(session, d) \/ rows[d] \notin InFlight
    <2>1. CASE exits
      <3>1. MayExit(session, d, code, conflict)
        BY <1>1, <2>1
      <3> QED BY <1>3, <1>4, <2>1, <3>1, ExitCools
    <2>2. CASE ~ exits
      BY <2>2 DEF TypeOK, Cools
    <2> QED BY <2>1, <2>2
  <1>6. Cools(rows, rows')
    <2>1. CASE saved
      BY <1>2, <1>5, <2>1
    <2>2. CASE ~ saved
      <3>1. Cools(rs, FailedRows(rs, d))
        BY <1>3, <1>5, Cooling
      <3> QED BY <1>2, <1>5, <2>2, <3>1 DEF Cools
    <2> QED BY <2>1, <2>2
  <1>7. CASE rows'[d] \notin InFlight
    BY <1>2, <1>6, <1>7, OperationRests
  <1>8. CASE rows'[d] \in InFlight
    <2>1. saved /\ rs = rows /\ rows' = rows
      BY <1>2, <1>3, <1>5, <1>8, Cooling
    <2>2. ASSUME daemon = "up" PROVE current' = d /\ ~ session'.finished
      <3>1. current = d /\ ~ session.finished
        BY <1>3, <1>4, <1>8, <2>1, <2>2 DEF AttendedInv, NoticedInv, Noticed
      <3>2. ~ exits
        BY <1>5, <1>8, <2>1, <3>1 DEF ExitIsNews
      <3> QED BY <1>1, <1>2, <2>1, <3>1, <3>2
    <2>3. OpRowInv'
      BY <1>2, <2>1 DEF OpRowInv
    <2>4. NoticedInv'
      BY <1>2, <1>6, <2>2, OwnRowIsLatest DEF NoticedInv, Noticed
    <2>5. SweptInv'
      BY <1>2, <2>1 DEF AttendedInv, SweptInv
    <2> QED BY <2>3, <2>4, <2>5 DEF AttendedInv
  <1> QED BY <1>7, <1>8

LEMMA PromptStepAttended ==
  ASSUME TypeOK, SafetyInv, AttendedInv, PromptStep
  PROVE  AttendedInv'
  <1>1. ASSUME op.pc # "idle" PROVE op.prompt \in Prompt
    BY <1>1 DEF TypeOK
  <1>2. \A rs : Cools(rs, rs)
    BY DEF Cools
  <1>4. ASSUME op.pc \in {"refused", "preflight", "killing", "ready", "disposing", "recording"},
               Cools(rows, rows'), daemon' = daemon,
               op'.pc # "idle" => /\ op'.prompt = op.prompt
                                  /\ op'.pc \in {"killing", "ready", "recording"}
        PROVE  AttendedInv'
    <2>1. CASE daemon = "up"
      <3>1. rows[op.prompt] \notin InFlight
        BY <1>4, <2>1 DEF AttendedInv, OpRowInv
      <3>2. rows'[op.prompt] \notin InFlight
        BY <1>1, <1>4, <3>1 DEF Cools
      <3> QED BY <1>4, <3>2, OperationRests
    <2>2. CASE daemon # "up"
      <3>1. OpRowInv'
        BY <1>1, <1>4, <2>2 DEF AttendedInv, OpRowInv, Cools
      <3> QED BY <1>4, <2>2, <3>1 DEF AttendedInv, NoticedInv, SweptInv, Cools
    <2> QED BY <2>1, <2>2
  <1>5. ASSUME PreflightPasses \/ KillDone PROVE AttendedInv'
    <2>1. op'.prompt = op.prompt /\ op'.pc \in {"killing", "ready"}
      BY <1>5 DEF PreflightPasses, KillDone, TypeOK, Operation
    <2> QED BY <1>2, <1>4, <1>5, <2>1 DEF PreflightPasses, KillDone
  <1>6. ASSUME NEW cur, Fail(cur), op.pc \in {"refused", "preflight", "killing"}
        PROVE  AttendedInv'
    <2>1. rows' = FailedRows(rows, op.prompt) /\ daemon' = daemon /\ op' \in {NoOp, Noting(op.prompt)}
      BY <1>6 DEF Fail, AfterRecording, Noting
    <2>2. op'.pc # "idle" => op'.prompt = op.prompt /\ op'.pc = "recording"
      BY <2>1 DEF NoOp, Noting
    <2>3. Cools(rows, rows')
      BY <1>1, <1>6, <2>1, Cooling DEF TypeOK
    <2> QED BY <1>4, <1>6, <2>1, <2>2, <2>3
  <1>7. ASSUME PreflightFails \/ KillFails PROVE AttendedInv'
    BY <1>6, <1>7 DEF PreflightFails, KillFails
  <1>8. ASSUME Dispatch PROVE AttendedInv'
    <2>1. op.pc = "ready" /\ op.prompt \in Prompt /\ daemon' = daemon
      BY <1>1, <1>8 DEF Dispatch
    <2>2. /\ op'.prompt = op.prompt /\ op'.pc \in {"spawnFailed", "startup"}
          /\ op'.pc = "startup" => current' = op.prompt
      <3>1. op.prompt # NoChild
        BY <2>1, MaxPromptsAssumption DEF NoChild, Prompt
      <3>2. PICK pc \in {"spawnFailed", "startup"}, cur \in {op.prompt, NoChild} :
              /\ op' = [op EXCEPT !.pc = pc, !.child = cur]
              /\ current' = IF cur = NoChild THEN current ELSE cur
              /\ pc = "startup" => cur = op.prompt
        BY <1>8 DEF Dispatch
      <3>3. op'.pc = pc /\ op'.prompt = op.prompt
        BY <3>2 DEF TypeOK, Operation
      <3> QED BY <3>1, <3>2, <3>3
    <2>3. Live /\ rows' = MarkDispatching(rows, op.prompt)
      BY <1>8 DEF Dispatch
    <2>4. /\ \A e \in Prompt : rows'[e] = "absent" <=> rows[e] = "absent"
          /\ \A e \in Prompt : e # op.prompt => rows'[e] = rows[e]
      BY <2>1, <2>3 DEF MarkDispatching, ById
    <2>5. OpRowInv'
      BY <2>1, <2>2, <2>4 DEF AttendedInv, OpRowInv
    <2>6. NoticedInv'
      <3> SUFFICES ASSUME NEW d \in Prompt, IsLatestRow(d)' PROVE d = op.prompt
        BY <2>2 DEF NoticedInv, Noticed
      <3>1. rows[d] # "absent" /\ \A e \in Prompt : e > d => rows[e] = "absent"
        BY <2>4 DEF IsLatestRow
      <3>2. rows[op.prompt] # "absent" /\ \A e \in Prompt : e > op.prompt => rows[e] = "absent"
        BY <2>1 DEF AttendedInv, OpRowInv, SafetyInv, OpInv
      <3> QED BY <2>1, <3>1, <3>2 DEF Prompt
    <2>7. SweptInv'
      BY <2>1, <2>3 DEF SweptInv, Live
    <2> QED BY <2>5, <2>6, <2>7 DEF AttendedInv
  <1>9. ASSUME StartupReady PROVE AttendedInv'
    <2>1. /\ op.pc = "startup" /\ op.prompt \in Prompt /\ UNCHANGED <<current, daemon>> /\ Live
          /\ rows' = MarkAccepted(rows, op.prompt)
      BY <1>1, <1>9 DEF StartupReady
    <2>2. op'.prompt = op.prompt /\ op'.pc = "persisting" /\ ~ session'.finished
      BY <1>9 DEF StartupReady, TypeOK, Operation, SessionDetail
    <2>3. Cools(rows, rows')
      BY <2>1 DEF MarkAccepted, ById, Cools, InFlight
    <2>4. OpRowInv'
      BY <2>1, <2>2, <2>3 DEF AttendedInv, OpRowInv, Cools
    <2>5. NoticedInv'
      <3> SUFFICES ASSUME daemon = "up", NEW d \in Prompt, IsLatestRow(d)', rows'[d] \in InFlight
                   PROVE  Noticed(d)'
        BY <2>1 DEF NoticedInv
      <3>1. d = op.prompt
        BY <2>1, <2>3, OwnRowIsLatest
      <3>2. rows[d] \in InFlight
        BY <2>3 DEF Cools
      <3>3. current = d
        BY <2>1, <3>1, <3>2 DEF AttendedInv, OpRowInv
      <3> QED BY <2>1, <2>2, <3>3 DEF Noticed
    <2>6. SweptInv'
      BY <2>1 DEF SweptInv, Live
    <2> QED BY <2>4, <2>5, <2>6 DEF AttendedInv
  <1>10. ASSUME StartupFails PROVE AttendedInv'
    <2>1. /\ op.pc = "spawnFailed" /\ op.prompt \in Prompt /\ daemon' = daemon
          /\ rows' = FailedRows(MarkNotSentAfterSynchronousSpawnFailure(rows, op.prompt), op.prompt)
      BY <1>1, <1>10 DEF StartupFails
    <2>2. op'.prompt = op.prompt
      <3>1. \A x : [op EXCEPT !.pc = "disposing", !.verdict = x].prompt = op.prompt
        BY DEF TypeOK, Operation
      <3> QED BY <1>10, <3>1 DEF StartupFails
    <2>3. Cools(rows, rows') /\ rows'[op.prompt] \notin InFlight
      BY <2>1, Cooling DEF TypeOK
    <2> QED BY <2>1, <2>2, <2>3, OperationRests
  <1>11. ASSUME Dispose PROVE AttendedInv'
    <2>1. op.pc = "disposing" /\ rows' = rows /\ daemon' = daemon
      BY <1>11 DEF Dispose
    <2>2. op'.pc # "idle" => op'.prompt = op.prompt /\ op'.pc = "recording"
      BY <1>11 DEF Dispose, AfterRecording, NoOp
    <2> QED BY <1>2, <1>4, <2>1, <2>2
  <1>12. ASSUME RecordingDone PROVE AttendedInv'
    <2>1. op'.pc = "idle"
      BY <1>12 DEF RecordingDone, NoOp
    <2> QED BY <1>2, <1>4, <1>12, <2>1 DEF RecordingDone
  <1>13. ASSUME StartPersisted PROVE AttendedInv'
    BY <1>13, StartedAttended DEF StartPersisted
  <1>14. ASSUME StartPersistFails PROVE AttendedInv'
    BY <1>14, StartedAttended DEF StartPersistFails
  <1> QED
    BY <1>5, <1>7, <1>8, <1>9, <1>10, <1>11, <1>12, <1>13, <1>14 DEF PromptStep

LEMMA ExitsAttended ==
  ASSUME TypeOK, SafetyInv, AttendedInv, NEW c \in Child, NEW code \in ExitCode,
         NEW conflict \in BOOLEAN, ProcessExits(c, code, conflict)
  PROVE  AttendedInv'
  <1> DEFINE seen == Live /\ Watched(c)
  <1>1. op' = op /\ daemon' = daemon /\ MayExit(session, c, code, conflict)
    BY DEF ProcessExits
  <1>2. seen => /\ rows' = ExitRows(session, rows, c, code, conflict)
                /\ session' = ExitSession(session, rows, c, code, conflict)
                /\ current' = ExitCurrent(c)
    BY DEF ProcessExits
  <1>3. CASE ~ seen
    <2>1. UNCHANGED <<rows, session, current>>
      BY <1>3 DEF ProcessExits
    <2>2. Cools(rows, rows')
      BY <2>1 DEF Cools
    <2> QED BY <1>1, <2>1, <2>2, AttendedQuiet
  <1>4. CASE seen /\ ExitIsNews(session, c)
    <2>1. /\ Cools(rows, rows')
          /\ \A d \in Prompt : IsLatestRow(d) => rows'[d] \notin InFlight
      BY <1>1, <1>2, <1>4, ExitCools
    <2>2. CASE op.pc # "idle"
      <3>1. op.prompt \in Prompt /\ IsLatestRow(op.prompt)
        BY <2>2 DEF TypeOK, SafetyInv, OpInv, AttendedInv, OpRowInv, IsLatestRow
      <3> QED BY <1>1, <2>1, <2>2, <3>1, OperationRests
    <2>3. CASE op.pc = "idle"
      <3>1. NoticedInv'
        BY <2>1 DEF NoticedInv, IsLatestRow, Cools
      <3> QED BY <1>1, <2>1, <2>3, <3>1 DEF AttendedInv, OpRowInv, SweptInv, Cools
    <2> QED BY <2>2, <2>3
  <1>5. CASE seen /\ ~ ExitIsNews(session, c)
    <2>1. rows' = rows /\ session' = session /\ current' = ExitCurrent(c)
      BY <1>2, <1>5 DEF ExitRows, ExitSession
    <2>2. current = c => session.finished
      BY <1>5 DEF ExitIsNews
    <2>3. OpRowInv'
      <3>1. op.prompt = c => op.pc # "startup"
        BY <1>5 DEF Watched
      <3> QED BY <1>1, <2>1, <3>1 DEF AttendedInv, OpRowInv, ExitCurrent
    <2>4. NoticedInv'
      BY <1>1, <2>1, <2>2 DEF AttendedInv, NoticedInv, Noticed, IsLatestRow, ExitCurrent
    <2>5. SweptInv'
      BY <1>1, <2>1 DEF AttendedInv, SweptInv
    <2> QED BY <2>3, <2>4, <2>5 DEF AttendedInv
  <1> QED BY <1>3, <1>4, <1>5

(* A step after which no row is in flight, or the daemon is going down.    *)
LEMMA NothingToNotice ==
  ASSUME TypeOK, AttendedInv, Cools(rows, rows'),
         op' = op \/ op'.pc = "idle",
         \/ \A d \in Prompt : rows'[d] \notin InFlight
         \/ daemon' \in {"draining", "closing", "down"}
  PROVE  AttendedInv'
  <1>1. op.pc # "idle" => op.prompt \in Prompt
    BY DEF TypeOK
  <1>2. OpRowInv'
    BY <1>1 DEF AttendedInv, OpRowInv, Cools
  <1> QED BY <1>2 DEF AttendedInv, NoticedInv, SweptInv

LEMMA SyncAttended ==
  ASSUME TypeOK, AttendedInv, Sync
  PROVE  AttendedInv'
  <1>1. Cools(rows, rows)
    BY DEF Cools
  <1>2. ASSUME NEW v, SyncUnchanged \/ SyncRecovery(v) \/ SyncBusy(v) \/ SyncWaiting(v)
        PROVE  AttendedInv'
    <2>1. UNCHANGED <<rows, current, op, daemon>>
      BY <1>2 DEF SyncUnchanged, SyncRecovery, SyncBusy, SyncWaiting
    <2>2. session'.finished = session.finished
      BY <1>2 DEF SyncUnchanged, SyncRecovery, RecoveredSession, SyncBusy, SyncWaiting,
                  TypeOK, SessionDetail
    <2> QED BY <1>1, <2>1, <2>2, AttendedQuiet
  <1>3. ASSUME NEW v, SyncCompleted(v) PROVE AttendedInv'
    <2> DEFINE s == [session EXCEPT !.reply = EmptyReply, !.recovery = NoRecovery]
    <2>1. rows' = FinishedRows(s, rows, "done", "zero", FALSE) /\ op' = op /\ daemon = "up"
      BY <1>3 DEF SyncCompleted, Sync
    <2>2. s.reply.phase = "idle" /\ s.recovery = NoRecovery
      BY DEF TypeOK, SessionDetail, EmptyReply, Reply
    <2>3. rows' = MarkCompleted(rows)
      BY <2>1, <2>2 DEF FinishedRows, Uncertain
    <2>4. 1 \in Prompt
      BY MaxPromptsAssumption DEF Prompt
    <2>5. Cools(rows, rows') /\ \A d \in Prompt : rows'[d] \notin InFlight
      BY <2>3, <2>4, Cooling DEF TypeOK
    <2> QED BY <2>1, <2>5, NothingToNotice
  <1> QED BY <1>2, <1>3 DEF Sync

LEMMA DaemonAttended ==
  ASSUME TypeOK, AttendedInv,
         Resolve \/ Persist \/ BeginShutdown \/ CloseRunner \/ Close \/ Crash \/ Restart \/ RestartDone
  PROVE  AttendedInv'
  <1>1. Cools(rows, rows) /\ 1 \in Prompt /\ rows \in Rows
    BY MaxPromptsAssumption DEF Cools, Prompt, TypeOK
  <1>2. ASSUME Resolve PROVE AttendedInv'
    <2>1. /\ rows' \in {rows, MarkCompleted(rows), MarkObservedBySession(rows)}
          /\ UNCHANGED <<session, current, op, daemon>>
      BY <1>2 DEF Resolve
    <2>2. Cools(rows, rows')
      BY <1>1, <2>1, Cooling
    <2> QED BY <2>1, <2>2, AttendedQuiet
  <1>3. ASSUME Persist PROVE AttendedInv'
    <2>1. /\ UNCHANGED <<rows, session, current, daemon>>
          /\ op'.prompt = op.prompt
          /\ op'.pc = op.pc \/ (op.pc = "persisting" /\ op'.pc = "persisted")
      BY <1>3 DEF Persist, TypeOK, Operation
    <2>2. OpRowInv' /\ NoticedInv'
      BY <2>1 DEF AttendedInv, OpRowInv, NoticedInv, Noticed, IsLatestRow
    <2> QED BY <2>1, <2>2 DEF AttendedInv, SweptInv
  <1>4. ASSUME BeginShutdown PROVE AttendedInv'
    <2>1. rows' = MarkActiveOutcomeUnknownForShutdown(rows) /\ op' = op /\ daemon' = "draining"
      BY <1>4 DEF BeginShutdown
    <2>2. Cools(rows, rows')
      BY <1>1, <2>1, Cooling
    <2> QED BY <2>1, <2>2, NothingToNotice
  <1>5. ASSUME CloseRunner PROVE AttendedInv'
    BY <1>1, <1>5, NothingToNotice DEF CloseRunner
  <1>6. ASSUME Close \/ Crash PROVE AttendedInv'
    <2>1. daemon' = "down" /\ op'.pc = "idle"
      BY <1>6 DEF Close, Crash, Halt, NoOp
    <2>2. rows' \in {rows, MarkOutcomeUnknownBySession(rows)}
      BY <1>6 DEF Close, Crash
    <2>3. Cools(rows, rows')
      BY <1>1, <2>2, Cooling
    <2> QED BY <2>1, <2>3, NothingToNotice
  <1>7. ASSUME Restart PROVE AttendedInv'
    <2>1. rows' = RecoverActiveAfterRestart(rows) /\ op' = op
      BY <1>7 DEF Restart
    <2>2. Cools(rows, rows') /\ \A d \in Prompt : rows'[d] \notin InFlight
      BY <1>1, <2>1, Cooling
    <2> QED BY <2>1, <2>2, NothingToNotice
  <1>8. ASSUME RestartDone PROVE AttendedInv'
    <2>1. rows' = rows /\ op' = op /\ \A d \in Prompt : rows[d] \notin InFlight
      BY <1>8 DEF RestartDone, AttendedInv, SweptInv
    <2> QED BY <1>1, <2>1, NothingToNotice
  <1> QED BY <1>2, <1>3, <1>4, <1>5, <1>6, <1>7, <1>8

LEMMA SendAttended ==
  ASSUME TypeOK, AttendedInv, SendPrompt
  PROVE  AttendedInv'
  <1>1. PICK d \in Prompt :
          /\ daemon = "up" /\ daemon' = daemon
          /\ IsNext(rows, d)
          /\ rows' = Prepare(rows, d)
          /\ op'.prompt = d
    BY DEF SendPrompt, CanStart
  <1>2. /\ rows'[d] = "prepared" /\ rows[d] = "absent"
        /\ \A e \in Prompt \ {d} : rows'[e] = rows[e]
        /\ \A e \in Prompt : e > d => rows[e] = "absent"
    BY <1>1 DEF IsNext, Prepare, TypeOK, Rows, Prompt
  <1>3. ASSUME NEW e \in Prompt, IsLatestRow(e)' PROVE e = d
    <2>1. rows'[e] # "absent" /\ ~ d > e
      BY <1>2, <1>3 DEF IsLatestRow
    <2> QED BY <1>2, <2>1 DEF Prompt
  <1>4. OpRowInv' /\ NoticedInv'
    BY <1>1, <1>2, <1>3 DEF OpRowInv, NoticedInv, InFlight
  <1>5. SweptInv'
    BY <1>1 DEF SweptInv
  <1> QED BY <1>4, <1>5 DEF AttendedInv

LEMMA StepAttended ==
  ASSUME TypeOK, SafetyInv, AttendedInv, [Next]_vars
  PROVE  AttendedInv'
  <1>1. Cools(rows, rows)
    BY DEF Cools
  <1>2. ASSUME NEW d \in Prompt, RuntimeTakesPrompt(d) \/ TurnEnds(d) PROVE AttendedInv'
    BY <1>1, <1>2, AttendedQuiet DEF RuntimeTakesPrompt, TurnEnds
  <1>3. ASSUME RequestStop \/ StopDetached \/ StopDone \/ StopFails PROVE AttendedInv'
    <2>1. UNCHANGED <<rows, current, op, daemon>>
      BY <1>3 DEF RequestStop, StopDetached, StopDone, StopFails
    <2>2. session'.finished => session.finished \/ current = NoChild
      BY <1>3 DEF RequestStop, StopDetached, StopDone, StopFails, TypeOK, SessionDetail
    <2> QED BY <1>1, <2>1, <2>2, AttendedQuiet
  <1>4. ASSUME ResolvePersistFails \/ GiveUpChecking \/ UNCHANGED vars PROVE AttendedInv'
    <2>1. UNCHANGED <<rows, current, op, daemon>>
      BY <1>4 DEF ResolvePersistFails, GiveUpChecking, vars
    <2>2. session'.finished = session.finished
      BY <1>4 DEF ResolvePersistFails, GiveUpChecking, vars, TypeOK, SessionDetail
    <2> QED BY <1>1, <2>1, <2>2, AttendedQuiet
  <1> QED
    BY SendAttended, PromptStepAttended, ExitsAttended, SyncAttended, DaemonAttended,
       <1>2, <1>3, <1>4 DEF Next

LEMMA AttendedInvariant == Spec => []AttendedInv
  <1>1. Init => AttendedInv
    BY DEF Init, AttendedInv, OpRowInv, NoticedInv, SweptInv, IsLatestRow, NoOp, NoRows
  <1>2. TypeOK /\ SafetyInv /\ AttendedInv /\ [Next]_vars => AttendedInv'
    BY StepAttended
  <1> QED BY <1>1, <1>2, TypeCorrect, SafetyInvariant, PTL DEF Spec

(* The latest prompt of a running daemon is never left in flight without   *)
(* anybody who will settle its row: the operation that starts it, the exit *)
(* of its child, or a recovery that the session shows.                     *)
THEOREM LatestIsAttended == Spec => []InFlightAttended
  <1>1. AttendedInv => InFlightAttended
    <2> SUFFICES ASSUME AttendedInv, daemon = "up", NEW d \in Prompt, rows[d] \in InFlight,
                        \A e \in Prompt : e > d => rows[e] = "absent"
                 PROVE  op.prompt = d \/ current = d
      BY DEF InFlightAttended
    <2>1. IsLatestRow(d)
      BY DEF IsLatestRow, InFlight
    <2> QED BY <2>1 DEF AttendedInv, NoticedInv, Noticed
  <1> QED BY <1>1, AttendedInvariant, PTL

-----------------------------------------------------------------------------
(* Which child is tracked while a prompt is being started.                 *)

Before == {"preflight", "killing", "ready"}
Within == {"startup", "spawnFailed", "disposing"}

ChildInv ==
  /\ op.pc \in Before /\ Adapter = "claude" => op.child = NoChild
  /\ op.pc \in {"killing", "ready"} => current = NoChild
  /\ op.pc \in Within => current \in {op.child, NoChild} /\ op.child \in {op.prompt, NoChild}

LEMMA ChildKept ==
  ASSUME ChildInv, current' \in {current, NoChild},
         op' = op \/ op'.pc \notin Before \cup Within
  PROVE  ChildInv'
  BY DEF ChildInv, Before, Within

LEMMA StepChild ==
  ASSUME TypeOK, SafetyInv, ChildInv, [Next]_vars
  PROVE  ChildInv'
  <1> USE DEF Before, Within
  <1>1. ASSUME SendPrompt PROVE ChildInv'
    <2>1. /\ op'.child = current /\ current' = current
          /\ op'.pc = IF TransportAccepts THEN "preflight" ELSE "refused"
      BY <1>1 DEF SendPrompt
    <2>2. op'.pc \in Before /\ Adapter = "claude" => current = NoChild
      BY <2>1 DEF TransportAccepts
    <2> QED BY <2>1, <2>2 DEF ChildInv
  <1>2. ASSUME PreflightPasses \/ KillDone PROVE ChildInv'
    <2>1. op'.child = op.child /\ op'.pc \in {"killing", "ready"} /\ op.pc \in Before
      BY <1>2 DEF PreflightPasses, KillDone, TypeOK, Operation
    <2>2. current' = NoChild
      <3>1. current \in {op.child, NoChild}
        BY <2>1 DEF SafetyInv, OpInv, Pending
      <3>2. CASE Adapter = "codex"
        BY <1>2, <3>1, <3>2 DEF PreflightPasses, KillDone, ChildInv
      <3>3. CASE Adapter = "claude"
        BY <1>2, <2>1, <3>1, <3>3 DEF PreflightPasses, KillDone, ChildInv
      <3> QED BY <3>2, <3>3, AdapterAssumption
    <2> QED BY <2>1, <2>2 DEF ChildInv
  <1>3. ASSUME NEW cur, Fail(cur) PROVE ChildInv'
    <2>1. op'.pc \in {"idle", "recording"}
      BY <1>3 DEF Fail, AfterRecording, NoOp
    <2> QED BY <2>1 DEF ChildInv
  <1>4. ASSUME PreflightFails \/ KillFails PROVE ChildInv'
    BY <1>3, <1>4 DEF PreflightFails, KillFails
  <1>5. ASSUME Dispatch PROVE ChildInv'
    <2>1. op.pc = "ready" /\ current = NoChild
      BY <1>5 DEF Dispatch, ChildInv
    <2>2. PICK pc \in {"spawnFailed", "startup"}, cur \in {NoChild, op.prompt} :
            /\ op' = [op EXCEPT !.pc = pc, !.child = cur]
            /\ current' = IF cur = NoChild THEN current ELSE cur
      BY <1>5 DEF Dispatch
    <2>3. op'.pc = pc /\ op'.prompt = op.prompt /\ op'.child = cur
      BY <2>2 DEF TypeOK, Operation
    <2> QED BY <2>1, <2>2, <2>3 DEF ChildInv
  <1>6. ASSUME StartupReady PROVE ChildInv'
    <2>1. op'.pc = "persisting"
      BY <1>6 DEF StartupReady, TypeOK, Operation
    <2> QED BY <2>1 DEF ChildInv
  <1>7. ASSUME StartupFails PROVE ChildInv'
    <2>1. \A x : LET o == [op EXCEPT !.pc = "disposing", !.verdict = x] IN
                   o.prompt = op.prompt /\ o.child = op.child /\ o.pc = "disposing"
      BY DEF TypeOK, Operation
    <2>2. op'.prompt = op.prompt /\ op'.child = op.child /\ op'.pc = "disposing"
      BY <1>7, <2>1 DEF StartupFails
    <2> QED BY <1>7, <2>2 DEF StartupFails, ChildInv
  <1>8. ASSUME Dispose \/ RecordingDone \/ StartPersisted \/ StartPersistFails PROVE ChildInv'
    <2>1. op'.pc \in {"idle", "recording"}
      BY <1>8 DEF Dispose, RecordingDone, StartPersisted, StartPersistFails, Started,
                  AfterRecording, NoOp
    <2> QED BY <2>1 DEF ChildInv
  <1>9. ASSUME PromptStep PROVE ChildInv'
    BY <1>2, <1>4, <1>5, <1>6, <1>7, <1>8, <1>9 DEF PromptStep
  <1>10. ASSUME NEW c, NEW code, NEW conflict, ProcessExits(c, code, conflict) PROVE ChildInv'
    BY <1>10, ChildKept DEF ProcessExits, ExitCurrent
  <1>11. ASSUME NEW d, RuntimeTakesPrompt(d) \/ TurnEnds(d) PROVE ChildInv'
    BY <1>11, ChildKept DEF RuntimeTakesPrompt, TurnEnds
  <1>12. ASSUME RequestStop \/ StopDetached \/ StopDone \/ StopFails PROVE ChildInv'
    BY <1>12, ChildKept DEF RequestStop, StopDetached, StopDone, StopFails
  <1>13. ASSUME Sync PROVE ChildInv'
    <2>1. op' = op /\ current' \in {current, NoChild}
      BY <1>13 DEF Sync, SyncUnchanged, SyncRecovery, SyncBusy, SyncWaiting, SyncCompleted
    <2> QED BY <2>1, ChildKept
  <1>14. ASSUME Resolve \/ ResolvePersistFails \/ GiveUpChecking \/ BeginShutdown \/ CloseRunner
                \/ Restart \/ RestartDone \/ UNCHANGED vars
         PROVE  ChildInv'
    BY <1>14, ChildKept DEF Resolve, ResolvePersistFails, GiveUpChecking, BeginShutdown,
                            CloseRunner, Restart, RestartDone, vars
  <1>15. ASSUME Persist PROVE ChildInv'
    <2>1. current' = current /\ (op' = op \/ op'.pc = "persisted")
      BY <1>15 DEF Persist, TypeOK, Operation
    <2> QED BY <2>1, ChildKept
  <1>16. ASSUME Close \/ Crash PROVE ChildInv'
    BY <1>16, ChildKept DEF Close, Crash, Halt, NoOp
  <1> QED
    BY <1>1, <1>9, <1>10, <1>11, <1>12, <1>13, <1>14, <1>15, <1>16 DEF Next

-----------------------------------------------------------------------------
(* While a termination that was asked for is confirmed (a Claude session   *)
(* has none to ask for before a prompt), the session shows what is unknown *)
(* for as long as it is, and no prompt is started meanwhile.               *)

Calm == Adapter = "claude" \/ "kill" \notin Faults

BlockedInv ==
  /\ op.pc \in Before \cup Within => ~ Recovering
  /\ Recovering /\ session.recovery.observed => current = NoChild
  /\ /\ Adapter = "codex" /\ op.pc \notin Within /\ ~ Recovering
     /\ op.pc \in Before \/ session.reply.phase = "idle"
     /\ current # NoChild
     /\ \E d \in Prompt : rows[d] \in InFlight
     => session.status = "stopped"

(* What a failure, and what an exit, does to the record.                   *)
LEMMA RecordedEffect ==
  ASSUME NEW s \in SessionDetail, NEW d \in Prompt,
         NEW verdict \in {"none", "not_sent", "outcome_unknown"}
  PROVE  LET t == Recorded(s, d, verdict) IN
           /\ t.status = s.status /\ t.finished = s.finished /\ t.reply = s.reply
           /\ \/ t.recovery = s.recovery
              \/ /\ verdict = "outcome_unknown"
                 /\ t.recovery = Reply("outcome_unknown", d, TRUE, FALSE)
              \/ /\ verdict = "not_sent" /\ s.recovery = NoRecovery
                 /\ t.recovery = Reply("not_sent", d, TRUE, FALSE)
  BY DEF Recorded, SessionDetail

LEMMA ExitEffect ==
  ASSUME TypeOK, NEW c, NEW code \in ExitCode, NEW conflict \in BOOLEAN,
         MayExit(session, c, code, conflict)
  PROVE  LET t == ExitSession(session, rows, c, code, conflict) IN
           /\ ~ ExitIsNews(session, c) => t = session
           /\ ExitIsNews(session, c) =>
                /\ t.finished
                /\ Adapter = "codex" => t.reply = EmptyReply
                /\ \/ t.recovery = session.recovery
                   \/ /\ t.recovery.phase \in {"checking", "outcome_unknown"}
                      /\ session.status # "stopped"
                      /\ \E d \in Prompt : rows[d] \in InFlight
                   \/ /\ t.recovery.phase = "not_sent"
                      /\ conflict /\ session.status # "stopped"
                      /\ t.recovery.prompt = session.reply.prompt
  <1> DEFINE status == ExitedStatus(session, code)
             t == ExitSession(session, rows, c, code, conflict)
             rec == FinishedRecovery(session, rows, status, code, conflict)
  <1>1. CASE ~ ExitIsNews(session, c)
    BY <1>1 DEF ExitSession
  <1>2. CASE ExitIsNews(session, c)
    <2>1. t = FinishedSession(session, rows, status, code, conflict)
      BY <1>2 DEF ExitSession
    <2>2. /\ t.finished /\ t.recovery = rec
          /\ Adapter = "codex" => t.reply = EmptyReply
      BY <2>1 DEF FinishedSession, TypeOK, SessionDetail
    <2>3. session.status = "stopped" => status = "stopped"
      BY DEF ExitedStatus
    <2>4. \/ rec = session.recovery
          \/ /\ rec = UncertainRecovery(session, rows) /\ status # "stopped"
          \/ /\ rec.phase = "not_sent" /\ rec.prompt = session.reply.prompt
             /\ conflict /\ status = "failed"
      BY DEF FinishedRecovery, Reply
    <2>5. \/ UncertainRecovery(session, rows) = session.recovery
          \/ /\ UncertainRecovery(session, rows).phase \in {"checking", "outcome_unknown"}
             /\ \E d \in Prompt : rows[d] \in InFlight
      BY DEF UncertainRecovery, Reply
    <2> HIDE DEF t, rec, status
    <2> QED BY <1>2, <2>2, <2>3, <2>4, <2>5 DEF t
  <1> QED BY <1>1, <1>2

(* A step that starts nothing.                                             *)
LEMMA BlockedKept ==
  ASSUME TypeOK, BlockedInv, Cools(rows, rows'),
         \/ op'.pc = op.pc
         \/ op'.pc \notin Before \cup Within /\ op.pc \notin Within,
         op'.pc \in Before \cup Within /\ Recovering' => Recovering,
         \/ current' = NoChild
         \/ /\ current' = current
            /\ Recovering => Recovering'
            /\ Recovering' /\ session'.recovery.observed =>
                 Recovering /\ session.recovery.observed
            /\ Adapter = "codex" =>
                 \/ session'.status = "stopped"
                 \/ /\ session'.status = session.status
                    /\ session'.reply.phase = "idle" => session.reply.phase = "idle" \/ Recovering'
  PROVE  BlockedInv'
  <1>1. (op.pc \in Before \cup Within => ~ Recovering)'
    BY DEF BlockedInv
  <1>2. (Recovering /\ session.recovery.observed => current = NoChild)'
    BY DEF BlockedInv
  <1>3. (\E d \in Prompt : rows'[d] \in InFlight) => \E d \in Prompt : rows[d] \in InFlight
    BY DEF Cools
  <1>4. ASSUME Adapter = "codex", op'.pc \notin Within, ~ Recovering',
               op'.pc \in Before \/ session'.reply.phase = "idle", current' # NoChild,
               \E d \in Prompt : rows'[d] \in InFlight
        PROVE  session'.status = "stopped"
    <2>1. op'.pc \in Before => op.pc \in Before
      BY DEF Before, Within
    <2> QED BY <1>3, <1>4, <2>1 DEF BlockedInv, Before, Within
  <1> QED BY <1>1, <1>2, <1>4 DEF BlockedInv

LEMMA PromptStepBlocked ==
  ASSUME Calm, TypeOK, SafetyInv, AttendedInv, ChildInv, BlockedInv, PromptStep
  PROVE  BlockedInv'
  <1>1. ASSUME op.pc # "idle" PROVE op.prompt \in Prompt
    BY <1>1 DEF TypeOK
  <1>2. \A rs : Cools(rs, rs)
    BY DEF Cools
  <1>3. ASSUME PreflightPasses \/ KillDone PROVE BlockedInv'
    <2>1. /\ op'.pc \in Before /\ op.pc \in Before /\ UNCHANGED <<rows, session>>
          /\ current' \in {current, NoChild}
      BY <1>3 DEF PreflightPasses, KillDone, TypeOK, Operation, Before
    <2> QED BY <2>1 DEF BlockedInv, Recovering, Before, Within
  <1>4. ASSUME Fail(current), op.pc # "idle", op.pc \notin Within PROVE BlockedInv'
    <2> DEFINE verdict == FailedVerdict(rows, op.prompt)
    <2>1. /\ rows' = FailedRows(rows, op.prompt) /\ current' = current
          /\ session' = Recorded(session, op.prompt, verdict)
          /\ op'.pc \in {"idle", "recording"}
      BY <1>4 DEF Fail, AfterRecording, NoOp
    <2>2. verdict \in {"none", "not_sent", "outcome_unknown"}
      BY DEF FailedVerdict
    <2>3. Cools(rows, rows')
      BY <1>1, <1>4, <2>1, Cooling DEF TypeOK
    <2> HIDE DEF verdict
    <2>4. /\ session'.status = session.status /\ session'.reply = session.reply
          /\ \/ session'.recovery = session.recovery
             \/ session'.recovery = Reply("outcome_unknown", op.prompt, TRUE, FALSE)
             \/ /\ session.recovery = NoRecovery
                /\ session'.recovery = Reply("not_sent", op.prompt, TRUE, FALSE)
      BY <1>1, <1>4, <2>1, <2>2, RecordedEffect DEF TypeOK
    <2> QED BY <1>4, <2>1, <2>3, <2>4, BlockedKept
            DEF Recovering, Reply, NoRecovery, Before, Within
  <1>5. ASSUME PreflightFails PROVE BlockedInv'
    BY <1>4, <1>5 DEF PreflightFails, Within
  <1>6. ASSUME KillFails PROVE BlockedInv'
    <2>1. Adapter = "claude" /\ op.pc = "killing"
      BY <1>6, AdapterAssumption DEF KillFails, Calm
    <2>2. op.child = NoChild /\ NoChild \notin Child
      BY <2>1, MaxPromptsAssumption DEF ChildInv, Before, NoChild, Child, Shell, Prompt
    <2>3. op.child \notin alive
      BY <2>2 DEF TypeOK
    <2> QED BY <1>4, <1>6, <2>1, <2>3 DEF KillFails, Within
  <1>7. ASSUME Dispatch PROVE BlockedInv'
    <2>1. op.pc = "ready" /\ session' = session /\ op'.pc \in Within
      BY <1>7 DEF Dispatch, TypeOK, Operation, Within
    <2> QED BY <2>1 DEF BlockedInv, Recovering, Before
  <1>8. ASSUME StartupReady PROVE BlockedInv'
    <2>1. /\ op'.pc = "persisting"
          /\ session'.reply = Reply("sending", op.prompt, TRUE, FALSE)
          /\ session'.recovery \in {NoRecovery, Reply("outcome_unknown", op.prompt, TRUE, FALSE)}
      BY <1>8 DEF StartupReady, TypeOK, Operation, SessionDetail
    <2> QED BY <2>1 DEF BlockedInv, Recovering, NoRecovery, Reply, Before, Within
  <1>9. ASSUME StartupFails PROVE BlockedInv'
    <2>1. op.pc \in Within /\ op'.pc \in Within /\ session' = session
      <3>1. \A x : [op EXCEPT !.pc = "disposing", !.verdict = x].pc = "disposing"
        BY DEF TypeOK, Operation
      <3> QED BY <1>9, <3>1 DEF StartupFails, Within
    <2> QED BY <2>1 DEF BlockedInv, Recovering
  <1>10. ASSUME Dispose PROVE BlockedInv'
    <2>1. op'.pc \in {"idle", "recording"}
      BY <1>10 DEF Dispose, AfterRecording, NoOp
    <2>2. current' = NoChild
      BY <1>10 DEF Dispose, ChildInv, Within
    <2> QED BY <2>1, <2>2 DEF BlockedInv, Before, Within
  <1>11. ASSUME RecordingDone PROVE BlockedInv'
    <2>1. /\ UNCHANGED <<rows, session, current>> /\ op.pc = "recording" /\ op'.pc = "idle"
      BY <1>11 DEF RecordingDone, NoOp
    <2> QED BY <1>2, <2>1, BlockedKept DEF Recovering, Before, Within
  <1>12. ASSUME NEW saved \in BOOLEAN, op.pc \in {"persisting", "persisted"}, Started(saved)
         PROVE  BlockedInv'
    <2> DEFINE d == op.prompt
               exits == d \notin alive
    <2>1. PICK code \in ExitCode, conflict \in BOOLEAN :
            LET rs == IF exits THEN ExitRows(session, rows, d, code, conflict) ELSE rows
                s  == IF exits THEN ExitSession(session, rows, d, code, conflict) ELSE session
                verdict == IF saved THEN "none" ELSE FailedVerdict(rs, d)
            IN
            /\ exits => MayExit(session, d, code, conflict)
            /\ rows' = IF saved THEN rs ELSE FailedRows(rs, d)
            /\ session' = Recorded(s, d, verdict)
            /\ op' = AfterRecording(s, d, verdict)
            /\ current' = IF exits THEN ExitCurrent(d) ELSE current
            /\ UNCHANGED <<disk, alive, turn, stop, resolution, daemon>>
      BY <1>12 DEF Started
    <2> DEFINE rs == IF exits THEN ExitRows(session, rows, d, code, conflict) ELSE rows
               verdict == IF saved THEN "none" ELSE FailedVerdict(rs, d)
    <2>2. op'.pc \in {"idle", "recording"} /\ current' \in {current, NoChild}
      BY <2>1 DEF AfterRecording, NoOp, ExitCurrent
    <2>3. CASE current' = NoChild
      BY <2>2, <2>3 DEF BlockedInv, Before, Within
    <2>4. CASE current' # NoChild
      <3>1. current' = current /\ ~ (exits /\ ExitIsNews(session, d))
        BY <2>1, <2>2, <2>4 DEF ExitIsNews, ExitCurrent
      <3>2. rs = rows /\ session' = Recorded(session, d, verdict)
        BY <2>1, <3>1 DEF ExitRows, ExitSession
      <3>3. rows' = IF saved THEN rows ELSE FailedRows(rows, d)
        BY <2>1, <3>2
      <3>4. Cools(rows, rows')
        BY <1>1, <1>2, <1>12, <3>3, Cooling DEF TypeOK
      <3>5. verdict \in {"none", "not_sent", "outcome_unknown"}
        BY DEF FailedVerdict
      <3> HIDE DEF verdict, rs
      <3>6. /\ session'.status = session.status /\ session'.reply = session.reply
            /\ \/ session'.recovery = session.recovery
               \/ session'.recovery = Reply("outcome_unknown", d, TRUE, FALSE)
               \/ /\ session.recovery = NoRecovery
                  /\ session'.recovery = Reply("not_sent", d, TRUE, FALSE)
        BY <1>1, <1>12, <3>2, <3>5, RecordedEffect DEF TypeOK
      <3> QED BY <1>12, <2>2, <3>1, <3>4, <3>6, BlockedKept
              DEF Recovering, Reply, NoRecovery, Before, Within
    <2> QED BY <2>3, <2>4
  <1>13. ASSUME StartPersisted \/ StartPersistFails PROVE BlockedInv'
    BY <1>12, <1>13 DEF StartPersisted, StartPersistFails
  <1> QED
    BY <1>3, <1>5, <1>6, <1>7, <1>8, <1>9, <1>10, <1>11, <1>13 DEF PromptStep

(* The child whose exit is news is not the one that is being started, and  *)
(* before a start it is the child of a session that was stopped.           *)
LEMMA ExitsBlocked ==
  ASSUME TypeOK, SafetyInv, ChildInv, BlockedInv, NEW c \in Child, NEW code \in ExitCode,
         NEW conflict \in BOOLEAN, ProcessExits(c, code, conflict)
  PROVE  BlockedInv'
  <1> DEFINE seen == Live /\ Watched(c)
  <1>1. op' = op /\ c \in alive /\ MayExit(session, c, code, conflict)
    BY DEF ProcessExits
  <1>2. seen => /\ rows' = ExitRows(session, rows, c, code, conflict)
                /\ session' = ExitSession(session, rows, c, code, conflict)
                /\ current' = ExitCurrent(c)
    BY DEF ProcessExits
  <1>3. ~ seen => UNCHANGED <<rows, session, current>>
    BY DEF ProcessExits
  <1>4. CASE ~ (seen /\ ExitIsNews(session, c))
    <2>1. rows' = rows /\ session' = session /\ current' \in {current, NoChild}
      BY <1>2, <1>3, <1>4 DEF ExitRows, ExitSession, ExitCurrent
    <2>2. Cools(rows, rows')
      BY <2>1 DEF Cools
    <2> QED BY <1>1, <2>1, <2>2, BlockedKept DEF Recovering
  <1>5. CASE seen /\ ExitIsNews(session, c)
    <2>1. Cools(rows, rows')
      BY <1>1, <1>2, <1>5, ExitCools
    <2>2. current = c /\ current' = NoChild /\ c # NoChild
      BY <1>2, <1>5, MaxPromptsAssumption
      DEF ExitIsNews, ExitCurrent, NoChild, Child, Shell, Prompt
    <2>3. op.pc \notin Within
      <3>1. ASSUME op.pc \in Within PROVE c = op.prompt
        BY <2>2, <3>1 DEF ChildInv
      <3>2. ASSUME op.pc \in {"spawnFailed", "disposing"} PROVE op.prompt \notin alive
        BY <3>2 DEF SafetyInv, OpInv, Untaken
      <3> QED BY <1>1, <1>5, <3>1, <3>2 DEF Watched, Within
    <2>4. ASSUME op.pc \in Before PROVE Adapter = "codex"
      <3>1. current \in {op.child, NoChild}
        BY <2>4 DEF SafetyInv, OpInv, Pending, Before
      <3> QED BY <2>2, <2>4, <3>1, AdapterAssumption DEF ChildInv
    <2>5. ASSUME op.pc \in Before, Recovering' PROVE FALSE
      <3>1. ~ Recovering
        BY <2>5 DEF BlockedInv
      <3>2. session.status # "stopped" /\ \E d \in Prompt : rows[d] \in InFlight
        BY <1>1, <1>2, <1>5, <2>5, <3>1, ExitEffect DEF Recovering
      <3> QED BY <2>2, <2>3, <2>4, <2>5, <3>1, <3>2 DEF BlockedInv
    <2> QED BY <1>1, <2>1, <2>2, <2>3, <2>5, BlockedKept
  <1> QED BY <1>4, <1>5

LEMMA SyncBlocked ==
  ASSUME TypeOK, BlockedInv, Sync
  PROVE  BlockedInv'
  <1>1. Cools(rows, rows)
    BY DEF Cools
  <1>2. ASSUME SyncUnchanged PROVE BlockedInv'
    BY <1>1, <1>2, BlockedKept DEF SyncUnchanged, Recovering
  <1>3. ASSUME NEW v, SyncRecovery(v) PROVE BlockedInv'
    <2>1. /\ Recovering /\ UNCHANGED <<rows, current, op>>
          /\ session' = RecoveredSession(v)
      BY <1>3 DEF SyncRecovery
    <2>2. CASE session.recovery.observed
      <3>1. current' = NoChild
        BY <2>1, <2>2 DEF BlockedInv
      <3> QED BY <1>1, <2>1, <3>1, BlockedKept
    <2>3. CASE ~ session.recovery.observed
      <3>1. /\ session'.recovery = Reply("outcome_unknown", session.recovery.prompt,
                                         session.recovery.linked, session.recovery.observed)
            /\ session'.status = session.status
        BY <2>1, <2>3 DEF RecoveredSession, TypeOK, SessionDetail, Terminal
      <3>2. Recovering' /\ ~ session'.recovery.observed
        BY <2>3, <3>1 DEF Recovering, Reply
      <3> QED BY <1>1, <2>1, <3>1, <3>2, BlockedKept
    <2> QED BY <2>2, <2>3
  <1>4. ASSUME NEW v, SyncBusy(v) \/ SyncWaiting(v) PROVE BlockedInv'
    <2>1. /\ UNCHANGED <<rows, current, op>>
          /\ session'.recovery = session.recovery /\ session'.status = session.status
      BY <1>4 DEF SyncBusy, SyncWaiting, TypeOK, SessionDetail
    <2>2. session'.reply.phase # "idle"
      <3>1. CASE SyncBusy(v)
        BY <3>1 DEF SyncBusy, TypeOK, SessionDetail, Reply
      <3>2. CASE SyncWaiting(v)
        <4>1. session.reply.phase # "idle"
          BY <3>2 DEF SyncWaiting, OwnedTurn
        <4>2. session.reply \in [phase : {"sending", "waiting"}, prompt : Prompt,
                                 linked : BOOLEAN, observed : BOOLEAN]
          BY <4>1 DEF TypeOK, SessionDetail, ReplyState, EmptyReply, Reply
        <4>3. session'.reply = [session.reply EXCEPT !.phase = "waiting", !.observed = TRUE]
          BY <3>2 DEF SyncWaiting, TypeOK, SessionDetail
        <4> QED BY <4>2, <4>3
      <3> QED BY <1>4, <3>1, <3>2
    <2> QED BY <1>1, <2>1, <2>2, BlockedKept DEF Recovering
  <1>5. ASSUME NEW v, SyncCompleted(v) PROVE BlockedInv'
    <2> DEFINE s == [session EXCEPT !.reply = EmptyReply, !.recovery = NoRecovery]
    <2>1. /\ rows' = FinishedRows(s, rows, "done", "zero", FALSE) /\ op' = op /\ daemon = "up"
          /\ session' = FinishedSession(s, rows, "done", "zero", FALSE)
          /\ current' \in {current, NoChild}
      BY <1>5 DEF SyncCompleted, Sync
    <2>2. s \in SessionDetail /\ s.reply.phase = "idle" /\ s.recovery = NoRecovery
      BY DEF TypeOK, SessionDetail, EmptyReply, Reply, ReplyState, PromptRecovery
    <2> HIDE DEF s
    <2>3. rows' = MarkCompleted(rows)
      BY <2>1, <2>2 DEF FinishedRows, Uncertain
    <2>4. \A d \in Prompt : rows'[d] \notin InFlight
      BY <2>3, MaxPromptsAssumption, Cooling DEF TypeOK, Prompt
    <2>5. session'.recovery = NoRecovery
      BY <2>1, <2>2 DEF FinishedSession, FinishedRecovery, Uncertain, SessionDetail
    <2>6. ~ Recovering'
      BY <2>5 DEF Recovering, NoRecovery, Reply
    <2> QED BY <2>4, <2>6 DEF BlockedInv
  <1> QED BY <1>2, <1>3, <1>4, <1>5 DEF Sync

LEMMA StepBlocked ==
  ASSUME Calm, TypeOK, SafetyInv, AttendedInv, ChildInv, BlockedInv, [Next]_vars
  PROVE  BlockedInv'
  <1>1. Cools(rows, rows) /\ 1 \in Prompt /\ rows \in Rows
    BY MaxPromptsAssumption DEF Cools, Prompt, TypeOK
  <1>2. ASSUME SendPrompt PROVE BlockedInv'
    <2>1. PICK d \in Prompt :
            /\ CanStart /\ op.pc = "idle" /\ op'.pc \in {"preflight", "refused"}
            /\ rows' = Prepare(rows, d) /\ UNCHANGED <<session, current>>
      BY <1>2 DEF SendPrompt, CanStart
    <2>2. \A e \in Prompt : rows'[e] \in InFlight => rows[e] \in InFlight
      BY <2>1 DEF Prepare, TypeOK, Rows, InFlight
    <2>3. ~ Recovering /\ session.reply.phase = "idle"
      BY <2>1 DEF CanStart, Recovering
    <2> QED BY <2>1, <2>2, <2>3 DEF BlockedInv, Recovering, Before, Within
  <1>3. ASSUME NEW d, RuntimeTakesPrompt(d) \/ TurnEnds(d) PROVE BlockedInv'
    BY <1>1, <1>3, BlockedKept DEF RuntimeTakesPrompt, TurnEnds, Recovering
  <1>4. ASSUME RequestStop \/ StopDetached \/ StopDone PROVE BlockedInv'
    <2>1. /\ UNCHANGED <<rows, current, op>> /\ session'.recovery = session.recovery
          /\ session'.status = "stopped" \/ session' = session
      BY <1>4 DEF RequestStop, StopDetached, StopDone, TypeOK, SessionDetail
    <2> QED BY <1>1, <2>1, BlockedKept DEF Recovering
  <1>5. ASSUME StopFails PROVE BlockedInv'
    <2>1. Adapter = "claude"
      BY <1>5, AdapterAssumption DEF StopFails, Calm
    <2>2. UNCHANGED <<rows, current, op>> /\ session'.recovery = session.recovery
      BY <1>5 DEF StopFails, TypeOK, SessionDetail
    <2> QED BY <1>1, <2>1, <2>2, BlockedKept DEF Recovering
  <1>6. ASSUME Resolve PROVE BlockedInv'
    <2>1. /\ rows' \in {rows, MarkCompleted(rows), MarkObservedBySession(rows)}
          /\ UNCHANGED <<session, current, op>>
      BY <1>6 DEF Resolve
    <2>2. Cools(rows, rows')
      BY <1>1, <2>1, Cooling
    <2> QED BY <2>1, <2>2, BlockedKept DEF Recovering
  <1>7. ASSUME GiveUpChecking PROVE BlockedInv'
    <2>1. /\ UNCHANGED <<rows, current, op>> /\ Recovering
          /\ session'.recovery = [session.recovery EXCEPT !.phase = "outcome_unknown"]
          /\ session'.status = session.status
      BY <1>7 DEF GiveUpChecking, Recovering, TypeOK, SessionDetail
    <2>2. session.recovery \in PromptRecovery
      BY SessionFields DEF TypeOK
    <2>3. Recovering' /\ session'.recovery.observed = session.recovery.observed
      BY <2>1, <2>2 DEF Recovering, PromptRecovery, NoRecovery, Reply
    <2> QED BY <1>1, <2>1, <2>3, BlockedKept
  <1>8. ASSUME ResolvePersistFails \/ UNCHANGED vars PROVE BlockedInv'
    BY <1>1, <1>8, BlockedKept DEF ResolvePersistFails, vars, Recovering
  <1>9. ASSUME Persist PROVE BlockedInv'
    <2>1. /\ UNCHANGED <<rows, session, current>>
          /\ op'.pc = op.pc \/ (op.pc = "persisting" /\ op'.pc = "persisted")
      BY <1>9 DEF Persist, TypeOK, Operation
    <2> QED BY <1>1, <2>1, BlockedKept DEF Recovering, Before, Within
  <1>10. ASSUME BeginShutdown PROVE BlockedInv'
    <2>1. Cools(rows, rows')
      BY <1>1, <1>10, Cooling DEF BeginShutdown
    <2> QED BY <1>10, <2>1, BlockedKept DEF BeginShutdown, Recovering
  <1>11. ASSUME CloseRunner PROVE BlockedInv'
    BY <1>1, <1>11, BlockedKept DEF CloseRunner, Recovering
  <1>12. ASSUME Close \/ Crash PROVE BlockedInv'
    <2>1. op'.pc = "idle" /\ current' = NoChild
      BY <1>12 DEF Close, Crash, Halt, NoOp
    <2> QED BY <2>1 DEF BlockedInv, Before, Within
  <1>13. ASSUME Restart \/ RestartDone PROVE BlockedInv'
    <2>1. current' = NoChild /\ op'.pc = "idle"
      BY <1>13 DEF Restart, RestartDone, SafetyInv, DownInv
    <2> QED BY <2>1 DEF BlockedInv, Before, Within
  <1> QED
    BY PromptStepBlocked, ExitsBlocked, SyncBlocked, <1>2, <1>3, <1>4, <1>5, <1>6, <1>7, <1>8,
       <1>9, <1>10, <1>11, <1>12, <1>13 DEF Next

LEMMA ChildInvariant == Spec => []ChildInv
  <1>1. Init => ChildInv
    BY DEF Init, ChildInv, NoOp, Before, Within
  <1>2. TypeOK /\ SafetyInv /\ ChildInv /\ [Next]_vars => ChildInv'
    BY StepChild
  <1> QED BY <1>1, <1>2, TypeCorrect, SafetyInvariant, PTL DEF Spec

(* No outcome is unknown while a prompt is being started, and what could   *)
(* make one unknown meanwhile, a child of Codex with a row in flight, is   *)
(* tracked without a reply or a recovery only if the session was stopped.  *)
THEOREM BlockedInvariant == ASSUME Calm PROVE Spec => []BlockedInv
  <1>1. Init => BlockedInv
    <2>1. Detached.recovery = NoRecovery /\ Attached.recovery = NoRecovery
      BY DEF Detached, Attached
    <2> QED BY <2>1 DEF Init, BlockedInv, NoOp, Before, Within, Recovering, NoRecovery, Reply,
                        NoRows, InFlight
  <1>2. TypeOK /\ SafetyInv /\ AttendedInv /\ ChildInv /\ BlockedInv /\ [Next]_vars => BlockedInv'
    BY StepBlocked
  <1> QED BY <1>1, <1>2, TypeCorrect, SafetyInvariant, AttendedInvariant, ChildInvariant,
             PTL DEF Spec

(* A process is started only by the Dispatch of a prompt, and between      *)
(* assertCanStart and the spawn no outcome becomes unknown: the only child *)
(* whose exit could make one so belongs to a session that was stopped.     *)
THEOREM StartsUnblocked == ASSUME Calm PROVE Spec => StartUnblocked
  <1>1. TypeOK /\ BlockedInv /\ [Next]_vars => [~ (alive' \subseteq alive) => ~ Recovering]_vars
    <2> SUFFICES ASSUME TypeOK, BlockedInv, Next, ~ (alive' \subseteq alive) PROVE ~ Recovering
      OBVIOUS
    <2>1. Dispatch
      <3>1. ~ Sync
        BY DEF Sync, SyncUnchanged, SyncRecovery, SyncBusy, SyncWaiting, SyncCompleted
      <3>2. ~ (SendPrompt \/ PreflightPasses \/ PreflightFails \/ KillDone \/ KillFails)
        BY DEF SendPrompt, PreflightPasses, PreflightFails, KillDone, KillFails, Fail
      <3>3. ~ (StartupReady \/ StartupFails \/ Dispose \/ RecordingDone \/ StartPersisted
               \/ StartPersistFails)
        BY DEF StartupReady, StartupFails, Dispose, RecordingDone, StartPersisted,
               StartPersistFails, Started
      <3>4. \A c, code, conflict, d :
              ~ (ProcessExits(c, code, conflict) \/ RuntimeTakesPrompt(d) \/ TurnEnds(d))
        BY DEF ProcessExits, RuntimeTakesPrompt, TurnEnds
      <3>5. ~ (RequestStop \/ StopDetached \/ StopDone \/ StopFails)
        BY DEF RequestStop, StopDetached, StopDone, StopFails
      <3>6. ~ (Resolve \/ ResolvePersistFails \/ GiveUpChecking \/ Persist \/ BeginShutdown
               \/ CloseRunner \/ Close \/ Crash \/ Restart \/ RestartDone)
        BY DEF Resolve, ResolvePersistFails, GiveUpChecking, Persist, BeginShutdown, CloseRunner,
               Close, Crash, Halt, Restart, RestartDone
      <3> QED BY <3>1, <3>2, <3>3, <3>4, <3>5, <3>6 DEF Next, PromptStep
    <2> QED BY <2>1 DEF Dispatch, BlockedInv, Before
  <1> QED BY <1>1, TypeCorrect, BlockedInvariant, PTL DEF Spec, StartUnblocked

(* Of a running daemon only the sync with the transcript makes an unknown  *)
(* outcome known, and it does so when the transcript shows the end of that *)
(* very prompt's turn: an exit, a failure or a start never forget one.     *)
THEOREM OnlyEvidenceClears == ASSUME Calm PROVE Spec => ClearedByEvidence
  <1>1. ASSUME TypeOK, SafetyInv, BlockedInv, Next, daemon = "up", daemon' = "up",
               Recovering, session'.recovery = NoRecovery
        PROVE  turn[session.recovery.prompt] \in Terminal
    <2>1. session.recovery # NoRecovery /\ session.recovery \in PromptRecovery
      BY <1>1, SessionFields DEF Recovering, NoRecovery, Reply, TypeOK
    <2>2. op.pc \notin Before \cup Within
      BY <1>1 DEF BlockedInv
    <2>3. op.pc # "idle" => op.prompt \in Prompt
      BY <1>1 DEF TypeOK
    <2>4. ASSUME NEW s \in SessionDetail, NEW d \in Prompt,
                 NEW verdict \in {"none", "not_sent", "outcome_unknown"}, s.recovery # NoRecovery
          PROVE  Recorded(s, d, verdict).recovery # NoRecovery
      <3>1. /\ NoRecovery.phase = "none"
            /\ Reply("outcome_unknown", d, TRUE, FALSE).phase = "outcome_unknown"
            /\ Reply("not_sent", d, TRUE, FALSE).phase = "not_sent"
        BY DEF NoRecovery, Reply
      <3> DEFINE t == Recorded(s, d, verdict)
      <3>2. \/ t.recovery = s.recovery
            \/ t.recovery = Reply("outcome_unknown", d, TRUE, FALSE)
            \/ t.recovery = Reply("not_sent", d, TRUE, FALSE)
        BY RecordedEffect
      <3> HIDE DEF t
      <3>3. t.recovery # NoRecovery
        BY <2>4, <3>1, <3>2
      <3> QED BY <3>3 DEF t
    <2>5. ASSUME NEW c, NEW code \in ExitCode, NEW conflict \in BOOLEAN,
                 MayExit(session, c, code, conflict)
          PROVE  ExitSession(session, rows, c, code, conflict).recovery # NoRecovery
      <3>1. NoRecovery.phase = "none"
        BY DEF NoRecovery, Reply
      <3> DEFINE t == ExitSession(session, rows, c, code, conflict)
      <3>2. \/ t.recovery = session.recovery
            \/ t.recovery.phase \in {"checking", "outcome_unknown", "not_sent"}
        BY <1>1, <2>5, ExitEffect
      <3> HIDE DEF t
      <3>3. t.recovery # NoRecovery
        BY <2>1, <3>1, <3>2
      <3> QED BY <3>3 DEF t
    <2>6. ~ (SendPrompt \/ PreflightPasses \/ KillDone \/ RecordingDone)
      BY <1>1, <2>1 DEF SendPrompt, PreflightPasses, KillDone, RecordingDone
    <2>7. ~ (PreflightFails \/ KillFails)
      <3>1. FailedVerdict(rows, op.prompt) \in {"none", "not_sent", "outcome_unknown"}
        BY DEF FailedVerdict
      <3>2. ASSUME NEW cur, Fail(cur), op.pc # "idle" PROVE FALSE
        BY <1>1, <2>1, <2>3, <2>4, <3>1, <3>2 DEF Fail, TypeOK
      <3> QED BY <3>2 DEF PreflightFails, KillFails
    <2>8. ~ (Dispatch \/ StartupReady \/ StartupFails \/ Dispose)
      BY <2>2 DEF Dispatch, StartupReady, StartupFails, Dispose, Before, Within
    <2>9. ASSUME NEW saved \in BOOLEAN, op.pc # "idle", Started(saved) PROVE FALSE
      <3> DEFINE d == op.prompt
                 exits == d \notin alive
      <3>1. PICK code \in ExitCode, conflict \in BOOLEAN :
              LET rs == IF exits THEN ExitRows(session, rows, d, code, conflict) ELSE rows
                  s  == IF exits THEN ExitSession(session, rows, d, code, conflict) ELSE session
              IN
              /\ exits => MayExit(session, d, code, conflict)
              /\ session' = Recorded(s, d, IF saved THEN "none" ELSE FailedVerdict(rs, d))
        BY <2>9 DEF Started
      <3> DEFINE rs == IF exits THEN ExitRows(session, rows, d, code, conflict) ELSE rows
                 s  == IF exits THEN ExitSession(session, rows, d, code, conflict) ELSE session
                 verdict == IF saved THEN "none" ELSE FailedVerdict(rs, d)
      <3>2. verdict \in {"none", "not_sent", "outcome_unknown"}
        BY DEF FailedVerdict
      <3>3. s \in SessionDetail /\ s.recovery # NoRecovery
        BY <1>1, <2>1, <2>5, <3>1, ExitTyped DEF TypeOK
      <3>4. session' = Recorded(s, d, verdict)
        BY <3>1
      <3>5. d \in Prompt
        BY <2>3, <2>9
      <3> HIDE DEF s, d, verdict
      <3> QED BY <1>1, <2>4, <3>2, <3>3, <3>4, <3>5
    <2>10. ~ (StartPersisted \/ StartPersistFails)
      BY <2>9 DEF StartPersisted, StartPersistFails
    <2>11. ASSUME NEW c \in Child, NEW code \in ExitCode, NEW conflict \in BOOLEAN,
                  ProcessExits(c, code, conflict)
           PROVE  FALSE
      BY <1>1, <2>1, <2>5, <2>11 DEF ProcessExits
    <2>12. ASSUME NEW d, RuntimeTakesPrompt(d) \/ TurnEnds(d) PROVE FALSE
      BY <1>1, <2>1, <2>12 DEF RuntimeTakesPrompt, TurnEnds
    <2>13. ~ (RequestStop \/ StopDetached \/ StopDone \/ StopFails)
      BY <1>1, <2>1 DEF RequestStop, StopDetached, StopDone, StopFails, TypeOK, SessionDetail
    <2>14. ~ (Resolve \/ ResolvePersistFails \/ Persist \/ BeginShutdown \/ CloseRunner
              \/ Close \/ Crash \/ Restart \/ RestartDone)
      BY <1>1, <2>1 DEF Resolve, ResolvePersistFails, Persist, BeginShutdown, CloseRunner,
                        Close, Crash, Halt, Restart, RestartDone
    <2>15. ~ GiveUpChecking
      <3>1. [session.recovery EXCEPT !.phase = "outcome_unknown"] # NoRecovery
        BY <2>1 DEF PromptRecovery, NoRecovery, Reply
      <3> QED BY <1>1, <3>1 DEF GiveUpChecking, TypeOK, SessionDetail
    <2>16. Sync
      BY <1>1, <2>6, <2>7, <2>8, <2>10, <2>11, <2>12, <2>13, <2>14, <2>15 DEF Next, PromptStep
    <2>17. PICK v \in Snapshot : SyncRecovery(v)
      BY <1>1, <2>1, <2>16 DEF Sync, SyncUnchanged, SyncBusy, SyncWaiting, SyncCompleted
    <2>18. v[session.recovery.prompt] \in Terminal
      BY <1>1, <2>1, <2>17 DEF SyncRecovery, RecoveredSession, TypeOK, SessionDetail, Terminal,
                               Recovering, Reply, NoRecovery
    <2>19. session.recovery.prompt \in Prompt
      BY <2>1 DEF PromptRecovery
    <2>20. v[session.recovery.prompt] \in Seen(turn[session.recovery.prompt])
      BY <2>17, <2>19 DEF Snapshot
    <2> QED BY <2>18, <2>20 DEF Seen, Terminal
  <1>2. TypeOK /\ SafetyInv /\ BlockedInv /\ [Next]_vars =>
          [daemon = "up" /\ daemon' = "up" /\ Recovering /\ session'.recovery = NoRecovery
             => turn[session.recovery.prompt] \in Terminal]_vars
    BY <1>1
  <1> QED BY <1>2, TypeCorrect, SafetyInvariant, BlockedInvariant, PTL
          DEF Spec, ClearedByEvidence

-----------------------------------------------------------------------------
(* What the recovery card offers to send again.                            *)

(* A prompt that was asked for, that nothing has and that nothing starts.  *)
Spared(d) == rows[d] # "absent" /\ Untaken(d) /\ (Pending => d # op.prompt)

Offered(s, d) == s.recovery.phase = "not_sent" /\ s.recovery.prompt = d

RetryInv ==
  \A d \in Prompt : Offered(session, d) \/ Offered(disk, d) => Spared(d)

(* A tracked child of Codex that may still be refused by an active writer  *)
(* is the child of the prompt whose reply the session waits for.           *)
AwaitedInv ==
  /\ Adapter = "codex" /\ op.pc \notin Within
  /\ current \in Prompt /\ turn[current] = "absent"
  /\ ~ session.finished /\ session.status # "stopped"
  => /\ ~ Pending
     /\ session.reply.phase = "idle" => Recovering
     /\ session.reply.phase # "idle" => session.reply.prompt = current

LEMMA SparedStays ==
  ASSUME TypeOK, SafetyInv, [Next]_vars, NEW p \in Prompt, Spared(p)
  PROVE  Spared(p)'
  <1>1. rows'[p] # "absent"
    <2>1. 1 \in Prompt /\ rows \in Rows
      BY MaxPromptsAssumption DEF Prompt, TypeOK
    <2>2. ASSUME NEW rs \in Rows, rs[p] # "absent"
          PROVE  /\ MarkOutcomeUnknownBySession(rs)[p] # "absent"
                 /\ MarkNotSentAfterActiveWriterConflict(rs)[p] # "absent"
                 /\ MarkObservedBySession(rs)[p] # "absent"
                 /\ MarkCompleted(rs)[p] # "absent"
                 /\ MarkInterrupted(rs)[p] # "absent"
                 /\ MarkActiveOutcomeUnknownForShutdown(rs)[p] # "absent"
                 /\ RecoverActiveAfterRestart(rs)[p] # "absent"
                 /\ \A d \in Prompt :
                      /\ FailedRows(rs, d)[p] # "absent"
                      /\ FailedRows(MarkNotSentAfterSynchronousSpawnFailure(rs, d), d)[p] # "absent"
      BY <2>1, <2>2, Cooling DEF Cools
    <2>3. \A d \in Prompt : /\ Prepare(rows, d)[p] # "absent"
                            /\ MarkDispatching(rows, d)[p] # "absent"
                            /\ MarkAccepted(rows, d)[p] # "absent"
      BY <2>1 DEF Spared, Prepare, MarkDispatching, MarkAccepted, ById, Rows
    <2>4. op.pc # "idle" => op.prompt \in Prompt
      BY DEF TypeOK
    <2>5. ASSUME NEW c, NEW code, NEW conflict
          PROVE  ExitRows(session, rows, c, code, conflict)[p] # "absent"
      BY <2>1, <2>2 DEF Spared, ExitRows, FinishedRows
    <2>6. ASSUME NEW saved \in BOOLEAN, op.pc # "idle", Started(saved) PROVE rows'[p] # "absent"
      <3> DEFINE d == op.prompt
                 exits == d \notin alive
      <3>1. PICK code \in ExitCode, conflict \in BOOLEAN :
              LET rs == IF exits THEN ExitRows(session, rows, d, code, conflict) ELSE rows IN
              /\ exits => MayExit(session, d, code, conflict)
              /\ rows' = IF saved THEN rs ELSE FailedRows(rs, d)
        BY <2>6 DEF Started
      <3> DEFINE rs == IF exits THEN ExitRows(session, rows, d, code, conflict) ELSE rows
      <3>2. rs \in Rows
        BY <2>1, <3>1, ExitCools
      <3>3. rs[p] # "absent"
        BY <2>5 DEF Spared
      <3>4. rows' = IF saved THEN rs ELSE FailedRows(rs, d)
        BY <3>1
      <3> HIDE DEF rs
      <3> QED BY <2>2, <2>4, <2>6, <3>2, <3>3, <3>4
    <2>7. ASSUME PromptStep PROVE rows'[p] # "absent"
      <3>1. ASSUME NEW cur, Fail(cur), op.pc # "idle" PROVE rows'[p] # "absent"
        BY <2>1, <2>2, <2>4, <3>1 DEF Fail, Spared
      <3>2. ASSUME PreflightFails \/ KillFails PROVE rows'[p] # "absent"
        BY <3>1, <3>2 DEF PreflightFails, KillFails
      <3>3. ASSUME StartupFails PROVE rows'[p] # "absent"
        BY <2>1, <2>2, <2>4, <3>3 DEF StartupFails, Spared
      <3>4. ASSUME StartPersisted \/ StartPersistFails PROVE rows'[p] # "absent"
        BY <2>6, <3>4 DEF StartPersisted, StartPersistFails
      <3>5. ASSUME Dispatch \/ StartupReady PROVE rows'[p] # "absent"
        BY <2>3, <2>4, <3>5 DEF Dispatch, StartupReady
      <3>6. ASSUME PreflightPasses \/ KillDone \/ Dispose \/ RecordingDone
            PROVE  rows'[p] # "absent"
        BY <3>6 DEF PreflightPasses, KillDone, Dispose, RecordingDone, Spared
      <3> QED BY <2>7, <3>2, <3>3, <3>4, <3>5, <3>6 DEF PromptStep
    <2>8. ASSUME Sync PROVE rows'[p] # "absent"
      <3>1. \/ rows' = rows
            \/ rows' \in {MarkOutcomeUnknownBySession(rows), MarkInterrupted(rows),
                          MarkCompleted(rows)}
        BY <2>8 DEF Sync, SyncUnchanged, SyncRecovery, SyncBusy, SyncWaiting, SyncCompleted,
                    FinishedRows
      <3> QED BY <2>1, <2>2, <3>1 DEF Spared
    <2>9. ASSUME NEW c \in Child, NEW code \in ExitCode, NEW conflict \in BOOLEAN,
                 ProcessExits(c, code, conflict)
          PROVE  rows'[p] # "absent"
      BY <2>5, <2>9 DEF ProcessExits, Spared
    <2>10. ASSUME Resolve \/ BeginShutdown \/ Close \/ Crash \/ Restart
           PROVE  rows'[p] # "absent"
      BY <2>1, <2>2, <2>10 DEF Resolve, BeginShutdown, Close, Crash, Restart, Spared
    <2>11. ASSUME \/ \E d \in Prompt : RuntimeTakesPrompt(d) \/ TurnEnds(d)
                  \/ RequestStop \/ StopDetached \/ StopDone \/ StopFails
                  \/ ResolvePersistFails \/ GiveUpChecking \/ Persist \/ CloseRunner
                  \/ RestartDone \/ UNCHANGED vars
           PROVE  rows'[p] # "absent"
      BY <2>11 DEF RuntimeTakesPrompt, TurnEnds, RequestStop, StopDetached, StopDone, StopFails,
                   ResolvePersistFails, GiveUpChecking, Persist, CloseRunner, RestartDone, vars,
                   Spared
    <2>12. ASSUME SendPrompt PROVE rows'[p] # "absent"
      BY <2>3, <2>12 DEF SendPrompt
    <2> QED BY <2>7, <2>8, <2>9, <2>10, <2>11, <2>12 DEF Next
  <1>2. (p \notin alive /\ turn[p] = "absent") /\ (Pending => p # op.prompt)
    BY DEF Spared, Untaken
  <1>3. /\ Untaken(p)'
        /\ Pending' => (Pending /\ op'.prompt = op.prompt) \/ SendPrompt
    <2>1. ASSUME SendPrompt PROVE Untaken(p)'
      BY <1>2, <2>1 DEF SendPrompt, Untaken
    <2>2. ASSUME NEW cur, Fail(cur) PROVE Untaken(p)' /\ ~ Pending'
      BY <1>2, <2>2 DEF Fail, Untaken, AfterRecording, NoOp, Pending
    <2>3. ASSUME PreflightFails \/ KillFails PROVE Untaken(p)' /\ ~ Pending'
      BY <2>2, <2>3 DEF PreflightFails, KillFails
    <2>4. ASSUME PreflightPasses \/ KillDone
          PROVE  Untaken(p)' /\ Pending /\ op'.prompt = op.prompt
      BY <1>2, <2>4 DEF PreflightPasses, KillDone, Untaken, Pending, TypeOK, Operation
    <2>5. ASSUME Dispatch PROVE Untaken(p)' /\ ~ Pending'
      <3>1. op'.pc \in {"spawnFailed", "startup"}
        BY <2>5 DEF Dispatch, TypeOK, Operation
      <3>2. p # op.prompt /\ turn' = turn /\ alive' \subseteq alive \cup {op.prompt}
        BY <1>2, <2>5 DEF Dispatch, Pending
      <3> QED BY <1>2, <3>1, <3>2 DEF Untaken, Pending
    <2>6. ASSUME StartupReady \/ StartupFails \/ Dispose \/ RecordingDone
          PROVE  Untaken(p)' /\ ~ Pending'
      <3>1. \A x : [op EXCEPT !.pc = "disposing", !.verdict = x].pc = "disposing"
        BY DEF TypeOK, Operation
      <3>2. op'.pc \in {"persisting", "disposing", "idle", "recording"}
        <4>1. ASSUME StartupReady PROVE op'.pc = "persisting"
          BY <4>1 DEF StartupReady, TypeOK, Operation
        <4>2. ASSUME StartupFails PROVE op'.pc = "disposing"
          BY <3>1, <4>2 DEF StartupFails
        <4>3. ASSUME Dispose \/ RecordingDone PROVE op'.pc \in {"idle", "recording"}
          BY <4>3 DEF Dispose, RecordingDone, AfterRecording, NoOp
        <4> QED BY <2>6, <4>1, <4>2, <4>3
      <3> QED BY <1>2, <2>6, <3>2
              DEF StartupReady, StartupFails, Dispose, RecordingDone, Untaken, Pending
    <2>7. ASSUME StartPersisted \/ StartPersistFails PROVE Untaken(p)' /\ ~ Pending'
      BY <1>2, <2>7 DEF StartPersisted, StartPersistFails, Started, AfterRecording, NoOp,
                        Untaken, Pending
    <2>8. ASSUME NEW c, NEW code, NEW conflict, ProcessExits(c, code, conflict)
          PROVE  Untaken(p)' /\ op' = op
      BY <1>2, <2>8 DEF ProcessExits, Untaken
    <2>9. ASSUME NEW d \in Prompt, RuntimeTakesPrompt(d) \/ TurnEnds(d)
          PROVE  Untaken(p)' /\ op' = op
      BY <1>2, <2>9 DEF RuntimeTakesPrompt, TurnEnds, Untaken, TypeOK
    <2>10. ASSUME Sync PROVE Untaken(p)' /\ op' = op
      BY <1>2, <2>10 DEF Sync, SyncUnchanged, SyncRecovery, SyncBusy, SyncWaiting, SyncCompleted,
                         Untaken
    <2>11. ASSUME Persist PROVE Untaken(p)' /\ (op' = op \/ ~ Pending')
      BY <1>2, <2>11 DEF Persist, Untaken, Pending, TypeOK, Operation
    <2>12. ASSUME Close \/ Crash PROVE Untaken(p)' /\ ~ Pending'
      BY <1>2, <2>12 DEF Close, Crash, Halt, NoOp, Untaken, Pending
    <2>13. ASSUME \/ RequestStop \/ StopDetached \/ StopDone \/ StopFails
                  \/ Resolve \/ ResolvePersistFails \/ GiveUpChecking \/ BeginShutdown
                  \/ CloseRunner \/ Restart \/ RestartDone \/ UNCHANGED vars
           PROVE  Untaken(p)' /\ op' = op
      BY <1>2, <2>13 DEF RequestStop, StopDetached, StopDone, StopFails, Resolve,
                         ResolvePersistFails, GiveUpChecking, BeginShutdown, CloseRunner,
                         Restart, RestartDone, vars, Untaken
    <2>14. ASSUME PromptStep
           PROVE  Untaken(p)' /\ (~ Pending' \/ (Pending /\ op'.prompt = op.prompt))
      BY <2>3, <2>4, <2>5, <2>6, <2>7, <2>14 DEF PromptStep
    <2> QED
      BY <2>1, <2>8, <2>9, <2>10, <2>11, <2>12, <2>13, <2>14 DEF Next, Pending
  <1>4. ASSUME SendPrompt PROVE p # op'.prompt
    BY <1>4 DEF SendPrompt, IsNext, Spared
  <1> QED BY <1>1, <1>2, <1>3, <1>4 DEF Spared

LEMMA AwaitedKept ==
  ASSUME AwaitedInv, current' \in {current, NoChild},
         \/ op'.pc = op.pc
         \/ op.pc \notin Within /\ op'.pc \notin Within /\ (Pending' => Pending),
         current \in Prompt /\ turn'[current] = "absent" => turn[current] = "absent",
         \/ current' = NoChild \/ session'.finished \/ session'.status = "stopped"
         \/ /\ session'.finished = session.finished /\ session'.status = session.status
            /\ \/ session.reply.phase = "idle" /\ ~ Recovering
               \/ /\ Recovering => Recovering'
                  /\ session'.reply.phase = "idle" => session.reply.phase = "idle" \/ Recovering'
                  /\ session'.reply.phase # "idle" =>
                       /\ session.reply.phase # "idle"
                       /\ session'.reply.prompt = session.reply.prompt
  PROVE  AwaitedInv'
  <1> SUFFICES ASSUME Adapter = "codex", op'.pc \notin Within, current' \in Prompt,
                      turn'[current'] = "absent", ~ session'.finished,
                      session'.status # "stopped"
               PROVE  /\ ~ Pending'
                      /\ session'.reply.phase = "idle" => Recovering'
                      /\ session'.reply.phase # "idle" => session'.reply.prompt = current'
    BY DEF AwaitedInv
  <1>1. current' = current /\ current # NoChild
    BY MaxPromptsAssumption DEF NoChild, Prompt
  <1>2. op.pc \notin Within /\ (Pending' => Pending)
    BY DEF Pending
  <1>3. /\ session.finished = session'.finished /\ session'.status = session.status
        /\ turn[current] = "absent"
    BY <1>1
  <1>4. /\ ~ Pending
        /\ session.reply.phase = "idle" => Recovering
        /\ session.reply.phase # "idle" => session.reply.prompt = current
    BY <1>1, <1>2, <1>3 DEF AwaitedInv
  <1> QED BY <1>1, <1>2, <1>4

LEMMA PromptStepAwaited ==
  ASSUME Calm, TypeOK, SafetyInv, ChildInv, AwaitedInv, PromptStep
  PROVE  AwaitedInv'
  <1>1. ASSUME op.pc # "idle" PROVE op.prompt \in Prompt
    BY <1>1 DEF TypeOK
  <1>2. ASSUME op'.pc \in Within PROVE AwaitedInv'
    BY <1>2 DEF AwaitedInv
  <1>3. ASSUME PreflightPasses \/ KillDone PROVE AwaitedInv'
    <2>1. /\ op.pc \notin Within /\ op'.pc \notin Within /\ Pending
          /\ UNCHANGED <<session, turn>> /\ current' \in {current, NoChild}
      BY <1>3 DEF PreflightPasses, KillDone, TypeOK, Operation, Within, Pending
    <2> QED BY <2>1, AwaitedKept DEF Recovering
  <1>4. ASSUME Fail(current), Pending PROVE AwaitedInv'
    <2> DEFINE verdict == FailedVerdict(rows, op.prompt)
    <2>1. /\ current' = current /\ turn' = turn
          /\ session' = Recorded(session, op.prompt, verdict)
          /\ op'.pc \in {"idle", "recording"}
      BY <1>4 DEF Fail, AfterRecording, NoOp
    <2>2. verdict \in {"none", "not_sent", "outcome_unknown"}
      BY DEF FailedVerdict
    <2> HIDE DEF verdict
    <2>3. /\ session'.status = session.status /\ session'.finished = session.finished
          /\ session'.reply = session.reply
          /\ \/ session'.recovery = session.recovery
             \/ session'.recovery = Reply("outcome_unknown", op.prompt, TRUE, FALSE)
             \/ /\ session.recovery = NoRecovery
                /\ session'.recovery = Reply("not_sent", op.prompt, TRUE, FALSE)
      BY <1>1, <1>4, <2>1, <2>2, RecordedEffect DEF TypeOK, Pending
    <2>4. Recovering => Recovering'
      BY <2>3 DEF Recovering, Reply, NoRecovery
    <2>5. op.pc \notin Within /\ op'.pc \notin Within /\ ~ Pending'
      BY <1>4, <2>1 DEF Within, Pending
    <2> QED BY <2>1, <2>3, <2>4, <2>5, AwaitedKept
  <1>5. ASSUME PreflightFails PROVE AwaitedInv'
    BY <1>4, <1>5 DEF PreflightFails, Pending
  <1>6. ASSUME KillFails PROVE AwaitedInv'
    <2>1. Adapter = "claude"
      BY <1>6, AdapterAssumption DEF KillFails, Calm
    <2> QED BY <2>1 DEF AwaitedInv
  <1>7. ASSUME Dispatch \/ StartupFails PROVE AwaitedInv'
    <2>1. \A x : [op EXCEPT !.pc = "disposing", !.verdict = x].pc = "disposing"
      BY DEF TypeOK, Operation
    <2>2. ASSUME Dispatch PROVE op'.pc \in Within
      BY <2>2 DEF Dispatch, TypeOK, Operation, Within
    <2>3. ASSUME StartupFails PROVE op'.pc \in Within
      BY <2>1, <2>3 DEF StartupFails, Within
    <2> QED BY <1>2, <1>7, <2>2, <2>3
  <1>8. ASSUME StartupReady PROVE AwaitedInv'
    <2>1. /\ op.pc = "startup" /\ current' = current /\ op'.pc = "persisting"
          /\ session'.reply = Reply("sending", op.prompt, TRUE, FALSE)
      BY <1>8 DEF StartupReady, TypeOK, Operation, SessionDetail
    <2>2. current \in {op.prompt, NoChild} /\ NoChild \notin Prompt
      BY <2>1, MaxPromptsAssumption DEF ChildInv, Within, NoChild, Prompt
    <2> QED BY <2>1, <2>2 DEF AwaitedInv, Reply, Pending
  <1>9. ASSUME Dispose PROVE AwaitedInv'
    <2>1. current' = NoChild /\ NoChild \notin Prompt
      BY <1>9, MaxPromptsAssumption DEF Dispose, ChildInv, Within, NoChild, Prompt
    <2> QED BY <2>1 DEF AwaitedInv
  <1>10. ASSUME RecordingDone PROVE AwaitedInv'
    <2>1. /\ UNCHANGED <<session, current, turn>> /\ op.pc = "recording" /\ op'.pc = "idle"
      BY <1>10 DEF RecordingDone, NoOp
    <2> QED BY <2>1, AwaitedKept DEF Recovering, Within, Pending
  <1>11. ASSUME NEW saved \in BOOLEAN, op.pc \in {"persisting", "persisted"}, Started(saved)
         PROVE  AwaitedInv'
    <2> DEFINE d == op.prompt
               exits == d \notin alive
    <2>1. PICK code \in ExitCode, conflict \in BOOLEAN :
            LET rs == IF exits THEN ExitRows(session, rows, d, code, conflict) ELSE rows
                s  == IF exits THEN ExitSession(session, rows, d, code, conflict) ELSE session
                verdict == IF saved THEN "none" ELSE FailedVerdict(rs, d)
            IN
            /\ session' = Recorded(s, d, verdict)
            /\ op' = AfterRecording(s, d, verdict)
            /\ current' = IF exits THEN ExitCurrent(d) ELSE current
            /\ turn' = turn
      BY <1>11 DEF Started
    <2> DEFINE rs == IF exits THEN ExitRows(session, rows, d, code, conflict) ELSE rows
               verdict == IF saved THEN "none" ELSE FailedVerdict(rs, d)
    <2>2. op'.pc \in {"idle", "recording"} /\ current' \in {current, NoChild}
      BY <2>1 DEF AfterRecording, NoOp, ExitCurrent
    <2>3. op.pc \notin Within /\ op'.pc \notin Within /\ ~ Pending'
      BY <1>11, <2>2 DEF Within, Pending
    <2>4. CASE current' = NoChild
      BY <2>1, <2>3, <2>4, AwaitedKept
    <2>5. CASE current' # NoChild
      <3>1. current' = current /\ ~ (exits /\ ExitIsNews(session, d))
        BY <2>1, <2>2, <2>5 DEF ExitIsNews, ExitCurrent
      <3>2. session' = Recorded(session, d, verdict) /\ turn' = turn
        BY <2>1, <3>1 DEF ExitRows, ExitSession
      <3>3. verdict \in {"none", "not_sent", "outcome_unknown"}
        BY DEF FailedVerdict
      <3> HIDE DEF verdict, rs
      <3>4. /\ session'.status = session.status /\ session'.finished = session.finished
            /\ session'.reply = session.reply
            /\ \/ session'.recovery = session.recovery
               \/ session'.recovery = Reply("outcome_unknown", d, TRUE, FALSE)
               \/ /\ session.recovery = NoRecovery
                  /\ session'.recovery = Reply("not_sent", d, TRUE, FALSE)
        BY <1>1, <1>11, <3>2, <3>3, RecordedEffect DEF TypeOK
      <3>5. Recovering => Recovering'
        BY <3>4 DEF Recovering, Reply, NoRecovery
      <3> QED BY <2>3, <3>1, <3>2, <3>4, <3>5, AwaitedKept
    <2> QED BY <2>4, <2>5
  <1>12. ASSUME StartPersisted \/ StartPersistFails PROVE AwaitedInv'
    BY <1>11, <1>12 DEF StartPersisted, StartPersistFails
  <1> QED
    BY <1>3, <1>5, <1>6, <1>7, <1>8, <1>9, <1>10, <1>12 DEF PromptStep

LEMMA StepAwaited ==
  ASSUME Calm, TypeOK, SafetyInv, ChildInv, BlockedInv, AwaitedInv, [Next]_vars
  PROVE  AwaitedInv'
  <1>1. NoChild \notin Prompt
    BY MaxPromptsAssumption DEF NoChild, Prompt
  <1>2. ASSUME SendPrompt PROVE AwaitedInv'
    <2>1. /\ op.pc = "idle" /\ UNCHANGED <<session, current, turn>>
          /\ session.reply.phase = "idle" /\ ~ Recovering
      BY <1>2 DEF SendPrompt, CanStart, Recovering
    <2> QED BY <2>1 DEF AwaitedInv, Within
  <1>3. ASSUME NEW d \in Prompt, RuntimeTakesPrompt(d) \/ TurnEnds(d) PROVE AwaitedInv'
    <2>1. /\ UNCHANGED <<session, current, op>>
          /\ current \in Prompt /\ turn'[current] = "absent" => turn[current] = "absent"
      BY <1>3 DEF RuntimeTakesPrompt, TurnEnds, TypeOK, Terminal
    <2> QED BY <2>1, AwaitedKept DEF Recovering
  <1>4. ASSUME NEW c \in Child, NEW code \in ExitCode, NEW conflict \in BOOLEAN,
               ProcessExits(c, code, conflict)
        PROVE  AwaitedInv'
    <2>1. /\ op' = op /\ turn' = turn /\ current' \in {current, NoChild}
          /\ session' = session \/ current' = NoChild
      BY <1>4 DEF ProcessExits, ExitCurrent, ExitSession, ExitIsNews
    <2> QED BY <2>1, AwaitedKept DEF Recovering
  <1>5. ASSUME RequestStop \/ StopDetached \/ StopDone PROVE AwaitedInv'
    <2>1. /\ UNCHANGED <<current, op, turn>>
          /\ session'.status = "stopped" \/ session' = session
      BY <1>5 DEF RequestStop, StopDetached, StopDone, TypeOK, SessionDetail
    <2> QED BY <2>1, AwaitedKept DEF Recovering
  <1>6. ASSUME StopFails PROVE AwaitedInv'
    <2>1. Adapter = "claude"
      BY <1>6, AdapterAssumption DEF StopFails, Calm
    <2> QED BY <2>1 DEF AwaitedInv
  <1>7. ASSUME Sync PROVE AwaitedInv'
    <2>1. ASSUME SyncUnchanged PROVE AwaitedInv'
      BY <2>1, AwaitedKept DEF SyncUnchanged, Recovering
    <2>2. ASSUME NEW v, SyncRecovery(v) PROVE AwaitedInv'
      <3>1. /\ Recovering /\ UNCHANGED <<current, op, turn>>
            /\ session' = RecoveredSession(v)
        BY <2>2 DEF SyncRecovery
      <3>2. CASE session.recovery.observed
        <4>1. current' = NoChild
          BY <3>1, <3>2 DEF BlockedInv
        <4> QED BY <3>1, <4>1, AwaitedKept
      <3>3. CASE ~ session.recovery.observed
        <4>1. /\ session'.recovery = Reply("outcome_unknown", session.recovery.prompt,
                                           session.recovery.linked, session.recovery.observed)
              /\ session'.status = session.status /\ session'.finished = session.finished
              /\ session'.reply = EmptyReply
          BY <3>1, <3>3 DEF RecoveredSession, TypeOK, SessionDetail, Terminal
        <4>2. Recovering' /\ session'.reply.phase = "idle"
          BY <4>1 DEF Recovering, EmptyReply, Reply
        <4> QED BY <3>1, <4>1, <4>2, AwaitedKept
      <3> QED BY <3>2, <3>3
    <2>3. ASSUME NEW v, SyncBusy(v) PROVE AwaitedInv'
      <3>1. /\ UNCHANGED <<current, op, turn>> /\ session.reply.phase = "idle" /\ ~ Recovering
            /\ session'.finished = session.finished /\ session'.status = session.status
        BY <2>3 DEF SyncBusy, TypeOK, SessionDetail
      <3> QED BY <3>1, AwaitedKept
    <2>4. ASSUME NEW v, SyncWaiting(v) PROVE AwaitedInv'
      <3>1. /\ UNCHANGED <<current, op, turn>>
            /\ session'.finished = session.finished /\ session'.status = session.status
            /\ session'.recovery = session.recovery
            /\ session'.reply = [session.reply EXCEPT !.phase = "waiting", !.observed = TRUE]
            /\ session.reply.phase # "idle"
        BY <2>4 DEF SyncWaiting, OwnedTurn, TypeOK, SessionDetail
      <3>2. session.reply \in [phase : {"sending", "waiting"}, prompt : Prompt,
                               linked : BOOLEAN, observed : BOOLEAN]
        BY <3>1, SessionFields DEF TypeOK, ReplyState, EmptyReply, Reply
      <3>3. session'.reply.phase = "waiting" /\ session'.reply.prompt = session.reply.prompt
        BY <3>1, <3>2
      <3> QED BY <3>1, <3>3, AwaitedKept DEF Recovering
    <2>5. ASSUME NEW v, SyncCompleted(v) PROVE AwaitedInv'
      <3>1. UNCHANGED <<op, turn>> /\ current' \in {current, NoChild}
        BY <2>5 DEF SyncCompleted
      <3>2. session'.finished
        BY <2>5 DEF SyncCompleted, FinishedSession, TypeOK, SessionDetail
      <3> QED BY <3>1, <3>2, AwaitedKept
    <2> QED BY <1>7, <2>1, <2>2, <2>3, <2>4, <2>5 DEF Sync
  <1>8. ASSUME GiveUpChecking PROVE AwaitedInv'
    <2>1. /\ UNCHANGED <<current, op, turn>>
          /\ session'.recovery = [session.recovery EXCEPT !.phase = "outcome_unknown"]
          /\ session'.status = session.status /\ session'.finished = session.finished
          /\ session'.reply = EmptyReply
      BY <1>8 DEF GiveUpChecking, TypeOK, SessionDetail
    <2>2. session.recovery \in PromptRecovery
      BY SessionFields DEF TypeOK
    <2>3. Recovering' /\ session'.reply.phase = "idle"
      BY <2>1, <2>2 DEF Recovering, PromptRecovery, NoRecovery, EmptyReply, Reply
    <2> QED BY <2>1, <2>3, AwaitedKept
  <1>9. ASSUME Persist PROVE AwaitedInv'
    <2>1. /\ UNCHANGED <<session, current, turn>>
          /\ op'.pc = op.pc \/ (op.pc = "persisting" /\ op'.pc = "persisted")
      BY <1>9 DEF Persist, TypeOK, Operation
    <2> QED BY <2>1, AwaitedKept DEF Recovering, Within, Pending
  <1>10. ASSUME Resolve \/ ResolvePersistFails \/ BeginShutdown \/ CloseRunner \/ UNCHANGED vars
         PROVE  AwaitedInv'
    <2>1. UNCHANGED <<session, op, turn>> /\ current' \in {current, NoChild}
      BY <1>10 DEF Resolve, ResolvePersistFails, BeginShutdown, CloseRunner, vars
    <2> QED BY <2>1, AwaitedKept DEF Recovering
  <1>11. ASSUME Close \/ Crash \/ Restart \/ RestartDone PROVE AwaitedInv'
    <2>1. current' = NoChild
      BY <1>11 DEF Close, Crash, Halt, Restart, RestartDone, SafetyInv, DownInv
    <2> QED BY <1>1, <2>1 DEF AwaitedInv
  <1> QED
    BY PromptStepAwaited, <1>2, <1>3, <1>4, <1>5, <1>6, <1>7, <1>8, <1>9, <1>10, <1>11 DEF Next

(* What the step newly offers to send again, it may.                       *)
LEMMA RetryKept ==
  ASSUME TypeOK, SafetyInv, RetryInv, [Next]_vars,
         disk' \in {disk, session, session'},
         \/ session'.recovery \in {session.recovery, disk.recovery}
         \/ session'.recovery.phase # "not_sent"
         \/ \E d \in Prompt : session'.recovery.prompt = d /\ Spared(d)'
  PROVE  RetryInv'
  <1> SUFFICES ASSUME NEW d \in Prompt, Offered(session, d)' \/ Offered(disk, d)'
               PROVE  Spared(d)'
    BY DEF RetryInv
  <1>1. CASE Offered(session, d) \/ Offered(disk, d)
    BY <1>1, SparedStays DEF RetryInv
  <1>2. CASE ~ (Offered(session, d) \/ Offered(disk, d))
    <2>1. session'.recovery.phase = "not_sent" /\ session'.recovery.prompt = d
      BY <1>2 DEF Offered
    <2>2. session'.recovery \notin {session.recovery, disk.recovery}
      BY <1>2, <2>1 DEF Offered
    <2> QED BY <2>1, <2>2
  <1> QED BY <1>1, <1>2

(* Fail, Started and Dispose note that the prompt was not sent.            *)
LEMMA FailRetry ==
  ASSUME TypeOK, SafetyInv, AttendedInv, RetryInv, [Next]_vars, NEW cur, Fail(cur), Pending
  PROVE  RetryInv'
  <1>0. PICK d \in Prompt : op.prompt = d
    BY DEF TypeOK, Pending
  <1> DEFINE verdict == FailedVerdict(rows, d)
  <1>1. rows[d] # "absent" /\ Untaken(d)
    BY <1>0 DEF TypeOK, Pending, AttendedInv, OpRowInv, SafetyInv, OpInv
  <1>2. /\ session' = Recorded(session, d, verdict) /\ disk' = disk
        /\ op'.pc \in {"idle", "recording"}
        /\ rows' = FailedRows(rows, d) /\ UNCHANGED <<alive, turn>>
    BY <1>0 DEF Fail, AfterRecording, NoOp
  <1>3. verdict \in {"none", "not_sent", "outcome_unknown"}
    BY DEF FailedVerdict
  <1>4. rows'[d] # "absent"
    BY <1>1, <1>2, Cooling DEF TypeOK, Cools
  <1>5. Spared(d)'
    BY <1>1, <1>2, <1>4 DEF Spared, Untaken, Pending
  <1> HIDE DEF verdict
  <1>6. session'.recovery = session.recovery \/ session'.recovery.prompt = d
    <2>1. \/ session'.recovery = session.recovery
          \/ session'.recovery = Reply("outcome_unknown", d, TRUE, FALSE)
          \/ session'.recovery = Reply("not_sent", d, TRUE, FALSE)
      BY <1>1, <1>2, <1>3, RecordedEffect DEF TypeOK
    <2> QED BY <2>1 DEF Reply
  <1> QED BY <1>1, <1>2, <1>5, <1>6, RetryKept

LEMMA StartedRetry ==
  ASSUME TypeOK, SafetyInv, AttendedInv, AwaitedInv, RetryInv, [Next]_vars,
         NEW saved \in BOOLEAN, op.pc \in {"persisting", "persisted"}, Started(saved)
  PROVE  RetryInv'
  <1>0. PICK d \in Prompt : op.prompt = d
    BY DEF TypeOK
  <1> DEFINE exits == d \notin alive
  <1>1. PICK code \in ExitCode, conflict \in BOOLEAN :
          LET rs == IF exits THEN ExitRows(session, rows, d, code, conflict) ELSE rows
              s  == IF exits THEN ExitSession(session, rows, d, code, conflict) ELSE session
              verdict == IF saved THEN "none" ELSE FailedVerdict(rs, d)
          IN
          /\ exits => MayExit(session, d, code, conflict)
          /\ rows' = IF saved THEN rs ELSE FailedRows(rs, d)
          /\ session' = Recorded(s, d, verdict)
          /\ op' = AfterRecording(s, d, verdict)
          /\ UNCHANGED <<disk, alive, turn>>
    BY <1>0 DEF Started
  <1> DEFINE rs == IF exits THEN ExitRows(session, rows, d, code, conflict) ELSE rows
             s  == IF exits THEN ExitSession(session, rows, d, code, conflict) ELSE session
             verdict == IF saved THEN "none" ELSE FailedVerdict(rs, d)
  <1>2. /\ rows' = IF saved THEN rs ELSE FailedRows(rs, d)
        /\ session' = Recorded(s, d, verdict)
        /\ op'.pc \in {"idle", "recording"}
        /\ UNCHANGED <<disk, alive, turn>>
    BY <1>1 DEF AfterRecording, NoOp
  <1>3. rows[d] # "absent"
    BY <1>0 DEF TypeOK, AttendedInv, OpRowInv
  <1>4. verdict \in {"none", "not_sent", "outcome_unknown"}
    BY DEF FailedVerdict
  <1>5. /\ rs \in Rows /\ Cools(rows, rs) /\ s \in SessionDetail
        /\ verdict = "not_sent" => rs[d] = "prepared"
        /\ \A e \in Prompt : rs[e] \in Unstarted => e \notin alive /\ turn[e] = "absent"
    <2>1. CASE exits
      <3>1. MayExit(session, d, code, conflict)
        BY <1>1, <2>1
      <3>2. /\ rs = ExitRows(session, rows, d, code, conflict)
            /\ s = ExitSession(session, rows, d, code, conflict)
        BY <2>1
      <3>3. Starting(d) /\ rows \in Rows /\ session \in SessionDetail
        BY <1>0 DEF Starting, TypeOK
      <3>4. rs \in Rows /\ s \in SessionDetail
        BY <3>1, <3>2, <3>3, ExitTyped
      <3>5. Cools(rows, rs)
        BY <3>1, <3>2, ExitCools
      <3>6. \A e \in Prompt : rs[e] \in Unstarted => e \notin alive /\ turn[e] = "absent"
        BY <1>2, <2>1, <3>1, <3>2, <3>3, ExitSound
      <3> QED BY <3>4, <3>5, <3>6 DEF FailedVerdict
    <2>2. CASE ~ exits
      BY <2>2 DEF TypeOK, Cools, FailedVerdict, SafetyInv, RecoveryIsSound, Unstarted, Untaken
    <2> QED BY <2>1, <2>2
  <1>6. rows'[d] # "absent"
    BY <1>2, <1>3, <1>5, Cooling DEF Cools
  <1>7. ASSUME d \notin alive, turn[d] = "absent" PROVE Spared(d)'
    BY <1>2, <1>6, <1>7 DEF Spared, Untaken, Pending
  <1>8. s.recovery.phase = "not_sent" /\ s.recovery # session.recovery =>
          s.recovery.prompt = d /\ d \notin alive /\ turn[d] = "absent"
    <2> SUFFICES ASSUME s.recovery.phase = "not_sent", s.recovery # session.recovery
                 PROVE  s.recovery.prompt = d /\ d \notin alive /\ turn[d] = "absent"
      OBVIOUS
    <2>1. exits /\ MayExit(session, d, code, conflict)
      BY <1>1
    <2>2. s = ExitSession(session, rows, d, code, conflict)
      BY <2>1
    <2>3. /\ ExitIsNews(session, d) /\ conflict /\ session.status # "stopped"
          /\ s.recovery.prompt = session.reply.prompt
      BY <2>1, <2>2, ExitEffect
    <2>4. /\ Adapter = "codex" /\ turn[d] = "absent" /\ session.reply.phase # "idle"
          /\ current = d /\ ~ session.finished
      BY <2>1, <2>3 DEF MayExit, ExitIsNews
    <2>5. session.reply.prompt = d
      BY <1>3, <2>3, <2>4 DEF AwaitedInv, Within
    <2> QED BY <2>1, <2>3, <2>4, <2>5
  <1>9. \/ session'.recovery = s.recovery
        \/ session'.recovery.phase # "not_sent"
        \/ verdict = "not_sent" /\ session'.recovery.prompt = d
    <2> HIDE DEF s, verdict
    <2>1. \/ session'.recovery = s.recovery
          \/ session'.recovery = Reply("outcome_unknown", d, TRUE, FALSE)
          \/ verdict = "not_sent" /\ session'.recovery = Reply("not_sent", d, TRUE, FALSE)
      BY <1>2, <1>3, <1>4, <1>5, RecordedEffect
    <2> QED BY <2>1 DEF Reply
  <1>10. verdict = "not_sent" => d \notin alive /\ turn[d] = "absent"
    BY <1>3, <1>5 DEF Unstarted
  <1> HIDE DEF s, verdict, rs
  <1> QED BY <1>2, <1>3, <1>7, <1>8, <1>9, <1>10, RetryKept

LEMMA StepRetry ==
  ASSUME TypeOK, SafetyInv, AttendedInv, ChildInv, AwaitedInv, RetryInv, [Next]_vars
  PROVE  RetryInv'
  <1>1. ASSUME PreflightFails \/ KillFails PROVE RetryInv'
    BY <1>1, FailRetry DEF PreflightFails, KillFails, Pending
  <1>2. ASSUME StartPersisted \/ StartPersistFails PROVE RetryInv'
    BY <1>2, StartedRetry DEF StartPersisted, StartPersistFails
  <1>3. ASSUME Dispose PROVE RetryInv'
    <2>0. PICK d \in Prompt : op.prompt = d
      BY <1>3 DEF Dispose, TypeOK
    <2> DEFINE settled == IF Adapter = "codex"
                          THEN [session EXCEPT !.status = "read_only", !.finished = TRUE,
                                               !.reply = EmptyReply, !.recovery = NoRecovery]
                          ELSE session
    <2>1. /\ op.pc = "disposing" /\ session' = Recorded(settled, d, op.verdict)
          /\ UNCHANGED <<rows, disk, alive, turn>>
          /\ op'.pc \in {"idle", "recording"}
      BY <1>3, <2>0 DEF Dispose, AfterRecording, NoOp
    <2>2. rows[d] # "absent" /\ Untaken(d)
      BY <2>0, <2>1 DEF TypeOK, AttendedInv, OpRowInv, SafetyInv, OpInv
    <2>3. Spared(d)'
      BY <2>1, <2>2 DEF Spared, Untaken, Pending
    <2>4. settled \in SessionDetail
      BY DEF TypeOK, SessionDetail, ReplyState, PromptRecovery
    <2>5. settled.recovery = session.recovery \/ settled.recovery.phase # "not_sent"
      BY DEF TypeOK, SessionDetail, NoRecovery, Reply
    <2>6. op.verdict \in {"none", "not_sent", "outcome_unknown"}
      BY DEF TypeOK, Operation
    <2> HIDE DEF settled
    <2>7. session'.recovery = settled.recovery \/ session'.recovery.prompt = d
      <3>1. \/ session'.recovery = settled.recovery
            \/ session'.recovery = Reply("outcome_unknown", d, TRUE, FALSE)
            \/ session'.recovery = Reply("not_sent", d, TRUE, FALSE)
        BY <2>1, <2>2, <2>4, <2>6, RecordedEffect
      <3> QED BY <3>1 DEF Reply
    <2> QED BY <2>1, <2>2, <2>3, <2>5, <2>7, RetryKept
  <1>4. ASSUME StartupReady PROVE RetryInv'
    <2>1. /\ disk' = disk
          /\ session'.recovery \in {NoRecovery, Reply("outcome_unknown", op.prompt, TRUE, FALSE)}
      BY <1>4 DEF StartupReady, TypeOK, SessionDetail
    <2> QED BY <2>1, RetryKept DEF NoRecovery, Reply
  <1>5. ASSUME NEW c \in Child, NEW code \in ExitCode, NEW conflict \in BOOLEAN,
               ProcessExits(c, code, conflict)
        PROVE  RetryInv'
    <2>1. /\ disk' = disk /\ op' = op /\ turn' = turn /\ c \in alive /\ alive' = alive \ {c}
          /\ MayExit(session, c, code, conflict)
          /\ \/ session' = session
             \/ /\ session' = ExitSession(session, rows, c, code, conflict)
                /\ rows' = ExitRows(session, rows, c, code, conflict)
                /\ Watched(c)
      BY <1>5 DEF ProcessExits
    <2>2. CASE \/ session'.recovery = session.recovery
               \/ session'.recovery.phase # "not_sent"
      BY <2>1, <2>2, RetryKept
    <2>3. CASE session'.recovery # session.recovery /\ session'.recovery.phase = "not_sent"
      <3>1. /\ session' = ExitSession(session, rows, c, code, conflict)
            /\ rows' = ExitRows(session, rows, c, code, conflict)
            /\ Watched(c)
        BY <2>1, <2>3
      <3>2. /\ ExitIsNews(session, c) /\ conflict /\ session.status # "stopped"
            /\ session'.recovery.prompt = session.reply.prompt
        BY <2>1, <2>3, <3>1, ExitEffect
      <3>3. /\ Adapter = "codex" /\ c \in Prompt /\ turn[c] = "absent"
            /\ session.reply.phase # "idle" /\ current = c /\ ~ session.finished
        BY <2>1, <3>2 DEF MayExit, ExitIsNews
      <3>4. op.pc \notin Within
        <4>1. ASSUME op.pc \in Within PROVE c = op.prompt
          BY <3>3, <4>1, MaxPromptsAssumption DEF ChildInv, NoChild, Prompt
        <4>2. ASSUME op.pc \in {"spawnFailed", "disposing"} PROVE op.prompt \notin alive
          BY <4>2 DEF SafetyInv, OpInv, Untaken
        <4> QED BY <2>1, <3>1, <4>1, <4>2 DEF Watched, Within
      <3>5. session.reply.prompt = c
        BY <3>2, <3>3, <3>4 DEF AwaitedInv
      <3>6. rows[c] # "absent"
        BY <2>1, <3>3 DEF SafetyInv, RecoveryIsSound, Untaken
      <3>7. rows'[c] # "absent"
        BY <2>1, <3>1, <3>3, <3>6, ExitCools DEF Cools
      <3>8. Pending => c # op.prompt
        BY <2>1 DEF SafetyInv, OpInv, Untaken
      <3>9. Spared(c)'
        BY <2>1, <3>3, <3>7, <3>8 DEF Spared, Untaken, Pending
      <3> QED BY <2>1, <3>2, <3>3, <3>5, <3>9, RetryKept
    <2> QED BY <2>2, <2>3
  <1>6. ASSUME Sync PROVE RetryInv'
    <2>1. disk' = disk
      BY <1>6 DEF Sync, SyncUnchanged, SyncRecovery, SyncBusy, SyncWaiting, SyncCompleted
    <2>2. ASSUME SyncUnchanged PROVE RetryInv'
      BY <2>1, <2>2, RetryKept DEF SyncUnchanged
    <2>3. ASSUME NEW v, SyncRecovery(v) PROVE RetryInv'
      <3>1. session' = RecoveredSession(v)
        BY <2>3 DEF SyncRecovery
      <3>2. session'.recovery.phase \in {"none", "outcome_unknown"}
        BY <3>1 DEF RecoveredSession, TypeOK, SessionDetail, NoRecovery, Reply
      <3> QED BY <2>1, <3>2, RetryKept
    <2>4. ASSUME NEW v, SyncBusy(v) \/ SyncWaiting(v) PROVE RetryInv'
      <3>1. session'.recovery = session.recovery
        BY <2>4 DEF SyncBusy, SyncWaiting, TypeOK, SessionDetail
      <3> QED BY <2>1, <3>1, RetryKept
    <2>5. ASSUME NEW v, SyncCompleted(v) PROVE RetryInv'
      <3> DEFINE s == [session EXCEPT !.reply = EmptyReply, !.recovery = NoRecovery]
      <3>1. session' = FinishedSession(s, rows, "done", "zero", FALSE)
        BY <2>5 DEF SyncCompleted
      <3>2. s \in SessionDetail /\ s.reply.phase = "idle" /\ s.recovery = NoRecovery
        BY DEF TypeOK, SessionDetail, EmptyReply, Reply, ReplyState, PromptRecovery
      <3> HIDE DEF s
      <3>3. session'.recovery = NoRecovery
        BY <3>1, <3>2 DEF FinishedSession, FinishedRecovery, Uncertain, SessionDetail
      <3> QED BY <2>1, <3>3, RetryKept DEF NoRecovery, Reply
    <2> QED BY <1>6, <2>2, <2>3, <2>4, <2>5 DEF Sync
  <1>7. ASSUME RequestStop \/ StopDetached \/ StopDone \/ StopFails PROVE RetryInv'
    <2>1. disk' = disk /\ session'.recovery = session.recovery
      BY <1>7 DEF RequestStop, StopDetached, StopDone, StopFails, TypeOK, SessionDetail
    <2> QED BY <2>1, RetryKept
  <1>8. ASSUME GiveUpChecking PROVE RetryInv'
    <2>1. disk' = disk /\ session.recovery \in PromptRecovery
      BY <1>8, SessionFields DEF GiveUpChecking, TypeOK
    <2>2. session'.recovery = [session.recovery EXCEPT !.phase = "outcome_unknown"]
      BY <1>8 DEF GiveUpChecking, TypeOK, SessionDetail
    <2>3. session'.recovery.phase = "outcome_unknown"
      BY <2>1, <2>2 DEF PromptRecovery, NoRecovery, Reply
    <2> QED BY <2>1, <2>3, RetryKept
  <1>9. ASSUME Persist PROVE RetryInv'
    BY <1>9, RetryKept DEF Persist
  <1>10. ASSUME Close PROVE RetryInv'
    <2>1. session' = disk'
      BY <1>10 DEF Close, Halt
    <2>2. session'.recovery = session.recovery
      BY <1>10 DEF Close, Halt, TypeOK, SessionDetail
    <2> QED BY <2>1, <2>2, RetryKept
  <1>11. ASSUME Crash PROVE RetryInv'
    BY <1>11, RetryKept DEF Crash, Halt
  <1>12. ASSUME Restart PROVE RetryInv'
    <2> DEFINE s == Hydrated(disk)
    <2>1. disk' = disk /\ UNCHANGED <<alive, turn, op>> /\ op.pc = "idle"
      BY <1>12 DEF Restart, SafetyInv, DownInv
    <2>2. s \in SessionDetail
      <3>1. EmptyReply \in ReplyState /\ disk.reply \in ReplyState
        BY SessionFields DEF TypeOK, ReplyState
      <3> QED BY <3>1 DEF Hydrated, TypeOK, SessionDetail
    <2>3. CASE \A d \in Prompt : rows[d] \notin Recoverable
      <3>1. session' = [s EXCEPT !.reply = EmptyReply, !.recovery = NoRecovery]
        BY <1>12, <2>3 DEF Restart, IsLatest
      <3> HIDE DEF s
      <3>2. session'.recovery = NoRecovery
        BY <2>2, <3>1 DEF SessionDetail
      <3> QED BY <2>1, <3>2, RetryKept DEF NoRecovery, Reply
    <2>4. CASE ~ \A d \in Prompt : rows[d] \notin Recoverable
      <3>1. PICK d \in Prompt :
              session' = [s EXCEPT !.reply = EmptyReply,
                                   !.recovery = Reply(RestartPhase(s, d), d, TRUE,
                                                      ObservedOnDisk(s, d))]
        BY <1>12, <2>4 DEF Restart
      <3>2. session'.recovery = Reply(RestartPhase(s, d), d, TRUE, ObservedOnDisk(s, d))
        BY <2>2, <3>1 DEF SessionDetail
      <3>3. session'.recovery.prompt = d /\ session'.recovery.phase = RestartPhase(s, d)
        BY <3>2 DEF Reply
      <3>4. RestartPhase(s, d) = "not_sent" => rows[d] \in {"prepared", "not_sent"}
        BY DEF RestartPhase
      <3>5. rows[d] \in {"prepared", "not_sent"} => Spared(d)
        BY <2>1 DEF SafetyInv, RecoveryIsSound, Spared, Pending
      <3>6. rows[d] \in {"prepared", "not_sent"} => Spared(d)'
        BY <3>5, SparedStays
      <3> QED BY <2>1, <3>3, <3>4, <3>6, RetryKept
    <2> QED BY <2>3, <2>4
  <1>13. ASSUME RestartDone PROVE RetryInv'
    BY <1>13, RetryKept DEF RestartDone
  <1>14. ASSUME \/ SendPrompt \/ PreflightPasses \/ KillDone \/ Dispatch \/ StartupFails
                \/ RecordingDone
                \/ \E d \in Prompt : RuntimeTakesPrompt(d) \/ TurnEnds(d)
                \/ Resolve \/ ResolvePersistFails \/ BeginShutdown \/ CloseRunner
                \/ UNCHANGED vars
         PROVE  RetryInv'
    <2>1. session' = session /\ disk' = disk
      BY <1>14 DEF SendPrompt, PreflightPasses, KillDone, Dispatch, StartupFails, RecordingDone,
                   RuntimeTakesPrompt, TurnEnds, Resolve, ResolvePersistFails, BeginShutdown,
                   CloseRunner, vars
    <2> QED BY <2>1, RetryKept
  <1> QED
    BY <1>1, <1>2, <1>3, <1>4, <1>5, <1>6, <1>7, <1>8, <1>9, <1>10, <1>11, <1>12, <1>13, <1>14
    DEF Next, PromptStep

(* What the session in memory or on disk offers to send again, nothing has *)
(* and nothing is about to start.                                          *)
THEOREM RetryInvariant == ASSUME Calm PROVE Spec => [](AwaitedInv /\ RetryInv)
  <1>1. Init => AwaitedInv /\ RetryInv
    <2>1. Detached.recovery = NoRecovery /\ Attached.recovery = NoRecovery
      BY DEF Detached, Attached
    <2>2. Shell \notin Prompt /\ NoChild \notin Prompt
      BY MaxPromptsAssumption DEF Shell, NoChild, Prompt
    <2>3. Init => AwaitedInv
      BY <2>2 DEF Init, AwaitedInv
    <2>4. Init => RetryInv
      BY <2>1 DEF Init, RetryInv, Offered, NoRecovery, Reply
    <2> QED BY <2>3, <2>4
  <1>2. TypeOK /\ SafetyInv /\ AttendedInv /\ ChildInv /\ BlockedInv
          /\ (AwaitedInv /\ RetryInv) /\ [Next]_vars => (AwaitedInv /\ RetryInv)'
    BY StepAwaited, StepRetry
  <1> QED BY <1>1, <1>2, TypeCorrect, SafetyInvariant, AttendedInvariant, ChildInvariant,
             BlockedInvariant, PTL DEF Spec

(* The recovery card offers to send a prompt again only when no process    *)
(* and no runtime has it, whether the offer comes from a start that failed,*)
(* from a refusal by an active writer, from the journal after a restart or *)
(* from a copy of the session saved long before a crash.                   *)
THEOREM RetriesAreSafe == ASSUME Calm PROVE Spec => []RetryableIsSafe
  <1>1. TypeOK /\ RetryInv => RetryableIsSafe
    <2> SUFFICES ASSUME TypeOK, RetryInv, session.recovery.phase = "not_sent"
                 PROVE  Untaken(session.recovery.prompt)
      BY DEF RetryableIsSafe
    <2>1. session.recovery \in PromptRecovery
      BY SessionFields DEF TypeOK
    <2>2. session.recovery.prompt \in Prompt
      BY <2>1 DEF PromptRecovery, NoRecovery, Reply
    <2> QED BY <2>2 DEF RetryInv, Offered, Spared
  <1> QED BY <1>1, TypeCorrect, RetryInvariant, PTL

-----------------------------------------------------------------------------
(* With Codex a linked reply that is being waited for is left behind by    *)
(* every operation but the one that asked for it, and is watched through   *)
(* its child until the session finishes.  Only a kill that fails after the *)
(* child has gone gives such a reply back.                                 *)
UnderWay == {"refused"} \cup Before \cup Within

LinkedInv ==
  daemon \in {"up", "starting"} /\ session.reply.phase # "idle" /\ session.reply.linked =>
    /\ op.pc \notin UnderWay
    /\ \/ current = session.reply.prompt /\ ~ session.finished
       \/ session.recovery # NoRecovery

LEMMA LinkedKept ==
  ASSUME LinkedInv,
         \/ daemon' \notin {"up", "starting"}
         \/ session'.reply.phase = "idle"
         \/ ~ session'.reply.linked
         \/ /\ daemon \in {"up", "starting"}
            /\ session.reply.phase # "idle"
            /\ session'.reply.linked = session.reply.linked
            /\ session'.reply.prompt = session.reply.prompt
            /\ op'.pc \in UnderWay => op.pc \in UnderWay
            /\ session.recovery # NoRecovery => session'.recovery # NoRecovery
            /\ \/ session.recovery # NoRecovery
               \/ current' = current /\ session'.finished = session.finished
  PROVE  LinkedInv'
  BY DEF LinkedInv

LEMMA RecordedLinked ==
  ASSUME TypeOK, LinkedInv, NEW d \in Prompt,
         NEW verdict \in {"none", "not_sent", "outcome_unknown"},
         session' = Recorded(session, d, verdict),
         daemon' = daemon, current' = current, op'.pc \notin UnderWay
  PROVE  LinkedInv'
  <1>1. /\ session'.reply = session.reply /\ session'.finished = session.finished
        /\ \/ session'.recovery = session.recovery
           \/ session'.recovery = Reply("outcome_unknown", d, TRUE, FALSE)
           \/ session'.recovery = Reply("not_sent", d, TRUE, FALSE)
    BY RecordedEffect DEF TypeOK
  <1>2. session.recovery # NoRecovery => session'.recovery # NoRecovery
    BY <1>1 DEF Reply, NoRecovery
  <1> QED BY <1>1, <1>2 DEF LinkedInv

LEMMA StepLinked ==
  ASSUME Adapter = "codex", "kill" \notin Faults,
         TypeOK, SafetyInv, AttendedInv, LinkedInv, [Next]_vars
  PROVE  LinkedInv'
  <1> USE DEF UnderWay, Before, Within
  <1>1. ASSUME op.pc # "idle" PROVE op.prompt \in Prompt
    BY <1>1 DEF TypeOK
  <1>2. ASSUME SendPrompt PROVE LinkedInv'
    <2>1. session' = session /\ session.reply.phase = "idle"
      BY <1>2 DEF SendPrompt, CanStart
    <2> QED BY <2>1, LinkedKept
  <1>3. ASSUME PreflightFails PROVE LinkedInv'
    <2> DEFINE verdict == FailedVerdict(rows, op.prompt)
    <2>1. /\ session' = Recorded(session, op.prompt, verdict)
          /\ daemon' = daemon /\ current' = current /\ op'.pc \in {"idle", "recording"}
      BY <1>3 DEF PreflightFails, Fail, AfterRecording, NoOp
    <2>2. verdict \in {"none", "not_sent", "outcome_unknown"} /\ op.prompt \in Prompt
      BY <1>1, <1>3 DEF FailedVerdict, PreflightFails
    <2> HIDE DEF verdict
    <2> QED BY <2>1, <2>2, RecordedLinked
  <1>4. ASSUME PreflightPasses \/ KillDone \/ Dispatch \/ StartupFails PROVE LinkedInv'
    <2>1. /\ session' = session /\ daemon' = daemon
          /\ op.pc \in UnderWay
      BY <1>4 DEF PreflightPasses, KillDone, Dispatch, StartupFails
    <2> QED BY <2>1 DEF LinkedInv
  <1>5. ASSUME StartupReady PROVE LinkedInv'
    <2>1. /\ daemon' = daemon /\ op.pc = "startup" /\ current' = current
          /\ session'.reply = Reply("sending", op.prompt, TRUE, FALSE)
          /\ ~ session'.finished
          /\ op'.pc = "persisting"
          /\ rows[op.prompt] # "dispatching" =>
               session'.recovery = Reply("outcome_unknown", op.prompt, TRUE, FALSE)
      BY <1>5 DEF StartupReady, TypeOK, SessionDetail, Operation
    <2>2. session'.reply.prompt = op.prompt
      BY <2>1 DEF Reply
    <2>3. CASE rows[op.prompt] # "dispatching"
      <3>1. session'.recovery # NoRecovery
        BY <2>1, <2>3 DEF Reply, NoRecovery
      <3> QED BY <2>1, <3>1 DEF LinkedInv
    <2>4. CASE rows[op.prompt] = "dispatching"
      <3>1. daemon = "up" => current = op.prompt
        BY <2>1, <2>4 DEF AttendedInv, OpRowInv, InFlight
      <3>2. daemon # "starting"
        BY <1>5 DEF StartupReady, Live
      <3> QED BY <2>1, <2>2, <3>1, <3>2 DEF LinkedInv
    <2> QED BY <2>3, <2>4
  <1>6. ASSUME Dispose PROVE LinkedInv'
    <2> DEFINE settled == [session EXCEPT !.status = "read_only", !.finished = TRUE,
                                          !.reply = EmptyReply, !.recovery = NoRecovery]
    <2>1. session' = Recorded(settled, op.prompt, op.verdict) /\ op.prompt \in Prompt
      BY <1>1, <1>6 DEF Dispose
    <2>2. settled \in SessionDetail /\ settled.reply = EmptyReply
      BY DEF TypeOK, SessionDetail, ReplyState, PromptRecovery
    <2>3. op.verdict \in {"none", "not_sent", "outcome_unknown"}
      BY DEF TypeOK, Operation
    <2> HIDE DEF settled
    <2>4. session'.reply = EmptyReply
      BY <2>1, <2>2, <2>3, RecordedEffect
    <2>5. session'.reply.phase = "idle"
      BY <2>4 DEF EmptyReply, Reply
    <2> QED BY <2>5, LinkedKept
  <1>7. ASSUME NEW saved \in BOOLEAN, op.pc \in {"persisting", "persisted"}, Started(saved)
        PROVE  LinkedInv'
    <2> DEFINE d == op.prompt
               exits == d \notin alive
    <2>1. PICK code \in ExitCode, conflict \in BOOLEAN :
            LET rs == IF exits THEN ExitRows(session, rows, d, code, conflict) ELSE rows
                s  == IF exits THEN ExitSession(session, rows, d, code, conflict) ELSE session
                verdict == IF saved THEN "none" ELSE FailedVerdict(rs, d)
            IN
            /\ exits => MayExit(session, d, code, conflict)
            /\ session' = Recorded(s, d, verdict)
            /\ op' = AfterRecording(s, d, verdict)
            /\ current' = IF exits THEN ExitCurrent(d) ELSE current
            /\ daemon' = daemon
      BY <1>7 DEF Started
    <2> DEFINE rs == IF exits THEN ExitRows(session, rows, d, code, conflict) ELSE rows
               s  == IF exits THEN ExitSession(session, rows, d, code, conflict) ELSE session
               verdict == IF saved THEN "none" ELSE FailedVerdict(rs, d)
    <2>2. op'.pc \in {"idle", "recording"} /\ daemon' = daemon /\ d \in Prompt
      BY <1>1, <1>7, <2>1 DEF AfterRecording, NoOp
    <2>3. session' = Recorded(s, d, verdict)
      BY <2>1
    <2>4. verdict \in {"none", "not_sent", "outcome_unknown"}
      BY DEF FailedVerdict
    <2>5. CASE exits /\ ExitIsNews(session, d)
      <3>1. MayExit(session, d, code, conflict)
        BY <2>1, <2>5
      <3>2. s = ExitSession(session, rows, d, code, conflict)
        BY <2>5
      <3>3. s.reply = EmptyReply
        BY <2>5, <3>1, <3>2, ExitEffect
      <3>4. rows \in Rows /\ session \in SessionDetail /\ Starting(d)
        BY <1>7 DEF TypeOK, Starting
      <3>5. s \in SessionDetail
        BY <3>1, <3>2, <3>4, ExitTyped
      <3> HIDE DEF s, verdict, d
      <3>6. session'.reply = EmptyReply
        BY <2>2, <2>3, <2>4, <3>3, <3>5, RecordedEffect
      <3>7. session'.reply.phase = "idle"
        BY <3>6 DEF EmptyReply, Reply
      <3> QED BY <3>7, LinkedKept
    <2>6. CASE ~ (exits /\ ExitIsNews(session, d))
      <3>1. s = session
        BY <2>6 DEF ExitSession
      <3>2. \/ current' = current
            \/ current = d /\ session.finished
        BY <2>1, <2>6 DEF ExitIsNews, ExitCurrent
      <3> HIDE DEF s, verdict, rs
      <3>3. CASE current' = current
        BY <2>2, <2>3, <2>4, <3>1, <3>3, RecordedLinked
      <3>4. CASE session.finished
        <4> HIDE DEF d
        <4>1. /\ session'.reply = session.reply
              /\ \/ session'.recovery = session.recovery
                 \/ session'.recovery = Reply("outcome_unknown", d, TRUE, FALSE)
                 \/ session'.recovery = Reply("not_sent", d, TRUE, FALSE)
          BY <2>2, <2>3, <2>4, <3>1, RecordedEffect DEF TypeOK
        <4>2. session.recovery # NoRecovery => session'.recovery # NoRecovery
          BY <4>1 DEF Reply, NoRecovery
        <4> QED BY <2>2, <3>4, <4>1, <4>2 DEF LinkedInv
      <3> QED BY <3>2, <3>3, <3>4
    <2> QED BY <2>5, <2>6
  <1>8. ASSUME StartPersisted \/ StartPersistFails PROVE LinkedInv'
    BY <1>7, <1>8 DEF StartPersisted, StartPersistFails
  <1>9. ASSUME NEW c \in Child, NEW code \in ExitCode, NEW conflict \in BOOLEAN,
               ProcessExits(c, code, conflict)
        PROVE  LinkedInv'
    <2>1. /\ MayExit(session, c, code, conflict) /\ op' = op /\ daemon' = daemon
          /\ \/ session' = session /\ current' = current
             \/ /\ session' = ExitSession(session, rows, c, code, conflict)
                /\ current' = ExitCurrent(c)
      BY <1>9 DEF ProcessExits
    <2>2. CASE session' = session /\ current' = current
      BY <2>1, <2>2 DEF LinkedInv
    <2>3. CASE /\ session' = ExitSession(session, rows, c, code, conflict)
               /\ ExitIsNews(session, c)
      <3>1. session'.reply = EmptyReply
        BY <2>1, <2>3, ExitEffect
      <3>2. session'.reply.phase = "idle"
        BY <3>1 DEF EmptyReply, Reply
      <3> QED BY <3>2, LinkedKept
    <2>4. CASE /\ session' = ExitSession(session, rows, c, code, conflict)
               /\ current' = ExitCurrent(c)
               /\ ~ ExitIsNews(session, c)
      <3>1. session' = session /\ (current' = current \/ session.finished)
        BY <2>4 DEF ExitSession, ExitCurrent, ExitIsNews
      <3> QED BY <2>1, <3>1 DEF LinkedInv
    <2> QED BY <2>1, <2>2, <2>3, <2>4
  <1>10. ASSUME NEW v, SyncRecovery(v) PROVE LinkedInv'
    <2>1. session'.reply = EmptyReply
      BY <1>10 DEF SyncRecovery, RecoveredSession, TypeOK, SessionDetail
    <2>2. session'.reply.phase = "idle"
      BY <2>1 DEF EmptyReply, Reply
    <2> QED BY <2>2, LinkedKept
  <1>11. ASSUME NEW v, SyncBusy(v) PROVE LinkedInv'
    <2>1. PICK d \in Prompt : session' = [session EXCEPT !.reply = Reply("waiting", d, FALSE, FALSE)]
      BY <1>11 DEF SyncBusy
    <2>2. session'.reply = Reply("waiting", d, FALSE, FALSE)
      BY <2>1 DEF TypeOK, SessionDetail
    <2>3. ~ session'.reply.linked
      BY <2>2 DEF Reply
    <2> QED BY <2>3, LinkedKept
  <1>12. ASSUME NEW v, SyncWaiting(v) PROVE LinkedInv'
    <2>1. /\ UNCHANGED <<current, op, daemon>> /\ session.reply.phase # "idle"
          /\ session' = [session EXCEPT !.reply.phase = "waiting", !.reply.observed = TRUE]
      BY <1>12 DEF SyncWaiting, OwnedTurn
    <2>2. session.reply \in ReplyState
      BY SessionFields DEF TypeOK
    <2>3. /\ session'.recovery = session.recovery /\ session'.finished = session.finished
          /\ session'.reply = [session.reply EXCEPT !.phase = "waiting", !.observed = TRUE]
      BY <2>1 DEF TypeOK, SessionDetail
    <2>4. /\ session'.reply.prompt = session.reply.prompt
          /\ session'.reply.linked = session.reply.linked
      BY <2>2, <2>3 DEF ReplyState, EmptyReply, Reply
    <2> QED BY <2>1, <2>3, <2>4 DEF LinkedInv
  <1>13. ASSUME NEW v, SyncCompleted(v) PROVE LinkedInv'
    <2> DEFINE s == [session EXCEPT !.reply = EmptyReply, !.recovery = NoRecovery]
    <2>1. session' = FinishedSession(s, rows, "done", "zero", FALSE)
      BY <1>13 DEF SyncCompleted
    <2>2. s \in SessionDetail
      BY DEF TypeOK, SessionDetail, ReplyState, PromptRecovery
    <2> HIDE DEF s
    <2>3. session'.reply = EmptyReply
      BY <2>1, <2>2 DEF FinishedSession, SessionDetail
    <2>4. session'.reply.phase = "idle"
      BY <2>3 DEF EmptyReply, Reply
    <2> QED BY <2>4, LinkedKept
  <1>14. ASSUME Sync PROVE LinkedInv'
    <2>1. ASSUME SyncUnchanged PROVE LinkedInv'
      BY <2>1 DEF SyncUnchanged, LinkedInv
    <2> QED BY <1>10, <1>11, <1>12, <1>13, <1>14, <2>1 DEF Sync
  <1>15. ASSUME RequestStop \/ StopDetached \/ GiveUpChecking PROVE LinkedInv'
    <2>1. session'.reply = EmptyReply
      BY <1>15 DEF RequestStop, StopDetached, GiveUpChecking, TypeOK, SessionDetail
    <2>2. session'.reply.phase = "idle"
      BY <2>1 DEF EmptyReply, Reply
    <2> QED BY <2>2, LinkedKept
  <1>16. ASSUME Persist \/ RecordingDone PROVE LinkedInv'
    <2>1. UNCHANGED <<session, current, daemon>>
      BY <1>16 DEF Persist, RecordingDone
    <2>2. op'.pc \in UnderWay => op.pc \in UnderWay
      BY <1>16 DEF Persist, RecordingDone, NoOp, TypeOK, Operation
    <2> QED BY <2>1, <2>2 DEF LinkedInv
  <1>17. ASSUME BeginShutdown \/ CloseRunner \/ Close \/ Crash PROVE LinkedInv'
    <2>1. daemon' \notin {"up", "starting"}
      BY <1>17 DEF BeginShutdown, CloseRunner, Close, Crash, Halt
    <2> QED BY <2>1, LinkedKept
  <1>18. ASSUME Restart PROVE LinkedInv'
    <2> DEFINE s == Hydrated(disk)
    <2>1. s \in SessionDetail
      <3>1. EmptyReply \in ReplyState /\ disk.reply \in ReplyState
        BY SessionFields DEF TypeOK, ReplyState
      <3> QED BY <3>1 DEF Hydrated, TypeOK, SessionDetail
    <2>2. \E r : session' = [s EXCEPT !.reply = EmptyReply, !.recovery = r]
      BY <1>18 DEF Restart
    <2> HIDE DEF s
    <2>3. session'.reply = EmptyReply
      BY <2>1, <2>2 DEF SessionDetail
    <2>4. session'.reply.phase = "idle"
      BY <2>3 DEF EmptyReply, Reply
    <2> QED BY <2>4, LinkedKept
  <1>19. ASSUME RestartDone PROVE LinkedInv'
    BY <1>19 DEF RestartDone, LinkedInv
  <1>20. ASSUME \/ \E d \in Prompt : RuntimeTakesPrompt(d) \/ TurnEnds(d)
                \/ StopDone \/ Resolve \/ ResolvePersistFails \/ UNCHANGED vars
         PROVE  LinkedInv'
    BY <1>20 DEF RuntimeTakesPrompt, TurnEnds, StopDone, Resolve, ResolvePersistFails, vars,
                 LinkedInv
  <1>21. ASSUME KillFails \/ StopFails PROVE FALSE
    BY <1>21 DEF KillFails, StopFails
  <1> QED
    BY <1>2, <1>3, <1>4, <1>5, <1>6, <1>8, <1>9, <1>14, <1>15, <1>16, <1>17, <1>18, <1>19,
       <1>20, <1>21
    DEF Next, PromptStep

(* A Codex session that is busy with a prompt from here is watched through *)
(* the process of that prompt and no other, or is being recovered, as long *)
(* as every process that is killed is seen to end.                         *)
THEOREM RepliesHaveTheirChild ==
  ASSUME Adapter = "codex", "kill" \notin Faults
  PROVE  Spec => []ReplyHasItsChild
  <1>1. Init => LinkedInv
    <2>1. Detached.reply = EmptyReply /\ Attached.reply = EmptyReply
      BY DEF Detached, Attached
    <2> QED BY <2>1 DEF Init, LinkedInv, EmptyReply, Reply
  <1>2. TypeOK /\ SafetyInv /\ AttendedInv /\ LinkedInv /\ [Next]_vars => LinkedInv'
    BY StepLinked
  <1>3. LinkedInv => ReplyHasItsChild
    BY DEF LinkedInv, ReplyHasItsChild
  <1> QED BY <1>1, <1>2, <1>3, TypeCorrect, SafetyInvariant, AttendedInvariant, PTL DEF Spec
===============================================================================
