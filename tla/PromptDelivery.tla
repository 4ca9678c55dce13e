----------------------------- MODULE PromptDelivery ---------------------------
(***************************************************************************)
(* The delivery of prompts to one source-backed session, that is a Codex   *)
(* or Claude Code chat which DeskCue continues by running its CLI once per *)
(* prompt.  Modelled together, because each reads and writes what the      *)
(* others do between its own awaits, are                                   *)
(*   - the prompt transport (StoreBackedPromptTransportCoordinator and the *)
(*     lifecycle of one prompt process),                                   *)
(*   - the session's record, in memory and as last saved,                  *)
(*   - the children the SessionRunner tracks and the processes alive,      *)
(*   - the reply-state reconciliation with the CLI's own transcript,       *)
(*   - stopping, daemon shutdown, crash, restart and hydration.            *)
(* One action is the code between two awaits.  Sessions share no state but *)
(* the daemon's own phase, so one session stands for each of them.  A      *)
(* definition marked Variant is a bug one could make here; the properties  *)
(* are tried against it.                                                   *)
(***************************************************************************)
EXTENDS PromptRows, Integers

CONSTANTS
  Adapter,     \* which CLI the session continues
  Faults       \* what can go wrong around it

ASSUME AdapterAssumption == Adapter \in {"codex", "claude"}
ASSUME FaultsAssumption == Faults \subseteq {"crash", "kill", "save"}

VARIABLES
  rows,        \* the session's rows of the journal: durable at once
  session,     \* the SessionDetail in memory
  disk,        \* the SessionDetail as last saved
  current,     \* the child that SessionRunner.children holds
  alive,       \* the children whose process runs
  turn,        \* what the CLI's transcript says of each prompt
  op,          \* the prompt operation in flight
  stop,        \* the stop or interrupt in flight
  resolution,  \* the recovered prompt being resolved
  daemon       \* the daemon process

vars == <<rows, session, disk, current, alive, turn, op, stop, resolution, daemon>>

-----------------------------------------------------------------------------
(* Children.  The child of prompt d is d; a Codex session may also have    *)
(* been attached without a prompt, to a terminal of its own.               *)

NoPrompt == 0
Shell    == 0
NoChild  == -1
Child    == Prompt \cup {Shell}

Reply(phase, d, linked, observed) ==
  [phase |-> phase, prompt |-> d, linked |-> linked, observed |-> observed]

EmptyReply == Reply("idle", NoPrompt, FALSE, FALSE)
NoRecovery == Reply("none", NoPrompt, FALSE, FALSE)

(* What a reply state or a recovery says of its prompt: linked, that it    *)
(* carries the requested_at of the journal row; observed, that it carries  *)
(* the time at which the transcript shows the prompt.                      *)
ReplyState ==
  {EmptyReply} \cup [phase : {"sending", "waiting"}, prompt : Prompt,
                     linked : BOOLEAN, observed : BOOLEAN]
PromptRecovery ==
  {NoRecovery} \cup [phase : {"not_sent", "checking", "outcome_unknown"},
                     prompt : Prompt, linked : BOOLEAN, observed : BOOLEAN]

SessionDetail ==
  [status : {"running", "read_only", "done", "stopped", "failed"},
   finished : BOOLEAN, reply : ReplyState, recovery : PromptRecovery,
   history : SUBSET Prompt]

(* A turn that was interrupted and one that failed end alike here.         *)
TurnState == {"absent", "active", "completed", "aborted"}
Terminal  == {"completed", "aborted"}

NoOp == [pc |-> "idle", prompt |-> NoPrompt, child |-> NoChild, verdict |-> "none"]
NoStop == [pc |-> "idle", child |-> NoChild, status |-> "running", reply |-> EmptyReply]
NoResolution == [pc |-> "idle", completed |-> FALSE]

(* The awaits at which a prompt operation can be.                          *)
OpPc == {"idle", "refused", "preflight", "killing", "ready", "spawnFailed",
         "startup", "persisting", "persisted", "disposing", "recording"}

Operation ==
  [pc : OpPc, prompt : Prompt \cup {NoPrompt}, child : Child \cup {NoChild},
   verdict : {"none", "not_sent", "outcome_unknown"}]

Stopping ==
  [pc : {"idle", "killing"}, child : Child \cup {NoChild},
   status : {"running", "read_only", "done", "stopped", "failed"}, reply : ReplyState]

Resolution == [pc : {"idle", "persisting", "persisted", "failed"}, completed : BOOLEAN]

TypeOK ==
  /\ rows \in Rows
  /\ session \in SessionDetail
  /\ disk \in SessionDetail
  /\ current \in Child \cup {NoChild}
  /\ alive \subseteq Child
  /\ turn \in [Prompt -> TurnState]
  /\ op \in Operation
  /\ op.pc # "idle" => op.prompt \in Prompt
  /\ stop \in Stopping
  /\ resolution \in Resolution
  /\ daemon \in {"up", "draining", "closing", "down", "starting"}

-----------------------------------------------------------------------------
(* A session is known to DeskCue as a detached chat it can continue, or,   *)
(* for Codex, as one attached to a terminal.                               *)

Detached == [status |-> "read_only", finished |-> TRUE, reply |-> EmptyReply,
             recovery |-> NoRecovery, history |-> {}]
Attached == [Detached EXCEPT !.status = "running", !.finished = FALSE]

Init ==
  /\ rows = NoRows
  /\ \/ session = Detached /\ current = NoChild /\ alive = {}
     \/ Adapter = "codex" /\ session = Attached /\ current = Shell /\ alive = {Shell}
  /\ disk = session
  /\ turn = [d \in Prompt |-> "absent"]
  /\ op = NoOp
  /\ stop = NoStop
  /\ resolution = NoResolution
  /\ daemon = "up"

Live == daemon \in {"up", "draining", "closing"}

-----------------------------------------------------------------------------
(* Finishing a session, as a function of its record and its rows.          *)

(* getExitedSessionStatus.  code is 0, another number, or null.            *)
ExitedStatus(s, code) ==
  CASE s.status = "stopped" -> "stopped"
    [] s.status # "stopped" /\ code = "zero" ->
         IF Adapter = "codex" THEN "done" ELSE "read_only"
    [] s.status # "stopped" /\ code = "null" -> "stopped"
    [] s.status # "stopped" /\ code = "nonzero" -> "failed"

(* markUncertainPromptOutcome.                                             *)
ObservedReply(s) == s.reply.phase = "waiting" /\ s.reply.observed

UncertainRecovery(s, rs) ==
  IF s.reply.prompt # NoPrompt /\ \E d \in Prompt : rs[d] \in InFlight
  THEN Reply(IF ObservedReply(s) THEN "checking" ELSE "outcome_unknown",
             s.reply.prompt, s.reply.linked, ObservedReply(s))
  ELSE s.recovery

(* recordSessionFinished, finalizeSession: what becomes of the rows and of *)
(* the record when a transport ends with that status.  conflict: the CLI   *)
(* refused the prompt because another writer holds the chat.               *)
Uncertain(s, status, code) ==
  \/ status = "failed"
  \/ code = "nonzero" /\ status # "stopped"
  \/ s.reply.phase # "idle"
  \/ s.recovery # NoRecovery

(* Variant: a stop leaves the rows alone.                                  *)
FinishedRowsUnlessStopped(s, rs, status, code, conflict) ==
  IF daemon # "up" THEN MarkOutcomeUnknownBySession(rs)
  ELSE IF conflict THEN MarkNotSentAfterActiveWriterConflict(rs)
  ELSE IF status = "stopped" THEN rs
  ELSE IF Uncertain(s, status, code) THEN MarkOutcomeUnknownBySession(rs)
  ELSE MarkCompleted(rs)

FinishedRows(s, rs, status, code, conflict) ==
  IF daemon # "up" THEN MarkOutcomeUnknownBySession(rs)
  ELSE IF conflict THEN MarkNotSentAfterActiveWriterConflict(rs)
  ELSE IF status = "stopped" THEN MarkInterrupted(rs)
  ELSE IF Uncertain(s, status, code) THEN MarkOutcomeUnknownBySession(rs)
  ELSE MarkCompleted(rs)

FinishedRecovery(s, rs, status, code, conflict) ==
  IF conflict /\ status = "failed"
  THEN Reply("not_sent", s.reply.prompt, s.reply.linked /\ ~ s.reply.observed, FALSE)
  ELSE IF daemon = "up" /\ ~ conflict /\ status # "stopped" /\ Uncertain(s, status, code)
       THEN UncertainRecovery(s, rs)
       ELSE s.recovery

FinishedSession(s, rs, status, code, conflict) ==
  LET final == IF conflict /\ status = "failed" THEN "read_only" ELSE status IN
  [s EXCEPT !.status   = final,
            !.finished = TRUE,
            !.recovery = FinishedRecovery(s, rs, status, code, conflict),
            !.reply    = IF final = "read_only" /\ Adapter = "claude" /\ s.reply.phase = "sending"
                         THEN [s.reply EXCEPT !.phase = "waiting"]
                         ELSE EmptyReply]

(* attachSessionExitHandler: the exit of child c with this code.           *)
ExitIsNews(s, c) == current = c /\ ~ s.finished

ExitRows(s, rs, c, code, conflict) ==
  IF ExitIsNews(s, c) THEN FinishedRows(s, rs, ExitedStatus(s, code), code, conflict) ELSE rs
ExitSession(s, rs, c, code, conflict) ==
  IF ExitIsNews(s, c) THEN FinishedSession(s, rs, ExitedStatus(s, code), code, conflict) ELSE s
ExitCurrent(c) == IF current = c THEN NoChild ELSE current

(* How a process can end, as the assumption on the CLI: it ends with 0     *)
(* only after it has ended the turn it took, and it reports an active      *)
(* writer only for a prompt it did not take.                               *)
ExitCode == {"zero", "nonzero", "null"}

MayExit(s, c, code, conflict) ==
  /\ code = "zero" /\ c \in Prompt => turn[c] # "active"
  /\ conflict => /\ Adapter = "codex" /\ c \in Prompt
                 /\ turn[c] = "absent" /\ code # "zero"
                 /\ s.reply.phase # "idle"

-----------------------------------------------------------------------------
(* Sending a prompt.                                                       *)

(* Variant: only a recovery that is checking blocks.                       *)
CanStartWhenUnknown ==
  /\ daemon = "up"
  /\ op.pc = "idle"
  /\ session.recovery.phase # "checking"
  /\ session.reply.phase = "idle"

(* assertCanStart; not_sent is the one recovery that is retryable.         *)
CanStart ==
  /\ daemon = "up"
  /\ op.pc = "idle"
  /\ session.recovery.phase \in {"none", "not_sent"}
  /\ session.reply.phase = "idle"

(* The checks of restartCodexTransport and restartClaudePromptTransport    *)
(* before their first await.                                               *)
TransportAccepts ==
  IF Adapter = "codex"
  THEN current # NoChild \/ session.status # "failed"
  ELSE current = NoChild /\ session.status # "running"

SendPrompt ==
  \E d \in Prompt :
    /\ CanStart
    /\ IsNext(rows, d)
    /\ rows' = Prepare(rows, d)
    /\ op' = [pc |-> IF TransportAccepts THEN "preflight" ELSE "refused",
              prompt |-> d, child |-> current, verdict |-> "none"]
    /\ UNCHANGED <<session, disk, current, alive, turn, stop, resolution, daemon>>

(* Lifecycle.markFailed: what it does to the row and what it answers.      *)
FailedRows(rs, d) == MarkOutcomeUnknown(MarkNotSent(rs, d), d)

(* Variant: whatever the phase of the row.                                 *)
FailedVerdictAlwaysNotSent(rs, d) ==
  IF rs[d] = "prepared" \/ rs[d] \in InFlight THEN "not_sent" ELSE "none"

FailedVerdict(rs, d) ==
  IF rs[d] = "prepared" THEN "not_sent"
  ELSE IF rs[d] \in InFlight THEN "outcome_unknown" ELSE "none"

(* Lifecycle.persistRecovery, up to its await.                             *)
Recorded(s, d, verdict) ==
  IF verdict = "none" \/ (verdict = "not_sent" /\ s.recovery # NoRecovery) THEN s
  ELSE [s EXCEPT !.recovery = Reply(verdict, d, TRUE, FALSE)]

AfterRecording(s, d, verdict) ==
  IF Recorded(s, d, verdict) = s THEN NoOp
  ELSE [pc |-> "recording", prompt |-> d, child |-> NoChild, verdict |-> "none"]

(* A check or an await of the transport failed before the process was      *)
(* started: the catch of startPreparedSourcePrompt for a plain error.      *)
Fail(cur) ==
  LET d == op.prompt
      verdict == FailedVerdict(rows, d) IN
  /\ rows' = FailedRows(rows, d)
  /\ session' = Recorded(session, d, verdict)
  /\ op' = AfterRecording(session, d, verdict)
  /\ current' = cur
  /\ UNCHANGED <<disk, alive, turn, stop, resolution, daemon>>

(* Variant: a refusal before the first await is lost.                      *)
PreflightFailsUnlessRefused ==
  /\ Live /\ op.pc = "preflight"
  /\ Fail(current)

PreflightFails ==
  /\ Live /\ op.pc \in {"preflight", "refused"}
  /\ Fail(current)

(* The checks passed.  Codex first kills the child that was attached when  *)
(* the prompt was sent (killChildForRestart), and stops tracking it before *)
(* it knows that it exited.                                                *)
PreflightPasses ==
  /\ Live /\ op.pc = "preflight"
  /\ op' = [op EXCEPT !.pc = IF Adapter = "codex" /\ op.child \in alive
                             THEN "killing" ELSE "ready"]
  /\ current' = IF Adapter = "codex" /\ op.child = current THEN NoChild ELSE current
  /\ UNCHANGED <<rows, session, disk, alive, turn, stop, resolution, daemon>>

KillDone ==
  /\ Live /\ op.pc = "killing" /\ op.child \notin alive
  /\ op' = [op EXCEPT !.pc = "ready"]
  /\ UNCHANGED <<rows, session, disk, current, alive, turn, stop, resolution, daemon>>

(* The termination was not confirmed in time.  A child that has not exited *)
(* is tracked again.                                                       *)
KillFails ==
  /\ "kill" \in Faults
  /\ Live /\ op.pc = "killing"
  /\ Fail(IF op.child \in alive /\ current = NoChild THEN op.child ELSE current)

(* markPromptDispatching, then spawnProcess, without an await between. The *)
(* spawn may throw, return a child whose process never starts, or start it.*)
Dispatch ==
  LET d == op.prompt
      spawn(pc, cur, procs) ==
        /\ op' = [op EXCEPT !.pc = pc, !.child = cur]
        /\ current' = IF cur = NoChild THEN current ELSE cur
        /\ alive' = alive \cup procs
  IN
  /\ Live /\ op.pc = "ready"
  /\ rows' = MarkDispatching(rows, d)
  /\ \/ spawn("spawnFailed", NoChild, {})
     \/ rows[d] = "prepared" /\ spawn("spawnFailed", d, {})
     \/ rows[d] = "prepared" /\ spawn("startup", d, {d})
  /\ UNCHANGED <<session, disk, turn, stop, resolution, daemon>>

(* The process runs: markPromptAccepted and the update of the session.     *)
StartupReady ==
  LET d == op.prompt IN
  /\ Live /\ op.pc = "startup"
  /\ rows' = MarkAccepted(rows, d)
  /\ session' = [session EXCEPT
       !.status   = "running",
       !.finished = FALSE,
       !.reply    = Reply("sending", d, TRUE, FALSE),
       !.recovery = IF rows[d] = "dispatching" THEN NoRecovery
                    ELSE Reply("outcome_unknown", d, TRUE, FALSE),
       !.history  = @ \cup {d}]
  /\ op' = [op EXCEPT !.pc = "persisting"]
  /\ UNCHANGED <<disk, current, alive, turn, stop, resolution, daemon>>

(* SourcePromptStartupError: the process certainly never ran.              *)
StartupFails ==
  LET d == op.prompt IN
  /\ Live /\ op.pc = "spawnFailed"
  /\ rows' = FailedRows(MarkNotSentAfterSynchronousSpawnFailure(rows, d), d)
  /\ op' = [op EXCEPT !.pc = "disposing",
                      !.verdict = IF rows[d] \in {"prepared", "dispatching"} THEN "not_sent"
                                  ELSE FailedVerdict(rows, d)]
  /\ UNCHANGED <<session, disk, current, alive, turn, stop, resolution, daemon>>

(* disposeFailedPromptChild, settleCodexSessionAfterReplacementSpawnFailure*)
(* and the record of the failure.                                          *)
Dispose ==
  LET d == op.prompt
      settled == IF Adapter = "codex"
                 THEN [session EXCEPT !.status = "read_only", !.finished = TRUE,
                                      !.reply = EmptyReply, !.recovery = NoRecovery]
                 ELSE session
  IN
  /\ Live /\ op.pc = "disposing"
  /\ current' = IF current = op.child THEN NoChild ELSE current
  /\ session' = Recorded(settled, d, op.verdict)
  /\ op' = AfterRecording(settled, d, op.verdict)
  /\ UNCHANGED <<rows, disk, alive, turn, stop, resolution, daemon>>

(* The last persistState of a failed prompt has ended, well or not.        *)
RecordingDone ==
  /\ Live /\ op.pc = "recording"
  /\ op' = NoOp
  /\ UNCHANGED <<rows, session, disk, current, alive, turn, stop, resolution, daemon>>

(* The session has been saved after the start, or could not be: only now   *)
(* is the exit handler attached, and an exit that came earlier replayed to *)
(* it.  A failed save then ends the operation as a failure.                *)
Started(saved) ==
  LET d == op.prompt IN
  \E code \in ExitCode, conflict \in BOOLEAN :
    LET exits == d \notin alive
        rs == IF exits THEN ExitRows(session, rows, d, code, conflict) ELSE rows
        s  == IF exits THEN ExitSession(session, rows, d, code, conflict) ELSE session
        verdict == IF saved THEN "none" ELSE FailedVerdict(rs, d)
    IN
    /\ IF exits THEN MayExit(session, d, code, conflict) ELSE code = "zero" /\ ~ conflict
    /\ rows' = IF saved THEN rs ELSE FailedRows(rs, d)
    /\ session' = Recorded(s, d, verdict)
    /\ op' = AfterRecording(s, d, verdict)
    /\ current' = IF exits THEN ExitCurrent(d) ELSE current
    /\ UNCHANGED <<disk, alive, turn, stop, resolution, daemon>>

StartPersisted   == Live /\ op.pc = "persisted" /\ Started(TRUE)
StartPersistFails == "save" \in Faults /\ Live /\ op.pc = "persisting" /\ Started(FALSE)

-----------------------------------------------------------------------------
(* The processes.                                                          *)

(* The exit handler of a prompt's child is attached at the end of Started. *)
Watched(c) == ~ (op.prompt = c /\ op.pc \in {"startup", "persisting", "persisted"})

ProcessExits(c, code, conflict) ==
  /\ c \in alive
  /\ MayExit(session, c, code, conflict)
  /\ alive' = alive \ {c}
  /\ IF Live /\ Watched(c)
     THEN /\ rows' = ExitRows(session, rows, c, code, conflict)
          /\ session' = ExitSession(session, rows, c, code, conflict)
          /\ current' = ExitCurrent(c)
     ELSE UNCHANGED <<rows, session, current>>
  /\ UNCHANGED <<disk, turn, op, stop, resolution, daemon>>

(* The CLI writes the prompt it was given to its transcript, and later how *)
(* the turn ended.                                                         *)
RuntimeTakesPrompt(d) ==
  /\ d \in alive /\ turn[d] = "absent"
  /\ turn' = [turn EXCEPT ![d] = "active"]
  /\ UNCHANGED <<rows, session, disk, current, alive, op, stop, resolution, daemon>>

TurnEnds(d) ==
  /\ d \in alive /\ turn[d] = "active"
  /\ \E t \in Terminal : turn' = [turn EXCEPT ![d] = t]
  /\ UNCHANGED <<rows, session, disk, current, alive, op, stop, resolution, daemon>>

-----------------------------------------------------------------------------
(* Stopping and interrupting.                                              *)

(* stopRunningSession, and interruptManagedPtySession for the one-shot     *)
(* process of a prompt: the session is stopped before the process is.      *)
RequestStop ==
  /\ daemon = "up" /\ stop = NoStop /\ current # NoChild
  /\ stop' = [pc |-> "killing", child |-> current,
              status |-> session.status, reply |-> session.reply]
  /\ session' = [session EXCEPT !.status = "stopped", !.reply = EmptyReply]
  /\ UNCHANGED <<rows, disk, current, alive, turn, op, resolution, daemon>>

StopDetached ==
  /\ daemon = "up" /\ current = NoChild /\ session.status = "running"
  /\ session' = [session EXCEPT !.status = "stopped", !.finished = TRUE, !.reply = EmptyReply]
  /\ UNCHANGED <<rows, disk, current, alive, turn, op, stop, resolution, daemon>>

StopDone ==
  /\ Live /\ stop.pc = "killing" /\ stop.child \notin alive
  /\ stop' = NoStop
  /\ UNCHANGED <<rows, session, disk, current, alive, turn, op, resolution, daemon>>

(* The process tree was not confirmed gone: the session is given back the  *)
(* status and the reply it had when the stop was asked for.                *)
StopFails ==
  /\ "kill" \in Faults
  /\ Live /\ stop.pc = "killing"
  /\ session' = [session EXCEPT !.status = stop.status, !.reply = stop.reply]
  /\ stop' = NoStop
  /\ UNCHANGED <<rows, disk, current, alive, turn, op, resolution, daemon>>

-----------------------------------------------------------------------------
(* Reconciling with the transcript.  The transcript is read before the     *)
(* reconciliation runs, so it may lag behind the CLI.                      *)

Seen(t) == {"absent", "active", t} \cap IF t = "absent" THEN {"absent"} ELSE TurnState

Snapshot == {v \in [Prompt -> TurnState] : \A d \in Prompt : v[d] \in Seen(turn[d])}

(* reconcileSessionPromptRecovery and its use in the reply-state sync.     *)
Recovering == session.recovery.phase \in {"checking", "outcome_unknown"}

(* Variant: a prompt that was seen counts as one that has ended.           *)
RecoveredSessionWhenSeen(v) ==
  LET t == IF session.recovery.observed THEN v[session.recovery.prompt] ELSE "absent" IN
  [session EXCEPT
     !.recovery = IF t # "absent" THEN NoRecovery ELSE @,
     !.reply    = EmptyReply]

(* Variant: an aborted turn is no evidence.                                *)
RecoveredSessionWhenCompleted(v) ==
  LET t == IF session.recovery.observed THEN v[session.recovery.prompt] ELSE "absent" IN
  [session EXCEPT
     !.recovery = IF t = "completed" THEN NoRecovery
                  ELSE Reply("outcome_unknown", @.prompt, @.linked, @.observed),
     !.reply    = EmptyReply]

RecoveredSession(v) ==
  LET t == IF session.recovery.observed THEN v[session.recovery.prompt] ELSE "absent" IN
  [session EXCEPT
     !.recovery = IF t \in Terminal THEN NoRecovery
                  ELSE Reply("outcome_unknown", @.prompt, @.linked, @.observed),
     !.reply    = EmptyReply,
     !.status   = IF t # "absent" /\ @ \in {"stopped", "failed"} THEN "read_only" ELSE @]

(* recoverManagedWaitingReplyState: the chat is busy with a prompt that was*)
(* sent from here, although no reply is being waited for.                  *)
LatestTaken(v, d) == v[d] # "absent" /\ \A e \in Prompt : e > d => v[e] = "absent"

BusyWith(v, d) == LatestTaken(v, d) /\ v[d] = "active" /\ d \in session.history

(* deriveReplyStateFromAgentSession, for a reply that is being waited for. *)
OwnedTurn(v) ==
  IF session.reply.phase = "idle" \/ current = NoChild THEN "absent"
  ELSE v[session.reply.prompt]

Matched == session.status \in {"running", "read_only"} \/ session.recovery # NoRecovery

(* scheduleRecoveredPromptResolution.                                      *)
Resolving(completed) ==
  [pc |-> IF resolution.pc \in {"persisting", "persisted"} THEN resolution.pc ELSE "persisting",
   completed |-> completed \/ (resolution.pc # "idle" /\ resolution.completed)]

(* What the sync leaves for the reconciler to do with the journal.         *)
Reconciled(s, completed) ==
  resolution' =
    IF session.recovery # NoRecovery /\ s.recovery = NoRecovery THEN Resolving(completed)
    ELSE IF resolution.pc # "idle" THEN Resolving(FALSE)
    ELSE resolution

SyncRecovery(v) ==
  /\ Recovering
  /\ session' = RecoveredSession(v)
  /\ Reconciled(session', v[session.recovery.prompt] = "completed")
  /\ UNCHANGED <<rows, disk, current, alive, turn, op, stop, daemon>>

SyncBusy(v) ==
  /\ ~ Recovering /\ session.reply.phase = "idle"
  /\ \E d \in Prompt :
       /\ BusyWith(v, d)
       /\ session' = [session EXCEPT !.reply = Reply("waiting", d, FALSE, FALSE)]
  /\ Reconciled(session', FALSE)
  /\ UNCHANGED <<rows, disk, current, alive, turn, op, stop, daemon>>

SyncWaiting(v) ==
  /\ ~ Recovering /\ OwnedTurn(v) \in {"active", "aborted"}
  /\ session' = [session EXCEPT !.reply.phase = "waiting", !.reply.observed = TRUE]
  /\ Reconciled(session', FALSE)
  /\ UNCHANGED <<rows, disk, current, alive, turn, op, stop, daemon>>

(* detachPromptTransport: the turn is complete, which finishes the session *)
(* whether or not its process has exited.                                  *)
SyncCompleted(v) ==
  LET s == [session EXCEPT !.reply = EmptyReply, !.recovery = NoRecovery] IN
  /\ ~ Recovering /\ OwnedTurn(v) = "completed"
  /\ rows' = FinishedRows(s, rows, "done", "zero", FALSE)
  /\ session' = FinishedSession(s, rows, "done", "zero", FALSE)
  /\ current' = IF current \in alive THEN current ELSE NoChild
  /\ Reconciled(session', FALSE)
  /\ UNCHANGED <<disk, alive, turn, op, stop, daemon>>

SyncUnchanged ==
  /\ ~ Recovering /\ resolution.pc = "failed"
  /\ Reconciled(session, FALSE)
  /\ UNCHANGED <<rows, session, disk, current, alive, turn, op, stop, daemon>>

Sync ==
  /\ daemon = "up" /\ Matched
  /\ \/ SyncUnchanged
     \/ \E v \in Snapshot :
          SyncRecovery(v) \/ SyncBusy(v) \/ SyncWaiting(v) \/ SyncCompleted(v)

(* resolveRecoveredPrompt, after the session was saved without a recovery. *)
Resolve ==
  /\ Live /\ resolution.pc = "persisted"
  /\ rows' = IF session.recovery # NoRecovery THEN rows
             ELSE IF resolution.completed THEN MarkCompleted(rows)
             ELSE MarkObservedBySession(rows)
  /\ resolution' = NoResolution
  /\ UNCHANGED <<session, disk, current, alive, turn, op, stop, daemon>>

ResolvePersistFails ==
  /\ "save" \in Faults
  /\ Live /\ resolution.pc = "persisting"
  /\ resolution' = [resolution EXCEPT !.pc = "failed"]
  /\ UNCHANGED <<rows, session, disk, current, alive, turn, op, stop, daemon>>

(* Variant: observedPromptAt is dropped.                                   *)
GiveUpAndForget ==
  /\ daemon = "up" /\ session.recovery.phase = "checking"
  /\ session' = [session EXCEPT
       !.recovery = Reply("outcome_unknown", @.prompt, @.linked, FALSE), !.reply = EmptyReply]
  /\ UNCHANGED <<rows, disk, current, alive, turn, op, stop, resolution, daemon>>

(* markPromptRecoveryOutcomeUnknown: the bounded scan gave up.             *)
GiveUpChecking ==
  /\ daemon = "up" /\ session.recovery.phase = "checking"
  /\ session' = [session EXCEPT !.recovery.phase = "outcome_unknown", !.reply = EmptyReply]
  /\ UNCHANGED <<rows, disk, current, alive, turn, op, stop, resolution, daemon>>

-----------------------------------------------------------------------------
(* Saving, shutting down, crashing and restarting.                         *)

(* A queued save takes its snapshot when it runs, and then lets whoever    *)
(* awaited it go on.                                                       *)
Persist ==
  /\ Live
  /\ disk' = session
  /\ op' = IF op.pc = "persisting" THEN [op EXCEPT !.pc = "persisted"] ELSE op
  /\ resolution' = IF resolution.pc = "persisting"
                   THEN [resolution EXCEPT !.pc = "persisted"] ELSE resolution
  /\ UNCHANGED <<rows, session, current, alive, turn, stop, daemon>>

BeginShutdown ==
  /\ daemon = "up"
  /\ daemon' = "draining"
  /\ rows' = MarkActiveOutcomeUnknownForShutdown(rows)
  /\ UNCHANGED <<session, disk, current, alive, turn, op, stop, resolution>>

(* Variant: the drain also waits for a save that has failed.               *)
CloseRunnerAfterEveryResolution ==
  /\ daemon = "draining"
  /\ op.pc = "idle" /\ resolution.pc = "idle"
  /\ daemon' = "closing"
  /\ current' = IF current = Shell THEN Shell ELSE NoChild
  /\ UNCHANGED <<rows, session, disk, alive, turn, op, stop, resolution>>

(* The prompts and resolutions in flight have drained; SessionRunner.close *)
(* lets the process of a prompt live on.                                   *)
CloseRunner ==
  /\ daemon = "draining"
  /\ op.pc = "idle" /\ resolution.pc \in {"idle", "failed"}
  /\ daemon' = "closing"
  /\ current' = IF current = Shell THEN Shell ELSE NoChild
  /\ UNCHANGED <<rows, session, disk, alive, turn, op, stop, resolution>>

(* What is left of the daemon's memory when it is not running.             *)
Halt(saved) ==
  /\ daemon' = "down"
  /\ session' = saved /\ disk' = saved
  /\ current' = NoChild
  /\ op' = NoOp /\ stop' = NoStop /\ resolution' = NoResolution
  /\ UNCHANGED <<alive, turn>>

(* The last save.  A child whose exit could not be confirmed leaves a      *)
(* session that is detached first.                                         *)
Close ==
  LET survives == current # NoChild /\ session.status = "running"
      detached == [session EXCEPT !.status = "read_only", !.finished = TRUE, !.reply = EmptyReply]
  IN
  /\ daemon = "closing"
  /\ rows' = IF survives THEN MarkOutcomeUnknownBySession(rows) ELSE rows
  /\ Halt(IF survives THEN detached ELSE session)

Crash ==
  /\ "crash" \in Faults
  /\ daemon # "down"
  /\ Halt(disk)
  /\ UNCHANGED rows

(* hydratePersistedSessions.                                               *)
Hydrated(s) ==
  IF s.status = "running"
  THEN [s EXCEPT !.status   = IF Adapter = "codex" THEN "read_only" ELSE "stopped",
                 !.finished = TRUE,
                 !.reply    = IF @.phase = "waiting" THEN @ ELSE EmptyReply]
  ELSE s

(* StoreBackedSessionBackend.hydrate: the latest recoverable row decides   *)
(* the recovery of the session; a session without one has none.            *)
Materialized(s, d) ==
  s.recovery # NoRecovery /\ s.recovery.prompt = d /\ s.recovery.linked

ObservedOnDisk(s, d) ==
  \/ Materialized(s, d) /\ s.recovery.observed
  \/ ObservedReply(s) /\ s.reply.linked /\ s.reply.prompt = d

(* Variant: what was not observed was not sent.                            *)
RestartPhaseUnlessObserved(s, d) ==
  IF ObservedOnDisk(s, d) THEN "checking" ELSE "not_sent"

RestartPhase(s, d) ==
  IF rows[d] \in {"prepared", "not_sent"} THEN "not_sent"
  ELSE IF Materialized(s, d) /\ s.recovery.phase = "outcome_unknown" THEN "outcome_unknown"
  ELSE IF ObservedOnDisk(s, d) THEN "checking" ELSE "outcome_unknown"

(* Variant: the reply survives the child it waited for.                    *)
RestartKeepsReply ==
  LET s == Hydrated(disk) IN
  /\ daemon = "down"
  /\ daemon' = "starting"
  /\ rows' = RecoverActiveAfterRestart(rows)
  /\ \/ \E d \in Prompt :
          /\ IsLatest(rows, d, Recoverable)
          /\ session' = [s EXCEPT !.reply = EmptyReply,
                                  !.recovery = Reply(RestartPhase(s, d), d, TRUE,
                                                     ObservedOnDisk(s, d))]
     \/ /\ \A d \in Prompt : rows[d] \notin Recoverable
        /\ session' = [s EXCEPT !.recovery = NoRecovery]
  /\ UNCHANGED <<disk, current, alive, turn, op, stop, resolution>>

Restart ==
  LET s == Hydrated(disk) IN
  /\ daemon = "down"
  /\ daemon' = "starting"
  /\ rows' = RecoverActiveAfterRestart(rows)
  /\ \/ \E d \in Prompt :
          /\ IsLatest(rows, d, Recoverable)
          /\ session' = [s EXCEPT !.reply = EmptyReply,
                                  !.recovery = Reply(RestartPhase(s, d), d, TRUE,
                                                     ObservedOnDisk(s, d))]
     \/ /\ \A d \in Prompt : rows[d] \notin Recoverable
        /\ session' = [s EXCEPT !.reply = EmptyReply, !.recovery = NoRecovery]
  /\ UNCHANGED <<disk, current, alive, turn, op, stop, resolution>>

RestartDone ==
  /\ daemon = "starting"
  /\ daemon' = "up"
  /\ disk' = session
  /\ UNCHANGED <<rows, session, current, alive, turn, op, stop, resolution>>

-----------------------------------------------------------------------------
(* The steps the daemon takes on its own once an operation is in flight.   *)
PromptStep ==
  \/ PreflightPasses \/ PreflightFails \/ KillDone \/ KillFails
  \/ Dispatch \/ StartupReady \/ StartupFails \/ Dispose \/ RecordingDone
  \/ StartPersisted \/ StartPersistFails

Next ==
  \/ SendPrompt
  \/ PromptStep
  \/ \E c \in Child, code \in ExitCode, conflict \in BOOLEAN : ProcessExits(c, code, conflict)
  \/ \E d \in Prompt : RuntimeTakesPrompt(d) \/ TurnEnds(d)
  \/ RequestStop \/ StopDetached \/ StopDone \/ StopFails
  \/ Sync \/ Resolve \/ ResolvePersistFails \/ GiveUpChecking
  \/ Persist \/ BeginShutdown \/ CloseRunner \/ Close \/ Crash
  \/ Restart \/ RestartDone

Spec == Init /\ [][Next]_vars

(* Every await ends: a step that is due is taken, a save that is queued is *)
(* performed, and a termination is confirmed or times out.  Nothing makes  *)
(* a user, a runtime or a fault act, and a crash may come at any time.     *)
(* SyncFresh assumes that somebody looks at the session now and then.      *)
SyncFresh == daemon = "up" /\ Matched /\ (SyncRecovery(turn) \/ SyncCompleted(turn))

FairSpec ==
  /\ Spec
  /\ WF_vars(PromptStep)
  /\ WF_vars(StopDone \/ StopFails)
  /\ WF_vars(Persist)
  /\ WF_vars(Resolve)
  /\ WF_vars(CloseRunner)
  /\ WF_vars(Close)
  /\ WF_vars(SyncFresh)

-----------------------------------------------------------------------------
(* Safety.                                                                 *)

(* A row that says that its prompt was not sent, or that a restart would   *)
(* take for one, tells the truth: no process was left with the prompt and  *)
(* no runtime took it.  (Every statement on the journal that can make such *)
(* a row, in particular LIMIT 1 of the active-writer conflict.)            *)
Untaken(d) == d \notin alive /\ turn[d] = "absent"

RecoveryIsSound ==
  \A d \in Prompt : rows[d] \in {"absent", "prepared", "not_sent"} => Untaken(d)

(* The prompt that the recovery card offers to send again is in no runtime *)
(* (the record in memory, which the journal does not constrain).           *)
RetryableIsSafe ==
  session.recovery.phase = "not_sent" => Untaken(session.recovery.prompt)

(* The latest prompt is never forgotten while it may be running: either an *)
(* operation or a tracked child will report on it, or the session shows    *)
(* what is not known of it.                                                *)
InFlightAttended ==
  daemon = "up" =>
    \A d \in Prompt :
      rows[d] \in InFlight /\ (\A e \in Prompt : e > d => rows[e] = "absent") =>
        op.prompt = d \/ current = d \/ session.recovery # NoRecovery

(* A session that is busy with a prompt from here is watched through the   *)
(* process of that prompt and no other, or is being recovered.             *)
ReplyHasItsChild ==
  daemon = "up" /\ op.pc = "idle" /\ session.reply.phase # "idle" /\ session.reply.linked =>
    current = session.reply.prompt \/ session.recovery # NoRecovery

(* An unknown outcome is forgotten by a running daemon only on evidence:   *)
(* the transcript shows the end of that very prompt's turn.                *)
ClearedByEvidence ==
  [][daemon = "up" /\ daemon' = "up" /\ Recovering /\ session'.recovery = NoRecovery
       => turn[session.recovery.prompt] \in Terminal]_vars

(* No process is started for a prompt while the outcome of an earlier one  *)
(* is unknown, however long ago assertCanStart looked.                     *)
StartUnblocked ==
  [][~ (alive' \subseteq alive) => ~ Recovering]_vars

(* The promise that all of this is for.                                    *)
VerdictOf(phase) ==
  CASE phase = "absent"   -> "unasked"
    [] phase = "prepared" -> "asked"
    [] phase = "not_sent" -> "retryable"
    [] phase \in InFlight \cup {"outcome_unknown"} -> "open"
    [] phase \in Settled  -> "closed"

Promise == INSTANCE PromptPromise WITH
  verdict <- [d \in Prompt |-> VerdictOf(rows[d])],
  running <- alive \cap Prompt,
  taken   <- {d \in Prompt : turn[d] # "absent"}

KeepsPromise == Promise!Spec

-----------------------------------------------------------------------------
(* The inductive strengthening of RecoveryIsSound.                         *)

(* A prompt in flight has not been started before Dispatch, nor after a    *)
(* spawn that failed, and it is the latest of the session.                 *)
Pending == op.pc \in {"preflight", "refused", "killing", "ready"}

OpInv ==
  /\ op.pc # "idle" => \A e \in Prompt : e > op.prompt => rows[e] = "absent"
  /\ Pending \/ op.pc \in {"spawnFailed", "disposing"} => Untaken(op.prompt)
  /\ Pending => current \in {op.child, NoChild}

(* Nothing survives in the memory of a daemon that is not running.         *)
DownInv == daemon \in {"down", "starting"} => current = NoChild /\ op.pc = "idle"

(* The prompts whose child is tracked, or will be again if it cannot be    *)
(* killed: no younger prompt was started.                                  *)
Tracked == ({current} \cup IF Pending THEN {op.child} ELSE {}) \cap Prompt

TrackedInv == \A c \in Tracked : \A e \in Prompt : e > c => Untaken(e)

(* A tracked child that may still be refused by an active writer: LIMIT 1  *)
(* finds its row, or none that is older.                                   *)
Unsettled == Recoverable \ {"not_sent"}

Starting(c) == c = op.prompt /\ op.pc \in {"startup", "persisting", "persisted"}

Refusable(c) == turn[c] = "absent" /\ (c \in alive \/ Starting(c))

RefusedInv ==
  daemon = "up" =>
    \A c \in Tracked : Refusable(c) =>
      /\ rows[c] \in Unsettled \/ \A e \in Prompt : e < c => rows[e] \notin Unsettled
      /\ rows[c] = "outcome_unknown" =>
           /\ session.recovery = Reply("outcome_unknown", c, TRUE, FALSE)
           /\ op.pc \in {"idle", "recording"}

SafetyInv == RecoveryIsSound /\ OpInv /\ DownInv /\ TrackedInv /\ RefusedInv

-----------------------------------------------------------------------------
(* Liveness.                                                               *)

(* Every prompt operation ends, whatever fails under it.                   *)
OperationEnds == op.pc # "idle" ~> op.pc = "idle"

(* A shutdown that has begun ends: the drain waits for operations that do  *)
(* not wait for the drain.                                                 *)
ShutdownEnds == daemon = "draining" ~> daemon = "down"

(* A recovery that knows its prompt is resolved once the turn has ended,   *)
(* also after the bounded scan gave up.                                    *)
RecoveryEnds ==
  daemon = "up" /\ Recovering /\ session.recovery.observed
    /\ turn[session.recovery.prompt] \in Terminal
  ~> daemon # "up" \/ ~ Recovering

-----------------------------------------------------------------------------
(* What the documentation and the code's messages say, and the program     *)
(* does not do.                                                            *)

(* "prepared means dispatch never began, so the prompt is surfaced as      *)
(* not_sent": a prepared row is not recorded as a turn that has ended.     *)
PreparedIsSurfaced ==
  [][\A d \in Prompt : rows[d] = "prepared" => rows'[d] \notin Settled]_vars

(* "could not confirm that the process stopped; it remains attached".      *)
StopKeepsChild == [][StopFails => current = stop.child]_vars

(* "when delivery ... cannot be confirmed, the UI exposes outcome_unknown  *)
(* and does not offer a resend action", for what a restart finds.          *)
UnknownIsExposed ==
  daemon = "starting" =>
    \A d \in Prompt : rows[d] = "outcome_unknown" => Recovering
=============================================================================
