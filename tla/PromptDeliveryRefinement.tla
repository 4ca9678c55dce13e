----------------------- MODULE PromptDeliveryRefinement -----------------------
(***************************************************************************)
(* PromptDelivery implements PromptPromise: every step of the transport,   *)
(* of a process, of the reconciliation or of a restart is a judgement, the *)
(* start of a process, a prompt taken, or no step of the promise at all.   *)
(***************************************************************************)
EXTENDS PromptDeliveryProofs

(* Every step issues statements that only close rows, or inserts one.      *)

LEMMA FinishFades ==
  ASSUME NEW rs \in Rows, NEW s, NEW status, NEW code, NEW conflict
  PROVE  Fades(rs, FinishedRows(s, rs, status, code, conflict))
  <1>1. FinishedRows(s, rs, status, code, conflict) \in
          {MarkOutcomeUnknownBySession(rs), MarkNotSentAfterActiveWriterConflict(rs),
           MarkInterrupted(rs), MarkCompleted(rs)}
    BY DEF FinishedRows
  <1> QED BY <1>1, BySessionEffect

LEMMA ExitFades ==
  ASSUME NEW rs \in Rows, NEW s, NEW c, NEW code, NEW conflict
  PROVE  Fades(rs, ExitRows(s, rs, c, code, conflict))
  BY FinishFades DEF ExitRows, Fades

LEMMA PromptStepFades ==
  ASSUME TypeOK, PromptStep
  PROVE  Fades(rows, rows')
  <1>1. ASSUME op.pc # "idle" PROVE op.prompt \in Prompt
    BY <1>1 DEF TypeOK
  <1>2. ASSUME NEW cur, op.pc # "idle", Fail(cur) PROVE Fades(rows, rows')
    BY <1>1, <1>2, ByIdEffect DEF Fail, TypeOK
  <1>3. ASSUME PreflightFails \/ KillFails PROVE Fades(rows, rows')
    BY <1>2, <1>3 DEF PreflightFails, KillFails
  <1>4. ASSUME PreflightPasses \/ KillDone \/ Dispose \/ RecordingDone PROVE Fades(rows, rows')
    BY <1>4 DEF PreflightPasses, KillDone, Dispose, RecordingDone, Fades
  <1>5. ASSUME Dispatch PROVE Fades(rows, rows')
    BY <1>1, <1>5, ByIdEffect DEF Dispatch, TypeOK
  <1>6. ASSUME StartupReady PROVE Fades(rows, rows')
    BY <1>1, <1>6, ByIdEffect DEF StartupReady, TypeOK
  <1>7. ASSUME StartupFails PROVE Fades(rows, rows')
    BY <1>1, <1>7, ByIdEffect DEF StartupFails, TypeOK
  <1>8. ASSUME NEW saved \in BOOLEAN, op.pc # "idle", Started(saved) PROVE Fades(rows, rows')
    <2> DEFINE d == op.prompt
               exits == d \notin alive
    <2>1. PICK code \in ExitCode, conflict \in BOOLEAN :
            LET rs == IF exits THEN ExitRows(session, rows, d, code, conflict) ELSE rows IN
            /\ exits => MayExit(session, d, code, conflict)
            /\ rows' = IF saved THEN rs ELSE FailedRows(rs, d)
      BY <1>8 DEF Started
    <2> DEFINE rs == IF exits THEN ExitRows(session, rows, d, code, conflict) ELSE rows
    <2>2. rs \in Rows
      BY <2>1, ExitTyped DEF TypeOK
    <2>3. Fades(rows, rs)
      BY ExitFades DEF TypeOK, Fades
    <2>4. CASE saved
      BY <2>1, <2>3, <2>4
    <2>5. CASE ~ saved
      <3>1. rows' = FailedRows(rs, d)
        BY <2>1, <2>5
      <3>2. Fades(rs, rows')
        BY <1>1, <1>8, <2>2, <3>1, ByIdEffect
      <3> QED BY <2>3, <3>2 DEF Fades
    <2> QED BY <2>4, <2>5
  <1>9. ASSUME StartPersisted \/ StartPersistFails PROVE Fades(rows, rows')
    BY <1>8, <1>9 DEF StartPersisted, StartPersistFails
  <1> QED BY <1>3, <1>4, <1>5, <1>6, <1>7, <1>9 DEF PromptStep

LEMMA StepFades ==
  ASSUME TypeOK, [Next]_vars
  PROVE  \/ Fades(rows, rows')
         \/ \E d \in Prompt : rows[d] = "absent" /\ rows' = Prepare(rows, d)
  <1>1. ASSUME SendPrompt
        PROVE  \E d \in Prompt : rows[d] = "absent" /\ rows' = Prepare(rows, d)
    BY <1>1 DEF SendPrompt, IsNext
  <1>2. ASSUME NEW c, NEW code, NEW conflict, ProcessExits(c, code, conflict)
        PROVE  Fades(rows, rows')
    BY <1>2, ExitFades DEF ProcessExits, TypeOK, Fades
  <1>3. ASSUME \/ \E d \in Prompt : RuntimeTakesPrompt(d) \/ TurnEnds(d)
               \/ RequestStop \/ StopDetached \/ StopDone \/ StopFails
               \/ ResolvePersistFails \/ GiveUpChecking \/ Persist
               \/ CloseRunner \/ Crash \/ RestartDone \/ UNCHANGED vars
        PROVE  Fades(rows, rows')
    <2>1. rows' = rows
      BY <1>3 DEF RuntimeTakesPrompt, TurnEnds, RequestStop, StopDetached, StopDone, StopFails,
                  ResolvePersistFails, GiveUpChecking, Persist, CloseRunner, Crash, RestartDone,
                  vars
    <2> QED BY <2>1 DEF Fades
  <1>4. ASSUME Sync PROVE Fades(rows, rows')
    <2>1. \/ rows' = rows
          \/ \E s : rows' = FinishedRows(s, rows, "done", "zero", FALSE)
      BY <1>4 DEF Sync, SyncUnchanged, SyncRecovery, SyncBusy, SyncWaiting, SyncCompleted
    <2>2. CASE rows' = rows
      BY <2>2 DEF Fades
    <2>3. CASE \E s : rows' = FinishedRows(s, rows, "done", "zero", FALSE)
      BY <2>3, FinishFades DEF TypeOK
    <2> QED BY <2>1, <2>2, <2>3
  <1>5. ASSUME Resolve \/ BeginShutdown \/ Close \/ Restart PROVE Fades(rows, rows')
    <2>1. rows' \in {rows, MarkCompleted(rows), MarkObservedBySession(rows),
                     MarkActiveOutcomeUnknownForShutdown(rows),
                     MarkOutcomeUnknownBySession(rows), RecoverActiveAfterRestart(rows)}
      BY <1>5 DEF Resolve, BeginShutdown, Close, Restart
    <2> QED BY <2>1, BySessionEffect DEF TypeOK, Fades
  <1> QED
    BY PromptStepFades, <1>1, <1>2, <1>3, <1>4, <1>5 DEF Next

(* What a step may do to the processes and to the transcript.              *)
LEMMA StepRuns ==
  ASSUME TypeOK, SafetyInv, [Next]_vars
  PROVE  \/ /\ alive' \subseteq alive
            /\ \A d \in Prompt : turn'[d] = "absent" <=> turn[d] = "absent"
         \/ \E d \in Prompt : /\ rows[d] = "prepared" /\ rows' = MarkDispatching(rows, d)
                              /\ alive' = alive \cup {d} /\ turn' = turn
         \/ \E d \in Prompt : /\ d \in alive /\ UNCHANGED <<rows, alive>>
                              /\ turn' = [turn EXCEPT ![d] = "active"]
  <1>1. ASSUME PromptStep
        PROVE  \/ alive' \subseteq alive /\ turn' = turn
               \/ \E d \in Prompt : /\ rows[d] = "prepared" /\ rows' = MarkDispatching(rows, d)
                                    /\ alive' = alive \cup {d} /\ turn' = turn
    <2>1. ASSUME Dispatch
          PROVE  \/ alive' \subseteq alive /\ turn' = turn
                 \/ \E d \in Prompt : /\ rows[d] = "prepared" /\ rows' = MarkDispatching(rows, d)
                                      /\ alive' = alive \cup {d} /\ turn' = turn
      <3>1. op.prompt \in Prompt
        BY <2>1 DEF Dispatch, TypeOK
      <3>2. \/ alive' = alive \cup {}
            \/ rows[op.prompt] = "prepared" /\ alive' = alive \cup {op.prompt}
        BY <2>1 DEF Dispatch
      <3>3. rows' = MarkDispatching(rows, op.prompt) /\ turn' = turn
        BY <2>1 DEF Dispatch
      <3> QED BY <3>1, <3>2, <3>3
    <2>2. ASSUME ~ Dispatch PROVE alive' \subseteq alive /\ turn' = turn
      BY <1>1, <2>2 DEF PromptStep, PreflightPasses, PreflightFails, KillDone, KillFails, Fail,
         StartupReady, StartupFails, Dispose, RecordingDone, StartPersisted, StartPersistFails,
         Started
    <2> QED BY <2>1, <2>2
  <1>2. ASSUME NEW d \in Prompt, RuntimeTakesPrompt(d)
        PROVE  d \in alive /\ UNCHANGED <<rows, alive>> /\ turn' = [turn EXCEPT ![d] = "active"]
    BY <1>2 DEF RuntimeTakesPrompt
  <1>3. ASSUME NEW d \in Prompt, TurnEnds(d)
        PROVE  /\ alive' \subseteq alive
               /\ \A e \in Prompt : turn'[e] = "absent" <=> turn[e] = "absent"
    BY <1>3 DEF TurnEnds, Terminal, TypeOK
  <1>4. ASSUME \E c \in Child, code \in ExitCode, conflict \in BOOLEAN :
                 ProcessExits(c, code, conflict)
        PROVE  alive' \subseteq alive /\ turn' = turn
    BY <1>4 DEF ProcessExits
  <1>5. ASSUME \/ SendPrompt \/ RequestStop \/ StopDetached \/ StopDone \/ StopFails \/ Sync
               \/ Resolve \/ ResolvePersistFails \/ GiveUpChecking \/ Persist \/ BeginShutdown
               \/ CloseRunner \/ Close \/ Crash \/ Restart \/ RestartDone \/ UNCHANGED vars
        PROVE  alive' \subseteq alive /\ turn' = turn
    BY <1>5 DEF SendPrompt, RequestStop, StopDetached, StopDone, StopFails, Sync, SyncUnchanged,
       SyncRecovery, SyncBusy, SyncWaiting, SyncCompleted, Resolve, ResolvePersistFails,
       GiveUpChecking, Persist, BeginShutdown, CloseRunner, Close, Crash, Halt, Restart,
       RestartDone, vars
  <1> QED BY <1>1, <1>2, <1>3, <1>4, <1>5 DEF Next

-----------------------------------------------------------------------------
(* The mapping.                                                            *)

VerdictBar == [d \in Prompt |-> VerdictOf(rows[d])]
RunningBar == alive \cap Prompt
TakenBar   == {d \in Prompt : turn[d] # "absent"}

LEMMA VerdictTyped ==
  ASSUME NEW phase \in Phase
  PROVE  /\ VerdictOf(phase) \in Promise!Verdict
         /\ VerdictOf(phase) = "unasked"   <=> phase = "absent"
         /\ VerdictOf(phase) = "asked"     <=> phase = "prepared"
         /\ VerdictOf(phase) = "retryable" <=> phase = "not_sent"
         /\ VerdictOf(phase) = "closed"    <=> phase \in Settled
  BY DEF VerdictOf, Promise!Verdict, Phase, Recoverable, Settled, InFlight

LEMMA JudgeStep ==
  ASSUME TypeOK, TypeOK', SafetyInv',
         Fades(rows, rows') \/ \E d \in Prompt : rows[d] = "absent" /\ rows' = Prepare(rows, d),
         alive' \subseteq alive,
         \A d \in Prompt : turn'[d] = "absent" <=> turn[d] = "absent"
  PROVE  Promise!Judge
  <1>1. \A d \in Prompt : rows[d] \in Phase /\ rows'[d] \in Phase
    BY DEF TypeOK, Rows
  <1>2. VerdictBar' \in [Prompt -> Promise!Verdict]
    BY <1>1, VerdictTyped DEF VerdictBar
  <1>3. TakenBar' = TakenBar /\ RunningBar' \subseteq RunningBar
    BY DEF TakenBar, RunningBar
  <1>4. ASSUME NEW d \in Prompt
        PROVE  Promise!MayBecome(d, VerdictBar[d], VerdictBar'[d])
    <2>1. /\ VerdictBar[d] = VerdictOf(rows[d]) /\ VerdictBar'[d] = VerdictOf(rows'[d])
          /\ VerdictBar[d] \in Promise!Verdict /\ VerdictBar'[d] \in Promise!Verdict
      BY <1>1, VerdictTyped DEF VerdictBar
    <2>2. /\ VerdictBar[d] = "unasked"   <=> rows[d] = "absent"
          /\ VerdictBar[d] = "asked"     <=> rows[d] = "prepared"
          /\ VerdictBar[d] = "retryable" <=> rows[d] = "not_sent"
          /\ VerdictBar[d] = "closed"    <=> rows[d] \in Settled
      <3>1. rows[d] \in Phase
        BY <1>1
      <3> QED BY <2>1, <3>1, VerdictTyped
    <2>3. /\ VerdictBar'[d] = "unasked"   <=> rows'[d] = "absent"
          /\ VerdictBar'[d] = "asked"     <=> rows'[d] = "prepared"
          /\ VerdictBar'[d] = "retryable" <=> rows'[d] = "not_sent"
          /\ VerdictBar'[d] = "closed"    <=> rows'[d] \in Settled
      <3>1. rows'[d] \in Phase
        BY <1>1
      <3> QED BY <2>1, <3>1, VerdictTyped
    <2>4. rows'[d] = "not_sent" => d \notin alive' /\ turn[d] = "absent"
      BY DEF SafetyInv, RecoveryIsSound, Untaken
    <2>5. VerdictBar'[d] = "retryable" => d \notin RunningBar' /\ d \notin TakenBar
      BY <2>3, <2>4 DEF RunningBar, TakenBar
    <2>6. CASE Fades(rows, rows')
      <3>1. /\ rows'[d] = "absent" <=> rows[d] = "absent"
            /\ rows'[d] = "prepared" => rows[d] = "prepared"
            /\ rows'[d] \in Unsettled => rows[d] \in Unsettled
            /\ rows[d] \in Settled => rows'[d] \in Settled
        BY <2>6 DEF Fades
      <3>2. /\ VerdictBar'[d] = "unasked" <=> VerdictBar[d] = "unasked"
            /\ VerdictBar'[d] = "asked" => VerdictBar[d] = "asked"
            /\ VerdictBar[d] = "closed" => VerdictBar'[d] = "closed"
        BY <2>2, <2>3, <3>1
      <3>3. rows[d] = "not_sent" => rows'[d] \in {"not_sent"} \cup Settled
        BY <1>1, <3>1 DEF Unsettled, Phase, Recoverable
      <3>4. VerdictBar[d] = "retryable" => VerdictBar'[d] \in {"retryable", "closed"}
        BY <2>2, <2>3, <3>3
      <3> QED BY <2>1, <2>5, <3>2, <3>4
          DEF Promise!MayBecome, Promise!Verdict, RunningBar, TakenBar
    <2>7. CASE \E e \in Prompt : rows[e] = "absent" /\ rows' = Prepare(rows, e)
      <3>1. rows'[d] = rows[d] \/ (rows[d] = "absent" /\ rows'[d] = "prepared")
        BY <2>7 DEF Prepare, TypeOK, Rows
      <3> QED BY <2>1, <2>2, <2>3, <3>1 DEF Promise!MayBecome
    <2> QED BY <2>6, <2>7
  <1> QED BY <1>2, <1>3, <1>4 DEF Promise!Judge, VerdictBar, RunningBar, TakenBar

LEMMA StartStep ==
  ASSUME TypeOK, TypeOK', NEW d \in Prompt,
         rows[d] = "prepared", rows' = MarkDispatching(rows, d),
         alive' = alive \cup {d}, turn' = turn
  PROVE  Promise!Start(d)
  <1>1. \A e \in Prompt : rows'[e] = IF e = d THEN "dispatching" ELSE rows[e]
    BY DEF MarkDispatching, ById
  <1>2. VerdictOf("dispatching") = "open" /\ VerdictOf("prepared") = "asked"
    BY DEF VerdictOf, InFlight, Settled
  <1>3. VerdictBar' = [VerdictBar EXCEPT ![d] = "open"]
    BY <1>1, <1>2 DEF VerdictBar
  <1>4. VerdictBar[d] = "asked"
    BY <1>2 DEF VerdictBar
  <1>5. RunningBar' = RunningBar \cup {d} /\ TakenBar' = TakenBar
    BY DEF RunningBar, TakenBar
  <1> QED BY <1>3, <1>4, <1>5 DEF Promise!Start, VerdictBar, RunningBar, TakenBar

LEMMA TakeStep ==
  ASSUME TypeOK, NEW d \in Prompt, d \in alive, UNCHANGED <<rows, alive>>,
         turn' = [turn EXCEPT ![d] = "active"]
  PROVE  Promise!Take(d)
  <1>1. TakenBar' = TakenBar \cup {d}
    BY DEF TakenBar, TypeOK
  <1>2. VerdictBar' = VerdictBar /\ RunningBar' = RunningBar
    BY DEF VerdictBar, RunningBar
  <1> QED BY <1>1, <1>2 DEF Promise!Take, VerdictBar, RunningBar, TakenBar

LEMMA InitPromise == Init => Promise!Init
  <1> SUFFICES ASSUME Init PROVE Promise!Init
    OBVIOUS
  <1>1. \A d \in Prompt : VerdictOf(rows[d]) = "unasked"
    BY VerdictTyped DEF Init, NoRows, Phase
  <1>2. alive \cap Prompt = {}
    BY DEF Init, Prompt, Shell
  <1>3. {d \in Prompt : turn[d] # "absent"} = {}
    BY DEF Init
  <1> QED BY <1>1, <1>2, <1>3 DEF Promise!Init

(* DeskCue keeps its promise: the process of a prompt is started at most   *)
(* once, and a prompt it offers to send again has reached no runtime and   *)
(* never will, through every interleaving of transports, exits, stops,     *)
(* reconciliations, failures, crashes and restarts.                        *)
THEOREM KeepsThePromise == Spec => KeepsPromise
  <1>1. Init => Promise!Init
    BY InitPromise
  <1>2. ASSUME TypeOK, TypeOK', SafetyInv, SafetyInv', [Next]_vars
        PROVE  [Promise!Next]_(Promise!pvars)
    <2>1. CASE /\ alive' \subseteq alive
               /\ \A d \in Prompt : turn'[d] = "absent" <=> turn[d] = "absent"
      <3>1. Promise!Judge
        BY <1>2, <2>1, JudgeStep, StepFades
      <3> QED BY <3>1 DEF Promise!Next
    <2>2. CASE \E d \in Prompt : /\ rows[d] = "prepared" /\ rows' = MarkDispatching(rows, d)
                                 /\ alive' = alive \cup {d} /\ turn' = turn
      <3>1. \E d \in Prompt : Promise!Start(d)
        BY <1>2, <2>2, StartStep
      <3> QED BY <3>1 DEF Promise!Next
    <2>3. CASE \E d \in Prompt : /\ d \in alive /\ UNCHANGED <<rows, alive>>
                                 /\ turn' = [turn EXCEPT ![d] = "active"]
      <3>1. \E d \in Prompt : Promise!Take(d)
        BY <1>2, <2>3, TakeStep
      <3> QED BY <3>1 DEF Promise!Next
    <2> QED BY <1>2, <2>1, <2>2, <2>3, StepRuns
  <1>3. TypeOK /\ TypeOK' /\ SafetyInv /\ SafetyInv' /\ [Next]_vars
          => [Promise!Next]_(Promise!pvars)
    BY <1>2
  <1> QED
    BY <1>1, <1>3, TypeCorrect, SafetyInvariant, PTL DEF Spec, KeepsPromise, Promise!Spec
=============================================================================
