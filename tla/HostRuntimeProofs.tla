--------------------------- MODULE HostRuntimeProofs --------------------------
(***************************************************************************)
(* Theorems about the two components of the host.  About HostRuntime, for  *)
(* every number of processes and of automatic restarts and for every set   *)
(* of requests, which may come before the initial start.  About            *)
(* UpdateManager, for every number of versions and every set of faults.    *)
(***************************************************************************)
EXTENDS HostRuntime, UpdateManager, TLAPS

(* What every method, handler and timer of the supervisor keeps.  The last *)
(* two conjuncts are what makes it inductive: a stop in progress concerns  *)
(* the child at hand, and a child that still boots was not told to stop.   *)
SupervisorInv(s) ==
  /\ s \in Supervisor
  /\ \A c \in Children : s.proc[c] # "gone" => c = s.child
  /\ s.armed = IF s.timer THEN 1 ELSE 0
  /\ s.timer => s.desired /\ s.child = NoChild /\ s.stop.phase = "none"
  /\ s.status = "running" =>
       s.child # NoChild /\ s.proc[s.child] = "up" /\ s.child \notin s.stopping
  /\ s.stop.phase # "none" => s.child # NoChild /\ s.child \in s.stopping
  /\ s.child # NoChild /\ s.child \in s.stopping => s.proc[s.child] # "boot"

-----------------------------------------------------------------------------
(* Timers and waiters.                                                     *)

LEMMA ClearKeeps ==
  ASSUME NEW s, SupervisorInv(s)
  PROVE  LET t == ClearRestartTimer(s)
         IN  /\ SupervisorInv(t)
             /\ ~t.timer /\ t.armed = 0 /\ t.desired = s.desired /\ t.status = s.status
             /\ t.child = s.child /\ t.proc = s.proc /\ t.stopping = s.stopping
             /\ t.stop = s.stop
  <1> DEFINE t == [s EXCEPT !.attempt = s.attempt, !.timer = FALSE, !.armed = 0]
  <1>1. s \in Supervisor /\ s.attempt \in 0 .. MaxRestarts
    BY DEF SupervisorInv, Supervisor
  <1>2. (IF s.timer THEN s.armed - 1 ELSE s.armed) = 0
    BY DEF SupervisorInv
  <1>3. ClearRestartTimer(s) = t
    BY <1>1, <1>2 DEF ClearRestartTimer, Supervisor
  <1>4. /\ t \in Supervisor
        /\ t.timer = FALSE /\ t.armed = 0 /\ t.desired = s.desired /\ t.status = s.status
        /\ t.child = s.child /\ t.proc = s.proc /\ t.stopping = s.stopping
        /\ t.stop = s.stop
    BY <1>1 DEF Supervisor
  <1> HIDE DEF t
  <1>5. SupervisorInv(t)
    BY <1>4 DEF SupervisorInv
  <1> QED BY <1>3, <1>4, <1>5

LEMMA DesiredKeeps ==
  ASSUME NEW s, SupervisorInv(s), NEW desired \in BOOLEAN
  PROVE  LET t == SetDesiredRunning(s, desired)
         IN  /\ SupervisorInv(t)
             /\ t.desired = desired /\ t.status = s.status
             /\ t.child = s.child /\ t.proc = s.proc /\ t.stopping = s.stopping
             /\ t.stop = s.stop
  <1>1. CASE desired
    <2> DEFINE t == [s EXCEPT !.desired = TRUE]
    <2>1. SupervisorInv(t)
      BY <1>1 DEF SupervisorInv, Supervisor
    <2> QED BY <1>1, <2>1 DEF SetDesiredRunning, SupervisorInv, Supervisor
  <1>2. CASE ~desired
    <2> DEFINE u == [s EXCEPT !.desired = FALSE]
    <2>1. /\ u \in Supervisor /\ s \in Supervisor /\ u.attempt \in 0 .. MaxRestarts
          /\ u.desired = FALSE /\ u.status = s.status /\ u.timer = s.timer /\ u.armed = s.armed
          /\ u.child = s.child /\ u.proc = s.proc /\ u.stopping = s.stopping /\ u.stop = s.stop
      BY DEF SupervisorInv, Supervisor
    <2> DEFINE t == [u EXCEPT !.attempt = u.attempt, !.timer = FALSE, !.armed = 0]
    <2> HIDE DEF u
    <2>2. (IF u.timer THEN u.armed - 1 ELSE u.armed) = 0
      BY <2>1 DEF SupervisorInv
    <2>3. ClearRestartTimer(u) = t
      BY <2>1, <2>2 DEF ClearRestartTimer, Supervisor
    <2>4. /\ t \in Supervisor
          /\ t.timer = FALSE /\ t.armed = 0 /\ t.desired = FALSE /\ t.status = s.status
          /\ t.child = s.child /\ t.proc = s.proc /\ t.stopping = s.stopping
          /\ t.stop = s.stop
      BY <2>1 DEF Supervisor
    <2> HIDE DEF t
    <2>5. SupervisorInv(t)
      BY <2>4 DEF SupervisorInv
    <2> QED BY <1>2, <2>3, <2>4, <2>5 DEF SetDesiredRunning, u
  <1> QED BY <1>1, <1>2

LEMMA AnswerKeeps ==
  ASSUME NEW s, SupervisorInv(s), NEW w \in Caller, NEW answer \in Wait
  PROVE  SupervisorInv(Answer(s, w, answer))
  BY DEF Answer, SupervisorInv, Supervisor

LEMMA FinishStartKeeps ==
  ASSUME NEW s, SupervisorInv(s), NEW answer \in Wait
  PROVE  LET t == FinishStart(s, answer)
         IN  /\ SupervisorInv(t)
             /\ t.timer = s.timer /\ t.desired = s.desired /\ t.status = s.status
             /\ t.child = s.child /\ t.proc = s.proc /\ t.stopping = s.stopping
             /\ t.stop = s.stop
  <1>1. SupervisorInv(FinishStart(s, answer))
    BY DEF FinishStart, SupervisorInv, Supervisor
  <1> QED BY <1>1 DEF FinishStart, SupervisorInv, Supervisor

LEMMA FinishStopKeeps ==
  ASSUME NEW s, SupervisorInv(s), NEW stopped \in BOOLEAN
  PROVE  LET t == FinishStop(s, stopped)
         IN  /\ SupervisorInv(t)
             /\ t.timer = s.timer /\ t.desired = s.desired /\ t.status = s.status
             /\ t.child = s.child /\ t.proc = s.proc /\ t.stopping = s.stopping
             /\ t.stop.phase = "none"
  <1> DEFINE wait == [w \in Caller |->
               CASE s.wait[w] = "stop" /\ stopped       -> "ok"
                 [] s.wait[w] = "stop" /\ ~stopped      -> "failed"
                 [] s.wait[w] = "startStop" /\ stopped  -> "resume"
                 [] s.wait[w] = "startStop" /\ ~stopped -> "resumeFailed"
                 [] OTHER                               -> s.wait[w]]
  <1>1. wait \in [Caller -> Wait]
    BY DEF SupervisorInv, Supervisor, Wait
  <1>2. FinishStop(s, stopped) = [s EXCEPT !.stop = NoStop, !.wait = wait]
    BY DEF FinishStop, SupervisorInv, Supervisor
  <1> HIDE DEF wait
  <1>3. SupervisorInv([s EXCEPT !.stop = NoStop, !.wait = wait])
    BY <1>1 DEF SupervisorInv, Supervisor, NoStop
  <1> QED BY <1>2, <1>3 DEF SupervisorInv, Supervisor, NoStop

LEMMA ScheduleKeeps ==
  ASSUME NEW s, SupervisorInv(s), ~s.timer,
         s.desired, s.child = NoChild, s.stop.phase = "none"
  PROVE  SupervisorInv(ScheduleRestart(s))
  <1>1. CASE s.attempt >= MaxRestarts
    BY <1>1 DEF ScheduleRestart
  <1>2. CASE ~ s.attempt >= MaxRestarts
    <2> DEFINE t == [s EXCEPT !.attempt = s.attempt + 1, !.timer = TRUE, !.armed = 1]
    <2>1. s \in Supervisor /\ s.attempt \in 0 .. MaxRestarts /\ s.armed = 0
      BY DEF SupervisorInv, Supervisor
    <2>2. s.attempt + 1 \in 0 .. MaxRestarts /\ s.armed + 1 = 1
      BY <1>2, <2>1, MaxRestartsAssumption
    <2>3. ScheduleRestart(s) = t
      BY <1>2, <2>2 DEF ScheduleRestart
    <2>4. /\ t \in Supervisor
          /\ t.timer = TRUE /\ t.armed = 1 /\ t.desired = s.desired /\ t.status = s.status
          /\ t.child = s.child /\ t.proc = s.proc /\ t.stopping = s.stopping
          /\ t.stop = s.stop
      BY <2>1, <2>2 DEF Supervisor
    <2> HIDE DEF t
    <2>5. SupervisorInv(t)
      BY <2>4 DEF SupervisorInv
    <2> QED BY <2>3, <2>5
  <1> QED BY <1>1, <1>2

-----------------------------------------------------------------------------
(* start.                                                                  *)

LEMMA SpawnKeeps ==
  ASSUME NEW s, SupervisorInv(s), s.child = NoChild,
         NEW w \in Caller, NEW c \in Children, NEW reset \in BOOLEAN
  PROVE  SupervisorInv(Spawn(s, w, c, reset))
  <1> DEFINE u == ClearRestartTimer(s)
             attempt == IF reset THEN 0 ELSE u.attempt
             t == [u EXCEPT
                     !.attempt = attempt, !.status = "starting",
                     !.child = c, !.proc[c] = "boot",
                     !.stopping = @ \ {c}, !.again = @ \ {c}, !.forced = @ \ {c},
                     !.starting = TRUE, !.wait[w] = "start"]
  <1>1. /\ SupervisorInv(u) /\ ~u.timer /\ u.armed = 0
        /\ u.child = NoChild /\ u.stop = s.stop
    BY ClearKeeps
  <1> HIDE DEF u
  <1>2. c \in Children /\ c # NoChild
    BY NoChildAssumption
  <1>3. u \in Supervisor /\ attempt \in 0 .. MaxRestarts
    BY <1>1, MaxRestartsAssumption DEF SupervisorInv, Supervisor
  <1> HIDE DEF attempt
  <1>4. t \in Supervisor
    BY <1>2, <1>3 DEF Supervisor, Status, Process, Wait
  <1>5. /\ t.timer = u.timer /\ t.armed = u.armed /\ t.status = "starting" /\ t.child = c
        /\ t.stopping = u.stopping \ {c} /\ t.stop = u.stop
        /\ t.proc = [u.proc EXCEPT ![c] = "boot"] /\ u.proc \in [Children -> Process]
    BY <1>2, <1>3 DEF Supervisor
  <1>6. \A d \in Children : u.proc[d] = "gone" /\ u.stop.phase = "none"
    BY <1>1, NoChildAssumption DEF SupervisorInv
  <1> HIDE DEF t
  <1>7. SupervisorInv(t)
    BY <1>1, <1>2, <1>4, <1>5, <1>6 DEF SupervisorInv
  <1> QED BY <1>7 DEF Spawn, t, u, attempt

LEMMA StartKeeps ==
  ASSUME NEW s, SupervisorInv(s), NEW w \in Caller, NEW c \in Children, NEW reset \in BOOLEAN
  PROVE  /\ SupervisorInv(SpawnUnlessActive(s, w, c, reset))
         /\ SupervisorInv(ResumeStart(s, w, c, reset))
         /\ SupervisorInv(Start(s, w, c, reset))
  <1>1. \A t : SupervisorInv(t) => SupervisorInv(SpawnUnlessActive(t, w, c, reset))
    <2> SUFFICES ASSUME NEW t, SupervisorInv(t)
                 PROVE  SupervisorInv(SpawnUnlessActive(t, w, c, reset))
      OBVIOUS
    <2>1. \A answer \in {"poll", "failed"} : SupervisorInv(Answer(t, w, answer))
      BY AnswerKeeps DEF Wait
    <2>2. t.child = NoChild => SupervisorInv(Spawn(t, w, c, reset))
      BY SpawnKeeps
    <2>3. t.starting \in BOOLEAN
      BY DEF SupervisorInv, Supervisor
    <2> QED BY <2>1, <2>2, <2>3 DEF SpawnUnlessActive
  <1>2. SupervisorInv(ResumeStart(s, w, c, reset))
    BY <1>1, AnswerKeeps DEF ResumeStart, Wait
  <1>3. SupervisorInv(Start(s, w, c, reset))
    <2> DEFINE t == SetDesiredRunning(s, TRUE)
    <2>1. SupervisorInv(t)
      BY DesiredKeeps
    <2> HIDE DEF t
    <2>2. \A answer \in {"ok", "startStop"} : SupervisorInv(Answer(t, w, answer))
      BY <2>1, AnswerKeeps DEF Wait
    <2>3. SupervisorInv(SpawnUnlessActive(t, w, c, reset))
      BY <1>1, <2>1
    <2> QED BY <2>2, <2>3 DEF Start, t
  <1> QED BY <1>1, <1>2, <1>3

-----------------------------------------------------------------------------
(* stopChild.                                                              *)

LEMMA StopChildKeeps ==
  ASSUME NEW s, SupervisorInv(s), NEW ws \in SUBSET Caller, NEW again \in BOOLEAN
  PROVE  SupervisorInv(StopChild(s, ws, again))
  <1> DEFINE c == s.child
             waiting(a) == [w \in Caller |-> IF w \in ws THEN a ELSE s.wait[w]]
             againSet == IF again THEN s.again \cup {c} ELSE s.again
             t == [s EXCEPT !.again = againSet, !.wait = waiting("stop")]
             u == [t EXCEPT !.stopping = @ \cup {c}, !.status = "stopping",
                            !.stop = [phase |-> "grace", acked |-> FALSE]]
  <1>1. s \in Supervisor /\ waiting("ok") \in [Caller -> Wait]
        /\ waiting("stop") \in [Caller -> Wait]
    BY DEF SupervisorInv, Supervisor, Wait
  <1> HIDE DEF waiting
  <1>2. CASE c = NoChild
    <2>1. SupervisorInv([s EXCEPT !.status = "stopped", !.wait = waiting("ok")])
      BY <1>1 DEF SupervisorInv, Supervisor, Status
    <2> QED BY <1>2, <2>1 DEF StopChild, waiting
  <1>3. CASE c # NoChild
    <2>1. c \in Children /\ againSet \in SUBSET Children
      BY <1>1, <1>3 DEF Supervisor
    <2> HIDE DEF againSet
    <2>2. SupervisorInv(t)
      BY <1>1, <2>1 DEF SupervisorInv, Supervisor
    <2>3. /\ t.child = c /\ t.proc = s.proc /\ t.timer = s.timer /\ t.armed = s.armed
          /\ t.desired = s.desired
      BY <1>1 DEF Supervisor
    <2>4. ~t.timer /\ t \in Supervisor
      BY <1>3, <2>2, <2>3 DEF SupervisorInv
    <2> HIDE DEF t
    <2>5. /\ u \in Supervisor
          /\ u.child = c /\ u.proc = t.proc /\ u.timer = t.timer /\ u.armed = t.armed
          /\ u.desired = t.desired /\ u.status = "stopping" /\ u.forced = t.forced
          /\ u.stop.phase = "grace" /\ u.stopping = t.stopping \cup {c}
      BY <2>1, <2>3, <2>4 DEF Supervisor, Status
    <2> HIDE DEF u
    <2>6. SupervisorInv(AskToStop(u, c))
      <3>1. ASSUME NEW p \in {"drainBoot", "drain", "killed"}, NEW forced \in SUBSET Children
            PROVE  SupervisorInv([u EXCEPT !.proc[c] = p, !.forced = forced])
        <4> DEFINE v == [u EXCEPT !.proc[c] = p, !.forced = forced]
        <4>1. /\ v \in Supervisor
              /\ v.child = c /\ v.timer = u.timer /\ v.armed = u.armed
              /\ v.desired = u.desired /\ v.status = u.status
              /\ v.stop = u.stop /\ v.stopping = u.stopping
          BY <2>5 DEF Supervisor, Process
        <4>2. v.proc[c] = p /\ \A d \in Children : d # c => v.proc[d] = u.proc[d]
          BY <2>1, <2>5 DEF Supervisor
        <4> HIDE DEF v
        <4>3. \A d \in Children : u.proc[d] # "gone" => d = c
          BY <2>2, <2>3, <2>5 DEF SupervisorInv
        <4>4. SupervisorInv(v)
          BY <1>3, <2>1, <2>2, <2>3, <2>4, <2>5, <4>1, <4>2, <4>3 DEF SupervisorInv
        <4> QED BY <4>4 DEF v
      <3>2. u.forced \in SUBSET Children /\ u.forced \cup {c} \in SUBSET Children
        BY <2>1, <2>5 DEF Supervisor
      <3>3. \A p \in Process : [u EXCEPT !.proc[c] = p, !.forced = u.forced] = [u EXCEPT !.proc[c] = p]
        BY <2>5 DEF Supervisor
      <3>4. CASE u.proc[c] = "boot"
        BY <3>1, <3>2, <3>3, <3>4 DEF AskToStop, Process
      <3>5. CASE u.proc[c] = "up"
        BY <3>1, <3>2, <3>3, <3>5 DEF AskToStop, Process
      <3>6. CASE u.proc[c] = "failing"
        BY <3>1, <3>2, <3>6 DEF AskToStop
      <3>7. CASE u.proc[c] \notin {"boot", "up", "failing"}
        <4>1. SupervisorInv(u)
          BY <1>3, <2>1, <2>2, <2>3, <2>4, <2>5, <3>7 DEF SupervisorInv
        <4> QED BY <3>7, <4>1 DEF AskToStop
      <3> QED BY <3>4, <3>5, <3>6, <3>7
    <2> QED BY <1>3, <2>2, <2>6 DEF StopChild, t, u, waiting, againSet
  <1> QED BY <1>2, <1>3

-----------------------------------------------------------------------------
(* Events of the child at hand.                                            *)

(* What the child does, as long as it neither goes nor boots again.        *)
LEMMA ProcessKeeps ==
  ASSUME NEW s, SupervisorInv(s), NEW c \in Children, c = s.child,
         NEW p \in Process \ {"boot"}, s.status # "running" \/ p = "up"
  PROVE  LET t == [s EXCEPT !.proc[c] = p]
         IN  /\ SupervisorInv(t)
             /\ t.timer = s.timer /\ t.desired = s.desired /\ t.status = s.status
             /\ t.child = s.child /\ t.proc[c] = p /\ t.stopping = s.stopping
             /\ t.stop = s.stop
  <1> DEFINE t == [s EXCEPT !.proc[c] = p]
  <1>1. s \in Supervisor
    BY DEF SupervisorInv
  <1>2. /\ t \in Supervisor
        /\ t.child = c /\ t.timer = s.timer /\ t.armed = s.armed
        /\ t.desired = s.desired /\ t.status = s.status
        /\ t.stop = s.stop /\ t.stopping = s.stopping
    BY <1>1 DEF Supervisor
  <1>3. t.proc[c] = p /\ \A d \in Children : d # c => t.proc[d] = s.proc[d]
    BY <1>1 DEF Supervisor
  <1> HIDE DEF t
  <1>4. SupervisorInv(t)
    BY <1>2, <1>3 DEF SupervisorInv
  <1> QED BY <1>2, <1>3, <1>4 DEF t

LEMMA ReadyKeeps ==
  ASSUME NEW s, SupervisorInv(s), NEW c \in Children, c = s.child
  PROVE  SupervisorInv(Ready(s, c))
  <1>1. CASE c \in s.stopping
    <2>1. s.status # "running"
      BY <1>1 DEF SupervisorInv
    <2> QED BY <1>1, <2>1, ProcessKeeps DEF Ready, Process
  <1>2. CASE c \notin s.stopping
    <2> DEFINE t == [s EXCEPT !.status = "running", !.stable = TRUE, !.proc[c] = "up"]
    <2>1. s \in Supervisor
      BY DEF SupervisorInv
    <2>2. /\ t \in Supervisor
          /\ t.child = c /\ t.timer = s.timer /\ t.armed = s.armed
          /\ t.desired = s.desired /\ t.stop = s.stop /\ t.stopping = s.stopping
      BY <2>1 DEF Supervisor, Process, Status
    <2>3. t.proc[c] = "up" /\ \A d \in Children : d # c => t.proc[d] = s.proc[d]
      BY <2>1 DEF Supervisor
    <2> HIDE DEF t
    <2>4. SupervisorInv(t)
      BY <1>2, <2>2, <2>3, NoChildAssumption DEF SupervisorInv
    <2>5. SupervisorInv(FinishStart(t, "ok"))
      BY <2>4, FinishStartKeeps DEF Wait
    <2> QED BY <1>2, <2>5 DEF Ready, t
  <1> QED BY <1>1, <1>2

(* A status that is not running is no burden.                              *)
LEMMA StatusKeeps ==
  ASSUME NEW s, SupervisorInv(s), NEW status \in Status \ {"running"}, NEW stable \in BOOLEAN
  PROVE  LET t == [s EXCEPT !.stable = stable, !.status = status]
         IN  /\ SupervisorInv(t)
             /\ t.timer = s.timer /\ t.desired = s.desired /\ t.status = status
             /\ t.child = s.child /\ t.proc = s.proc /\ t.stopping = s.stopping
             /\ t.stop = s.stop
  BY DEF SupervisorInv, Supervisor

LEMMA StartupFailedKeeps ==
  ASSUME NEW s, SupervisorInv(s), NEW c \in Children, c = s.child, s.proc[c] # "up"
  PROVE  SupervisorInv(StartupFailed(s, c))
  <1> DEFINE u == [s EXCEPT !.proc[c] = "failing"]
             t == FinishStart(u, "failed")
             v == [t EXCEPT !.desired = FALSE, !.status = "degraded"]
  <1>1. SupervisorInv(u) /\ u.child = c
    BY ProcessKeeps DEF SupervisorInv, Process
  <1> HIDE DEF u
  <1>2. SupervisorInv(t) /\ t.child = c
    BY <1>1, FinishStartKeeps DEF Wait
  <1> HIDE DEF t
  <1>3. ~t.timer
    BY <1>2, NoChildAssumption DEF SupervisorInv
  <1>4. SupervisorInv(v)
    BY <1>2, <1>3 DEF SupervisorInv, Supervisor, Status
  <1> QED BY <1>2, <1>4 DEF StartupFailed, t, u

LEMMA StoppedKeeps ==
  ASSUME NEW s, SupervisorInv(s), NEW c \in Children, c = s.child, s.proc[c] # "up"
  PROVE  SupervisorInv(Stopped(s, c))
  <1> DEFINE u == [s EXCEPT !.proc[c] = "acked"]
             acked == s.stop.acked \/ s.stop.phase # "none"
             t == [u EXCEPT !.stop.acked = acked]
  <1>1. SupervisorInv(u) /\ u.stop = s.stop
    BY ProcessKeeps DEF SupervisorInv, Process
  <1>2. acked \in BOOLEAN
    OBVIOUS
  <1>3. Stopped(s, c) = t
    BY DEF Stopped, SupervisorInv, Supervisor
  <1> HIDE DEF u, acked
  <1>4. SupervisorInv(t)
    BY <1>1, <1>2 DEF SupervisorInv, Supervisor
  <1> QED BY <1>3, <1>4

LEMMA ChildErrorKeeps ==
  ASSUME NEW s, SupervisorInv(s), NEW c \in Children
  PROVE  SupervisorInv(ChildError(s, c))
  <1> DEFINE status == IF c \in s.stopping THEN "stopping" ELSE "degraded"
  <1>1. status \in Status \ {"running"}
    BY DEF Status
  <1> HIDE DEF status
  <1>2. SupervisorInv([s EXCEPT !.stable = FALSE, !.status = status])
    BY <1>1, StatusKeeps
  <1>3. SupervisorInv(FinishStart([s EXCEPT !.stable = FALSE, !.status = status], "failed"))
    BY <1>2, FinishStartKeeps DEF Wait
  <1> QED BY <1>3 DEF ChildError, status

(* The child at hand is gone, and no stop is in progress any more.         *)
LEMMA GoneKeeps ==
  ASSUME NEW s, SupervisorInv(s), NEW c \in Children, c = s.child, s.stop.phase = "none",
         NEW status \in {"stopped", "degraded"}
  PROVE  LET t == FinishStart(Gone(s, c, status), "failed")
         IN  /\ SupervisorInv(t)
             /\ ~t.timer /\ t.desired = s.desired
             /\ t.child = NoChild /\ t.stop.phase = "none"
  <1> DEFINE u == Gone(s, c, status)
  <1>1. s \in Supervisor /\ ~s.timer
    BY NoChildAssumption DEF SupervisorInv
  <1>2. /\ u \in Supervisor
        /\ u.child = NoChild /\ u.timer = s.timer /\ u.armed = s.armed
        /\ u.desired = s.desired /\ u.status = status
        /\ u.stop = s.stop
    BY <1>1 DEF Gone, Supervisor, Process, Status
  <1>3. u.proc[c] = "gone" /\ \A d \in Children : d # c => u.proc[d] = s.proc[d]
    BY <1>1 DEF Gone, Supervisor
  <1> HIDE DEF u
  <1>4. SupervisorInv(u)
    BY <1>1, <1>2, <1>3 DEF SupervisorInv
  <1>5. SupervisorInv(FinishStart(u, "failed"))
        /\ FinishStart(u, "failed").timer = u.timer
        /\ FinishStart(u, "failed").desired = u.desired
        /\ FinishStart(u, "failed").child = u.child
        /\ FinishStart(u, "failed").stop = u.stop
    BY <1>4, FinishStartKeeps DEF Wait
  <1> QED BY <1>1, <1>2, <1>5 DEF u

LEMMA SpawnFailedKeeps ==
  ASSUME NEW s, SupervisorInv(s), NEW c \in Children, c = s.child, s.proc[c] = "boot"
  PROVE  SupervisorInv(SpawnFailed(s, c))
  <1> DEFINE t == FinishStart(Gone(s, c, "degraded"), "failed")
  <1>1. s.stop.phase = "none"
    BY NoChildAssumption DEF SupervisorInv
  <1>2. SupervisorInv(t) /\ ~t.timer /\ t.child = NoChild /\ t.stop.phase = "none"
    BY <1>1, GoneKeeps
  <1> HIDE DEF t
  <1>3. t.desired => SupervisorInv(ScheduleRestart(t))
    BY <1>2, ScheduleKeeps
  <1> QED BY <1>2, <1>3 DEF SpawnFailed, t

LEMMA ExitKeeps ==
  ASSUME NEW s, SupervisorInv(s), NEW c \in Children, c = s.child, NEW clean \in BOOLEAN
  PROVE  SupervisorInv(Exit(s, c, clean))
  <1> DEFINE stopped == StoppedCleanly(s, c, clean)
             t == IF s.stop.phase # "none" THEN FinishStop(s, stopped) ELSE s
             status == IF stopped THEN "stopped" ELSE "degraded"
             u == FinishStart(Gone(t, c, status), "failed")
  <1>1. stopped \in BOOLEAN /\ status \in {"stopped", "degraded"}
    BY DEF StoppedCleanly, SupervisorInv, Supervisor
  <1> HIDE DEF stopped, status
  <1>2. SupervisorInv(t) /\ t.child = c /\ t.stop.phase = "none" /\ t.desired = s.desired
    BY <1>1, FinishStopKeeps
  <1> HIDE DEF t
  <1>3. SupervisorInv(u) /\ ~u.timer /\ u.child = NoChild /\ u.stop.phase = "none"
        /\ u.desired = s.desired
    BY <1>1, <1>2, GoneKeeps
  <1> HIDE DEF u
  <1>4. s.desired => SupervisorInv(ScheduleRestart(u))
    BY <1>3, ScheduleKeeps
  <1>5. Exit(s, c, clean) = IF MayRestart(s, c) THEN ScheduleRestart(u) ELSE u
    BY DEF Exit, u, t, stopped, status
  <1> QED BY <1>3, <1>4, <1>5 DEF MayRestart

-----------------------------------------------------------------------------
(* Timeouts.                                                               *)

LEMMA TimeoutsKeep ==
  ASSUME NEW s, SupervisorInv(s)
  PROVE  /\ SupervisorInv(StartTimeout(s))
         /\ s.stop.phase # "none" => SupervisorInv(StopTimeout(s))
         /\ SupervisorInv(ForceTimeout(s))
  <1>1. SupervisorInv(StartTimeout(s))
    <2> DEFINE u == FinishStart(s, "failed")
               t == [u EXCEPT !.status = "degraded"]
    <2>1. SupervisorInv(u)
      BY FinishStartKeeps DEF Wait
    <2> HIDE DEF u
    <2>2. SupervisorInv(t)
      BY <2>1 DEF SupervisorInv, Supervisor, Status
    <2> HIDE DEF t
    <2>3. SupervisorInv(StopChild(t, {}, TRUE))
      BY <2>2, StopChildKeeps
    <2> QED BY <2>3 DEF StartTimeout, t, u
  <1>2. ASSUME s.stop.phase # "none" PROVE SupervisorInv(StopTimeout(s))
    <2> DEFINE c == s.child
               u == [s EXCEPT !.proc[c] = "killed"]
               t == [u EXCEPT !.stop.phase = "force", !.forced = @ \cup {c}]
    <2>1. c \in Children /\ c \in s.stopping /\ s.status # "running"
      BY <1>2 DEF SupervisorInv, Supervisor
    <2>2. SupervisorInv(u) /\ u.child = c /\ u.stopping = s.stopping /\ u.proc[c] = "killed"
      BY <2>1, ProcessKeeps DEF Process
    <2>3. StopTimeout(s) = t
      BY DEF StopTimeout, SupervisorInv, Supervisor
    <2> HIDE DEF u
    <2>4. ~u.timer
      BY <2>1, <2>2, NoChildAssumption DEF SupervisorInv
    <2>5. SupervisorInv(t)
      BY <2>1, <2>2, <2>4, NoChildAssumption DEF SupervisorInv, Supervisor
    <2> QED BY <2>3, <2>5
  <1>3. SupervisorInv(ForceTimeout(s))
    <2>1. SupervisorInv([s EXCEPT !.status = "degraded"])
      BY DEF SupervisorInv, Supervisor, Status
    <2> QED BY <2>1, FinishStopKeeps DEF ForceTimeout
  <1> QED BY <1>1, <1>2, <1>3

LEMMA RestartKeeps ==
  ASSUME NEW s, SupervisorInv(s), NEW c \in Children
  PROVE  s.armed > 0 => SupervisorInv(RestartFires(s, c))
  <1> SUFFICES ASSUME s.armed > 0
               PROVE  SupervisorInv(RestartFires(s, c))
    OBVIOUS
  <1>1. s.timer
    BY DEF SupervisorInv
  <1> DEFINE t == [s EXCEPT !.timer = FALSE, !.armed = @ - 1]
  <1>2. t = ClearRestartTimer(s)
    BY <1>1 DEF ClearRestartTimer
  <1>3. SupervisorInv(t)
    BY <1>2, ClearKeeps
  <1> HIDE DEF t
  <1>4. SupervisorInv(Start(t, "timer", c, FALSE))
    BY <1>3, StartKeeps DEF Caller
  <1> QED BY <1>4 DEF RestartFires, t

(* The counter of restarts is reset.                                       *)
LEMMA ResetKeeps ==
  ASSUME NEW s, SupervisorInv(s)
  PROVE  SupervisorInv([s EXCEPT !.attempt = 0]) /\ SupervisorInv(StableRun(s))
  <1> DEFINE t == [s EXCEPT !.attempt = 0]
             u == [s EXCEPT !.stable = FALSE, !.attempt = 0]
  <1>1. s \in Supervisor /\ 0 \in 0 .. MaxRestarts
    BY MaxRestartsAssumption DEF SupervisorInv
  <1>2. /\ t \in Supervisor
        /\ t.timer = s.timer /\ t.armed = s.armed /\ t.desired = s.desired
        /\ t.status = s.status /\ t.child = s.child /\ t.proc = s.proc
        /\ t.stop = s.stop /\ t.stopping = s.stopping
    BY <1>1 DEF Supervisor
  <1>3. /\ u \in Supervisor
        /\ u.timer = s.timer /\ u.armed = s.armed /\ u.desired = s.desired
        /\ u.status = s.status /\ u.child = s.child /\ u.proc = s.proc
        /\ u.stop = s.stop /\ u.stopping = s.stopping
    BY <1>1 DEF Supervisor
  <1> HIDE DEF t, u
  <1>4. SupervisorInv(t) /\ SupervisorInv(u)
    BY <1>2, <1>3 DEF SupervisorInv
  <1> QED BY <1>4 DEF StableRun, t, u

-----------------------------------------------------------------------------
(* The host.                                                               *)

HostInv == TypeOK /\ SupervisorInv(sup)

LEMMA InitInv == Init => HostInv
  <1> SUFFICES ASSUME Init PROVE HostInv
    OBVIOUS
  <1> DEFINE s == InitialSupervisor(wanted)
  <1>1. s \in Supervisor
    BY MaxRestartsAssumption
    DEF InitialSupervisor, Init, Supervisor, Status, Process, NoStop, Wait
  <1>2. SupervisorInv(s)
    BY <1>1 DEF InitialSupervisor, SupervisorInv, NoStop
  <1> QED BY <1>1, <1>2 DEF Init, HostInv, TypeOK, Op, Host, Boot

LEMMA AnswerlessKeeps ==
  ASSUME SupervisorInv(sup), NEW w \in Caller
  PROVE  SupervisorInv(Answerless(w))
  BY AnswerKeeps DEF Answerless, Wait

(* What an action does to the supervisor, it does with its operators.      *)
LEMMA StepKeepsSupervisor ==
  ASSUME HostInv, [Next]_vars
  PROVE  SupervisorInv(sup')
  <1>1. SupervisorInv(sup) /\ sup \in Supervisor
    BY DEF HostInv, SupervisorInv
  <1>2. \A w \in Caller : SupervisorInv(Answerless(w))
    BY <1>1, AnswerlessKeeps
  <1>3. {"init", "queue", "timer", "close"} \subseteq Caller /\ Fresh \subseteq Children
    BY DEF Caller, Fresh
  <1>4. CASE Continue
    <2>1. ASSUME NEW w \in Caller, Resume(w) PROVE SupervisorInv(sup')
      BY <1>1, <1>3, <2>1, StartKeeps DEF Resume, Resets
    <2>2. ASSUME NEW w \in Caller, Ignored(w) PROVE SupervisorInv(sup')
      BY <1>2, <2>2 DEF Ignored
    <2>3. ASSUME OpEnds \/ UpdateStopped \/ Closed PROVE SupervisorInv(sup')
      BY <1>2, <1>3, <2>3 DEF OpEnds, UpdateStopped, Closed
    <2>4. CASE RestartContinues
      <3> DEFINE t == [Answerless("queue") EXCEPT !.attempt = 0]
      <3>1. SupervisorInv(t)
        BY <1>2, <1>3, ResetKeeps
      <3> HIDE DEF t
      <3>2. \A c \in Children : SupervisorInv(Start(t, "queue", c, TRUE))
        BY <1>3, <3>1, StartKeeps
      <3> QED BY <1>3, <2>4, <3>2 DEF RestartContinues, t
    <2>5. CASE Recover
      <3>1. SupervisorInv(StopChild(Answerless("queue"), {"queue"}, FALSE))
        BY <1>2, <1>3, StopChildKeeps
      <3> QED BY <1>1, <2>5, <3>1 DEF Recover
    <2>6. CASE StartAfterStop
      BY <1>2, <1>3, <2>6, StartKeeps DEF StartAfterStop
    <2>7. CASE CloseDaemon
      BY <1>1, <1>3, <2>7, DesiredKeeps, StopChildKeeps DEF CloseDaemon
    <2> QED BY <1>4, <2>1, <2>2, <2>3, <2>4, <2>5, <2>6, <2>7 DEF Continue
  <1>5. CASE Timeouts
    BY <1>1, <1>5, TimeoutsKeep
    DEF Timeouts, StartTimesOut, StopTimesOut, ForceTimesOut, ReadinessTimeout
  <1>6. CASE Update
    BY <1>1, <1>3, <1>6, StartKeeps DEF Update, Staged, Prepared, Launched, Aborted
  <1>7. ASSUME NEW w \in Caller, PollStart(w) PROVE SupervisorInv(sup')
    BY <1>1, <1>7, AnswerKeeps DEF PollStart, Poll, Wait
  <1>8. CASE RequestStart
    BY <1>1, <1>3, <1>8, DesiredKeeps, StartKeeps DEF RequestStart
  <1>9. CASE RequestStop \/ RequestRestart
    BY <1>1, <1>3, <1>9, DesiredKeeps, StopChildKeeps DEF RequestStop, RequestRestart
  <1>10. CASE RequestApply \/ ReadinessRefused \/ RequestShutdown \/ BeginClose
    BY <1>1, <1>10 DEF RequestApply, ReadinessRefused, RequestShutdown, BeginClose
  <1>11. CASE ReadinessOk
    BY <1>1, <1>3, <1>11, StopChildKeeps DEF ReadinessOk
  <1>12. CASE InitialStart
    BY <1>1, <1>3, <1>12, StartKeeps DEF InitialStart
  <1>13. CASE RestartTimer
    BY <1>1, <1>3, <1>13, RestartKeeps DEF RestartTimer
  <1>14. CASE StableTimer
    BY <1>1, <1>14, ResetKeeps DEF StableTimer
  <1>15. ASSUME NEW c \in Children,
                \/ DaemonReady(c) \/ DaemonStartupFails(c) \/ DaemonStopped(c)
                \/ DaemonErrs(c) \/ SpawnFails(c) \/ DaemonExits(c)
         PROVE  SupervisorInv(sup')
    <2>1. CASE DaemonReady(c)
      BY <1>1, <2>1, ReadyKeeps DEF DaemonReady
    <2>2. CASE DaemonStartupFails(c)
      BY <1>1, <2>2, StartupFailedKeeps DEF DaemonStartupFails
    <2>3. CASE DaemonStopped(c)
      BY <1>1, <2>3, StoppedKeeps DEF DaemonStopped
    <2>4. CASE DaemonErrs(c)
      BY <1>1, <2>4, ChildErrorKeeps DEF DaemonErrs
    <2>5. CASE SpawnFails(c)
      BY <1>1, <2>5, SpawnFailedKeeps DEF SpawnFails
    <2>6. CASE DaemonExits(c)
      BY <1>1, <2>6, ExitKeeps DEF DaemonExits
    <2> QED BY <1>15, <2>1, <2>2, <2>3, <2>4, <2>5, <2>6
  <1>16. CASE UNCHANGED vars
    BY <1>1, <1>16 DEF vars
  <1> QED
    BY <1>4, <1>5, <1>6, <1>7, <1>8, <1>9, <1>10, <1>11, <1>12, <1>13, <1>14, <1>15, <1>16
    DEF Next

LEMMA StepKeepsTypes ==
  ASSUME TypeOK, [Next]_vars
  PROVE  wanted' \in BOOLEAN /\ boot' \in Boot /\ op' \in Op
         /\ shutdown' \in BOOLEAN /\ host' \in Host
  <1> USE DEF TypeOK, Op, Host, Boot
  <1>1. CASE Continue
    BY <1>1 DEF Continue, Resume, Ignored, OpEnds, RestartContinues, UpdateStopped, Recover,
                StartAfterStop, CloseDaemon, Closed
  <1>2. CASE Timeouts
    BY <1>2 DEF Timeouts, StartTimesOut, StopTimesOut, ForceTimesOut, ReadinessTimeout, Event
  <1>3. CASE Update
    BY <1>3 DEF Update, Staged, Prepared, Launched, Aborted
  <1>4. CASE \/ \E w \in Caller : PollStart(w)
             \/ RequestStart \/ RequestStop \/ RequestRestart \/ RequestApply
    BY <1>4 DEF PollStart, Event, Begin, RequestStart, RequestStop, RequestRestart, RequestApply
  <1>5. CASE ReadinessOk \/ ReadinessRefused \/ InitialStart \/ RequestShutdown \/ BeginClose
    BY <1>5 DEF ReadinessOk, ReadinessRefused, InitialStart, RequestShutdown, BeginClose
  <1>6. CASE RestartTimer \/ StableTimer
    BY <1>6 DEF RestartTimer, StableTimer, Event
  <1>7. ASSUME NEW c \in Children,
               \/ DaemonReady(c) \/ DaemonStartupFails(c) \/ DaemonStopped(c)
               \/ DaemonErrs(c) \/ SpawnFails(c) \/ DaemonExits(c)
        PROVE  wanted' \in BOOLEAN /\ boot' \in Boot /\ op' \in Op
               /\ shutdown' \in BOOLEAN /\ host' \in Host
    BY <1>7 DEF DaemonReady, DaemonStartupFails, DaemonStopped, DaemonErrs, SpawnFails,
                DaemonExits, ReadinessFails, Event
  <1>8. CASE UNCHANGED vars
    BY <1>8 DEF vars
  <1> QED BY <1>1, <1>2, <1>3, <1>4, <1>5, <1>6, <1>7, <1>8 DEF Next

(* The inductive invariant.                                                *)
THEOREM HostInvariant == Spec => []HostInv
  <1>1. HostInv /\ [Next]_vars => HostInv'
    <2> SUFFICES ASSUME HostInv, [Next]_vars PROVE HostInv'
      OBVIOUS
    <2>1. SupervisorInv(sup)'
      BY StepKeepsSupervisor
    <2>2. TypeOK'
      BY <2>1, StepKeepsTypes DEF HostInv, TypeOK, SupervisorInv
    <2> QED BY <2>1, <2>2 DEF HostInv
  <1> QED BY InitInv, <1>1, PTL DEF Spec

(* The host stays within its types: among them, the automatic restarts are *)
(* never more than daemonSupervisor.ts:454 allows.                         *)
THEOREM HostTypes == Spec => []TypeOK
  <1>1. HostInv => TypeOK
    BY DEF HostInv
  <1> QED BY <1>1, HostInvariant, PTL

(* Two daemons never run at once, in whatever order requests, timeouts,    *)
(* restarts and the processes themselves come.                             *)
THEOREM AtMostOneDaemon == Spec => []OneDaemon
  <1>1. HostInv => OneDaemon
    BY DEF HostInv, SupervisorInv, OneDaemon, Running
  <1> QED BY <1>1, HostInvariant, PTL

(* A restart is pending only when one is wanted and nothing runs; a timer  *)
(* is never lost to clearRestartTimer.                                     *)
THEOREM RestartsAreReasonable == Spec => []TimerInv
  <1>1. HostInv => TimerInv
    BY DEF HostInv, SupervisorInv, TimerInv
  <1> QED BY <1>1, HostInvariant, PTL

(* A daemon that is said to run has said so itself and was not told to     *)
(* stop.                                                                   *)
THEOREM StatusIsTrue == Spec => []RunningIsServing
  <1>1. HostInv => RunningIsServing
    BY DEF HostInv, SupervisorInv, RunningIsServing
  <1> QED BY <1>1, HostInvariant, PTL

-----------------------------------------------------------------------------
(* What the methods, handlers and timers do, for the invariant of the      *)
(* requests and the close.                                                 *)

(* What the supervisor keeps besides: a start that is awaited has a child  *)
(* that does not serve yet, a child that serves was not told to stop, a    *)
(* child that is to be replaced was, and who waits for a stop waits for    *)
(* one in progress.                                                        *)
Calm(s) ==
  /\ s.starting => s.child # NoChild /\ s.proc[s.child] # "up"
  /\ s.stable => s.child # NoChild
  /\ s.child # NoChild /\ s.proc[s.child] = "up" => s.child \notin s.stopping
  /\ s.child \in s.again => s.child \in s.stopping
  /\ \A w \in Caller : s.wait[w] \in {"stop", "startStop"} => s.stop.phase # "none"

Sound(s) == SupervisorInv(s) /\ Calm(s)

(* t is s but for the wait of w.                                           *)
Waits(s, t, w) == \A v \in Caller \ {w} : t.wait[v] = s.wait[v]

LEMMA AnswerDoes ==
  ASSUME NEW s, Sound(s), NEW w \in Caller, NEW answer \in Wait \ {"stop", "startStop"}
  PROVE  LET t == Answer(s, w, answer)
         IN  /\ Sound(t) /\ Waits(s, t, w) /\ t.wait[w] = answer
             /\ t.desired = s.desired /\ t.child = s.child /\ t.again = s.again
             /\ t.starting = s.starting /\ t.stop = s.stop /\ t.timer = s.timer
             /\ t.attempt = s.attempt /\ t.proc = s.proc /\ t.status = s.status
             /\ t.stopping = s.stopping
  <1> DEFINE t == Answer(s, w, answer)
  <1>1. s \in Supervisor /\ SupervisorInv(t)
    BY AnswerKeeps DEF Sound, SupervisorInv
  <1>2. /\ Waits(s, t, w) /\ t.wait[w] = answer
        /\ t.desired = s.desired /\ t.child = s.child /\ t.again = s.again
        /\ t.starting = s.starting /\ t.stop = s.stop /\ t.timer = s.timer
        /\ t.attempt = s.attempt /\ t.proc = s.proc /\ t.status = s.status
        /\ t.stopping = s.stopping /\ t.stable = s.stable
    BY <1>1 DEF Answer, Supervisor, Waits
  <1> HIDE DEF t
  <1>3. Calm(t)
    BY <1>2 DEF Calm, Sound, Waits
  <1> QED BY <1>1, <1>2, <1>3 DEF Sound, t

(* Clearing what is pending.                                               *)
LEMMA DesiredDoes ==
  ASSUME NEW s, Sound(s), NEW desired \in BOOLEAN
  PROVE  LET t == SetDesiredRunning(s, desired)
         IN  /\ Sound(t)
             /\ t.desired = desired /\ (~desired => ~t.timer) /\ (t.timer => s.timer)
             /\ (desired => t.timer = s.timer)
             /\ t.child = s.child /\ t.again = s.again /\ t.starting = s.starting
             /\ t.stop = s.stop /\ t.attempt = s.attempt /\ t.wait = s.wait
             /\ t.proc = s.proc /\ t.status = s.status /\ t.stopping = s.stopping
  <1> DEFINE t == SetDesiredRunning(s, desired)
  <1>1. s \in Supervisor /\ SupervisorInv(t) /\ t.desired = desired
    BY DesiredKeeps DEF Sound, SupervisorInv
  <1>2. /\ (~desired => ~t.timer) /\ (t.timer => s.timer) /\ (desired => t.timer = s.timer)
        /\ t.child = s.child /\ t.again = s.again /\ t.starting = s.starting
        /\ t.stop = s.stop /\ t.attempt = s.attempt /\ t.wait = s.wait
        /\ t.proc = s.proc /\ t.status = s.status /\ t.stopping = s.stopping
        /\ t.stable = s.stable
    BY <1>1 DEF SetDesiredRunning, ClearRestartTimer, Supervisor
  <1> HIDE DEF t
  <1>3. Calm(t)
    BY <1>2 DEF Calm, Sound
  <1> QED BY <1>1, <1>2, <1>3 DEF Sound, t

LEMMA ClearDoes ==
  ASSUME NEW s, Sound(s)
  PROVE  LET t == ClearRestartTimer(s)
         IN  /\ Sound(t) /\ ~t.timer
             /\ t.desired = s.desired /\ t.child = s.child /\ t.again = s.again
             /\ t.starting = s.starting /\ t.stop = s.stop /\ t.attempt = s.attempt
             /\ t.wait = s.wait /\ t.proc = s.proc /\ t.stopping = s.stopping
             /\ t.stable = s.stable
  <1> DEFINE t == ClearRestartTimer(s)
  <1>1. s \in Supervisor /\ SupervisorInv(t)
    BY ClearKeeps DEF Sound, SupervisorInv
  <1>2. /\ ~t.timer
        /\ t.desired = s.desired /\ t.child = s.child /\ t.again = s.again
        /\ t.starting = s.starting /\ t.stop = s.stop /\ t.attempt = s.attempt
        /\ t.wait = s.wait /\ t.proc = s.proc /\ t.stopping = s.stopping
        /\ t.stable = s.stable
    BY <1>1 DEF ClearRestartTimer, Supervisor
  <1> HIDE DEF t
  <1>3. Calm(t)
    BY <1>2 DEF Calm, Sound
  <1> QED BY <1>1, <1>2, <1>3 DEF Sound, t

(* A spawn has a child that does not serve yet.                            *)
LEMMA SpawnDoes ==
  ASSUME NEW s, Sound(s), s.child = NoChild,
         NEW w \in Caller, NEW c \in Children, NEW reset \in BOOLEAN
  PROVE  LET t == Spawn(s, w, c, reset)
         IN  /\ Sound(t) /\ Waits(s, t, w) /\ t.wait[w] = "start"
             /\ t.desired = s.desired /\ t.child = c /\ t.child # NoChild
             /\ t.stop = s.stop /\ ~t.timer /\ c \notin t.again
  <1> DEFINE t == Spawn(s, w, c, reset)
             u == ClearRestartTimer(s)
  <1>1. SupervisorInv(t)
    BY SpawnKeeps DEF Sound
  <1>2. /\ u \in Supervisor /\ ~u.timer /\ u.desired = s.desired /\ u.again = s.again
        /\ u.stop = s.stop /\ u.wait = s.wait /\ u.proc = s.proc
        /\ u.stopping = s.stopping /\ u.stable = s.stable
    BY ClearDoes DEF Sound, SupervisorInv
  <1>3. c # NoChild
    BY NoChildAssumption
  <1> HIDE DEF u
  <1>4. /\ \A v \in Caller \ {w} : t.wait[v] = s.wait[v]
        /\ t.wait[w] = "start" /\ t.desired = s.desired /\ t.child = c
        /\ t.stop = s.stop /\ ~t.timer /\ c \notin t.again /\ t.proc[c] = "boot"
    BY <1>2 DEF Spawn, u, Supervisor
  <1> HIDE DEF t
  <1>5. Calm(t)
    BY <1>3, <1>4 DEF Calm, Sound
  <1> QED BY <1>1, <1>3, <1>4, <1>5 DEF Sound, Waits, t

(* A start of w leaves a child, a new one only if there was none, and w    *)
(* waits for an answer or for the stop in progress.                        *)
Started(s, t, w) ==
  /\ Sound(t) /\ Waits(s, t, w)
  /\ t.child # NoChild /\ t.stop = s.stop
  /\ \/ t.child = s.child /\ t.again = s.again /\ t.starting = s.starting
     \/ s.child = NoChild /\ t.wait[w] = "start"

LEMMA SpawnUnlessDoes ==
  ASSUME NEW s, Sound(s), NEW w \in Caller, NEW c \in Children, NEW reset \in BOOLEAN
  PROVE  LET t == SpawnUnlessActive(s, w, c, reset)
         IN  /\ Started(s, t, w) /\ t.desired = s.desired
             /\ t.wait[w] \in {"start", "poll", "failed"}
  <1>1. CASE s.starting
    <2>1. s.child # NoChild
      BY <1>1 DEF Sound, Calm
    <2>2. SpawnUnlessActive(s, w, c, reset) = Answer(s, w, "poll")
      BY <1>1 DEF SpawnUnlessActive
    <2> QED BY <2>1, <2>2, AnswerDoes DEF Started, Wait
  <1>2. CASE ~s.starting /\ s.child # NoChild
    <2>1. SpawnUnlessActive(s, w, c, reset) = Answer(s, w, "failed")
      BY <1>2 DEF SpawnUnlessActive
    <2> QED BY <1>2, <2>1, AnswerDoes DEF Started, Wait
  <1>3. CASE ~s.starting /\ s.child = NoChild
    <2>1. SpawnUnlessActive(s, w, c, reset) = Spawn(s, w, c, reset)
      BY <1>3 DEF SpawnUnlessActive
    <2> QED BY <1>3, <2>1, SpawnDoes DEF Started
  <1>4. s.starting \in BOOLEAN
    BY DEF Sound, SupervisorInv, Supervisor
  <1> QED BY <1>1, <1>2, <1>3, <1>4

LEMMA ResumeDoes ==
  ASSUME NEW s, Sound(s), NEW w \in Caller, NEW c \in Children, NEW reset \in BOOLEAN
  PROVE  LET t == ResumeStart(s, w, c, reset)
         IN  /\ Started(s, t, w) /\ t.desired = s.desired
             /\ t.wait[w] \in {"start", "poll", "failed"}
  <1>1. CASE s.wait[w] = "resumeFailed" /\ s.child # NoChild
    BY <1>1, AnswerDoes DEF ResumeStart, Started, Wait
  <1>2. CASE ~(s.wait[w] = "resumeFailed" /\ s.child # NoChild)
    <2>1. ResumeStart(s, w, c, reset) = SpawnUnlessActive(s, w, c, reset)
      BY <1>2 DEF ResumeStart
    <2> QED BY <2>1, SpawnUnlessDoes
  <1> QED BY <1>1, <1>2

LEMMA StartDoes ==
  ASSUME NEW s, Sound(s), NEW w \in Caller, NEW c \in Children, NEW reset \in BOOLEAN
  PROVE  LET t == Start(s, w, c, reset)
         IN  /\ Started(s, t, w) /\ t.desired
             /\ t.wait[w] \in {"start", "poll", "failed", "ok", "startStop"}
             /\ s.stop.phase # "none" => t.wait[w] = "startStop"
  <1> DEFINE u == SetDesiredRunning(s, TRUE)
             t == Start(s, w, c, reset)
  <1>1. /\ Sound(u) /\ u.desired /\ u.child = s.child /\ u.again = s.again
        /\ u.starting = s.starting /\ u.stop = s.stop /\ u.wait = s.wait
    BY DesiredDoes
  <1> HIDE DEF u
  <1>2. CASE u.status = "running"
    <2>1. t = Answer(u, w, "ok") /\ u.child # NoChild /\ u.stop.phase = "none"
      BY <1>1, <1>2 DEF Start, u, Sound, SupervisorInv
    <2> QED BY <1>1, <2>1, AnswerDoes DEF Started, Waits, Wait, t
  <1>3. CASE u.status # "running" /\ u.stop.phase # "none"
    <2> DEFINE v == Answer(u, w, "startStop")
    <2>1. t = v /\ u.child # NoChild
      BY <1>1, <1>3 DEF Start, u, Sound, SupervisorInv
    <2>2. SupervisorInv(v) /\ u \in Supervisor
      BY <1>1, AnswerKeeps DEF Sound, Wait, SupervisorInv
    <2>3. /\ Waits(u, v, w) /\ v.wait[w] = "startStop"
          /\ v.desired = u.desired /\ v.child = u.child /\ v.again = u.again
          /\ v.starting = u.starting /\ v.stop = u.stop /\ v.stable = u.stable
          /\ v.proc = u.proc /\ v.stopping = u.stopping
      BY <2>2 DEF Answer, Supervisor, Waits
    <2> HIDE DEF v
    <2>4. Calm(v)
      BY <1>1, <1>3, <2>3 DEF Calm, Sound, Waits
    <2> QED BY <1>1, <1>3, <2>1, <2>2, <2>3, <2>4 DEF Started, Waits, Sound, t
  <1>4. CASE ~(u.status = "running") /\ ~(u.stop.phase # "none")
    <2>1. t = SpawnUnlessActive(u, w, c, reset)
      BY <1>4 DEF Start, u
    <2>2. /\ Started(u, t, w) /\ t.desired = u.desired
          /\ t.wait[w] \in {"start", "poll", "failed"}
      BY <1>1, <2>1, SpawnUnlessDoes
    <2> QED BY <1>1, <1>4, <2>2 DEF Started, Waits, t
  <1> QED BY <1>2, <1>3, <1>4

-----------------------------------------------------------------------------
(* What a stop and what settles it do.                                     *)

LEMMA StopChildDoes ==
  ASSUME NEW s, Sound(s), NEW w \in Caller
  PROVE  LET t == StopChild(s, {w}, FALSE)
         IN  /\ Sound(t) /\ Waits(s, t, w)
             /\ t.child = s.child /\ t.again = s.again /\ t.desired = s.desired
             /\ t.timer = s.timer /\ t.attempt = s.attempt /\ t.starting = s.starting
             /\ s.child = NoChild => t.wait[w] = "ok" /\ t.stop = s.stop
             /\ s.child # NoChild => t.wait[w] = "stop" /\ t.stop.phase # "none"
  <1> DEFINE t == StopChild(s, {w}, FALSE)
             c == s.child
             done == [v \in Caller |-> IF v \in {w} THEN "ok" ELSE s.wait[v]]
             asked == [v \in Caller |-> IF v \in {w} THEN "stop" ELSE s.wait[v]]
             r == [s EXCEPT !.again = s.again, !.wait = asked]
             u == [r EXCEPT !.stopping = @ \cup {c}, !.status = "stopping",
                            !.stop = [phase |-> "grace", acked |-> FALSE]]
  <1>1. s \in Supervisor /\ SupervisorInv(t)
    BY StopChildKeeps DEF Sound, SupervisorInv
  <1>2. /\ done[w] = "ok" /\ \A v \in Caller \ {w} : done[v] = s.wait[v]
        /\ asked[w] = "stop" /\ \A v \in Caller \ {w} : asked[v] = s.wait[v]
        /\ asked \in [Caller -> Wait] /\ done \in [Caller -> Wait]
    BY <1>1 DEF Supervisor, Wait
  <1>3. /\ c = NoChild => t = [s EXCEPT !.status = "stopped", !.wait = done]
        /\ c # NoChild /\ s.stop.phase # "none" => t = r
        /\ c # NoChild /\ s.stop.phase = "none" => t = AskToStop(u, c)
    BY DEF StopChild
  <1> HIDE DEF t, done, asked
  <1>4. CASE c = NoChild
    <2>1. /\ Waits(s, t, w) /\ t.wait[w] = "ok" /\ t.stop = s.stop
          /\ t.child = s.child /\ t.again = s.again /\ t.desired = s.desired
          /\ t.timer = s.timer /\ t.attempt = s.attempt /\ t.starting = s.starting
          /\ t.stable = s.stable /\ t.proc = s.proc /\ t.stopping = s.stopping
      BY <1>1, <1>2, <1>3, <1>4 DEF Supervisor, Waits
    <2>2. Calm(t)
      BY <2>1 DEF Calm, Sound, Waits
    <2> QED BY <1>1, <1>4, <2>1, <2>2 DEF Sound, t
  <1>5. CASE c # NoChild /\ s.stop.phase # "none"
    <2>1. /\ Waits(s, t, w) /\ t.wait[w] = "stop" /\ t.stop = s.stop
          /\ t.child = s.child /\ t.again = s.again /\ t.desired = s.desired
          /\ t.timer = s.timer /\ t.attempt = s.attempt /\ t.starting = s.starting
          /\ t.stable = s.stable /\ t.proc = s.proc /\ t.stopping = s.stopping
      BY <1>1, <1>2, <1>3, <1>5 DEF Supervisor, Waits
    <2>2. Calm(t)
      BY <1>5, <2>1 DEF Calm, Sound, Waits
    <2> QED BY <1>1, <1>5, <2>1, <2>2 DEF Sound, t
  <1>6. CASE c # NoChild /\ s.stop.phase = "none"
    <2>1. /\ u \in Supervisor /\ u.proc = s.proc
          /\ Waits(s, u, w) /\ u.wait[w] = "stop" /\ u.stop.phase # "none"
          /\ u.child = s.child /\ u.again = s.again /\ u.desired = s.desired
          /\ u.timer = s.timer /\ u.attempt = s.attempt /\ u.starting = s.starting
          /\ u.stable = s.stable /\ u.stopping = s.stopping \cup {c}
          /\ c \in Children
      BY <1>1, <1>2, <1>6 DEF Supervisor, Waits, Status
    <2> HIDE DEF u
    <2>2. /\ t.wait = u.wait /\ t.stop = u.stop /\ t.child = u.child /\ t.again = u.again
          /\ t.desired = u.desired /\ t.timer = u.timer /\ t.attempt = u.attempt
          /\ t.starting = u.starting /\ t.stable = u.stable /\ t.stopping = u.stopping
          /\ t.proc[c] # "up"
      <3>1. CASE u.proc[c] = "boot"
        BY <1>3, <1>6, <2>1, <3>1 DEF AskToStop, Supervisor
      <3>2. CASE u.proc[c] = "up"
        BY <1>3, <1>6, <2>1, <3>2 DEF AskToStop, Supervisor
      <3>3. CASE u.proc[c] = "failing"
        <4>1. t = [u EXCEPT !.proc[c] = "killed", !.forced = u.forced \cup {c}]
          BY <1>3, <1>6, <3>3 DEF AskToStop
        <4> QED BY <2>1, <4>1 DEF Supervisor
      <3>4. CASE u.proc[c] \notin {"boot", "up", "failing"}
        BY <1>3, <1>6, <3>4 DEF AskToStop
      <3> QED BY <3>1, <3>2, <3>3, <3>4
    <2>3. Calm(t)
      BY <1>6, <2>1, <2>2 DEF Calm, Sound, Waits
    <2> QED BY <1>1, <1>6, <2>1, <2>2, <2>3 DEF Sound, Waits, t
  <1> QED BY <1>4, <1>5, <1>6

LEMMA FinishStartDoes ==
  ASSUME NEW s \in Supervisor, NEW answer
  PROVE  LET t == FinishStart(s, answer)
         IN  /\ ~t.starting
             /\ \A w \in Caller : t.wait[w] = IF s.wait[w] = "start" THEN answer ELSE s.wait[w]
             /\ t.desired = s.desired /\ t.child = s.child /\ t.again = s.again
             /\ t.stop = s.stop /\ t.timer = s.timer /\ t.attempt = s.attempt
             /\ t.proc = s.proc /\ t.stopping = s.stopping /\ t.stable = s.stable
  BY DEF FinishStart, Supervisor

(* What becomes of the wait of those who wait for a stop.                  *)
StopAnswer(answer, stopped) ==
  IF answer = "stop" THEN IF stopped THEN "ok" ELSE "failed"
  ELSE IF answer = "startStop" THEN IF stopped THEN "resume" ELSE "resumeFailed"
  ELSE answer

LEMMA FinishStopDoes ==
  ASSUME NEW s \in Supervisor, NEW stopped \in BOOLEAN
  PROVE  LET t == FinishStop(s, stopped)
         IN  /\ t \in Supervisor
             /\ t.stop.phase = "none"
             /\ \A w \in Caller : t.wait[w] = StopAnswer(s.wait[w], stopped)
             /\ t.desired = s.desired /\ t.child = s.child /\ t.again = s.again
             /\ t.starting = s.starting /\ t.timer = s.timer /\ t.attempt = s.attempt
             /\ t.proc = s.proc /\ t.stopping = s.stopping /\ t.stable = s.stable
  <1> DEFINE wait == [w \in Caller |->
               CASE s.wait[w] = "stop" /\ stopped       -> "ok"
                 [] s.wait[w] = "stop" /\ ~stopped      -> "failed"
                 [] s.wait[w] = "startStop" /\ stopped  -> "resume"
                 [] s.wait[w] = "startStop" /\ ~stopped -> "resumeFailed"
                 [] OTHER                               -> s.wait[w]]
  <1>1. FinishStop(s, stopped) = [s EXCEPT !.stop = NoStop, !.wait = wait]
    BY DEF FinishStop, Supervisor
  <1>2. \A w \in Caller : wait[w] = StopAnswer(s.wait[w], stopped)
    BY DEF StopAnswer
  <1>3. wait \in [Caller -> Wait]
    BY DEF Supervisor, Wait
  <1> HIDE DEF wait
  <1> DEFINE t == [s EXCEPT !.stop = NoStop, !.wait = wait]
  <1>4. /\ t \in Supervisor /\ t.stop.phase = "none" /\ t.wait = wait
        /\ t.desired = s.desired /\ t.child = s.child /\ t.again = s.again
        /\ t.starting = s.starting /\ t.timer = s.timer /\ t.attempt = s.attempt
        /\ t.proc = s.proc /\ t.stopping = s.stopping /\ t.stable = s.stable
    BY <1>3 DEF Supervisor, NoStop
  <1> QED BY <1>1, <1>2, <1>4

LEMMA ScheduleDoes ==
  ASSUME NEW s \in Supervisor
  PROVE  LET t == ScheduleRestart(s)
         IN  /\ t.timer \/ t.attempt = MaxRestarts
             /\ t.desired = s.desired /\ t.child = s.child /\ t.again = s.again
             /\ t.starting = s.starting /\ t.stop = s.stop /\ t.wait = s.wait
             /\ t.proc = s.proc /\ t.stopping = s.stopping /\ t.stable = s.stable
  <1>1. CASE s.attempt >= MaxRestarts
    BY <1>1, MaxRestartsAssumption DEF ScheduleRestart, Supervisor
  <1>2. CASE ~ s.attempt >= MaxRestarts
    BY <1>2 DEF ScheduleRestart, Supervisor
  <1> QED BY <1>1, <1>2

-----------------------------------------------------------------------------
(* Events of the child at hand.                                            *)

(* What a start waits for may be settled.                                  *)
Settled(s, t) ==
  \A w \in Caller :
    \/ t.wait[w] = s.wait[w]
    \/ s.wait[w] = "start" /\ t.wait[w] \in {"ok", "failed"}

(* The child is still there and no stop begins or ends.                    *)
Steady(s, t) ==
  /\ Sound(t) /\ Settled(s, t)
  /\ s.child # NoChild /\ t.child = s.child /\ t.again = s.again
  /\ t.stop.phase = "none" <=> s.stop.phase = "none"
  /\ t.desired => s.desired
  /\ t.starting => s.starting

LEMMA ReadyDoes ==
  ASSUME NEW s, Sound(s), NEW c \in Children, c = s.child
  PROVE  Steady(s, Ready(s, c))
  <1> DEFINE t == Ready(s, c)
  <1>1. s \in Supervisor /\ SupervisorInv(t) /\ c # NoChild
    BY ReadyKeeps, NoChildAssumption DEF Sound, SupervisorInv
  <1>2. CASE c \in s.stopping
    <2>1. /\ t.wait = s.wait /\ t.child = c /\ t.again = s.again /\ t.stop = s.stop
          /\ t.desired = s.desired /\ t.starting = s.starting /\ t.stable = s.stable
          /\ t.stopping = s.stopping /\ t.proc[c] = "drain"
      BY <1>1, <1>2 DEF Ready, Supervisor
    <2> HIDE DEF t
    <2>2. Calm(t)
      BY <1>1, <2>1 DEF Calm, Sound
    <2> QED BY <1>1, <2>1, <2>2 DEF Steady, Settled, Sound, t
  <1>3. CASE c \notin s.stopping
    <2> DEFINE u == [s EXCEPT !.status = "running", !.stable = TRUE, !.proc[c] = "up"]
    <2>1. /\ u \in Supervisor /\ u.wait = s.wait /\ u.child = c /\ u.again = s.again
          /\ u.stop = s.stop /\ u.desired = s.desired /\ u.stopping = s.stopping
      BY <1>1 DEF Supervisor, Status, Process
    <2>2. t = FinishStart(u, "ok")
      BY <1>3 DEF Ready
    <2> HIDE DEF u, t
    <2>3. /\ Settled(s, t) /\ t.child = c /\ t.again = s.again /\ t.stop = s.stop
          /\ t.desired = s.desired /\ ~t.starting /\ t.stopping = s.stopping
      BY <2>1, <2>2, FinishStartDoes DEF Settled
    <2>4. Calm(t)
      BY <1>1, <1>3, <2>3 DEF Calm, Sound, Settled
    <2> QED BY <1>1, <2>3, <2>4 DEF Steady, Sound, t
  <1> QED BY <1>2, <1>3

LEMMA StartupFailedDoes ==
  ASSUME NEW s, Sound(s), NEW c \in Children, c = s.child, s.proc[c] # "up"
  PROVE  Steady(s, StartupFailed(s, c))
  <1> DEFINE t == StartupFailed(s, c)
             u == [s EXCEPT !.proc[c] = "failing"]
             v == FinishStart(u, "failed")
  <1>1. s \in Supervisor /\ SupervisorInv(t) /\ c # NoChild
    BY StartupFailedKeeps, NoChildAssumption DEF Sound, SupervisorInv
  <1>2. /\ u \in Supervisor /\ u.wait = s.wait /\ u.child = c /\ u.again = s.again
        /\ u.stop = s.stop /\ u.desired = s.desired /\ u.stopping = s.stopping
        /\ u.proc[c] = "failing"
    BY <1>1 DEF Supervisor, Process
  <1> HIDE DEF u
  <1>3. /\ v \in Supervisor
        /\ Settled(s, v) /\ v.child = c /\ v.again = s.again /\ v.stop = s.stop
        /\ v.desired = s.desired /\ ~v.starting /\ v.stopping = s.stopping
        /\ v.proc[c] = "failing"
    <2>1. v \in Supervisor
      BY <1>2 DEF FinishStart, Supervisor, Wait
    <2> QED BY <1>2, <2>1, FinishStartDoes DEF Settled
  <1>4. t = v \/ t = [v EXCEPT !.desired = FALSE, !.status = "degraded"]
    BY DEF StartupFailed, u
  <1> HIDE DEF t, v
  <1>5. /\ t.wait = v.wait /\ t.child = c /\ t.again = s.again /\ t.stop = s.stop
        /\ (t.desired => s.desired) /\ ~t.starting /\ t.stopping = s.stopping
        /\ t.proc[c] = "failing"
    BY <1>3, <1>4 DEF Supervisor
  <1>6. Calm(t) /\ Settled(s, t)
    BY <1>1, <1>3, <1>5 DEF Calm, Sound, Settled
  <1> QED BY <1>1, <1>5, <1>6 DEF Steady, Sound, t

LEMMA StoppedDoes ==
  ASSUME NEW s, Sound(s), NEW c \in Children, c = s.child, s.proc[c] # "up"
  PROVE  Steady(s, Stopped(s, c))
  <1> DEFINE t == Stopped(s, c)
  <1>1. s \in Supervisor /\ SupervisorInv(t) /\ c # NoChild
    BY StoppedKeeps, NoChildAssumption DEF Sound, SupervisorInv
  <1>2. /\ t.wait = s.wait /\ t.child = c /\ t.again = s.again
        /\ t.stop.phase = s.stop.phase
        /\ t.desired = s.desired /\ t.starting = s.starting /\ t.stable = s.stable
        /\ t.stopping = s.stopping /\ t.proc[c] = "acked"
    BY <1>1 DEF Stopped, Supervisor
  <1> HIDE DEF t
  <1>3. Calm(t)
    BY <1>1, <1>2 DEF Calm, Sound
  <1> QED BY <1>1, <1>2, <1>3 DEF Steady, Settled, Sound, t

LEMMA ChildErrorDoes ==
  ASSUME NEW s, Sound(s), NEW c \in Children, c = s.child
  PROVE  Steady(s, ChildError(s, c))
  <1> DEFINE t == ChildError(s, c)
             status == IF c \in s.stopping THEN "stopping" ELSE "degraded"
             u == [s EXCEPT !.stable = FALSE, !.status = status]
  <1>1. s \in Supervisor /\ SupervisorInv(t) /\ c # NoChild /\ status \in Status
    BY ChildErrorKeeps, NoChildAssumption DEF Sound, SupervisorInv, Status
  <1>2. t = FinishStart(u, "failed")
    BY DEF ChildError
  <1> HIDE DEF status
  <1>3. /\ u \in Supervisor /\ u.wait = s.wait /\ u.child = c /\ u.again = s.again
        /\ u.stop = s.stop /\ u.desired = s.desired /\ u.stopping = s.stopping
        /\ u.proc = s.proc /\ ~u.stable
    BY <1>1 DEF Supervisor
  <1> HIDE DEF u, t
  <1>4. /\ Settled(s, t) /\ t.child = c /\ t.again = s.again /\ t.stop = s.stop
        /\ t.desired = s.desired /\ ~t.starting /\ t.stopping = s.stopping
        /\ t.proc = s.proc /\ ~t.stable
    BY <1>2, <1>3, FinishStartDoes DEF Settled
  <1>5. Calm(t)
    BY <1>1, <1>4 DEF Calm, Sound, Settled
  <1> QED BY <1>1, <1>4, <1>5 DEF Steady, Sound, t

(* Once the child is gone no start is awaited, and what is desired will be *)
(* started unless the stop that ends says otherwise.                       *)
Ended(s, t, stopped) ==
  /\ Sound(t)
  /\ t.child = NoChild /\ t.stop.phase = "none" /\ t.desired = s.desired
  /\ \A w \in Caller :
       \/ t.wait[w] = StopAnswer(s.wait[w], stopped)
       \/ s.wait[w] = "start" /\ t.wait[w] = "failed"

LEMMA GoneDoes ==
  ASSUME NEW s \in Supervisor, NEW c \in Children, c = s.child,
         NEW status \in {"stopped", "degraded"}
  PROVE  LET t == FinishStart(Gone(s, c, status), "failed")
         IN  /\ t \in Supervisor
             /\ ~t.starting /\ ~t.stable /\ t.child = NoChild /\ t.stop = s.stop
             /\ t.desired = s.desired /\ t.again = s.again \ {c} /\ t.timer = s.timer
             /\ \A w \in Caller : t.wait[w] = IF s.wait[w] = "start" THEN "failed"
                                              ELSE s.wait[w]
  <1> DEFINE u == Gone(s, c, status)
  <1>1. /\ u \in Supervisor
        /\ ~u.stable /\ u.child = NoChild /\ u.stop = s.stop /\ u.wait = s.wait
        /\ u.desired = s.desired /\ u.again = s.again \ {c} /\ u.timer = s.timer
    BY DEF Gone, Supervisor, Status, Process
  <1> HIDE DEF u
  <1> DEFINE t == FinishStart(u, "failed")
  <1>2. t \in Supervisor
    BY <1>1 DEF FinishStart, Supervisor, Wait
  <1>3. /\ ~t.starting /\ ~t.stable /\ t.child = NoChild /\ t.stop = s.stop
        /\ t.desired = s.desired /\ t.again = s.again \ {c} /\ t.timer = s.timer
        /\ \A w \in Caller : t.wait[w] = IF s.wait[w] = "start" THEN "failed"
                                         ELSE s.wait[w]
    BY <1>1, FinishStartDoes
  <1> QED BY <1>2, <1>3 DEF u

LEMMA SpawnFailedDoes ==
  ASSUME NEW s, Sound(s), NEW c \in Children, c = s.child, s.proc[c] = "boot"
  PROVE  LET t == SpawnFailed(s, c)
         IN  /\ Ended(s, t, FALSE)
             /\ s.stop.phase = "none"
             /\ t.desired => t.timer \/ t.attempt = MaxRestarts
  <1> DEFINE t == SpawnFailed(s, c)
             u == FinishStart(Gone(s, c, "degraded"), "failed")
  <1>1. /\ s \in Supervisor /\ SupervisorInv(t) /\ c # NoChild /\ s.stop.phase = "none"
        /\ s.again \in SUBSET Children
    BY SpawnFailedKeeps, NoChildAssumption DEF Sound, SupervisorInv, Supervisor
  <1>2. /\ u \in Supervisor
        /\ ~u.starting /\ ~u.stable /\ u.child = NoChild /\ u.stop = s.stop
        /\ u.desired = s.desired /\ u.again = s.again \ {c}
        /\ \A w \in Caller : u.wait[w] = IF s.wait[w] = "start" THEN "failed"
                                         ELSE s.wait[w]
    BY <1>1, GoneDoes
  <1>3. t = IF u.desired THEN ScheduleRestart(u) ELSE u
    BY DEF SpawnFailed
  <1> HIDE DEF u, t
  <1>4. /\ ~t.starting /\ ~t.stable /\ t.child = NoChild /\ t.stop = s.stop
        /\ t.desired = s.desired /\ t.again = s.again \ {c} /\ t.wait = u.wait
        /\ t.desired => t.timer \/ t.attempt = MaxRestarts
    BY <1>2, <1>3, ScheduleDoes
  <1>5. \A w \in Caller : s.wait[w] \notin {"stop", "startStop"}
    BY <1>1 DEF Sound, Calm
  <1>6. Calm(t)
    BY <1>1, <1>2, <1>4, <1>5, NoChildAssumption DEF Calm
  <1> QED BY <1>1, <1>2, <1>4, <1>5, <1>6 DEF Ended, Sound, StopAnswer, t

LEMMA ExitDoes ==
  ASSUME NEW s, Sound(s), NEW c \in Children, c = s.child, NEW clean \in BOOLEAN
  PROVE  LET t == Exit(s, c, clean)
         IN  /\ \E stopped \in BOOLEAN : Ended(s, t, stopped)
             /\ MayRestart(s, c) => t.timer \/ t.attempt = MaxRestarts
             /\ ~MayRestart(s, c) => ~t.timer
  <1> DEFINE t == Exit(s, c, clean)
             stopped == StoppedCleanly(s, c, clean)
             r == IF s.stop.phase # "none" THEN FinishStop(s, stopped) ELSE s
             status == IF stopped THEN "stopped" ELSE "degraded"
             u == FinishStart(Gone(r, c, status), "failed")
  <1>1. /\ s \in Supervisor /\ SupervisorInv(t) /\ c # NoChild /\ ~s.timer
        /\ s.again \in SUBSET Children
    <2>1. SupervisorInv(s) /\ SupervisorInv(t)
      BY ExitKeeps DEF Sound
    <2> HIDE DEF t
    <2> QED BY <2>1, NoChildAssumption DEF SupervisorInv, Supervisor
  <1>2. stopped \in BOOLEAN /\ status \in {"stopped", "degraded"}
    BY <1>1 DEF StoppedCleanly, Supervisor
  <1>3. t = IF MayRestart(s, c) THEN ScheduleRestart(u) ELSE u
    BY DEF Exit
  <1> HIDE DEF stopped, status, t
  <1>4. /\ r \in Supervisor /\ r.child = c /\ r.stop.phase = "none"
        /\ r.desired = s.desired /\ r.again = s.again /\ r.timer = s.timer
        /\ \A w \in Caller : r.wait[w] = StopAnswer(s.wait[w], stopped)
    <2>1. CASE s.stop.phase # "none"
      BY <1>1, <1>2, <2>1, FinishStopDoes
    <2>2. CASE s.stop.phase = "none"
      BY <1>1, <2>2 DEF Sound, Calm, StopAnswer
    <2> QED BY <2>1, <2>2
  <1> HIDE DEF r
  <1>5. /\ u \in Supervisor
        /\ ~u.starting /\ ~u.stable /\ u.child = NoChild /\ u.stop = r.stop
        /\ u.desired = r.desired /\ u.again = r.again \ {c} /\ u.timer = r.timer
        /\ \A w \in Caller : u.wait[w] = IF r.wait[w] = "start" THEN "failed"
                                         ELSE r.wait[w]
    BY <1>2, <1>4, GoneDoes
  <1> HIDE DEF u
  <1>6. /\ ~t.starting /\ ~t.stable /\ t.child = NoChild /\ t.stop.phase = "none"
        /\ t.desired = s.desired /\ t.again = s.again \ {c} /\ t.wait = u.wait
        /\ MayRestart(s, c) => t.timer \/ t.attempt = MaxRestarts
        /\ ~MayRestart(s, c) => ~t.timer
    BY <1>1, <1>3, <1>4, <1>5, ScheduleDoes
  <1>7. \A w \in Caller :
          \/ t.wait[w] = StopAnswer(s.wait[w], stopped)
          \/ s.wait[w] = "start" /\ t.wait[w] = "failed"
    BY <1>4, <1>5, <1>6 DEF StopAnswer
  <1>8. \A w \in Caller : t.wait[w] \notin {"stop", "startStop"}
    BY <1>2, <1>7 DEF StopAnswer
  <1>9. Calm(t)
    BY <1>1, <1>6, <1>8, NoChildAssumption DEF Calm
  <1> QED BY <1>1, <1>2, <1>6, <1>7, <1>9 DEF Ended, Sound, t

-----------------------------------------------------------------------------
(* Timeouts.                                                               *)

(* A startup that times out begins a stop after which the child is started *)
(* again.                                                                  *)
LEMMA StartTimeoutDoes ==
  ASSUME NEW s, Sound(s), s.starting
  PROVE  LET t == StartTimeout(s)
         IN  /\ Sound(t) /\ Settled(s, t)
             /\ s.child # NoChild /\ t.child = s.child /\ t.child \in t.again
             /\ t.desired = s.desired
  <1> DEFINE t == StartTimeout(s)
             c == s.child
             f == FinishStart(s, "failed")
             r == [f EXCEPT !.status = "degraded"]
             kept == [v \in Caller |-> IF v \in {} THEN "stop" ELSE r.wait[v]]
             q == [r EXCEPT !.again = r.again \cup {c}, !.wait = kept]
             u == [q EXCEPT !.stopping = q.stopping \cup {c}, !.status = "stopping",
                            !.stop = [phase |-> "grace", acked |-> FALSE]]
  <1>1. /\ s \in Supervisor /\ SupervisorInv(t) /\ SupervisorInv(s)
        /\ c # NoChild /\ s.proc[c] # "up"
    BY TimeoutsKeep DEF Sound, SupervisorInv, Calm
  <1>2. c \in Children
    BY <1>1 DEF Supervisor
  <1>3. /\ f \in Supervisor
        /\ ~f.starting /\ Settled(s, f)
        /\ f.desired = s.desired /\ f.child = c /\ f.again = s.again
        /\ f.stop = s.stop /\ f.proc = s.proc /\ f.stopping = s.stopping
    <2>1. f \in Supervisor
      BY <1>1 DEF FinishStart, Supervisor, Wait
    <2> QED BY <1>1, <2>1, FinishStartDoes DEF Settled
  <1> HIDE DEF f
  <1>4. /\ r \in Supervisor
        /\ ~r.starting /\ Settled(s, r)
        /\ r.desired = s.desired /\ r.child = c /\ r.again = s.again
        /\ r.stop = s.stop /\ r.proc = s.proc /\ r.stopping = s.stopping
    BY <1>3 DEF Supervisor, Status, Settled
  <1>5. t = StopChild(r, {}, TRUE)
    BY DEF StartTimeout, f
  <1> HIDE DEF r, t
  <1>6. kept \in [Caller -> Wait] /\ \A v \in Caller : kept[v] = r.wait[v]
    BY <1>4 DEF Supervisor
  <1>7. /\ r.stop.phase # "none" => t = q
        /\ r.stop.phase = "none" => t = AskToStop(u, c)
    BY <1>1, <1>4, <1>5 DEF StopChild
  <1> HIDE DEF kept
  <1>8. /\ q \in Supervisor
        /\ ~q.starting /\ Settled(s, q)
        /\ q.desired = s.desired /\ q.child = c /\ q.again = s.again \cup {c}
        /\ q.stop = s.stop /\ q.proc = s.proc /\ q.stopping = s.stopping
    BY <1>2, <1>4, <1>6 DEF Supervisor, Settled
  <1> HIDE DEF q
  <1>9. CASE s.stop.phase # "none"
    <2>1. t = q /\ c \in s.stopping
      BY <1>1, <1>4, <1>7, <1>9 DEF SupervisorInv
    <2>2. Calm(t)
      BY <1>1, <1>8, <1>9, <2>1 DEF Calm
    <2> QED BY <1>1, <1>8, <2>1, <2>2 DEF Sound, t
  <1>10. CASE s.stop.phase = "none"
    <2>1. /\ u \in Supervisor /\ u.proc = s.proc
          /\ ~u.starting /\ Settled(s, u) /\ u.stop.phase # "none"
          /\ u.desired = s.desired /\ u.child = c /\ c \in u.again
          /\ c \in u.stopping
      BY <1>2, <1>8 DEF Supervisor, Status, Settled
    <2>2. t = AskToStop(u, c)
      BY <1>4, <1>7, <1>10
    <2> HIDE DEF u
    <2>3. /\ t.wait = u.wait /\ t.stop = u.stop /\ t.child = c /\ t.again = u.again
          /\ t.desired = s.desired /\ ~t.starting /\ t.stopping = u.stopping
          /\ t.proc[c] # "up"
      <3>1. CASE u.proc[c] = "boot"
        BY <1>2, <2>1, <2>2, <3>1 DEF AskToStop, Supervisor
      <3>2. CASE u.proc[c] = "failing"
        <4>1. t = [u EXCEPT !.proc[c] = "killed", !.forced = u.forced \cup {c}]
          BY <2>2, <3>2 DEF AskToStop
        <4> QED BY <1>2, <2>1, <4>1 DEF Supervisor
      <3>3. CASE u.proc[c] \notin {"boot", "failing"}
        BY <1>1, <2>1, <2>2, <3>3 DEF AskToStop
      <3> QED BY <3>1, <3>2, <3>3
    <2>4. Calm(t) /\ Settled(s, t)
      BY <1>1, <2>1, <2>3 DEF Calm, Settled
    <2> QED BY <1>1, <2>1, <2>3, <2>4 DEF Sound, t
  <1> QED BY <1>9, <1>10

LEMMA StopTimeoutDoes ==
  ASSUME NEW s, Sound(s), s.stop.phase # "none"
  PROVE  Steady(s, StopTimeout(s))
  <1> DEFINE t == StopTimeout(s)
  <1>1. s \in Supervisor /\ SupervisorInv(t) /\ SupervisorInv(s)
    BY TimeoutsKeep DEF Sound, SupervisorInv
  <1>2. s.child \in Children /\ s.child # NoChild
    BY <1>1 DEF SupervisorInv, Supervisor
  <1>3. /\ t.wait = s.wait /\ t.child = s.child /\ t.again = s.again
        /\ t.stop.phase = "force"
        /\ t.desired = s.desired /\ t.starting = s.starting /\ t.stable = s.stable
        /\ t.stopping = s.stopping /\ t.proc[s.child] = "killed"
    BY <1>1, <1>2 DEF StopTimeout, Supervisor
  <1> HIDE DEF t
  <1>4. Calm(t)
    BY <1>2, <1>3 DEF Calm, Sound
  <1> QED BY <1>1, <1>2, <1>3, <1>4 DEF Steady, Settled, Sound, t

LEMMA ForceTimeoutDoes ==
  ASSUME NEW s, Sound(s), s.stop.phase # "none"
  PROVE  LET t == ForceTimeout(s)
         IN  /\ Sound(t)
             /\ s.child # NoChild /\ t.child = s.child /\ t.again = s.again
             /\ t.stop.phase = "none" /\ t.desired = s.desired /\ t.starting = s.starting
             /\ \A w \in Caller : t.wait[w] = StopAnswer(s.wait[w], FALSE)
  <1> DEFINE t == ForceTimeout(s)
             u == [s EXCEPT !.status = "degraded"]
  <1>1. s \in Supervisor /\ SupervisorInv(t) /\ s.child # NoChild
    BY TimeoutsKeep DEF Sound, SupervisorInv
  <1>2. /\ u \in Supervisor
        /\ u.child = s.child /\ u.again = s.again /\ u.desired = s.desired
        /\ u.starting = s.starting /\ u.wait = s.wait /\ u.proc = s.proc
        /\ u.stopping = s.stopping /\ u.stable = s.stable
    BY <1>1 DEF Supervisor, Status
  <1>3. t = FinishStop(u, FALSE)
    BY DEF ForceTimeout
  <1> HIDE DEF u, t
  <1>4. /\ t.stop.phase = "none"
        /\ \A w \in Caller : t.wait[w] = StopAnswer(s.wait[w], FALSE)
        /\ t.desired = s.desired /\ t.child = s.child /\ t.again = s.again
        /\ t.starting = s.starting /\ t.proc = s.proc /\ t.stopping = s.stopping
        /\ t.stable = s.stable
    <2>1. ASSUME NEW stopped \in BOOLEAN, ~stopped
          PROVE  \A w \in Caller : StopAnswer(s.wait[w], stopped) = StopAnswer(s.wait[w], FALSE)
      BY <2>1 DEF StopAnswer
    <2>2. ASSUME NEW stopped \in BOOLEAN, ~stopped
          PROVE  FinishStop(u, stopped) = FinishStop(u, FALSE)
      BY <2>2 DEF FinishStop
    <2>3. PICK stopped \in BOOLEAN : ~stopped
      OBVIOUS
    <2>4. t = FinishStop(u, stopped)
      BY <1>3, <2>2, <2>3
    <2>5. \A w \in Caller : t.wait[w] = StopAnswer(s.wait[w], stopped)
      BY <1>2, <2>4, FinishStopDoes
    <2>6. \A w \in Caller : StopAnswer(s.wait[w], stopped) = StopAnswer(s.wait[w], FALSE)
      BY <2>1, <2>3
    <2>7. /\ t.stop.phase = "none"
          /\ t.desired = s.desired /\ t.child = s.child /\ t.again = s.again
          /\ t.starting = s.starting /\ t.proc = s.proc /\ t.stopping = s.stopping
          /\ t.stable = s.stable
      BY <1>2, <2>4, FinishStopDoes
    <2> QED BY <2>5, <2>6, <2>7
  <1>5. \A w \in Caller : t.wait[w] \notin {"stop", "startStop"}
    BY <1>4 DEF StopAnswer
  <1>6. Calm(t)
    BY <1>1, <1>4, <1>5 DEF Calm, Sound
  <1> QED BY <1>1, <1>4, <1>6 DEF Sound, t

LEMMA StableDoes ==
  ASSUME NEW s, Sound(s), s.stable
  PROVE  Steady(s, StableRun(s))
  <1> DEFINE t == StableRun(s)
  <1>1. s \in Supervisor /\ SupervisorInv(t) /\ s.child # NoChild
    BY ResetKeeps DEF Sound, SupervisorInv, Calm
  <1>2. /\ t.wait = s.wait /\ t.child = s.child /\ t.again = s.again
        /\ t.stop = s.stop /\ t.desired = s.desired /\ t.starting = s.starting
        /\ ~t.stable /\ t.stopping = s.stopping /\ t.proc = s.proc
    BY <1>1 DEF StableRun, Supervisor
  <1> HIDE DEF t
  <1>3. Calm(t)
    BY <1>2 DEF Calm, Sound
  <1> QED BY <1>1, <1>2, <1>3 DEF Steady, Settled, Sound, t

LEMMA ResetDoes ==
  ASSUME NEW s, Sound(s)
  PROVE  LET t == [s EXCEPT !.attempt = 0]
         IN  /\ Sound(t)
             /\ t.wait = s.wait /\ t.child = s.child /\ t.again = s.again
             /\ t.stop = s.stop
  <1> DEFINE t == [s EXCEPT !.attempt = 0]
  <1>1. s \in Supervisor /\ SupervisorInv(t)
    BY ResetKeeps DEF Sound, SupervisorInv
  <1>2. /\ t.wait = s.wait /\ t.child = s.child /\ t.again = s.again
        /\ t.stop = s.stop /\ t.starting = s.starting
        /\ t.stable = s.stable /\ t.stopping = s.stopping /\ t.proc = s.proc
    BY <1>1 DEF Supervisor
  <1> HIDE DEF t
  <1>3. Calm(t)
    BY <1>2 DEF Calm, Sound
  <1> QED BY <1>1, <1>2, <1>3 DEF Sound, t

LEMMA RestartDoes ==
  ASSUME NEW s, Sound(s), s.armed > 0, NEW c \in Children
  PROVE  LET t == RestartFires(s, c)
         IN  /\ s.timer /\ s.desired /\ s.child = NoChild /\ s.stop.phase = "none"
             /\ Sound(t) /\ Waits(s, t, "timer") /\ t.wait["timer"] = "start"
             /\ t.child # NoChild /\ t.stop = s.stop
  <1> DEFINE u == [s EXCEPT !.timer = FALSE, !.armed = s.armed - 1]
             t == RestartFires(s, c)
  <1>1. s.timer /\ s.desired /\ s.child = NoChild /\ s.stop.phase = "none"
    BY DEF Sound, SupervisorInv
  <1>2. u = ClearRestartTimer(s)
    BY <1>1 DEF ClearRestartTimer
  <1>3. Sound(u) /\ u.child = NoChild /\ u.stop = s.stop /\ u.wait = s.wait
    BY <1>1, <1>2, ClearDoes
  <1>4. t = Start(u, "timer", c, FALSE)
    BY DEF RestartFires
  <1> HIDE DEF u, t
  <1>5. Started(u, t, "timer")
    BY <1>3, <1>4, StartDoes DEF Caller
  <1> QED BY <1>1, <1>3, <1>5 DEF Started, Waits, t

-----------------------------------------------------------------------------
(* The inductive invariant of the requests and the close.                  *)

(* What the executing request waits for, at each of its awaits.            *)
QueueWaits ==
  /\ op \in {"none", "staging", "asking", "lost", "preparing", "launching", "aborting"} =>
       sup.wait["queue"] = "none"
  /\ op \in {"stop", "restart", "halting", "recovering"} =>
       sup.wait["queue"] \in {"stop", "ok", "failed"}
  /\ op \in {"start", "restarting", "recovered"} =>
       sup.wait["queue"] \in {"start", "startStop", "poll", "resume", "resumeFailed",
                             "ok", "failed"}

(* The initial start is not in the queue of the requests: it may find a    *)
(* stop of theirs, and wait for it.                                        *)
WaitInv ==
  /\ QueueWaits
  /\ sup.wait["init"] # "stop"
  /\ sup.wait["timer"] \in {"none", "start", "ok", "failed"}
  /\ sup.wait["close"] \in {"none", "stop", "ok", "failed"}

(* The initial start waits for a stop, or goes on after one.               *)
BootWaits == sup.wait["init"] \in {"startStop", "resume", "resumeFailed"}

(* The stop that an update asks for ends with no daemon and no restart,    *)
(* unless the initial start came amid it.                                  *)
InstallInv ==
  op \in Updating /\ boot # "amid" =>
    /\ ~BootWaits
    /\ op = "halting" /\ sup.wait["queue"] = "stop" =>
         ~sup.starting /\ sup.child \notin sup.again
    /\ op = "halting" /\ sup.wait["queue"] = "ok" => sup.child = NoChild /\ ~sup.timer
    /\ InstallsAlone

CloseInv ==
  /\ host # "open" => shutdown
  /\ host \in {"stopping", "closed"} => op = "none" /\ ~sup.desired
  /\ sup.wait["close"] # "none" => host = "stopping"
  /\ sup.wait["close"] = "ok" \/ host = "closed" =>
       sup.child = NoChild \/ sup.wait["init"] = "start"

(* A stop in progress is followed by a restart, or by the request that     *)
(* asked for it; a daemon that is desired and not there by a timer, by the *)
(* request that stopped it, or by the initial start that waited.           *)
ForgetInv ==
  ~shutdown =>
    /\ sup.stop.phase # "none" => sup.child \in sup.again \/ sup.wait["queue"] = "stop"
    /\ op = "stop" => ~sup.desired /\ ~wanted
    /\ op = "restart" /\ sup.desired /\ sup.stop.phase # "none" =>
         sup.wait["init"] = "startStop"
    /\ sup.desired /\ sup.child = NoChild /\ (boot # "due" \/ ~wanted) =>
         \/ sup.timer \/ sup.attempt = MaxRestarts
         \/ op \in {"halting", "recovering", "preparing", "launching", "aborting"}
         \/ sup.wait["init"] \in {"resume", "resumeFailed"}

RequestInv == WaitInv /\ InstallInv /\ CloseInv /\ ForgetInv

SafeInv == HostInv /\ Calm(sup) /\ RequestInv

LEMMA InitSafe == Init => SafeInv
  <1> SUFFICES ASSUME Init PROVE SafeInv
    OBVIOUS
  <1>1. HostInv
    BY InitInv
  <1>2. /\ Calm(sup)
    BY NoChildAssumption DEF Init, InitialSupervisor, NoStop, Calm
  <1>3. RequestInv
    BY DEF Init, InitialSupervisor, NoStop, RequestInv, WaitInv, QueueWaits, InstallInv, Updating, BootWaits, InstallsAlone, CloseInv, ForgetInv, Caller
  <1> QED BY <1>1, <1>2, <1>3 DEF SafeInv

(* The facts every step starts from.                                       *)
LEMMA SafeFacts ==
  ASSUME SafeInv
  PROVE  /\ Sound(sup) /\ RequestInv /\ op \in Op
         /\ sup.timer => sup.desired /\ sup.child = NoChild
         /\ sup.stop.phase # "none" => sup.child # NoChild /\ sup.child \in sup.stopping
         /\ \A w \in Caller : sup.wait[w] \in {"stop", "startStop"} => sup.stop.phase # "none"
         /\ {"init", "queue", "timer", "close"} = Caller
  BY DEF SafeInv, Sound, Calm, HostInv, SupervisorInv, TypeOK, Caller

(* Between two events nobody has an answer yet.                            *)
LEMMA QuietFacts ==
  ASSUME Quiet
  PROVE  /\ host # "closed" /\ op # "lost"
         /\ \A w \in {"init", "queue", "timer", "close"} :
              sup.wait[w] \notin {"resume", "resumeFailed", "ok", "failed"}
  BY DEF Quiet, Resuming, Answered, Caller

(* A step in which the child stays and no stop begins or ends.             *)
LEMMA SteadySafe ==
  ASSUME SafeInv, Quiet, Steady(sup, sup'), UNCHANGED <<wanted, boot, shutdown, host>>,
         op' = op \/ (op = "asking" /\ op' = "lost")
  PROVE  Sound(sup') /\ RequestInv'
  <1> USE SafeFacts
  <1>1. \A w \in {"init", "queue", "timer", "close"} :
          \/ sup'.wait[w] = sup.wait[w]
          \/ sup.wait[w] = "start" /\ sup'.wait[w] \in {"ok", "failed"}
    BY DEF Steady, Settled, Caller
  <1>2. /\ Sound(sup')
        /\ sup.child # NoChild /\ sup'.child = sup.child /\ sup'.again = sup.again
        /\ sup'.stop.phase = "none" <=> sup.stop.phase = "none"
        /\ sup'.desired => sup.desired
        /\ sup'.starting => sup.starting
    BY DEF Steady
  <1>3. WaitInv'
    BY <1>1 DEF RequestInv, WaitInv, QueueWaits
  <1>4. InstallInv' /\ CloseInv' /\ ForgetInv'
    BY <1>1, <1>2, QuietFacts
    DEF RequestInv, WaitInv, QueueWaits, InstallInv, Updating, BootWaits, InstallsAlone, CloseInv, ForgetInv
  <1> QED BY <1>2, <1>3, <1>4 DEF RequestInv

(* A step that leaves the supervisor and the close alone, and in which no  *)
(* request that waits ends or begins.                                      *)
LEMMA IdleSafe ==
  ASSUME SafeInv,
         \/ RequestApply \/ Staged \/ ReadinessRefused \/ ReadinessTimeout
         \/ Prepared \/ Launched \/ RequestShutdown \/ BeginClose
  PROVE  Sound(sup') /\ RequestInv'
  <1>1. Sound(sup') /\ sup' = sup
    BY SafeFacts
    DEF RequestApply, Staged, ReadinessRefused, ReadinessTimeout, Prepared, Launched,
        RequestShutdown, BeginClose
  <1>2. CASE RequestApply
    BY <1>1, <1>2, SafeFacts
    DEF RequestApply, Begin, RequestInv, WaitInv, QueueWaits, InstallInv, Updating, BootWaits,
        InstallsAlone, CloseInv, ForgetInv
  <1>3. CASE Staged
    BY <1>1, <1>3, SafeFacts
    DEF Staged, RequestInv, WaitInv, QueueWaits, InstallInv, Updating, BootWaits,
        InstallsAlone, CloseInv, ForgetInv
  <1>4. CASE ReadinessRefused \/ ReadinessTimeout
    BY <1>1, <1>4, SafeFacts
    DEF ReadinessRefused, ReadinessTimeout, RequestInv, WaitInv, QueueWaits, InstallInv, Updating, BootWaits, InstallsAlone, CloseInv, ForgetInv
  <1>5. CASE Prepared
    BY <1>1, <1>5, SafeFacts
    DEF Prepared, RequestInv, WaitInv, QueueWaits, InstallInv, Updating, BootWaits,
        InstallsAlone, CloseInv, ForgetInv
  <1>6. CASE Launched
    BY <1>1, <1>6, SafeFacts
    DEF Launched, RequestInv, WaitInv, QueueWaits, InstallInv, Updating, BootWaits,
        InstallsAlone, CloseInv, ForgetInv
  <1>7. CASE RequestShutdown \/ BeginClose
    BY <1>1, <1>7, SafeFacts
    DEF RequestShutdown, BeginClose, RequestInv, WaitInv, QueueWaits, InstallInv, Updating, BootWaits,
        InstallsAlone, CloseInv, ForgetInv
  <1> QED BY <1>1, <1>2, <1>3, <1>4, <1>5, <1>6, <1>7

(* Continuations, stops that are asked for, and starts.                    *)
LEMMA AnswerlessDoes ==
  ASSUME Sound(sup), NEW w \in Caller
  PROVE  LET t == Answerless(w)
         IN  /\ Sound(t) /\ Waits(sup, t, w) /\ t.wait[w] = "none"
             /\ t.desired = sup.desired /\ t.child = sup.child /\ t.again = sup.again
             /\ t.starting = sup.starting /\ t.stop = sup.stop /\ t.timer = sup.timer
             /\ t.attempt = sup.attempt
  <1> DEFINE t == Answer(sup, w, "none")
  <1>1. "none" \in Wait \ {"stop", "startStop"}
    BY DEF Wait
  <1>2. /\ Sound(t) /\ Waits(sup, t, w) /\ t.wait[w] = "none"
        /\ t.desired = sup.desired /\ t.child = sup.child /\ t.again = sup.again
        /\ t.starting = sup.starting /\ t.stop = sup.stop /\ t.timer = sup.timer
        /\ t.attempt = sup.attempt
    BY <1>1, AnswerDoes
  <1> QED BY <1>2 DEF Answerless

LEMMA ContinueSafe ==
  ASSUME SafeInv, Continue
  PROVE  Sound(sup') /\ RequestInv'
  <1> DEFINE a == Answerless("queue")
  <1>1. "queue" \in Caller /\ "close" \in Caller /\ Fresh \subseteq Children
    BY DEF Caller, Fresh
  <1>2. /\ Sound(a) /\ Waits(sup, a, "queue") /\ a.wait["queue"] = "none"
        /\ a.desired = sup.desired /\ a.child = sup.child /\ a.again = sup.again
        /\ a.starting = sup.starting /\ a.stop = sup.stop /\ a.timer = sup.timer
        /\ a.attempt = sup.attempt
    BY <1>1, SafeFacts, AnswerlessDoes
  <1> HIDE DEF a
  <1>3. ASSUME NEW w \in Caller, Resume(w)
        PROVE  Sound(sup') /\ RequestInv'
    <2>1. \/ w = "queue" /\ op \in {"start", "restarting", "recovered"}
          \/ w = "init" /\ sup.wait[w] \in {"resume", "resumeFailed"}
      BY <1>3, SafeFacts DEF Resume, Resuming, RequestInv, WaitInv, QueueWaits, Op
    <2>2. PICK c \in Fresh : sup' = ResumeStart(sup, w, c, Resets(w))
      BY <1>3 DEF Resume
    <2>3. Resets(w) \in BOOLEAN
      BY DEF Resets
    <2>4. /\ Started(sup, sup', w) /\ sup'.desired = sup.desired
          /\ sup'.wait[w] \in {"start", "poll", "failed"}
      BY <1>1, <2>2, <2>3, SafeFacts, ResumeDoes
    <2>5. UNCHANGED <<wanted, boot, op, shutdown, host>>
      BY <1>3 DEF Resume
    <2>6. CASE w = "queue"
      <3>1. sup.wait["queue"] # "stop"
        BY <2>1, <2>6, SafeFacts DEF RequestInv, WaitInv, QueueWaits
      <3> QED
        BY <2>1, <2>4, <2>5, <2>6, <3>1, SafeFacts
        DEF Started, Waits, RequestInv, WaitInv, QueueWaits, InstallInv, Updating,
            BootWaits, InstallsAlone, CloseInv, ForgetInv
    <2>7. CASE w = "init"
      <3>1. sup.wait["init"] \in {"resume", "resumeFailed"}
        BY <2>1, <2>7
      <3>2. /\ Sound(sup') /\ sup'.child # NoChild /\ sup'.stop = sup.stop
            /\ sup'.desired = sup.desired
            /\ sup'.wait["init"] \in {"start", "poll", "failed"}
            /\ \A v \in {"queue", "timer", "close"} : sup'.wait[v] = sup.wait[v]
            /\ \/ sup'.child = sup.child /\ sup'.again = sup.again
               \/ sup.child = NoChild /\ sup'.wait["init"] = "start"
        BY <2>4, <2>7 DEF Started, Waits, Caller
      <3>3. WaitInv'
        BY <2>5, <3>2, SafeFacts DEF RequestInv, WaitInv, QueueWaits
      <3>4. InstallInv'
        BY <2>5, <3>1, SafeFacts DEF RequestInv, InstallInv, BootWaits
      <3>5. CloseInv'
        BY <2>5, <3>1, <3>2, SafeFacts DEF RequestInv, CloseInv
      <3>6. ForgetInv'
        BY <2>5, <3>1, <3>2, SafeFacts DEF RequestInv, ForgetInv
      <3> QED BY <3>2, <3>3, <3>4, <3>5, <3>6 DEF RequestInv
    <2> QED BY <2>1, <2>6, <2>7
  <1>4. ASSUME NEW w \in Caller, Ignored(w)
        PROVE  Sound(sup') /\ RequestInv'
    <2>1. /\ Sound(sup') /\ Waits(sup, sup', w) /\ sup'.wait[w] = "none"
          /\ sup'.desired = sup.desired /\ sup'.child = sup.child /\ sup'.again = sup.again
          /\ sup'.starting = sup.starting /\ sup'.stop = sup.stop /\ sup'.timer = sup.timer
          /\ sup'.attempt = sup.attempt
      BY <1>4, SafeFacts, AnswerlessDoes DEF Ignored
    <2>2. /\ w \in {"init", "timer"} /\ sup.wait[w] \in {"ok", "failed"}
          /\ UNCHANGED <<wanted, boot, op, shutdown, host>>
      BY <1>4 DEF Ignored, Reply, Answered
    <2>3. /\ \A v \in {"queue", "close"} : sup'.wait[v] = sup.wait[v]
          /\ \/ sup'.wait["init"] = sup.wait["init"]
             \/ sup.wait["init"] \in {"ok", "failed"} /\ sup'.wait["init"] = "none"
          /\ sup'.wait["timer"] \in {sup.wait["timer"], "none"}
      BY <2>1, <2>2, SafeFacts DEF Waits
    <2>4. WaitInv' /\ CloseInv'
      BY <2>1, <2>2, <2>3, SafeFacts DEF RequestInv, WaitInv, QueueWaits, CloseInv
    <2>5. InstallInv' /\ ForgetInv'
      BY <2>1, <2>2, <2>3, SafeFacts
      DEF RequestInv, InstallInv, BootWaits, InstallsAlone, ForgetInv
    <2> QED BY <2>1, <2>4, <2>5 DEF RequestInv
  <1>5. CASE OpEnds
    BY <1>2, <1>5, SafeFacts
    DEF OpEnds, Reply, Answered, a, Waits, RequestInv, WaitInv, QueueWaits, InstallInv, Updating, BootWaits, InstallsAlone, CloseInv, ForgetInv
  <1>6. CASE UpdateStopped
    BY <1>2, <1>6, SafeFacts
    DEF UpdateStopped, Reply, Answered, a, Waits, RequestInv, WaitInv, QueueWaits, InstallInv, Updating, BootWaits, InstallsAlone, CloseInv, ForgetInv
  <1>7. CASE RestartContinues
    <2> DEFINE r == [a EXCEPT !.attempt = 0]
    <2>1. Sound(r) /\ r.wait = a.wait /\ r.child = a.child /\ r.again = a.again /\ r.stop = a.stop
      BY <1>2, ResetDoes
    <2> HIDE DEF r
    <2>2. PICK c \in Fresh : sup' = Start(r, "queue", c, TRUE)
      BY <1>7 DEF RestartContinues, a, r
    <2>3. /\ Started(r, sup', "queue")
          /\ sup'.wait["queue"] \in {"start", "poll", "failed", "ok", "startStop"}
      BY <1>1, <2>1, <2>2, StartDoes
    <2>4. /\ Sound(sup') /\ sup'.child # NoChild /\ sup'.stop = sup.stop
          /\ \A v \in {"init", "timer", "close"} : sup'.wait[v] = sup.wait[v]
          /\ sup.child # NoChild => sup'.child = sup.child /\ sup'.again = sup.again
      BY <1>2, <2>1, <2>3 DEF Started, Waits, Caller
    <2>5. WaitInv'
      BY <1>7, <2>3, <2>4, SafeFacts
      DEF RestartContinues, RequestInv, WaitInv, QueueWaits
    <2>6. InstallInv' /\ CloseInv' /\ ForgetInv'
      BY <1>7, <2>3, <2>4, SafeFacts
      DEF RestartContinues, RequestInv, WaitInv, QueueWaits, InstallInv, Updating, BootWaits, InstallsAlone,
          CloseInv, ForgetInv
    <2> QED BY <2>4, <2>5, <2>6 DEF RequestInv
  <1>8. CASE Recover
    <2>1. CASE shutdown
      BY <1>8, <2>1, SafeFacts
      DEF Recover, RequestInv, WaitInv, QueueWaits, InstallInv, Updating, BootWaits, InstallsAlone,
          CloseInv, ForgetInv
    <2>2. CASE ~shutdown
      <3>1. /\ op' = "recovering" /\ sup' = StopChild(a, {"queue"}, FALSE)
            /\ op \in {"lost", "halting"} /\ UNCHANGED <<wanted, boot, shutdown, host>>
        BY <1>8, <2>2 DEF Recover, a
      <3>2. /\ Sound(sup') /\ Waits(a, sup', "queue")
            /\ sup'.child = a.child /\ sup'.again = a.again /\ sup'.desired = a.desired
            /\ sup'.timer = a.timer /\ sup'.attempt = a.attempt
            /\ a.child = NoChild => sup'.wait["queue"] = "ok" /\ sup'.stop = a.stop
            /\ a.child # NoChild => sup'.wait["queue"] = "stop"
        BY <1>1, <1>2, <3>1, StopChildDoes
      <3>3. /\ \A v \in {"init", "timer", "close"} : sup'.wait[v] = sup.wait[v]
            /\ sup'.child = sup.child /\ sup'.again = sup.again
            /\ sup'.desired = sup.desired
            /\ sup.child = NoChild => sup'.wait["queue"] = "ok" /\ sup'.stop = sup.stop
            /\ sup.child # NoChild => sup'.wait["queue"] = "stop"
        BY <1>2, <3>2 DEF Waits, Caller
      <3>4. WaitInv'
        BY <3>1, <3>3, SafeFacts DEF RequestInv, WaitInv, QueueWaits
      <3>5. InstallInv' /\ CloseInv' /\ ForgetInv'
        BY <2>2, <3>1, <3>3, SafeFacts
        DEF RequestInv, InstallInv, Updating, BootWaits, InstallsAlone, CloseInv, ForgetInv
      <3> QED BY <3>2, <3>4, <3>5 DEF RequestInv
    <2>3. shutdown \in BOOLEAN
      BY DEF SafeInv, HostInv, TypeOK
    <2> QED BY <2>1, <2>2, <2>3
  <1>9. CASE StartAfterStop
    <2>1. PICK c \in Fresh : sup' = Start(a, "queue", c, FALSE)
      BY <1>9 DEF StartAfterStop, a
    <2>2. /\ Started(a, sup', "queue")
          /\ sup'.wait["queue"] \in {"start", "poll", "failed", "ok", "startStop"}
      BY <1>1, <1>2, <2>1, StartDoes
    <2>3. /\ Sound(sup') /\ sup'.child # NoChild /\ sup'.stop = sup.stop
          /\ \A v \in {"init", "timer", "close"} : sup'.wait[v] = sup.wait[v]
          /\ sup.child # NoChild => sup'.child = sup.child /\ sup'.again = sup.again
      BY <1>2, <2>2 DEF Started, Waits, Caller
    <2>4. sup.wait["queue"] # "stop"
      BY <1>9 DEF StartAfterStop, Reply, Answered
    <2>5. WaitInv'
      BY <1>9, <2>2, <2>3, SafeFacts
      DEF StartAfterStop, RequestInv, WaitInv, QueueWaits
    <2>6. InstallInv' /\ CloseInv' /\ ForgetInv'
      BY <1>9, <2>3, <2>4, SafeFacts
      DEF StartAfterStop, RequestInv, WaitInv, InstallInv, Updating, BootWaits, InstallsAlone, CloseInv, ForgetInv
    <2> QED BY <2>3, <2>5, <2>6 DEF RequestInv
  <1>10. CASE CloseDaemon
    <2> DEFINE r == SetDesiredRunning(sup, FALSE)
    <2>1. /\ Sound(r) /\ ~r.desired /\ ~r.timer /\ r.child = sup.child /\ r.again = sup.again
          /\ r.stop = sup.stop /\ r.wait = sup.wait
      BY SafeFacts, DesiredDoes
    <2> HIDE DEF r
    <2>2. /\ Sound(sup') /\ Waits(r, sup', "close")
          /\ sup'.child = r.child /\ sup'.again = r.again /\ sup'.desired = r.desired
          /\ sup'.timer = r.timer
          /\ r.child = NoChild => sup'.wait["close"] = "ok" /\ sup'.stop = r.stop
          /\ r.child # NoChild => sup'.wait["close"] = "stop"
      BY <1>1, <1>10, <2>1, StopChildDoes DEF CloseDaemon, r
    <2>3. /\ \A v \in {"init", "timer", "queue"} : sup'.wait[v] = sup.wait[v]
          /\ sup'.child = sup.child /\ ~sup'.desired /\ ~sup'.timer
          /\ sup'.wait["close"] \in {"ok", "stop"}
          /\ sup'.wait["close"] = "ok" => sup.child = NoChild
      BY <2>1, <2>2 DEF Waits, Caller
    <2>4. WaitInv'
      BY <1>10, <2>3, SafeFacts DEF CloseDaemon, RequestInv, WaitInv, QueueWaits
    <2>5. InstallInv' /\ CloseInv' /\ ForgetInv'
      BY <1>10, <2>3, SafeFacts
      DEF CloseDaemon, RequestInv, InstallInv, Updating, BootWaits, InstallsAlone, CloseInv, ForgetInv
    <2> QED BY <2>2, <2>4, <2>5 DEF RequestInv
  <1>11. CASE Closed
    <2>1. /\ Sound(sup') /\ Waits(sup, sup', "close") /\ sup'.wait["close"] = "none"
          /\ sup'.desired = sup.desired /\ sup'.child = sup.child /\ sup'.again = sup.again
          /\ sup'.starting = sup.starting /\ sup'.stop = sup.stop /\ sup'.timer = sup.timer
          /\ sup'.attempt = sup.attempt
      BY <1>1, <1>11, SafeFacts, AnswerlessDoes DEF Closed
    <2> QED
      BY <1>11, <2>1, SafeFacts
      DEF Closed, Waits, RequestInv, WaitInv, QueueWaits, InstallInv, Updating, BootWaits, InstallsAlone, CloseInv, ForgetInv
  <1> QED
    BY <1>3, <1>4, <1>5, <1>6, <1>7, <1>8, <1>9, <1>10, <1>11 DEF Continue

LEMMA RequestSafe ==
  ASSUME SafeInv,
         \/ RequestStart \/ RequestStop \/ RequestRestart \/ ReadinessOk
         \/ Aborted \/ InitialStart
  PROVE  Sound(sup') /\ RequestInv'
  <1>1. "queue" \in Caller /\ "init" \in Caller /\ Fresh \subseteq Children
    BY DEF Caller, Fresh
  <1>2. CASE RequestStart
    <2> DEFINE r == SetDesiredRunning(sup, TRUE)
    <2>1. /\ Sound(r) /\ r.child = sup.child /\ r.again = sup.again
          /\ r.stop = sup.stop /\ r.wait = sup.wait
      BY SafeFacts, DesiredDoes
    <2> HIDE DEF r
    <2>2. PICK c \in Fresh : sup' = Start(r, "queue", c, TRUE)
      BY <1>2 DEF RequestStart, r
    <2>3. /\ Started(r, sup', "queue")
          /\ sup'.wait["queue"] \in {"start", "poll", "failed", "ok", "startStop"}
      BY <1>1, <2>1, <2>2, StartDoes
    <2>4. /\ Sound(sup') /\ sup'.child # NoChild /\ sup'.stop = sup.stop
          /\ \A v \in {"init", "timer", "close"} : sup'.wait[v] = sup.wait[v]
          /\ sup.child # NoChild => sup'.child = sup.child /\ sup'.again = sup.again
      BY <2>1, <2>3 DEF Started, Waits, Caller
    <2>5. /\ op = "none" /\ op' = "start" /\ ~shutdown /\ Quiet
          /\ UNCHANGED <<shutdown, host>>
      BY <1>2 DEF RequestStart, Begin
    <2>6. WaitInv'
      BY <2>3, <2>4, <2>5, SafeFacts DEF RequestInv, WaitInv, QueueWaits
    <2>7. InstallInv' /\ CloseInv'
      BY <2>4, <2>5, SafeFacts DEF RequestInv, InstallInv, Updating, CloseInv
    <2>8. ForgetInv'
      BY <2>4, <2>5, SafeFacts DEF RequestInv, WaitInv, QueueWaits, ForgetInv
    <2> QED BY <2>4, <2>6, <2>7, <2>8 DEF RequestInv
  <1>3. CASE RequestStop \/ RequestRestart
    <2> DEFINE r == SetDesiredRunning(sup, FALSE)
    <2>1. /\ Sound(r) /\ ~r.desired /\ ~r.timer /\ r.child = sup.child /\ r.again = sup.again
          /\ r.stop = sup.stop /\ r.wait = sup.wait
      BY SafeFacts, DesiredDoes
    <2> HIDE DEF r
    <2>2. /\ Sound(sup') /\ Waits(r, sup', "queue")
          /\ sup'.child = r.child /\ sup'.again = r.again /\ sup'.desired = r.desired
          /\ sup'.timer = r.timer
          /\ r.child = NoChild => sup'.wait["queue"] = "ok" /\ sup'.stop = r.stop
          /\ r.child # NoChild => sup'.wait["queue"] = "stop"
      <3>1. sup' = StopChild(r, {"queue"}, FALSE)
        BY <1>3 DEF RequestStop, RequestRestart, r
      <3> QED BY <1>1, <2>1, <3>1, StopChildDoes
    <2>3. /\ op' \in {"stop", "restart"} /\ op = "none" /\ ~shutdown /\ boot' # "amid"
          /\ UNCHANGED <<shutdown, host>> /\ (op' = "stop" => ~wanted')
      BY <1>3 DEF RequestStop, RequestRestart, Begin
    <2> QED
      BY <2>1, <2>2, <2>3, SafeFacts
      DEF Waits, RequestInv, WaitInv, QueueWaits, InstallInv, Updating, BootWaits, InstallsAlone, CloseInv, ForgetInv
  <1>4. CASE ReadinessOk
    <2>1. /\ Sound(sup') /\ Waits(sup, sup', "queue")
          /\ sup'.child = sup.child /\ sup'.again = sup.again /\ sup'.desired = sup.desired
          /\ sup'.timer = sup.timer /\ sup'.starting = sup.starting
          /\ sup'.wait["queue"] = "stop"
      BY <1>1, <1>4, SafeFacts, StopChildDoes DEF ReadinessOk
    <2>2. ~sup.starting /\ sup.child \notin sup.again /\ sup.stop.phase = "none"
      BY <1>4, SafeFacts DEF ReadinessOk, SafeInv, Calm
    <2>3. ~BootWaits
      BY <1>4, <2>2, SafeFacts, QuietFacts DEF ReadinessOk, BootWaits
    <2> QED
      BY <1>4, <2>1, <2>2, <2>3, SafeFacts
      DEF ReadinessOk, Waits, RequestInv, WaitInv, QueueWaits, InstallInv, Updating, BootWaits, InstallsAlone, CloseInv, ForgetInv
  <1>5. CASE Aborted
    <2>1. CASE shutdown
      BY <1>5, <2>1, SafeFacts
      DEF Aborted, RequestInv, WaitInv, QueueWaits, InstallInv, Updating, BootWaits, InstallsAlone,
          CloseInv, ForgetInv
    <2>2. CASE ~shutdown
      <3>1. PICK c \in Fresh : sup' = Start(sup, "queue", c, FALSE)
        BY <1>5, <2>2 DEF Aborted
      <3>2. /\ Started(sup, sup', "queue")
            /\ sup'.wait["queue"] \in {"start", "poll", "failed", "ok", "startStop"}
        BY <1>1, <3>1, SafeFacts, StartDoes
      <3> QED
        BY <1>5, <2>2, <3>2, SafeFacts
        DEF Aborted, Started, Waits, RequestInv, WaitInv, QueueWaits,
            InstallInv, Updating, BootWaits, InstallsAlone, CloseInv, ForgetInv
    <2>3. shutdown \in BOOLEAN
      BY DEF SafeInv, HostInv, TypeOK
    <2> QED BY <2>1, <2>2, <2>3
  <1>6. CASE InitialStart
    <2>1. /\ boot = "due" /\ UNCHANGED <<wanted, op, shutdown, host>>
          /\ op \in Updating => boot' = "amid"
      BY <1>6 DEF InitialStart
    <2>2. CASE shutdown \/ ~wanted
      <3>1. sup' = sup
        BY <1>6, <2>2 DEF InitialStart
      <3>2. Sound(sup') /\ WaitInv' /\ CloseInv'
        BY <2>1, <3>1, SafeFacts DEF RequestInv, WaitInv, QueueWaits, CloseInv
      <3>3. InstallInv'
        BY <2>1 DEF InstallInv
      <3>4. ForgetInv'
        BY <2>1, <2>2, <3>1, SafeFacts DEF RequestInv, ForgetInv
      <3> QED BY <3>2, <3>3, <3>4 DEF RequestInv
    <2>3. CASE ~(shutdown \/ ~wanted)
      <3>1. PICK c \in Fresh : sup' = Start(sup, "init", c, TRUE)
        BY <1>6, <2>3 DEF InitialStart
      <3>2. /\ Started(sup, sup', "init") /\ sup'.desired
            /\ sup'.wait["init"] \in {"start", "poll", "failed", "ok", "startStop"}
            /\ sup.stop.phase # "none" => sup'.wait["init"] = "startStop"
        BY <1>1, <3>1, SafeFacts, StartDoes
      <3>3. /\ Sound(sup') /\ sup'.child # NoChild /\ sup'.stop = sup.stop
            /\ \A v \in {"queue", "timer", "close"} : sup'.wait[v] = sup.wait[v]
            /\ sup.child # NoChild => sup'.child = sup.child /\ sup'.again = sup.again
        BY <3>2 DEF Started, Waits, Caller
      <3>4. sup.wait["close"] # "ok" /\ host # "closed"
        BY <1>6, QuietFacts DEF InitialStart
      <3>5. WaitInv'
        BY <2>1, <3>2, <3>3, SafeFacts DEF RequestInv, WaitInv, QueueWaits
      <3>6. InstallInv'
        BY <2>1, <3>2 DEF InstallInv
      <3>7. CloseInv'
        BY <2>1, <2>3, <3>3, <3>4, SafeFacts DEF RequestInv, CloseInv
      <3>8. ForgetInv'
        BY <2>1, <2>3, <3>2, <3>3, SafeFacts DEF RequestInv, ForgetInv
      <3> QED BY <3>3, <3>5, <3>6, <3>7, <3>8 DEF RequestInv
    <2> QED BY <2>2, <2>3
  <1> QED BY <1>2, <1>3, <1>4, <1>5, <1>6

(* Timers and polls.                                                       *)
LEMMA TimerSafe ==
  ASSUME SafeInv,
         \/ StartTimesOut \/ StopTimesOut \/ ForceTimesOut
         \/ RestartTimer \/ StableTimer \/ \E w \in Caller : PollStart(w)
  PROVE  Sound(sup') /\ RequestInv'
  <1>1. CASE StartTimesOut
    <2>1. /\ Sound(sup') /\ Settled(sup, sup')
          /\ sup.child # NoChild /\ sup'.child = sup.child /\ sup'.child \in sup'.again
          /\ sup'.desired = sup.desired /\ sup.starting
      BY <1>1, SafeFacts, StartTimeoutDoes DEF StartTimesOut
    <2>2. \A w \in {"init", "queue", "timer", "close"} :
            \/ sup'.wait[w] = sup.wait[w]
            \/ sup.wait[w] = "start" /\ sup'.wait[w] \in {"ok", "failed"}
      BY <2>1 DEF Settled, Caller
    <2> QED
      BY <1>1, <2>1, <2>2, SafeFacts, QuietFacts
      DEF StartTimesOut, Event, RequestInv, WaitInv, QueueWaits, InstallInv, Updating, BootWaits,
          InstallsAlone, CloseInv, ForgetInv
  <1>2. CASE StopTimesOut
    <2>1. Steady(sup, sup')
      BY <1>2, SafeFacts, StopTimeoutDoes DEF StopTimesOut
    <2> QED BY <1>2, <2>1, SteadySafe DEF StopTimesOut, Event
  <1>3. CASE ForceTimesOut
    <2>1. /\ Sound(sup')
          /\ sup.child # NoChild /\ sup'.child = sup.child /\ sup'.again = sup.again
          /\ sup'.stop.phase = "none" /\ sup'.desired = sup.desired
          /\ sup'.starting = sup.starting
          /\ \A w \in Caller : sup'.wait[w] = StopAnswer(sup.wait[w], FALSE)
      BY <1>3, SafeFacts, ForceTimeoutDoes DEF ForceTimesOut
    <2>2. \A w \in {"init", "queue", "timer", "close"} :
            sup'.wait[w] = StopAnswer(sup.wait[w], FALSE)
      BY <2>1 DEF Caller
    <2> QED
      BY <1>3, <2>1, <2>2, SafeFacts, QuietFacts
      DEF ForceTimesOut, Event, StopAnswer, RequestInv, WaitInv, QueueWaits, InstallInv, Updating, BootWaits, InstallsAlone, CloseInv, ForgetInv
  <1>4. CASE RestartTimer
    <2>1. PICK c \in Fresh : sup' = RestartFires(sup, c)
      BY <1>4 DEF RestartTimer
    <2>2. c \in Children
      BY DEF Fresh
    <2>3. /\ sup.timer /\ sup.desired /\ sup.child = NoChild /\ sup.stop.phase = "none"
          /\ Sound(sup') /\ Waits(sup, sup', "timer") /\ sup'.wait["timer"] = "start"
          /\ sup'.child # NoChild /\ sup'.stop = sup.stop
      BY <1>4, <2>1, <2>2, SafeFacts, RestartDoes DEF RestartTimer
    <2> QED
      BY <1>4, <2>3, SafeFacts, QuietFacts
      DEF RestartTimer, Event, Waits, RequestInv, WaitInv, QueueWaits, InstallInv, Updating, BootWaits,
          InstallsAlone, CloseInv, ForgetInv
  <1>5. CASE StableTimer
    <2>1. Steady(sup, sup')
      BY <1>5, SafeFacts, StableDoes DEF StableTimer
    <2> QED BY <1>5, <2>1, SteadySafe DEF StableTimer, Event
  <1>6. ASSUME NEW w \in Caller, PollStart(w)
        PROVE  Sound(sup') /\ RequestInv'
    <2>1. \/ w = "queue" /\ op \in {"start", "restarting", "recovered"}
          \/ w = "init" /\ sup.wait[w] = "poll"
      BY <1>6, SafeFacts DEF PollStart, RequestInv, WaitInv, QueueWaits, Op
    <2> DEFINE answer == IF sup.status = "running" THEN "ok" ELSE "failed"
    <2>2. sup' = Answer(sup, w, answer)
      BY <1>6 DEF PollStart, Poll
    <2>3. answer \in {"ok", "failed"} /\ answer \in Wait \ {"stop", "startStop"}
      BY DEF Wait
    <2> HIDE DEF answer
    <2>4. /\ Sound(sup') /\ Waits(sup, sup', w) /\ sup'.wait[w] = answer
          /\ sup'.desired = sup.desired /\ sup'.child = sup.child /\ sup'.again = sup.again
          /\ sup'.starting = sup.starting /\ sup'.stop = sup.stop /\ sup'.timer = sup.timer
          /\ sup'.attempt = sup.attempt
      BY <2>2, <2>3, SafeFacts, AnswerDoes
    <2> QED
      BY <1>6, <2>1, <2>3, <2>4, SafeFacts, QuietFacts
      DEF PollStart, Event, Waits, RequestInv, WaitInv, QueueWaits, InstallInv, Updating, BootWaits,
          InstallsAlone, CloseInv, ForgetInv
  <1> QED BY <1>1, <1>2, <1>3, <1>4, <1>5, <1>6

LEMMA ChildSafe ==
  ASSUME SafeInv, NEW c \in Children,
         \/ DaemonReady(c) \/ DaemonStartupFails(c) \/ DaemonStopped(c)
         \/ DaemonErrs(c) \/ SpawnFails(c) \/ DaemonExits(c)
  PROVE  Sound(sup') /\ RequestInv'
  <1>1. Sound(sup)
    BY SafeFacts
  <1>2. CASE \/ DaemonReady(c) \/ DaemonStartupFails(c) \/ DaemonStopped(c) \/ DaemonErrs(c)
    <2>1. CASE DaemonReady(c)
      BY <1>1, <2>1, ReadyDoes, SteadySafe DEF DaemonReady, Event
    <2>2. CASE DaemonStartupFails(c)
      BY <1>1, <2>2, StartupFailedDoes, SteadySafe DEF DaemonStartupFails, Event
    <2>3. CASE DaemonStopped(c)
      BY <1>1, <2>3, StoppedDoes, SteadySafe DEF DaemonStopped, Event
    <2>4. CASE DaemonErrs(c)
      BY <1>1, <2>4, ChildErrorDoes, SteadySafe DEF DaemonErrs, ReadinessFails, Event
    <2> QED BY <1>2, <2>1, <2>2, <2>3, <2>4
  <1>3. ASSUME NEW stopped \in BOOLEAN, Ended(sup, sup', stopped), c = sup.child,
               SpawnFails(c) \/ DaemonExits(c)
        PROVE  /\ \A w \in {"init", "queue", "timer", "close"} :
                    \/ sup'.wait[w] = StopAnswer(sup.wait[w], stopped)
                    \/ sup.wait[w] = "start" /\ sup'.wait[w] = "failed"
               /\ Sound(sup') /\ WaitInv' /\ CloseInv'
               /\ op' = op \/ (op = "asking" /\ op' = "lost")
               /\ UNCHANGED <<wanted, boot, shutdown, host>>
    <2>1. \A w \in {"init", "queue", "timer", "close"} :
            \/ sup'.wait[w] = StopAnswer(sup.wait[w], stopped)
            \/ sup.wait[w] = "start" /\ sup'.wait[w] = "failed"
      BY <1>3 DEF Ended, Caller
    <2>2. /\ op' = op \/ (op = "asking" /\ op' = "lost")
          /\ UNCHANGED <<wanted, boot, shutdown, host>>
      BY <1>3 DEF SpawnFails, DaemonExits, ReadinessFails, Event
    <2>3. WaitInv'
      BY <2>1, <2>2, SafeFacts DEF StopAnswer, RequestInv, WaitInv, QueueWaits
    <2>4. Quiet
      BY <1>3 DEF SpawnFails, DaemonExits, Event
    <2>5. CloseInv'
      BY <1>3, <2>1, <2>2, <2>4, SafeFacts, QuietFacts DEF Ended, StopAnswer, RequestInv, WaitInv, CloseInv
    <2> QED BY <1>3, <2>1, <2>2, <2>3, <2>4, <2>5 DEF Ended
  <1>4. CASE SpawnFails(c)
    <2>1. /\ c = sup.child /\ sup.stop.phase = "none" /\ Ended(sup, sup', FALSE)
          /\ sup'.desired => sup'.timer \/ sup'.attempt = MaxRestarts
      BY <1>1, <1>4, SpawnFailedDoes DEF SpawnFails
    <2>2. /\ Sound(sup') /\ WaitInv' /\ CloseInv'
          /\ op' = op \/ (op = "asking" /\ op' = "lost")
          /\ UNCHANGED <<wanted, boot, shutdown, host>>
          /\ \/ sup'.wait["queue"] = StopAnswer(sup.wait["queue"], FALSE)
             \/ sup.wait["queue"] = "start" /\ sup'.wait["queue"] = "failed"
      <3>1. FALSE \in BOOLEAN
        OBVIOUS
      <3> QED BY <1>3, <1>4, <2>1, <3>1
    <2>3. sup.wait["queue"] \notin {"stop", "startStop"} /\ c # NoChild
      BY <2>1, SafeFacts, NoChildAssumption
    <2>4. InstallInv' /\ ForgetInv'
      BY <2>1, <2>2, <2>3, SafeFacts
      DEF Ended, StopAnswer, RequestInv, InstallInv, Updating, BootWaits, InstallsAlone, ForgetInv
    <2> QED BY <2>2, <2>4 DEF RequestInv
  <1>5. CASE DaemonExits(c)
    <2>1. PICK clean \in BOOLEAN : sup' = Exit(sup, c, clean)
      BY <1>5 DEF DaemonExits
    <2>2. /\ c = sup.child
          /\ \E stopped \in BOOLEAN : Ended(sup, sup', stopped)
          /\ MayRestart(sup, c) => sup'.timer \/ sup'.attempt = MaxRestarts
          /\ ~MayRestart(sup, c) => ~sup'.timer
      BY <1>1, <1>5, <2>1, ExitDoes DEF DaemonExits
    <2>3. PICK stopped \in BOOLEAN : Ended(sup, sup', stopped)
      BY <2>2
    <2>4. /\ Sound(sup') /\ WaitInv' /\ CloseInv'
          /\ op' = op \/ (op = "asking" /\ op' = "lost")
          /\ UNCHANGED <<wanted, boot, shutdown, host>>
          /\ \A w \in {"init", "queue", "timer", "close"} :
               \/ sup'.wait[w] = StopAnswer(sup.wait[w], stopped)
               \/ sup.wait[w] = "start" /\ sup'.wait[w] = "failed"
          /\ Quiet
      BY <1>3, <1>5, <2>2, <2>3 DEF DaemonExits, Event
    <2>5. /\ sup'.child = NoChild /\ sup'.stop.phase = "none" /\ sup'.desired = sup.desired
          /\ c # NoChild
      BY <2>3, NoChildAssumption DEF Ended
    <2>6. InstallInv'
      <3> SUFFICES ASSUME op' \in Updating, boot' # "amid"
                   PROVE  /\ ~BootWaits'
                          /\ op' \notin {"preparing", "launching"}
                          /\ op' = "halting" => sup'.wait["queue"] # "stop"
                          /\ op' = "halting" /\ sup'.wait["queue"] = "ok" => ~sup'.timer
        BY <2>5 DEF InstallInv, InstallsAlone
      <3>1. /\ op = op' /\ ~BootWaits /\ InstallsAlone
            /\ op = "halting" /\ sup.wait["queue"] = "stop" => sup.child \notin sup.again
        BY <2>4, SafeFacts DEF RequestInv, InstallInv, Updating
      <3>2. ~BootWaits' /\ op' \notin {"preparing", "launching"}
        BY <2>2, <2>4, <2>5, <3>1, SafeFacts
        DEF BootWaits, InstallsAlone, StopAnswer, RequestInv, WaitInv
      <3>3. op' = "halting" => sup'.wait["queue"] # "stop"
        BY <2>4 DEF StopAnswer
      <3>4. ASSUME op' = "halting", sup'.wait["queue"] = "ok"
            PROVE  ~sup'.timer
        <4>1. sup.wait["queue"] = "stop"
          BY <2>4, <3>1, <3>4, SafeFacts, QuietFacts
          DEF StopAnswer, RequestInv, WaitInv, QueueWaits
        <4>2. c \in sup.stopping /\ c \notin sup.again /\ sup.stop.phase # "none"
          BY <2>2, <3>1, <3>4, <4>1, SafeFacts
        <4> QED BY <2>2, <4>2 DEF MayRestart
      <3> QED BY <3>2, <3>3, <3>4
    <2>7. ForgetInv'
      <3>1. ASSUME ~shutdown, sup.desired, ~MayRestart(sup, c)
            PROVE  \/ op \in {"halting", "recovering"}
                   \/ sup'.wait["init"] \in {"resume", "resumeFailed"}
        <4>1. c \notin sup.again /\ sup.stop.phase # "none"
          BY <3>1 DEF MayRestart
        <4>2. sup.wait["queue"] = "stop"
          BY <2>2, <3>1, <4>1, SafeFacts DEF RequestInv, ForgetInv
        <4>3. op \in {"stop", "restart", "halting", "recovering"}
          BY <4>2, SafeFacts DEF RequestInv, WaitInv, QueueWaits, Op
        <4>4. op = "restart" => sup.wait["init"] = "startStop"
          BY <3>1, <4>1, SafeFacts DEF RequestInv, ForgetInv
        <4>5. op # "stop"
          BY <3>1, SafeFacts DEF RequestInv, ForgetInv
        <4>6. op = "restart" => sup'.wait["init"] \in {"resume", "resumeFailed"}
          BY <2>4, <4>4 DEF StopAnswer
        <4> QED BY <4>3, <4>5, <4>6
      <3> QED
        BY <2>2, <2>4, <2>5, <3>1, SafeFacts DEF RequestInv, ForgetInv
    <2> QED BY <2>4, <2>6, <2>7 DEF RequestInv
  <1> QED BY <1>2, <1>4, <1>5

(* The invariant of the requests and the close is inductive.               *)
LEMMA StepSafe ==
  ASSUME SafeInv, [Next]_vars
  PROVE  SafeInv'
  <1>1. HostInv'
    <2>1. SupervisorInv(sup)' /\ TypeOK
      BY StepKeepsSupervisor DEF SafeInv, HostInv
    <2>2. TypeOK'
      BY <2>1, StepKeepsTypes DEF TypeOK, SupervisorInv
    <2> QED BY <2>1, <2>2 DEF HostInv
  <1>2. Sound(sup') /\ RequestInv'
    <2>1. CASE UNCHANGED vars
      BY <2>1, SafeFacts
      DEF vars, RequestInv, WaitInv, QueueWaits, InstallInv, Updating, BootWaits, InstallsAlone,
          CloseInv, ForgetInv
    <2>2. CASE Next
      <3>1. CASE Continue
        BY <3>1, ContinueSafe
      <3>2. CASE Timeouts \/ RestartTimer \/ StableTimer \/ \E w \in Caller : PollStart(w)
        BY <3>2, TimerSafe, IdleSafe DEF Timeouts
      <3>3. CASE Update
        BY <3>3, IdleSafe, RequestSafe DEF Update
      <3>4. CASE \/ RequestStart \/ RequestStop \/ RequestRestart \/ RequestApply
                 \/ ReadinessOk \/ ReadinessRefused
                 \/ InitialStart \/ RequestShutdown \/ BeginClose
        BY <3>4, IdleSafe, RequestSafe
      <3>5. ASSUME NEW c \in Children,
                   \/ DaemonReady(c) \/ DaemonStartupFails(c) \/ DaemonStopped(c)
                   \/ DaemonErrs(c) \/ SpawnFails(c) \/ DaemonExits(c)
            PROVE  Sound(sup') /\ RequestInv'
        BY <3>5, ChildSafe
      <3> QED BY <2>2, <3>1, <3>2, <3>3, <3>4, <3>5 DEF Next
    <2> QED BY <2>1, <2>2
  <1> QED BY <1>1, <1>2 DEF SafeInv, Sound

(* Requests, update, initial start and close keep what they owe each other:*)
(* what each waits for, and who will start a daemon that is desired.       *)
THEOREM RequestInvariant == Spec => []SafeInv
  <1>1. SafeInv /\ [Next]_vars => SafeInv'
    BY StepSafe
  <1> QED BY InitSafe, <1>1, PTL DEF Spec

(* While the installer is prepared and launched no daemon runs and no      *)
(* restart is pending, but by an initial start that came amid the update:  *)
(* no other start, timer or late exit disturbs it, since the stop of       *)
(* applyUpdate is never one after which the child is started again.        *)
THEOREM InstallsUndisturbed == Spec => []OnlyBootIntrudes
  <1>1. SafeInv => OnlyBootIntrudes
    BY DEF SafeInv, RequestInv, InstallInv, OnlyBootIntrudes, InstallsAlone, Updating
  <1> QED BY <1>1, RequestInvariant, PTL

(* A host that has closed leaves no timer that would start a daemon, and   *)
(* no daemon but the one of an initial start that waited for the stop.     *)
THEOREM ClosedLeavesNothing == Spec => []OnlyBootIsLeft
  <1>1. SafeInv => OnlyBootIsLeft
    BY NoChildAssumption
    DEF SafeInv, HostInv, SupervisorInv, RequestInv, CloseInv, OnlyBootIsLeft, Running
  <1> QED BY <1>1, RequestInvariant, PTL

(* A daemon that is desired and not there is about to be started, unless   *)
(* the crash loop was given up.                                            *)
THEOREM NothingForgotten == Spec => []NeverForgotten
  <1>1. SafeInv => NeverForgotten
    BY QuietFacts DEF SafeInv, RequestInv, ForgetInv, NeverForgotten
  <1> QED BY <1>1, RequestInvariant, PTL

-----------------------------------------------------------------------------
(* The update service.                                                     *)
Phases == {"idle", "checking", "available", "downloading", "staged", "applying", "failed"}

UpdateStates ==
  [version : {NoVersion} \cup Version, channel : Channel, phase : Phases,
   target : {NoVersion} \cup Version]

Jobs ==
  [kind : {"none", "start", "check", "apply"},
   step : {"none", "reconciling", "cleaning", "refreshing", "writing", "end", "fetching",
           "downloading", "receiving", "staging", "staged", "launching"},
   was : UpdateStates, next : UpdateStates,
   then : {"cleaning", "refreshing", "end", "fetching", "downloading", "staging", "launching"},
   fail : {"mark", "again", "recover", "keep", "refresh", "failed"}]

UpdateTypes ==
  /\ installed \in Version
  /\ file \in UpdateStates
  /\ stage \in [Version -> {"none", "whole", "broken"}]
  /\ hostProcess \in {"down", "up", "leaving"}
  /\ service \in [phase : Phases, channel : Channel]
  /\ job \in Jobs
  /\ installer \in {NoVersion} \cup Version
  /\ damage \in [touched : SUBSET Version, unreconciled : BOOLEAN]

(* What a state says of its target is true.                                *)
Naming == {"available", "downloading", "staged", "applying"}

Truthful(state) ==
  /\ state.phase \in Naming => state.target \in Version
  /\ state.phase \in {"staged", "applying"} /\ state.target \notin damage.touched =>
       stage[state.target] = "whole"
  /\ state.phase \in Naming /\ ~damage.unreconciled => state.target > state.version

StatesInv ==
  /\ Truthful(file) /\ Truthful(job.was)
  /\ job.step = "writing" => Truthful(job.next)

(* What an operation knows at each of its steps.                           *)
AtOrWriting(steps) == job.step \in steps \/ (job.step = "writing" /\ job.then \in steps)

JobInv ==
  /\ hostProcess # "up" => job = NoOperation
  /\ job.kind = "start" =>
       job.step # "none" /\ job.step \in {"reconciling", "writing", "cleaning", "end"}
  /\ job.kind = "start" /\ job.step = "writing" => job.then \in {"cleaning", "end"}
  /\ AtOrWriting({"reconciling", "cleaning", "refreshing"}) => job.was.phase = "idle"
  /\ job.step \in {"downloading", "receiving"} =>
       /\ file.phase = "downloading" /\ file.target = job.was.target
       /\ job.was.phase = "available"
  /\ job.step = "writing" /\ job.then = "downloading" =>
       /\ job.next.phase = "downloading" /\ job.next.target = job.was.target
       /\ job.was.phase = "available"
  /\ job.step = "writing" /\ job.fail = "recover" => job.then = Continued
  /\ job.step = "staged" => file.phase = "staged"
  /\ job.step = "launching" => file.phase = "applying"
  /\ job.step = "writing" /\ job.then = "launching" => job.next.phase = "applying"

(* The state is of the version that runs, once it is reconciled.           *)
VersionInv ==
  ~damage.unreconciled =>
    /\ hostProcess = "up" /\ (job.kind = "start" => job.step \in {"cleaning", "end"}) =>
         file.version = installed
    /\ job.step = "writing" => job.next.version = installed
    /\ \/ job.step \in {"fetching", "downloading", "receiving"}
       \/ job.step = "writing" /\ (job.then \in {"fetching", "downloading"} \/ job.fail = "mark")
       => job.was.version = installed
    /\ job.step = "writing" /\ job.fail = "recover" => file.version = installed

UpdateInv == UpdateTypes /\ StatesInv /\ JobInv /\ VersionInv

Thens == {"cleaning", "refreshing", "end", "fetching", "downloading", "staging", "launching"}

LEMMA NothingToDo ==
  /\ NoOperation \in Jobs /\ NoOperation.step = "none" /\ NoOperation.kind = "none"
  /\ NoOperation.was.phase = "idle" /\ Truthful(NoOperation.was)
  <1>1. NoState \in UpdateStates /\ NoState.phase = "idle"
    BY DEF NoState, UpdateStates, NoVersion, Version, Channel, Phases
  <1>2. /\ NoOperation.was = NoState /\ NoOperation.next = NoState
        /\ NoOperation.step = "none" /\ NoOperation.kind = "none"
    BY DEF NoOperation
  <1>3. NoOperation \in Jobs
    BY <1>1 DEF NoOperation, Jobs
  <1> QED BY <1>1, <1>2, <1>3 DEF Truthful, Naming

LEMMA WriteGives ==
  ASSUME NEW j \in Jobs, NEW next \in UpdateStates, NEW then \in Thens,
         NEW fail \in {"mark", "again", "recover", "keep", "refresh", "failed"}, job = j,
         Write(next, then, fail)
  PROVE  /\ job' \in Jobs /\ job'.kind = job.kind /\ job'.step = "writing"
         /\ job'.was = job.was /\ job'.next = next /\ job'.then = then /\ job'.fail = fail
  BY DEF Write, Jobs, Thens

LEMMA StepGives ==
  ASSUME job \in Jobs,
         NEW step \in {"reconciling", "cleaning", "refreshing", "end", "fetching", "downloading",
                       "receiving", "staging", "staged", "launching"},
         job' = [job EXCEPT !.step = step]
  PROVE  /\ job' \in Jobs /\ job'.kind = job.kind /\ job'.step = step
         /\ job'.was = job.was /\ job'.next = job.next /\ job'.then = job.then
  BY DEF Jobs

LEMMA PhaseGives ==
  ASSUME NEW state \in UpdateStates, NEW phase \in Phases
  PROVE  LET s == [state EXCEPT !.phase = phase] IN
           /\ s \in UpdateStates /\ s.phase = phase /\ s.target = state.target
           /\ s.version = state.version
  BY DEF UpdateStates

LEMMA OwnGives ==
  ASSUME UpdateTypes, NEW state \in UpdateStates, NEW phase \in Phases
  PROVE  LET s == Own(state, phase) IN
           /\ s \in UpdateStates /\ s.phase = phase /\ s.target = state.target
           /\ s.version = installed
  BY DEF Own, UpdateTypes, UpdateStates

LEMMA InitialGives ==
  ASSUME UpdateTypes, NEW channel \in Channel
  PROVE  /\ Initial(channel) \in UpdateStates /\ Initial(channel).phase = "idle"
         /\ Initial(channel).version = installed
  BY DEF Initial, UpdateTypes, UpdateStates, Phases

(* What is true of a state after a step.                                   *)
TruthAfter(state) ==
  /\ state.phase \in Naming => state.target \in Version
  /\ state.phase \in {"staged", "applying"} /\ state.target \notin damage'.touched =>
       stage'[state.target] = "whole"
  /\ state.phase \in Naming /\ ~damage'.unreconciled => state.target > state.version

LEMMA AfterIsTruth ==
  ASSUME TruthAfter(file'), TruthAfter(job'.was), job'.step = "writing" => TruthAfter(job'.next)
  PROVE  StatesInv'
  BY DEF TruthAfter, StatesInv, Truthful

LEMMA StaysTruthful ==
  ASSUME NEW state, Truthful(state), stage' = stage, damage'.touched = damage.touched,
         damage.unreconciled => damage'.unreconciled
  PROVE  TruthAfter(state)
  BY DEF Truthful, TruthAfter

(* A state that names nothing says nothing that could be false.            *)
LEMMA SaysNothingAfter ==
  ASSUME NEW state, state.phase \notin Naming
  PROVE  TruthAfter(state)
  BY DEF TruthAfter, Naming

UpdateKept == UpdateTypes' /\ StatesInv' /\ JobInv' /\ VersionInv'

(* The steps of a job that leave the installers alone.                     *)
LEMMA WrittenKeeps ==
  ASSUME UpdateInv, StateWritten
  PROVE  UpdateKept
  <1>1. /\ UpdateTypes /\ StatesInv /\ JobInv /\ VersionInv
        /\ job.step = "writing" /\ file' = job.next /\ job' = [job EXCEPT !.step = job.then]
        /\ UNCHANGED <<installed, stage, hostProcess, service, installer, damage>>
        /\ job \in Jobs
    BY DEF UpdateInv, StateWritten, UpdateTypes
  <1>2. job.then \in {"cleaning", "refreshing", "end", "fetching", "downloading", "staging", "launching"}
        /\ job.next \in UpdateStates
    BY <1>1 DEF Jobs
  <1>3. /\ job' \in Jobs /\ job'.kind = job.kind /\ job'.step = job.then
        /\ job'.was = job.was /\ job'.next = job.next /\ job'.then = job.then
    BY <1>1, <1>2, StepGives
  <1>4. UpdateTypes'
    BY <1>1, <1>2, <1>3 DEF UpdateTypes
  <1>5. StatesInv'
    <2>1. TruthAfter(job.next) /\ TruthAfter(job.was)
      BY <1>1, StaysTruthful DEF StatesInv
    <2> QED BY <1>1, <1>2, <1>3, <2>1, AfterIsTruth
  <1>6. JobInv'
    <2>1. hostProcess' # "up" => job' = NoOperation
      BY <1>1, NothingToDo DEF JobInv
    <2>2. job'.kind = "start" => job'.step # "none" /\ job'.step \in {"reconciling", "writing", "cleaning", "end"}
      BY <1>1, <1>3 DEF JobInv
    <2> QED BY <1>1, <1>2, <1>3, <2>1, <2>2 DEF JobInv, AtOrWriting
  <1>7. VersionInv'
    BY <1>1, <1>2, <1>3 DEF VersionInv
  <1> QED BY <1>4, <1>5, <1>6, <1>7 DEF UpdateKept

LEMMA OverKeeps ==
  ASSUME UpdateInv, job' = NoOperation, NEW phase \in Phases,
         service' = [service EXCEPT !.phase = phase] \/ service' = service,
         UNCHANGED <<installed, file, stage>>,
         damage'.touched = damage.touched, damage' \in [touched : SUBSET Version, unreconciled : BOOLEAN],
         damage.unreconciled => damage'.unreconciled,
         job.kind = "start" /\ job.step \notin {"cleaning", "end"} =>
           damage'.unreconciled \/ hostProcess' # "up",
         hostProcess' \in {hostProcess, "down", "leaving"},
         installer' \in {NoVersion} \cup Version
  PROVE  UpdateKept
  <1>1. /\ UpdateTypes /\ StatesInv /\ JobInv /\ VersionInv
        /\ job \in Jobs
    BY DEF UpdateInv, UpdateTypes
  <1>2. UpdateTypes'
    BY <1>1, NothingToDo DEF UpdateTypes
  <1>3. StatesInv'
    <2>1. TruthAfter(file) /\ TruthAfter(NoOperation.was)
      BY <1>1, NothingToDo, StaysTruthful DEF StatesInv
    <2> QED BY NothingToDo, <2>1, AfterIsTruth
  <1>4. JobInv'
    BY <1>1, NothingToDo DEF JobInv, AtOrWriting
  <1>5. VersionInv'
    BY <1>1, NothingToDo DEF VersionInv
  <1> QED BY <1>2, <1>3, <1>4, <1>5 DEF UpdateKept

Fails == {"mark", "again", "recover", "keep", "refresh", "failed"}

(* A job that writes a state: it is true, and follows from what was.       *)
LEMMA WritingKeeps ==
  ASSUME UpdateInv, hostProcess = "up",
         NEW was \in UpdateStates, NEW next \in UpdateStates, NEW then \in Thens, NEW fail \in Fails,
         job' \in Jobs, job'.kind = job.kind, job'.step = "writing",
         job'.was = was, job'.next = next, job'.then = then, job'.fail = fail,
         UNCHANGED <<installed, file, hostProcess, installer>>,
         service' \in [phase : Phases, channel : Channel],
         stage' \in [Version -> {"none", "whole", "broken"}],
         damage' \in [touched : SUBSET Version, unreconciled : BOOLEAN],
         damage.unreconciled => damage'.unreconciled,
         TruthAfter(file), TruthAfter(was), TruthAfter(next),
         job.kind = "start" => then \in {"cleaning", "end"},
         then \in {"cleaning", "refreshing"} => was.phase = "idle",
         then = "downloading" => /\ next.phase = "downloading" /\ next.target = was.target
                                 /\ was.phase = "available",
         then = "launching" => next.phase = "applying",
         fail = "recover" => then = Continued,
         ~damage'.unreconciled =>
           /\ next.version = installed
           /\ then \in {"fetching", "downloading"} \/ fail = "mark" => was.version = installed
           /\ fail = "recover" => file.version = installed
  PROVE  UpdateKept
  <1>1. UpdateTypes /\ JobInv /\ VersionInv
    BY DEF UpdateInv
  <1>2. UpdateTypes'
    BY <1>1 DEF UpdateTypes
  <1>3. StatesInv'
    BY AfterIsTruth
  <1>4. JobInv'
    BY <1>1 DEF JobInv, AtOrWriting, Thens, Continued
  <1>5. VersionInv'
    BY <1>1 DEF VersionInv
  <1> QED BY <1>2, <1>3, <1>4, <1>5 DEF UpdateKept

LEMMA WriteFailsKeeps ==
  ASSUME UpdateInv, WriteFails
  PROVE  UpdateKept
  <1>1. /\ UpdateTypes /\ StatesInv /\ JobInv /\ VersionInv
        /\ job.step = "writing" /\ job \in Jobs
        /\ damage' = [damage EXCEPT !.unreconciled =
                        @ \/ (job.then \in {"cleaning", Continued} /\ job.fail # "recover")]
        /\ UNCHANGED <<installed, file, stage, hostProcess, installer>>
    BY DEF UpdateInv, WriteFails, UpdateTypes
  <1>2. /\ damage'.touched = damage.touched
        /\ damage' \in [touched : SUBSET Version, unreconciled : BOOLEAN]
        /\ damage.unreconciled => damage'.unreconciled
        /\ job.then \in {"cleaning", Continued} /\ job.fail # "recover" => damage'.unreconciled
        /\ job.fail = "recover" => damage'.unreconciled = damage.unreconciled
    BY <1>1 DEF UpdateTypes
  <1>3. job.was \in UpdateStates /\ job.next \in UpdateStates /\ job.then \in Thens
        /\ job.fail \in Fails
    BY <1>1 DEF Jobs, Thens, Fails
  <1>4. hostProcess = "up"
    BY <1>1, NothingToDo DEF JobInv
  <1>5. /\ TruthAfter(file) /\ TruthAfter(job.was) /\ TruthAfter(job.next)
    BY <1>1, <1>2, StaysTruthful DEF StatesInv
  <1>6. job.kind = "start" =>
          job.then \in {"cleaning", "end"} /\ (job.fail # "recover" => damage'.unreconciled)
    BY <1>1, <1>2 DEF JobInv, Continued
  <1>7. CASE /\ job.fail = "mark" /\ UNCHANGED service
             /\ Write([job.was EXCEPT !.phase = "failed"], "end", "refresh")
    <2> DEFINE next == [job.was EXCEPT !.phase = "failed"]
    <2>1. next \in UpdateStates /\ next.phase = "failed" /\ next.version = job.was.version
      BY <1>3, PhaseGives DEF Phases
    <2>2. TruthAfter(next)
      BY <2>1, SaysNothingAfter DEF Naming
    <2>3. ~damage'.unreconciled => next.version = installed
      BY <1>1, <1>2, <1>7, <2>1 DEF VersionInv
    <2>4. Write(next, "end", "refresh") /\ service' \in [phase : Phases, channel : Channel]
          /\ stage' \in [Version -> {"none", "whole", "broken"}]
      BY <1>1, <1>7 DEF UpdateTypes
    <2> HIDE DEF next
    <2>5. /\ job' \in Jobs /\ job'.kind = job.kind /\ job'.step = "writing" /\ job'.was = job.was
          /\ job'.next = next /\ job'.then = "end" /\ job'.fail = "refresh"
      BY <1>1, <2>1, <2>4, WriteGives DEF Thens
    <2> QED BY <1>1, <1>2, <1>3, <1>4, <1>5, <2>1, <2>2, <2>3, <2>4, <2>5, WritingKeeps
            DEF Thens, Fails
  <1>8. CASE job.fail = "again" /\ UNCHANGED service /\ Write(job.next, job.then, "keep")
    <2>1. /\ job' \in Jobs /\ job'.kind = job.kind /\ job'.step = "writing" /\ job'.was = job.was
          /\ job'.next = job.next /\ job'.then = job.then /\ job'.fail = "keep"
      BY <1>1, <1>3, <1>8, WriteGives
    <2>2. /\ service' \in [phase : Phases, channel : Channel]
          /\ stage' \in [Version -> {"none", "whole", "broken"}]
      BY <1>1, <1>8 DEF UpdateTypes
    <2>3. /\ job.then \in {"cleaning", "refreshing"} => job.was.phase = "idle"
          /\ job.then = "downloading" => /\ job.next.phase = "downloading"
                                         /\ job.next.target = job.was.target
                                         /\ job.was.phase = "available"
          /\ job.then = "launching" => job.next.phase = "applying"
      BY <1>1 DEF JobInv, AtOrWriting
    <2>4. ~damage'.unreconciled =>
            /\ job.next.version = installed
            /\ job.then \in {"fetching", "downloading"} => job.was.version = installed
      BY <1>1, <1>2 DEF VersionInv
    <2> QED BY <1>1, <1>2, <1>3, <1>4, <1>5, <1>6, <2>1, <2>2, <2>3, <2>4, WritingKeeps DEF Fails
  <1>9. ASSUME NEW phase \in Phases, Ends(phase), job.fail # "recover"
        PROVE  UpdateKept
    <2>1. job' = NoOperation /\ service' = [service EXCEPT !.phase = phase]
      BY <1>9 DEF Ends
    <2>2. hostProcess' = hostProcess /\ installer' \in {NoVersion} \cup Version
      BY <1>1 DEF UpdateTypes
    <2> QED BY <1>1, <1>2, <1>6, <1>9, <2>1, <2>2, OverKeeps
  <1>11. CASE /\ job.fail = "recover" /\ UNCHANGED service
              /\ Write([file EXCEPT !.phase = "failed"], Continued, OnFailure)
    <2> DEFINE next == [file EXCEPT !.phase = "failed"]
    <2>1. /\ next \in UpdateStates /\ next.phase = "failed" /\ next.version = file.version
      BY <1>1, PhaseGives DEF UpdateTypes, Phases
    <2>2. TruthAfter(next)
      BY <2>1, SaysNothingAfter DEF Naming
    <2>3. ~damage'.unreconciled => next.version = installed
      BY <1>1, <1>2, <1>11, <2>1 DEF VersionInv
    <2>4. Write(next, Continued, OnFailure) /\ service' \in [phase : Phases, channel : Channel]
          /\ stage' \in [Version -> {"none", "whole", "broken"}]
      BY <1>1, <1>11 DEF UpdateTypes
    <2> HIDE DEF next
    <2>5. /\ Continued \in {"end", "refreshing"} /\ (job.kind = "start" => Continued = "end")
          /\ OnFailure \in {"failed", "keep"}
      BY DEF Continued, OnFailure
    <2>6. /\ job' \in Jobs /\ job'.kind = job.kind /\ job'.step = "writing" /\ job'.was = job.was
          /\ job'.next = next /\ job'.then = Continued /\ job'.fail = OnFailure
      BY <1>1, <2>1, <2>4, <2>5, WriteGives DEF Thens
    <2>7. Continued = "refreshing" => job.was.phase = "idle"
      BY <1>1, <1>11 DEF JobInv, AtOrWriting
    <2> QED BY <1>1, <1>2, <1>3, <1>4, <1>5, <2>1, <2>2, <2>3, <2>4, <2>5, <2>6, <2>7,
               WritingKeeps DEF Thens, Fails
  <1>10. service.phase \in Phases /\ file.phase \in Phases /\ "failed" \in Phases
    BY <1>1 DEF UpdateTypes, UpdateStates, Phases
  <1> QED BY <1>3, <1>7, <1>8, <1>9, <1>10, <1>11 DEF WriteFails, Fails

LEMMA EndsKeep ==
  ASSUME UpdateInv, OperationEnds \/ ApplyRefused \/ HostGoes \/ Launches
  PROVE  UpdateKept
  <1>1. /\ UpdateTypes /\ JobInv /\ job \in Jobs
        /\ service.phase \in Phases /\ file.phase \in Phases
        /\ file.target \in {NoVersion} \cup Version
    BY DEF UpdateInv, UpdateTypes, UpdateStates
  <1>2. /\ job' = NoOperation /\ UNCHANGED <<installed, file, stage, damage>>
        /\ \/ service' = [service EXCEPT !.phase = file.phase]
           \/ service' = [service EXCEPT !.phase = service.phase]
           \/ service' = service
        /\ job.kind = "start" => job.step = "end" \/ hostProcess' # "up"
        /\ hostProcess' \in {hostProcess, "down", "leaving"}
        /\ installer' \in {NoVersion} \cup Version
    BY <1>1 DEF OperationEnds, ApplyRefused, HostGoes, Launches, Ends, At, UpdateTypes
  <1>3. damage' \in [touched : SUBSET Version, unreconciled : BOOLEAN] /\ damage' = damage
    BY <1>1, <1>2 DEF UpdateTypes
  <1> QED BY <1>1, <1>2, <1>3, OverKeeps

(* A job that takes a step without a write.                                *)
LEMMA SteppingKeeps ==
  ASSUME UpdateInv, job.step # "none",
         NEW step \in {"cleaning", "refreshing", "end", "receiving", "staged"},
         job' = [job EXCEPT !.step = step],
         UNCHANGED <<installed, file, hostProcess, installer, damage>>,
         service' \in [phase : Phases, channel : Channel],
         stage' \in [Version -> {"none", "whole", "broken"}],
         TruthAfter(file), TruthAfter(job.was),
         job.kind = "start" => step \in {"cleaning", "end"},
         step \in {"cleaning", "refreshing"} => job.was.phase = "idle",
         step = "receiving" => job.step = "downloading",
         step = "staged" => file.phase = "staged",
         ~damage.unreconciled => file.version = installed
  PROVE  UpdateKept
  <1>1. UpdateTypes /\ JobInv /\ VersionInv /\ job \in Jobs
    BY DEF UpdateInv, UpdateTypes
  <1>2. /\ job' \in Jobs /\ job'.kind = job.kind /\ job'.step = step
        /\ job'.was = job.was /\ job'.next = job.next /\ job'.then = job.then
    BY <1>1, StepGives
  <1>3. UpdateTypes'
    BY <1>1, <1>2 DEF UpdateTypes
  <1>4. StatesInv'
    BY <1>2, AfterIsTruth
  <1>5. JobInv'
    <2>1. hostProcess = "up"
      BY <1>1, NothingToDo DEF JobInv
    <2> QED BY <1>1, <1>2, <2>1 DEF JobInv, AtOrWriting
  <1>6. VersionInv'
    BY <1>1, <1>2 DEF VersionInv
  <1> QED BY <1>3, <1>4, <1>5, <1>6 DEF UpdateKept

LEMMA StageSucceedsKeeps ==
  ASSUME UpdateInv, StageSucceeds
  PROVE  UpdateKept
  <1>1. /\ UpdateTypes /\ StatesInv /\ JobInv /\ VersionInv
        /\ UNCHANGED <<installed, file, stage, hostProcess, installer, damage>>
        /\ job.kind = "apply" /\ job.step \in {"staging", "refreshing"}
        /\ file.phase \in Phases /\ job.was \in UpdateStates
    BY DEF UpdateInv, StageSucceeds, At, UpdateTypes, UpdateStates, Jobs
  <1>2. CASE file.phase = "staged"
    <2>1. job' = [job EXCEPT !.step = "staged"] /\ service' = [service EXCEPT !.phase = "staged"]
      BY <1>2 DEF StageSucceeds
    <2>2. /\ service' \in [phase : Phases, channel : Channel]
          /\ stage' \in [Version -> {"none", "whole", "broken"}]
      BY <1>1, <2>1 DEF UpdateTypes, Phases
    <2>3. TruthAfter(file) /\ TruthAfter(job.was)
      BY <1>1, StaysTruthful DEF StatesInv
    <2>4. ~damage.unreconciled => file.version = installed
      <3>1. hostProcess = "up"
        BY <1>1, NothingToDo DEF JobInv
      <3> QED BY <1>1, <3>1 DEF VersionInv
    <2> QED BY <1>1, <1>2, <2>1, <2>2, <2>3, <2>4, SteppingKeeps
  <1>3. CASE file.phase # "staged"
    <2>1. Ends(file.phase)
      BY <1>3 DEF StageSucceeds
    <2>2. damage' \in [touched : SUBSET Version, unreconciled : BOOLEAN] /\ damage' = damage
          /\ installer' \in {NoVersion} \cup Version
      BY <1>1 DEF UpdateTypes
    <2> QED BY <1>1, <2>1, <2>2, OverKeeps DEF Ends
  <1> QED BY <1>2, <1>3

(* What a request at work can rely on.                                     *)
LEMMA AtWork ==
  ASSUME UpdateInv, job.step # "none"
  PROVE  /\ UpdateTypes /\ StatesInv /\ JobInv /\ VersionInv /\ job \in Jobs
         /\ hostProcess = "up" /\ file \in UpdateStates /\ job.was \in UpdateStates
         /\ service.phase \in Phases /\ service.channel \in Channel
         /\ ~damage.unreconciled /\ job.kind # "start" => file.version = installed
  <1>1. UpdateTypes /\ StatesInv /\ JobInv /\ VersionInv /\ job \in Jobs
    BY DEF UpdateInv, UpdateTypes
  <1>2. hostProcess = "up"
    BY <1>1, NothingToDo DEF JobInv
  <1> QED BY <1>1, <1>2 DEF UpdateTypes, VersionInv, Jobs

(* A write that only the state is changed by.                              *)
LEMMA RecordsKeep ==
  ASSUME UpdateInv, job.step # "none", job.kind # "start",
         NEW next \in UpdateStates, NEW then \in {"end", "staging", "launching"},
         NEW fail \in {"mark", "again", "keep", "refresh"},
         Write(next, then, fail),
         UNCHANGED <<installed, file, stage, hostProcess, installer, damage>>,
         service' \in [phase : Phases, channel : Channel],
         TruthAfter(next), then = "launching" => next.phase = "applying",
         ~damage.unreconciled =>
           next.version = installed /\ (fail = "mark" => job.was.version = installed)
  PROVE  UpdateKept
  <1>1. /\ UpdateTypes /\ StatesInv /\ job \in Jobs /\ hostProcess = "up"
        /\ job.was \in UpdateStates
    BY AtWork
  <1>2. TruthAfter(file) /\ TruthAfter(job.was)
    BY <1>1, StaysTruthful DEF StatesInv
  <1>3. /\ job' \in Jobs /\ job'.kind = job.kind /\ job'.step = "writing" /\ job'.was = job.was
        /\ job'.next = next /\ job'.then = then /\ job'.fail = fail
    BY <1>1, WriteGives DEF Thens, Fails
  <1>4. /\ stage' \in [Version -> {"none", "whole", "broken"}]
        /\ damage' \in [touched : SUBSET Version, unreconciled : BOOLEAN]
        /\ damage' = damage /\ then \in Thens /\ fail \in Fails
    BY <1>1 DEF UpdateTypes, Thens, Fails
  <1> QED BY <1>1, <1>2, <1>3, <1>4, WritingKeeps

(* A check and a download begin with the state that is on disk.            *)
LEMMA BeginningsKeep ==
  ASSUME UpdateInv, CheckBegins \/ DownloadBegins
  PROVE  UpdateKept
  <1>1. job.step = "refreshing" /\ job.kind \in {"check", "apply"}
    BY DEF CheckBegins, DownloadBegins, At
  <1>2. /\ UpdateTypes /\ StatesInv /\ JobInv /\ job \in Jobs /\ hostProcess = "up"
        /\ file \in UpdateStates /\ service.phase \in Phases /\ service.channel \in Channel
        /\ ~damage.unreconciled => file.version = installed
    BY <1>1, AtWork
  <1>3. PICK phase \in {"checking", "downloading"}, then \in {"fetching", "downloading"} :
          /\ job' = [job EXCEPT !.step = "writing", !.was = file, !.next = Own(file, phase),
                                !.then = then, !.fail = "refresh"]
          /\ then = "downloading" => phase = "downloading" /\ file.phase = "available"
          /\ phase = "downloading" => file.phase = "available"
          /\ service' = [service EXCEPT !.phase = phase]
          /\ UNCHANGED <<installed, file, stage, hostProcess, installer, damage>>
    BY DEF CheckBegins, DownloadBegins
  <1> DEFINE next == Own(file, phase)
  <1>4. /\ next \in UpdateStates /\ next.phase = phase /\ next.target = file.target
        /\ next.version = installed
    BY <1>2, OwnGives DEF Phases
  <1>5. job' = [job EXCEPT !.step = "writing", !.was = file, !.next = next,
                           !.then = then, !.fail = "refresh"]
    BY <1>3
  <1> HIDE DEF next
  <1>6. /\ job' \in Jobs /\ job'.kind = job.kind /\ job'.step = "writing" /\ job'.was = file
        /\ job'.next = next /\ job'.then = then /\ job'.fail = "refresh"
    BY <1>2, <1>4, <1>5 DEF Jobs
  <1>7. TruthAfter(file)
    BY <1>2, <1>3, StaysTruthful DEF StatesInv
  <1>8. TruthAfter(next)
    BY <1>2, <1>3, <1>4, <1>7 DEF TruthAfter, Naming
  <1>9. /\ stage' \in [Version -> {"none", "whole", "broken"}]
        /\ damage' \in [touched : SUBSET Version, unreconciled : BOOLEAN]
        /\ service' \in [phase : Phases, channel : Channel]
        /\ then \in Thens /\ "refresh" \in Fails
    BY <1>2, <1>3 DEF UpdateTypes, Phases, Thens, Fails
  <1> QED BY <1>1, <1>2, <1>3, <1>4, <1>6, <1>7, <1>8, <1>9, WritingKeeps

LEMMA CheckEndsKeep ==
  ASSUME UpdateInv, CheckFails \/ (\E v \in Version : CheckFinds(v))
  PROVE  UpdateKept
  <1>1. /\ job.step = "fetching" /\ job.kind = "check"
        /\ UNCHANGED <<installed, file, stage, hostProcess, service, installer, damage>>
    BY DEF CheckFails, CheckFinds, At
  <1>2. /\ UpdateTypes /\ StatesInv /\ VersionInv /\ job.was \in UpdateStates
        /\ ~damage.unreconciled => job.was.version = installed
        /\ service' \in [phase : Phases, channel : Channel]
        /\ installed \in Version
    BY <1>1, AtWork DEF VersionInv, UpdateTypes
  <1>3. TruthAfter(job.was)
    BY <1>1, <1>2, StaysTruthful DEF StatesInv
  <1>4. ASSUME Write([job.was EXCEPT !.phase = "failed"], "end", "refresh")
        PROVE  UpdateKept
    <2>1. LET s == [job.was EXCEPT !.phase = "failed"] IN
            s \in UpdateStates /\ s.phase = "failed" /\ s.version = job.was.version
      BY <1>2, PhaseGives DEF Phases
    <2>2. TruthAfter([job.was EXCEPT !.phase = "failed"])
      BY <2>1, SaysNothingAfter DEF Naming
    <2> QED BY <1>1, <1>2, <1>4, <2>1, <2>2, RecordsKeep DEF Fails
  <1>5. ASSUME Write(Own(job.was, job.was.phase), "end", "refresh")
        PROVE  UpdateKept
    <2> DEFINE s == Own(job.was, job.was.phase)
    <2>1. /\ s \in UpdateStates /\ s.phase = job.was.phase /\ s.target = job.was.target
          /\ s.version = installed
      BY <1>2, OwnGives DEF UpdateStates
    <2> HIDE DEF s
    <2>2. TruthAfter(s)
      BY <1>1, <1>2, <1>3, <2>1 DEF TruthAfter
    <2>3. Write(s, "end", "refresh")
      BY <1>5 DEF s
    <2> QED BY <1>1, <1>2, <2>1, <2>2, <2>3, RecordsKeep DEF Fails
  <1>6. ASSUME NEW v \in Version, CheckFinds(v)
        PROVE  UpdateKept
    <2> DEFINE s == IF v > installed THEN [Own(job.was, "available") EXCEPT !.target = v]
                    ELSE [Own(job.was, "idle") EXCEPT !.target = NoVersion]
    <2>1. /\ Own(job.was, "available") \in UpdateStates
          /\ Own(job.was, "available").phase = "available"
          /\ Own(job.was, "available").version = installed
          /\ Own(job.was, "idle") \in UpdateStates /\ Own(job.was, "idle").phase = "idle"
          /\ Own(job.was, "idle").version = installed
      BY <1>2, OwnGives DEF Phases
    <2>2. /\ s \in UpdateStates /\ s.version = installed
          /\ s.phase = "idle" \/ (s.phase = "available" /\ s.target = v /\ v > installed)
      BY <2>1 DEF UpdateStates
    <2>3. Write(s, "end", "mark")
      BY <1>6 DEF CheckFinds
    <2> HIDE DEF s
    <2>4. TruthAfter(s)
      BY <2>2 DEF TruthAfter, Naming
    <2> QED BY <1>1, <1>2, <2>2, <2>3, <2>4, RecordsKeep DEF Fails
  <1> QED BY <1>4, <1>5, <1>6 DEF CheckFails

(* What is downloaded, applied and not launched.                           *)
LEMMA DownloadFailsKeeps ==
  ASSUME UpdateInv, DownloadFails
  PROVE  UpdateKept
  <1>1. /\ job.step = "receiving" /\ job.kind = "apply"
        /\ UNCHANGED <<installed, file, stage, hostProcess, service, installer, damage>>
    BY DEF DownloadFails, At
  <1>2. /\ UpdateTypes /\ StatesInv /\ VersionInv /\ job.was \in UpdateStates
        /\ ~damage.unreconciled => job.was.version = installed
        /\ service' \in [phase : Phases, channel : Channel]
        /\ job.was.phase = "available"
    BY <1>1, AtWork DEF VersionInv, UpdateTypes, JobInv
  <1>3. TruthAfter(job.was)
    BY <1>1, <1>2, StaysTruthful DEF StatesInv
  <1>4. ASSUME Write([job.was EXCEPT !.phase = "failed"], "end", "refresh")
        PROVE  UpdateKept
    <2>1. LET s == [job.was EXCEPT !.phase = "failed"] IN
            s \in UpdateStates /\ s.phase = "failed" /\ s.version = job.was.version
      BY <1>2, PhaseGives DEF Phases
    <2>2. TruthAfter([job.was EXCEPT !.phase = "failed"])
      BY <2>1, SaysNothingAfter DEF Naming
    <2> QED BY <1>1, <1>2, <1>4, <2>1, <2>2, RecordsKeep DEF Fails
  <1>5. ASSUME Write(Own(job.was, "available"), "end", "refresh")
        PROVE  UpdateKept
    <2> DEFINE s == Own(job.was, "available")
    <2>1. /\ s \in UpdateStates /\ s.phase = "available" /\ s.target = job.was.target
          /\ s.version = installed
      BY <1>2, OwnGives DEF Phases
    <2> HIDE DEF s
    <2>2. TruthAfter(s)
      BY <1>1, <1>2, <1>3, <2>1 DEF TruthAfter
    <2>3. Write(s, "end", "refresh")
      BY <1>5 DEF s
    <2> QED BY <1>1, <1>2, <2>1, <2>2, <2>3, RecordsKeep DEF Fails
  <1> QED BY <1>4, <1>5 DEF DownloadFails

LEMMA PreparesApplyKeeps ==
  ASSUME UpdateInv, PreparesApply
  PROVE  UpdateKept
  <1>1. /\ job.step = "staged" /\ job.kind = "apply"
        /\ UNCHANGED <<installed, file, stage, hostProcess, installer, damage>>
    BY DEF PreparesApply, At
  <1>2. /\ UpdateTypes /\ StatesInv /\ file \in UpdateStates /\ file.phase = "staged"
        /\ ~damage.unreconciled => file.version = installed
        /\ installer \in {NoVersion} \cup Version
        /\ damage \in [touched : SUBSET Version, unreconciled : BOOLEAN]
        /\ file.phase \in Phases
    BY <1>1, AtWork DEF UpdateTypes, JobInv, UpdateStates
  <1>3. CASE Whole
    <2> DEFINE s == Own(file, "applying")
    <2>1. /\ s \in UpdateStates /\ s.phase = "applying" /\ s.target = file.target
          /\ s.version = installed
      BY <1>2, OwnGives DEF Phases
    <2>2. Write(s, "launching", "refresh") /\ service' = [service EXCEPT !.phase = "applying"]
      BY <1>3 DEF PreparesApply
    <2> HIDE DEF s
    <2>3. TruthAfter(file)
      BY <1>1, <1>2, StaysTruthful DEF StatesInv
    <2>4. TruthAfter(s)
      BY <1>1, <1>2, <2>1, <2>3 DEF TruthAfter, Naming
    <2>5. service' \in [phase : Phases, channel : Channel]
      BY <1>2, <2>2 DEF UpdateTypes, Phases
    <2> QED BY <1>1, <2>1, <2>2, <2>4, <2>5, RecordsKeep DEF Fails
  <1>4. CASE ~Whole
    BY <1>1, <1>2, <1>4, OverKeeps DEF PreparesApply, Ends
  <1> QED BY <1>3, <1>4

LEMMA LaunchFailsKeeps ==
  ASSUME UpdateInv, LaunchFails
  PROVE  UpdateKept
  <1>1. /\ job.step = "launching" /\ job.kind = "apply"
        /\ UNCHANGED <<installed, file, stage, hostProcess, service, installer, damage>>
    BY DEF LaunchFails, At
  <1>2. /\ UpdateTypes /\ StatesInv /\ file \in UpdateStates /\ file.phase = "applying"
        /\ ~damage.unreconciled => file.version = installed
        /\ service' \in [phase : Phases, channel : Channel]
    BY <1>1, AtWork DEF UpdateTypes, JobInv
  <1> DEFINE s == [file EXCEPT !.phase = "staged"]
  <1>3. /\ s \in UpdateStates /\ s.phase = "staged" /\ s.target = file.target
        /\ s.version = file.version
    BY <1>2, PhaseGives DEF Phases
  <1>4. PICK fail \in {"again", "keep"} : Write(s, "end", fail)
    BY DEF LaunchFails
  <1> HIDE DEF s
  <1>5. TruthAfter(file)
    BY <1>1, <1>2, StaysTruthful DEF StatesInv
  <1>6. TruthAfter(s)
    BY <1>1, <1>2, <1>3, <1>5 DEF TruthAfter, Naming
  <1> QED BY <1>1, <1>2, <1>3, <1>4, <1>6, RecordsKeep DEF Fails

(* The stage is emptied but for one version.                               *)
LEMMA KeptGives ==
  ASSUME UpdateTypes, NEW v \in {NoVersion} \cup Version
  PROVE  /\ Kept(v) \in [Version -> {"none", "whole", "broken"}]
         /\ v \in Version => Kept(v)[v] = stage[v]
  BY DEF UpdateTypes, Kept

LEMMA KeepsTruth ==
  ASSUME UpdateTypes, NEW state \in UpdateStates, Truthful(state), damage' = damage,
         NEW v \in {NoVersion} \cup Version, stage' = Kept(v),
         v = state.target \/ state.phase \notin {"staged", "applying"}
  PROVE  TruthAfter(state)
  BY KeptGives DEF Truthful, TruthAfter, Naming

LEMMA DownloadFoundKeeps ==
  ASSUME UpdateInv, DownloadFound
  PROVE  UpdateKept
  <1>1. /\ job.step = "downloading" /\ job.kind = "apply"
        /\ UNCHANGED <<installed, file, hostProcess, service, installer, damage>>
        /\ stage' = IF Whole THEN Kept(file.target) ELSE Kept(NoVersion)
    BY DEF DownloadFound, At
  <1>2. /\ UpdateTypes /\ StatesInv /\ file \in UpdateStates /\ job.was \in UpdateStates
        /\ file.phase = "downloading" /\ file.target = job.was.target
        /\ job.was.phase = "available" /\ hostProcess = "up" /\ job \in Jobs
        /\ ~damage.unreconciled => file.version = installed /\ job.was.version = installed
        /\ file.target \in {NoVersion} \cup Version
        /\ service' \in [phase : Phases, channel : Channel]
        /\ damage' \in [touched : SUBSET Version, unreconciled : BOOLEAN]
    BY <1>1, AtWork DEF UpdateTypes, JobInv, VersionInv, UpdateStates
  <1>3. PICK v \in {NoVersion} \cup Version : stage' = Kept(v) /\ (Whole => v = file.target)
    BY <1>1, <1>2
  <1>4. /\ TruthAfter(file) /\ TruthAfter(job.was)
        /\ stage' \in [Version -> {"none", "whole", "broken"}]
    BY <1>1, <1>2, <1>3, KeepsTruth, KeptGives DEF StatesInv
  <1>5. CASE Whole
    <2> DEFINE s == Own(job.was, "staged")
    <2>1. /\ s \in UpdateStates /\ s.phase = "staged" /\ s.target = job.was.target
          /\ s.version = installed
      BY <1>2, OwnGives DEF Phases
    <2>2. Write(s, "staging", "mark")
      BY <1>5 DEF DownloadFound
    <2> HIDE DEF s
    <2>3. file.target \in Version /\ stage'[file.target] = "whole"
      BY <1>2, <1>3, <1>5, KeptGives DEF Whole
    <2>4. TruthAfter(s)
      BY <1>1, <1>2, <1>4, <2>1, <2>3 DEF TruthAfter, Naming
    <2>5. /\ job' \in Jobs /\ job'.kind = job.kind /\ job'.step = "writing" /\ job'.was = job.was
          /\ job'.next = s /\ job'.then = "staging" /\ job'.fail = "mark"
      BY <1>2, <2>1, <2>2, WriteGives DEF Thens
    <2> QED BY <1>1, <1>2, <1>4, <2>1, <2>4, <2>5, WritingKeeps DEF Thens, Fails
  <1>6. CASE ~Whole
    BY <1>1, <1>2, <1>4, <1>6, SteppingKeeps DEF DownloadFound
  <1> QED BY <1>5, <1>6

LEMMA DownloadReceivedKeeps ==
  ASSUME UpdateInv, DownloadReceived
  PROVE  UpdateKept
  <1>1. /\ job.step = "receiving" /\ job.kind = "apply"
        /\ UNCHANGED <<installed, file, hostProcess, service, installer>>
        /\ stage' = [stage EXCEPT ![file.target] = "whole"]
        /\ damage' = [damage EXCEPT !.touched = @ \ {file.target}]
    BY DEF DownloadReceived, At
  <1>2. /\ UpdateTypes /\ StatesInv /\ file \in UpdateStates /\ job.was \in UpdateStates
        /\ file.phase = "downloading" /\ file.target = job.was.target
        /\ job.was.phase = "available" /\ hostProcess = "up" /\ job \in Jobs
        /\ ~damage.unreconciled => file.version = installed /\ job.was.version = installed
        /\ service' \in [phase : Phases, channel : Channel]
    BY <1>1, AtWork DEF UpdateTypes, JobInv, VersionInv
  <1>3. /\ file.target \in Version
        /\ stage' \in [Version -> {"none", "whole", "broken"}] /\ stage'[file.target] = "whole"
        /\ damage' \in [touched : SUBSET Version, unreconciled : BOOLEAN]
        /\ damage'.unreconciled = damage.unreconciled
    BY <1>1, <1>2 DEF UpdateTypes, StatesInv, Truthful, Naming
  <1>4. TruthAfter(file) /\ TruthAfter(job.was)
    BY <1>1, <1>2, <1>3 DEF StatesInv, Truthful, TruthAfter
  <1> DEFINE s == Own(job.was, "staged")
  <1>5. /\ s \in UpdateStates /\ s.phase = "staged" /\ s.target = job.was.target
        /\ s.version = installed
    BY <1>2, OwnGives DEF Phases
  <1>6. Write(s, "staging", "mark")
    BY DEF DownloadReceived
  <1> HIDE DEF s
  <1>7. TruthAfter(s)
    BY <1>1, <1>2, <1>3, <1>4, <1>5 DEF TruthAfter, Naming
  <1>8. /\ job' \in Jobs /\ job'.kind = job.kind /\ job'.step = "writing" /\ job'.was = job.was
        /\ job'.next = s /\ job'.then = "staging" /\ job'.fail = "mark"
    BY <1>2, <1>5, <1>6, WriteGives DEF Thens
  <1> QED BY <1>1, <1>2, <1>3, <1>4, <1>5, <1>7, <1>8, WritingKeeps DEF Thens, Fails

(* The reconciliation.                                                     *)
LEMMA RecoveredGives ==
  ASSUME UpdateTypes, Truthful(file), file.phase \in {"applying", "downloading"}, ~Afresh
  PROVE  /\ Recovered \in UpdateStates /\ Recovered.target = file.target
         /\ Recovered.version = installed
         /\ \/ Recovered.phase = "staged" /\ Whole
            \/ Recovered.phase \in {"failed", "available"}
  <1>1. file \in UpdateStates /\ file.version = installed
    BY DEF UpdateTypes, Afresh
  <1>2. PICK phase \in {"staged", "failed", "available"} :
          Recovered = [file EXCEPT !.phase = phase] /\ (phase = "staged" => Whole)
    BY DEF Recovered
  <1>3. /\ Recovered \in UpdateStates /\ Recovered.phase = phase
        /\ Recovered.target = file.target /\ Recovered.version = file.version
    <2>1. phase \in Phases
      BY DEF Phases
    <2> QED BY <1>1, <1>2, <2>1, PhaseGives
  <1> QED BY <1>1, <1>2, <1>3

LEMMA ReconcilesKeep ==
  ASSUME UpdateInv, Reconciles
  PROVE  UpdateKept
  <1> DEFINE v == IF ~Afresh /\ file.phase = "downloading" /\ ~Whole THEN NoVersion ELSE file.target
  <1>1. /\ job.step = "reconciling" /\ stage' = Kept(v)
        /\ UNCHANGED <<installed, file, hostProcess, service, installer, damage>>
    BY DEF Reconciles, ReconcilesState
  <1>2. /\ UpdateTypes /\ StatesInv /\ JobInv /\ job \in Jobs /\ hostProcess = "up"
        /\ file \in UpdateStates /\ job.was \in UpdateStates /\ job.was.phase = "idle"
        /\ file.target \in {NoVersion} \cup Version /\ service.channel \in Channel
        /\ service' \in [phase : Phases, channel : Channel]
        /\ damage' \in [touched : SUBSET Version, unreconciled : BOOLEAN]
    BY <1>1, AtWork DEF UpdateTypes, JobInv, AtOrWriting, UpdateStates
  <1>3. /\ v \in {NoVersion} \cup Version
        /\ v = file.target \/ file.phase \notin {"staged", "applying"}
        /\ Afresh \/ Whole \/ file.phase # "downloading" => v = file.target
    BY <1>2
  <1> HIDE DEF v
  <1>4. /\ TruthAfter(file) /\ TruthAfter(job.was)
        /\ stage' \in [Version -> {"none", "whole", "broken"}]
    BY <1>1, <1>2, <1>3, KeepsTruth, KeptGives DEF StatesInv
  <1>5. /\ Continued \in {"end", "refreshing"} /\ (job.kind = "start" => Continued = "end")
        /\ OnFailure \in {"failed", "keep"}
    BY DEF Continued, OnFailure
  <1>6. ASSUME NEW next \in UpdateStates, next.version = installed, TruthAfter(next),
               NEW then \in {"cleaning", "end", "refreshing"}, job.kind = "start" => then # "refreshing",
               NEW fail \in {"failed", "keep", "recover"},
               fail = "recover" => file.version = installed /\ then = Continued,
               Write(next, then, fail)
        PROVE  UpdateKept
    <2>1. then \in Thens /\ fail \in Fails
      BY <1>6 DEF Thens, Fails
    <2>2. /\ job' \in Jobs /\ job'.kind = job.kind /\ job'.step = "writing" /\ job'.was = job.was
          /\ job'.next = next /\ job'.then = then /\ job'.fail = fail
      BY <1>2, <1>6, <2>1, WriteGives DEF Fails
    <2>3. damage.unreconciled => damage'.unreconciled
      BY <1>1
    <2> QED BY <1>1, <1>2, <1>4, <1>6, <2>1, <2>2, <2>3, WritingKeeps
  <1>7. CASE Afresh
    <2>1. Write(Initial(service.channel), "cleaning", OnFailure)
      BY <1>7 DEF Reconciles, ReconcilesState
    <2>2. /\ Initial(service.channel) \in UpdateStates
          /\ Initial(service.channel).phase = "idle"
          /\ Initial(service.channel).version = installed
      BY <1>2, InitialGives
    <2>3. TruthAfter(Initial(service.channel))
      BY <2>2, SaysNothingAfter DEF Naming
    <2> QED BY <1>5, <1>6, <2>1, <2>2, <2>3
  <1>8. CASE ~Afresh /\ file.phase \in {"applying", "downloading"}
    <2> DEFINE fail == IF Recovered.phase = "failed" THEN OnFailure ELSE "recover"
    <2>1. Write(Recovered, Continued, fail) /\ fail \in {"failed", "keep", "recover"}
      BY <1>5, <1>8 DEF Reconciles, ReconcilesState
    <2> HIDE DEF fail
    <2>2. /\ Recovered \in UpdateStates /\ Recovered.target = file.target
          /\ Recovered.version = installed
          /\ \/ Recovered.phase = "staged" /\ Whole
             \/ Recovered.phase \in {"failed", "available"}
      BY <1>2, <1>8, RecoveredGives DEF StatesInv
    <2>3. Whole => file.target \in Version /\ stage'[file.target] = "whole"
      BY <1>1, <1>2, <1>3, KeptGives DEF Whole
    <2>4. file.version = installed
      BY <1>8 DEF Afresh
    <2>5. TruthAfter(Recovered)
      BY <1>4, <1>8, <2>2, <2>3, <2>4 DEF TruthAfter, Naming
    <2> QED BY <1>2, <1>5, <1>6, <2>1, <2>2, <2>4, <2>5
  <1>9. CASE ~Afresh /\ file.phase \notin {"applying", "downloading"}
    <2>1. job' = [job EXCEPT !.step = Continued] /\ file.version = installed
      BY <1>9 DEF Reconciles, ReconcilesState, Afresh
    <2> QED BY <1>1, <1>2, <1>4, <1>5, <2>1, SteppingKeeps
  <1> QED BY <1>7, <1>8, <1>9

LEMMA CleansKeep ==
  ASSUME UpdateInv, Cleans
  PROVE  UpdateKept
  <1>1. /\ job.step = "cleaning" /\ stage' = Kept(file.target)
        /\ job' = [job EXCEPT !.step = Continued]
        /\ UNCHANGED <<installed, file, hostProcess, service, installer, damage>>
    BY DEF Cleans
  <1>2. /\ UpdateTypes /\ StatesInv /\ JobInv /\ VersionInv /\ job \in Jobs /\ hostProcess = "up"
        /\ file \in UpdateStates /\ job.was \in UpdateStates /\ job.was.phase = "idle"
        /\ file.target \in {NoVersion} \cup Version
        /\ service' \in [phase : Phases, channel : Channel]
    BY <1>1, AtWork DEF UpdateTypes, JobInv, AtOrWriting, UpdateStates
  <1>3. ~damage.unreconciled => file.version = installed
    BY <1>1, <1>2 DEF VersionInv
  <1>4. /\ TruthAfter(file) /\ TruthAfter(job.was)
        /\ stage' \in [Version -> {"none", "whole", "broken"}]
    BY <1>1, <1>2, KeepsTruth, KeptGives DEF StatesInv
  <1>5. /\ Continued \in {"end", "refreshing"} /\ (job.kind = "start" => Continued = "end")
    BY DEF Continued
  <1> QED BY <1>1, <1>2, <1>3, <1>4, <1>5, SteppingKeeps

(* A host that starts reconciles first, and a request its channel.         *)
LEMMA StartsKeep ==
  ASSUME UpdateInv, HostStarts
  PROVE  UpdateKept
  <1> DEFINE j == [NoOperation EXCEPT !.kind = "start", !.step = "reconciling"]
  <1>1. /\ UpdateTypes /\ StatesInv /\ hostProcess' = "up" /\ job' = j
        /\ service' = [phase |-> "idle", channel |-> "stable"]
        /\ UNCHANGED <<installed, file, stage, installer, damage>>
    BY DEF UpdateInv, HostStarts
  <1>2. j \in Jobs /\ j.kind = "start" /\ j.step = "reconciling" /\ j.was = NoOperation.was
    BY NothingToDo DEF Jobs
  <1> HIDE DEF j
  <1>3. UpdateTypes'
    BY <1>1, <1>2 DEF UpdateTypes, Phases, Channel
  <1>4. StatesInv'
    BY <1>1, <1>2, NothingToDo, StaysTruthful, AfterIsTruth DEF StatesInv
  <1>5. JobInv' /\ VersionInv'
    BY <1>1, <1>2, NothingToDo DEF JobInv, VersionInv, AtOrWriting
  <1> QED BY <1>3, <1>4, <1>5 DEF UpdateKept

LEMMA RequestedKeeps ==
  ASSUME UpdateInv, NEW kind \in {"check", "apply"}, NEW channel \in Channel,
         Requested(kind, channel)
  PROVE  UpdateKept
  <1>1. PICK step \in {"refreshing", "reconciling"} :
          job' = [NoOperation EXCEPT !.kind = kind, !.step = step]
    BY DEF Requested
  <1> DEFINE j == [NoOperation EXCEPT !.kind = kind, !.step = step]
  <1>2. /\ UpdateTypes /\ StatesInv /\ JobInv /\ VersionInv
        /\ hostProcess = "up" /\ job.step = "none" /\ job' = j
        /\ service' = [service EXCEPT !.channel = channel]
        /\ UNCHANGED <<installed, file, stage, hostProcess, installer, damage>>
    BY <1>1 DEF UpdateInv, Requested
  <1>3. j \in Jobs /\ j.kind = kind /\ j.step = step /\ j.was = NoOperation.was
    BY NothingToDo DEF Jobs
  <1> HIDE DEF j
  <1>4. UpdateTypes'
    BY <1>2, <1>3 DEF UpdateTypes
  <1>5. StatesInv'
    BY <1>2, <1>3, NothingToDo, StaysTruthful, AfterIsTruth DEF StatesInv
  <1>6. job.kind # "start"
    BY <1>2 DEF JobInv
  <1>7. JobInv' /\ VersionInv'
    BY <1>2, <1>3, <1>6, NothingToDo DEF JobInv, VersionInv, AtOrWriting
  <1> QED BY <1>4, <1>5, <1>7 DEF UpdateKept

(* Another version is only installed while no host runs.                   *)
LEMMA InstallsKeep ==
  ASSUME UpdateInv, InstallerEnds \/ (\E v \in Version : InstalledByHand(v))
  PROVE  UpdateKept
  <1>1. /\ UpdateTypes /\ StatesInv /\ JobInv
        /\ hostProcess = "down" /\ installed' \in Version
        /\ installer' \in {NoVersion} \cup Version
        /\ UNCHANGED <<file, stage, hostProcess, service, job, damage>>
    BY DEF UpdateInv, InstallerEnds, InstalledByHand, UpdateTypes
  <1>2. job = NoOperation
    BY <1>1 DEF JobInv
  <1>3. UpdateTypes'
    BY <1>1 DEF UpdateTypes
  <1>4. StatesInv'
    BY <1>1, <1>2, NothingToDo, StaysTruthful, AfterIsTruth DEF StatesInv
  <1>5. JobInv' /\ VersionInv'
    BY <1>1, <1>2, NothingToDo DEF JobInv, VersionInv, AtOrWriting
  <1> QED BY <1>3, <1>4, <1>5 DEF UpdateKept

LEMMA DamagedKeeps ==
  ASSUME UpdateInv, NEW v \in Version, Damaged(v)
  PROVE  UpdateKept
  <1>1. /\ UpdateTypes /\ StatesInv /\ JobInv /\ VersionInv
        /\ stage' = [stage EXCEPT ![v] = "broken"]
        /\ damage' = [damage EXCEPT !.touched = @ \cup {v}]
        /\ UNCHANGED <<installed, file, hostProcess, service, job, installer>>
    BY DEF UpdateInv, Damaged
  <1>2. /\ stage' \in [Version -> {"none", "whole", "broken"}]
        /\ damage' \in [touched : SUBSET Version, unreconciled : BOOLEAN]
        /\ damage'.unreconciled = damage.unreconciled
        /\ damage'.touched = damage.touched \cup {v}
    BY <1>1 DEF UpdateTypes
  <1>3. ASSUME NEW state, Truthful(state)
        PROVE  TruthAfter(state)
    BY <1>1, <1>2, <1>3 DEF UpdateTypes, Truthful, TruthAfter, Naming
  <1>4. UpdateTypes' /\ StatesInv'
    BY <1>1, <1>2, <1>3, AfterIsTruth DEF UpdateTypes, StatesInv
  <1>5. JobInv' /\ VersionInv'
    BY <1>1, <1>2 DEF JobInv, VersionInv, AtOrWriting, Continued
  <1> QED BY <1>4, <1>5 DEF UpdateKept

LEMMA UpdateStarts == UpdateInit => UpdateInv
  <1> SUFFICES ASSUME UpdateInit PROVE UpdateInv
    OBVIOUS
  <1>1. file \in UpdateStates /\ file.phase = "idle"
    BY DEF UpdateInit, Initial, UpdateStates, Channel, Phases
  <1>2. UpdateTypes
    BY <1>1, NothingToDo DEF UpdateInit, UpdateTypes, Phases, Channel
  <1>3. StatesInv /\ JobInv /\ VersionInv
    BY <1>1, NothingToDo
       DEF UpdateInit, StatesInv, JobInv, VersionInv, Truthful, Naming, AtOrWriting
  <1> QED BY <1>2, <1>3 DEF UpdateInv

LEMMA UpdateKeeps == UpdateInv /\ [UpdateNext]_UpdateVars => UpdateInv'
  <1> SUFFICES ASSUME UpdateInv, [UpdateNext]_UpdateVars PROVE UpdateInv'
    OBVIOUS
  <1>1. UpdateKept => UpdateInv'
    BY DEF UpdateKept, UpdateInv
  <1>2. CASE UNCHANGED UpdateVars
    BY <1>2 DEF UpdateVars, UpdateInv, UpdateTypes, StatesInv, JobInv, VersionInv, Truthful,
                AtOrWriting, Continued
  <1>3. CASE StateWritten \/ WriteFails \/ OperationEnds \/ Reconciles \/ Cleans \/ HostStarts
               \/ HostGoes \/ InstallerEnds
    BY <1>1, <1>3, WrittenKeeps, WriteFailsKeeps, EndsKeep, ReconcilesKeep, CleansKeep,
       StartsKeep, InstallsKeep
  <1>4. CASE \E channel \in Channel : Requested("check", channel) \/ Requested("apply", channel)
    BY <1>1, <1>4, RequestedKeeps
  <1>5. CASE CheckBegins \/ CheckFails \/ DownloadBegins \/ DownloadFound \/ DownloadReceived
               \/ DownloadFails
    BY <1>1, <1>5, BeginningsKeep, CheckEndsKeep, DownloadFoundKeeps, DownloadReceivedKeeps,
       DownloadFailsKeeps
  <1>6. CASE StageSucceeds \/ ApplyRefused \/ PreparesApply \/ Launches \/ LaunchFails
    BY <1>1, <1>6, StageSucceedsKeeps, EndsKeep, PreparesApplyKeeps, LaunchFailsKeeps
  <1>7. CASE \E v \in Version : CheckFinds(v) \/ InstalledByHand(v) \/ Damaged(v)
    BY <1>1, <1>7, CheckEndsKeep, InstallsKeep, DamagedKeeps
  <1> QED BY <1>2, <1>3, <1>4, <1>5, <1>6, <1>7 DEF UpdateNext

(* The update service never loses track of what is staged, by whom and for *)
(* which version, whatever write fails and wherever the host stops.        *)
THEOREM UpdateInvariant == UpdateSpec => []UpdateInv
  BY UpdateStarts, UpdateKeeps, PTL DEF UpdateSpec

(* An installer the state calls staged or applied is in the stage, whole   *)
(* unless something else damaged it: the state changes before the files    *)
(* that it names are removed (reconcileInstalledVersion, stageAvailable).  *)
THEOREM StagedStays == UpdateSpec => []StagedIsKept
  <1>1. UpdateInv => StagedIsKept
    BY DEF UpdateInv, StatesInv, Truthful, StagedIsKept
  <1> QED BY <1>1, UpdateInvariant, PTL

(* What is launched is newer than what is installed: a state that was made *)
(* by another version is reconciled before an installer it names is used   *)
(* (launchInstallerApplyHandoff, reconcileInstalledVersion).               *)
THEOREM OnlyForwards == UpdateSpec => NeverBackwards
  <1> DEFINE Forwards == installer' # installer /\ installer' # NoVersion =>
                           installer' > installed \/ damage.unreconciled
  <1>1. UpdateInv /\ [UpdateNext]_UpdateVars => [Forwards]_UpdateVars
    <2> SUFFICES ASSUME UpdateInv, UpdateNext, installer' # installer, installer' # NoVersion
                 PROVE  installer' > installed \/ damage.unreconciled
      OBVIOUS
    <2>1. Launches
      BY DEF UpdateNext, StateWritten, WriteFails, OperationEnds, Reconciles, ReconcilesState,
             Cleans, HostStarts, HostGoes, InstallerEnds, Requested, CheckBegins, CheckFails,
             DownloadBegins, DownloadFound, DownloadReceived, DownloadFails, StageSucceeds,
             ApplyRefused, PreparesApply, LaunchFails, CheckFinds, InstalledByHand, Damaged
    <2>2. job.kind = "apply" /\ job.step = "launching" /\ installer' = file.target
      BY <2>1 DEF Launches, At
    <2>3. /\ StatesInv /\ file.phase = "applying"
          /\ ~damage.unreconciled => file.version = installed
      BY <2>2, AtWork DEF JobInv
    <2> QED BY <2>2, <2>3 DEF StatesInv, Truthful, Naming
  <1> QED BY <1>1, UpdateInvariant, PTL DEF UpdateSpec, NeverBackwards
===============================================================================
