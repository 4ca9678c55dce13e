---------------------------- MODULE DaemonSupervisor --------------------------
(***************************************************************************)
(* The host's DaemonSupervisor: one record s holds its fields and the      *)
(* processes it has spawned, and an operator is one of its methods or      *)
(* handlers up to its first await.  What happens when, and on whose        *)
(* behalf, is for the module that EXTENDS this one.  A definition marked   *)
(* Variant is a bug one could make here; the properties are tried against  *)
(* it.                                                                     *)
(***************************************************************************)
EXTENDS Naturals, FiniteSets

CONSTANTS
  Children,      \* the ChildProcess objects
  NoChild,       \* no child
  MaxRestarts    \* the automatic restarts before a crash loop is given up

ASSUME NoChildAssumption == NoChild \notin Children
ASSUME MaxRestartsAssumption == MaxRestarts \in Nat

(* Who can be waiting for a promise of the supervisor: the initial start,  *)
(* the request that the queue executes, the restart timer, the close.      *)
Caller == {"init", "queue", "timer", "close"}

(* What a caller waits for: the stop it asked for; as a start, a stop in   *)
(* progress; the start it made; as a start, the start of another.  When    *)
(* the promise is settled, resume and resumeFailed are a start that goes   *)
(* on, ok and failed an answer for the caller.                             *)
Wait == {"none", "stop", "startStop", "start", "poll",
         "resume", "resumeFailed", "ok", "failed"}

Status == {"stopped", "starting", "running", "stopping", "degraded"}

(* A daemon process: booting, serving, told to shut down (drainBoot while  *)
(* it was still booting), having sent "stopped", having sent               *)
(* "startup-failed" and disconnected, sent SIGKILL; gone before its spawn  *)
(* and after its exit.                                                     *)
Process == {"boot", "up", "drainBoot", "drain", "acked", "failing", "killed", "gone"}

NoStop == [phase |-> "none", acked |-> FALSE]

Supervisor ==
  [desired : BOOLEAN,                \* desiredRunning
   status : Status,                  \* daemonStatus.state
   attempt : 0 .. MaxRestarts,       \* daemonStatus.restartAttempt
   child : Children \cup {NoChild},
   proc : [Children -> Process],
   stopping : SUBSET Children,       \* stoppingChildren
   again : SUBSET Children,          \* restartAfterExitChildren
   forced : SUBSET Children,         \* forcedChildren
   starting : BOOLEAN,               \* startWaiter, with its timeout
   stop : [phase : {"none", "grace", "force"}, acked : BOOLEAN],
                                     \* stopWaiter and stopPromise
   timer : BOOLEAN,                  \* restartTimer
   armed : Nat,                      \* restart timers not cleared nor fired
   stable : BOOLEAN,                 \* stableRunTimer
   wait : [Caller -> Wait]]

InitialSupervisor(desired) ==
  [desired |-> desired, status |-> "stopped", attempt |-> 0, child |-> NoChild,
   proc |-> [c \in Children |-> "gone"], stopping |-> {}, again |-> {}, forced |-> {},
   starting |-> FALSE, stop |-> NoStop, timer |-> FALSE, armed |-> 0, stable |-> FALSE,
   wait |-> [w \in Caller |-> "none"]]

Running(s) == {c \in Children : s.proc[c] # "gone"}

-----------------------------------------------------------------------------
(* Timers and waiters.                                                     *)

ClearRestartTimer(s) ==
  [s EXCEPT !.timer = FALSE, !.armed = IF s.timer THEN @ - 1 ELSE @]

SetDesiredRunning(s, desired) ==
  IF desired THEN [s EXCEPT !.desired = TRUE]
             ELSE ClearRestartTimer([s EXCEPT !.desired = FALSE])

Answer(s, w, answer) == [s EXCEPT !.wait[w] = answer]

FinishStart(s, answer) ==
  [s EXCEPT !.starting = FALSE,
            !.wait = [w \in Caller |-> IF @[w] = "start" THEN answer ELSE @[w]]]

(* Variant: a stop that settles forgets the starts that wait for it. *)
FinishStopForgetsStarts(s, stopped) ==
  [s EXCEPT !.stop = NoStop,
            !.wait = [w \in Caller |->
               IF @[w] # "stop" THEN @[w] ELSE IF stopped THEN "ok" ELSE "failed"]]

(* The stop promise settles: those who asked for the stop have an answer,  *)
(* a start that waited for it goes on.                                     *)
FinishStop(s, stopped) ==
  [s EXCEPT !.stop = NoStop,
            !.wait = [w \in Caller |->
               CASE @[w] = "stop" /\ stopped       -> "ok"
                 [] @[w] = "stop" /\ ~stopped      -> "failed"
                 [] @[w] = "startStop" /\ stopped  -> "resume"
                 [] @[w] = "startStop" /\ ~stopped -> "resumeFailed"
                 [] OTHER                          -> @[w]]]

ScheduleRestart(s) ==
  IF s.attempt >= MaxRestarts THEN s
  ELSE [s EXCEPT !.attempt = @ + 1, !.timer = TRUE, !.armed = @ + 1]

-----------------------------------------------------------------------------
(* start.                                                                  *)

Spawn(s, w, c, reset) ==
  [ClearRestartTimer(s) EXCEPT
     !.attempt = IF reset THEN 0 ELSE @, !.status = "starting",
     !.child = c, !.proc[c] = "boot",
     !.stopping = @ \ {c}, !.again = @ \ {c}, !.forced = @ \ {c},
     !.starting = TRUE, !.wait[w] = "start"]

(* Variant: a start does not look for a child that is still there. *)
SpawnRegardless(s, w, c, reset) ==
  IF s.starting THEN Answer(s, w, "poll") ELSE Spawn(s, w, c, reset)

SpawnUnlessActive(s, w, c, reset) ==
  CASE s.starting           -> Answer(s, w, "poll")
    [] ~s.starting /\ s.child # NoChild -> Answer(s, w, "failed")
    [] OTHER                -> Spawn(s, w, c, reset)

Start(s, w, c, reset) ==
  LET t == SetDesiredRunning(s, TRUE)
  IN  CASE t.status = "running" -> Answer(t, w, "ok")
        [] t.status # "running" /\ t.stop.phase # "none" -> Answer(t, w, "startStop")
        [] OTHER -> SpawnUnlessActive(t, w, c, reset)

(* A start goes on after the stop it waited for.                           *)
ResumeStart(s, w, c, reset) ==
  IF s.wait[w] = "resumeFailed" /\ s.child # NoChild
  THEN Answer(s, w, "failed")
  ELSE SpawnUnlessActive(s, w, c, reset)

-----------------------------------------------------------------------------
(* stopChild, for the callers ws that wait for it (none when a startup has *)
(* timed out).  A child whose startup failed has disconnected, or is about *)
(* to: it is killed, and its stop is not clean either way.                 *)

AskToStop(s, c) ==
  CASE s.proc[c] = "boot" -> [s EXCEPT !.proc[c] = "drainBoot"]
    [] s.proc[c] = "up"   -> [s EXCEPT !.proc[c] = "drain"]
    [] s.proc[c] = "failing" -> [s EXCEPT !.proc[c] = "killed", !.forced = @ \cup {c}]
    [] OTHER -> s

StopChild(s, ws, restartAfterExit) ==
  LET c == s.child
      waiting(a) == [w \in Caller |-> IF w \in ws THEN a ELSE s.wait[w]]
      t == [s EXCEPT !.again = IF restartAfterExit THEN @ \cup {c} ELSE @,
                     !.wait = waiting("stop")]
  IN  CASE c = NoChild -> [s EXCEPT !.status = "stopped", !.wait = waiting("ok")]
        [] c # NoChild /\ s.stop.phase # "none" -> t
        [] OTHER -> AskToStop([t EXCEPT !.stopping = @ \cup {c}, !.status = "stopping",
                                        !.stop = [phase |-> "grace", acked |-> FALSE]], c)

-----------------------------------------------------------------------------
(* Events of the child c = s.child.                                        *)

(* Variant: readiness that comes late is believed. *)
ReadyAlways(s, c) ==
  FinishStart([s EXCEPT !.status = "running", !.stable = TRUE,
                        !.proc[c] = IF @ = "boot" THEN "up" ELSE "drain"], "ok")

Ready(s, c) ==
  IF c \in s.stopping THEN [s EXCEPT !.proc[c] = "drain"]
  ELSE FinishStart([s EXCEPT !.status = "running", !.stable = TRUE, !.proc[c] = "up"], "ok")

(* managedEntry sends only retryable: false.                               *)
StartupFailed(s, c) ==
  LET t == FinishStart([s EXCEPT !.proc[c] = "failing"], "failed")
  IN  IF c \in s.stopping THEN t
      ELSE [t EXCEPT !.desired = FALSE, !.status = "degraded"]

Stopped(s, c) ==
  [s EXCEPT !.proc[c] = "acked", !.stop.acked = @ \/ s.stop.phase # "none"]

(* An error that is not a failed spawn, such as of sending to the child.   *)
ChildError(s, c) ==
  FinishStart([s EXCEPT !.stable = FALSE,
                        !.status = IF c \in s.stopping THEN "stopping" ELSE "degraded"],
              "failed")

(* The child is no more, and with it its object: a WeakSet drops it.       *)
Gone(s, c, status) ==
  [s EXCEPT !.child = NoChild, !.proc[c] = "gone", !.stable = FALSE, !.status = status,
            !.stopping = @ \ {c}, !.again = @ \ {c}, !.forced = @ \ {c}]

(* A spawn that failed: the error comes on the tick after the spawn.       *)
SpawnFailed(s, c) ==
  LET t == FinishStart(Gone(s, c, "degraded"), "failed")
  IN  IF t.desired THEN ScheduleRestart(t) ELSE t

(* A stop has succeeded only if the child said so, was not forced and      *)
(* ended with code 0 and no signal (clean).                                *)
StoppedCleanly(s, c, clean) ==
  s.stop.phase # "none" /\ s.stop.acked /\ c \notin s.forced /\ clean

(* Variant: a child that outlived its stop is not replaced when it exits. *)
MayRestartUnlessStopped(s, c) == s.desired /\ (c \notin s.stopping \/ c \in s.again)

MayRestart(s, c) ==
  s.desired /\ (c \notin s.stopping \/ s.stop.phase = "none" \/ c \in s.again)

Exit(s, c, clean) ==
  LET stopped == StoppedCleanly(s, c, clean)
      t == IF s.stop.phase # "none" THEN FinishStop(s, stopped) ELSE s
      u == FinishStart(Gone(t, c, IF stopped THEN "stopped" ELSE "degraded"), "failed")
  IN  IF MayRestart(s, c) THEN ScheduleRestart(u) ELSE u

-----------------------------------------------------------------------------
(* Timeouts.                                                               *)

StartTimeout(s) ==
  StopChild([FinishStart(s, "failed") EXCEPT !.status = "degraded"], {}, TRUE)

StopTimeout(s) ==
  [s EXCEPT !.stop.phase = "force", !.forced = @ \cup {s.child}, !.proc[s.child] = "killed"]

(* Variant: a stop that was given up counts as a stop. *)
ForceTimeoutStops(s) == FinishStop([s EXCEPT !.status = "degraded"], TRUE)

ForceTimeout(s) == FinishStop([s EXCEPT !.status = "degraded"], FALSE)

RestartFires(s, c) ==
  Start([s EXCEPT !.timer = FALSE, !.armed = @ - 1], "timer", c, FALSE)

StableRun(s) == [s EXCEPT !.stable = FALSE, !.attempt = 0]

Poll(s, w) == Answer(s, w, IF s.status = "running" THEN "ok" ELSE "failed")
===============================================================================
