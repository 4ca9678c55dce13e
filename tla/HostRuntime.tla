------------------------------- MODULE HostRuntime ----------------------------
(***************************************************************************)
(* The host process: HostRuntime, which executes one control request after *)
(* another, makes the initial start and closes; HostApplication, which     *)
(* retries a close that failed; the DaemonSupervisor they drive; and the   *)
(* daemon processes.  One action is an event handler or a continuation up  *)
(* to its next await.  Continuations of settled promises run before the    *)
(* next event: that is Quiet.                                              *)
(***************************************************************************)
EXTENDS DaemonSupervisor

CONSTANT Requests        \* the control requests that clients make

ASSUME RequestsAssumption == Requests \subseteq {"start", "stop", "restart", "apply"}

VARIABLES
  sup,         \* the supervisor and its processes
  wanted,      \* desiredDaemonRunning, as persisted: what the user asked for
  boot,        \* how far startInitialDaemon is
  op,          \* the request that executes and where it waits
  shutdown,    \* shutdownRequested
  host         \* the close of the host

vars == <<sup, wanted, boot, op, shutdown, host>>

Op == {"none", "start", "stop", "restart", "restarting", "staging", "asking", "lost",
       "halting", "preparing", "launching", "aborting", "recovering", "recovered"}

Host == {"open", "draining", "stopping", "closed"}

(* The initial start: to come, or made.  That it came amid an update, after *)
(* it told the daemon to stop, is remembered until the next request: only  *)
(* properties read it.                                                     *)
Boot == {"due", "made", "amid"}
Updating == {"halting", "preparing", "launching"}

TypeOK ==
  /\ sup \in Supervisor
  /\ wanted \in BOOLEAN
  /\ boot \in Boot
  /\ op \in Op
  /\ shutdown \in BOOLEAN
  /\ host \in Host

Init ==
  /\ wanted \in BOOLEAN
  /\ sup = InitialSupervisor(wanted)
  /\ boot = "due"
  /\ op = "none"
  /\ shutdown = FALSE
  /\ host = "open"

Resuming  == {w \in Caller : sup.wait[w] \in {"resume", "resumeFailed"}}
Answered  == {w \in Caller : sup.wait[w] \in {"ok", "failed"}}

Quiet == host # "closed" /\ Resuming = {} /\ Answered = {} /\ op # "lost"

Fresh == {c \in Children : sup.proc[c] = "gone"}

(* start(false) is the start of the restart timer and of the recovery of   *)
(* an update.                                                              *)
Resets(w) == w # "timer" /\ (w = "queue" => op # "recovered")

-----------------------------------------------------------------------------
(* Continuations.  A start that awaits the stop promise itself is nearer   *)
(* to it than those that await stop().                                     *)

Resume(w) ==
  /\ w \in Resuming
  /\ \E c \in Fresh : sup' = ResumeStart(sup, w, c, Resets(w))
  /\ UNCHANGED <<wanted, boot, op, shutdown, host>>

(* The caller w has its answer; clear the wait and go on with s.           *)
Reply(w) == Resuming = {} /\ w \in Answered

Answerless(w) == Answer(sup, w, "none")

(* The initial start and the restart timer ignore the answer.              *)
Ignored(w) ==
  /\ w \in {"init", "timer"} /\ Reply(w)
  /\ sup' = Answerless(w)
  /\ UNCHANGED <<wanted, boot, op, shutdown, host>>

OpEnds ==
  /\ Reply("queue")
  /\ \/ op \in {"start", "stop", "restarting", "recovered"}
     \/ op = "restart" /\ sup.wait["queue"] = "failed"
     \/ op = "halting" /\ shutdown
  /\ sup' = Answerless("queue")
  /\ op' = "none"
  /\ UNCHANGED <<wanted, boot, shutdown, host>>

RestartContinues ==
  /\ Reply("queue") /\ op = "restart" /\ sup.wait["queue"] = "ok"
  /\ \E c \in Fresh :
       sup' = Start([Answerless("queue") EXCEPT !.attempt = 0], "queue", c, TRUE)
  /\ op' = "restarting"
  /\ UNCHANGED <<wanted, boot, shutdown, host>>

-----------------------------------------------------------------------------
(* Requests.                                                               *)

Begin(r) ==
  /\ Quiet /\ op = "none" /\ ~shutdown /\ r \in Requests
  /\ boot' = IF boot = "due" THEN "due" ELSE "made"
  /\ UNCHANGED <<shutdown, host>>

RequestStart ==
  /\ Begin("start")
  /\ wanted' = TRUE
  /\ op' = "start"
  /\ \E c \in Fresh : sup' = Start(SetDesiredRunning(sup, TRUE), "queue", c, TRUE)

RequestStop ==
  /\ Begin("stop")
  /\ wanted' = FALSE
  /\ op' = "stop"
  /\ sup' = StopChild(SetDesiredRunning(sup, FALSE), {"queue"}, FALSE)

RequestRestart ==
  /\ Begin("restart")
  /\ wanted' = TRUE
  /\ op' = "restart"
  /\ sup' = StopChild(SetDesiredRunning(sup, FALSE), {"queue"}, FALSE)

RequestApply ==
  /\ Begin("apply")
  /\ op' = "staging"
  /\ UNCHANGED <<sup, wanted>>

(* applyUpdate: staging fails, or is followed by the readiness request.  A *)
(* daemon that does not run cannot be asked.                               *)
Staged ==
  /\ Quiet /\ op = "staging"
  /\ op' \in IF shutdown THEN {"none"}
             ELSE {"none", IF sup.status = "running" THEN "asking" ELSE "lost"}
  /\ UNCHANGED <<sup, wanted, boot, shutdown, host>>

(* The daemon is drained, has active work, or could not drain.             *)
ReadinessOk ==
  /\ Quiet /\ op = "asking" /\ sup.child # NoChild /\ sup.proc[sup.child] = "up"
  /\ op' = "halting"
  /\ sup' = StopChild(sup, {"queue"}, FALSE)
  /\ UNCHANGED <<wanted, boot, shutdown, host>>

ReadinessRefused ==
  /\ Quiet /\ op = "asking" /\ sup.child # NoChild /\ sup.proc[sup.child] = "up"
  /\ op' \in {"none", "lost"}
  /\ UNCHANGED <<sup, wanted, boot, shutdown, host>>

ReadinessTimeout ==
  /\ Quiet /\ op = "asking"
  /\ op' = "lost"
  /\ UNCHANGED <<sup, wanted, boot, shutdown, host>>

UpdateStopped ==
  /\ Reply("queue") /\ op = "halting" /\ sup.wait["queue"] = "ok" /\ ~shutdown
  /\ sup' = Answerless("queue")
  /\ op' = "preparing"
  /\ UNCHANGED <<wanted, boot, shutdown, host>>

Prepared ==
  /\ Quiet /\ op = "preparing"
  /\ op' \in IF shutdown THEN {"aborting"} ELSE {"launching", "aborting"}
  /\ UNCHANGED <<sup, wanted, boot, shutdown, host>>

Launched ==
  /\ Quiet /\ op = "launching"
  /\ \/ op' = "none" /\ shutdown' = TRUE
     \/ op' = "aborting" /\ UNCHANGED shutdown
  /\ UNCHANGED <<sup, wanted, boot, host>>

(* The recovery of an update that failed before the daemon had stopped.    *)
Recover ==
  /\ \/ op = "lost" /\ Resuming = {}
     \/ op = "halting" /\ Reply("queue") /\ sup.wait["queue"] = "failed" /\ ~shutdown
  /\ IF shutdown
     THEN op' = "none" /\ UNCHANGED sup
     ELSE op' = "recovering" /\ sup' = StopChild(Answerless("queue"), {"queue"}, FALSE)
  /\ UNCHANGED <<wanted, boot, shutdown, host>>

StartAfterStop ==
  /\ Reply("queue") /\ op = "recovering"
  /\ op' = "recovered"
  /\ \E c \in Fresh : sup' = Start(Answerless("queue"), "queue", c, FALSE)
  /\ UNCHANGED <<wanted, boot, shutdown, host>>

(* The recovery of an update that failed after the daemon had stopped.     *)
Aborted ==
  /\ Quiet /\ op = "aborting"
  /\ IF shutdown
     THEN op' = "none" /\ UNCHANGED sup
     ELSE op' = "recovered" /\ \E c \in Fresh : sup' = Start(sup, "queue", c, FALSE)
  /\ UNCHANGED <<wanted, boot, shutdown, host>>

-----------------------------------------------------------------------------
(* The initial start and the close.                                        *)

InitialStart ==
  /\ Quiet /\ boot = "due"
  /\ boot' = IF op \in Updating THEN "amid" ELSE "made"
  /\ IF shutdown \/ ~wanted THEN UNCHANGED sup
     ELSE \E c \in Fresh : sup' = Start(sup, "init", c, TRUE)
  /\ UNCHANGED <<wanted, op, shutdown, host>>

(* host.shutdown, or a signal.                                             *)
RequestShutdown ==
  /\ Quiet /\ ~shutdown
  /\ shutdown' = TRUE
  /\ UNCHANGED <<sup, wanted, boot, op, host>>

BeginClose ==
  /\ Quiet /\ shutdown /\ host = "open"
  /\ host' = "draining"
  /\ UNCHANGED <<sup, wanted, boot, op, shutdown>>

(* Variant: the close does not wait for the request that executes. *)
CloseDaemonAtOnce ==
  /\ host = "draining" /\ Resuming = {}
  /\ host' = "stopping"
  /\ sup' = StopChild(SetDesiredRunning(sup, FALSE), {"close"}, FALSE)
  /\ UNCHANGED <<wanted, boot, op, shutdown>>

CloseDaemon ==
  /\ host = "draining" /\ op = "none" /\ Resuming = {}
  /\ host' = "stopping"
  /\ sup' = StopChild(SetDesiredRunning(sup, FALSE), {"close"}, FALSE)
  /\ UNCHANGED <<wanted, boot, op, shutdown>>

(* Variant: a close that failed is not tried again. *)
ClosedForGood ==
  /\ host = "stopping" /\ Reply("close")
  /\ host' = IF sup.wait["close"] = "ok" THEN "closed" ELSE "stopping"
  /\ sup' = Answerless("close")
  /\ UNCHANGED <<wanted, boot, op, shutdown>>

Closed ==
  /\ host = "stopping" /\ Reply("close")
  /\ host' = IF sup.wait["close"] = "ok" THEN "closed" ELSE "open"
  /\ sup' = Answerless("close")
  /\ UNCHANGED <<wanted, boot, op, shutdown>>

-----------------------------------------------------------------------------
(* Events of the daemon process, and timers.                               *)

Event == Quiet /\ UNCHANGED <<wanted, boot, shutdown, host>>

(* The requests for readiness fail with the child.                         *)
ReadinessFails == op' = IF op = "asking" THEN "lost" ELSE op

DaemonReady(c) ==
  /\ Event /\ c = sup.child /\ sup.proc[c] \in {"boot", "drainBoot"}
  /\ sup' = Ready(sup, c)
  /\ UNCHANGED op

DaemonStartupFails(c) ==
  /\ Event /\ c = sup.child /\ sup.proc[c] \in {"boot", "drainBoot"}
  /\ sup' = StartupFailed(sup, c)
  /\ UNCHANGED op

DaemonStopped(c) ==
  /\ Event /\ c = sup.child /\ sup.proc[c] \in {"drainBoot", "drain"}
  /\ sup' = Stopped(sup, c)
  /\ UNCHANGED op

DaemonErrs(c) ==
  /\ Event /\ c = sup.child /\ (c \in sup.stopping \/ op = "asking")
  /\ sup' = ChildError(sup, c)
  /\ ReadinessFails

SpawnFails(c) ==
  /\ Event /\ c = sup.child /\ sup.proc[c] = "boot"
  /\ sup' = SpawnFailed(sup, c)
  /\ ReadinessFails

DaemonExits(c) ==
  /\ Event /\ c = sup.child /\ sup.proc[c] # "gone"
  /\ \E clean \in {FALSE, sup.proc[c] = "acked"} : sup' = Exit(sup, c, clean)
  /\ ReadinessFails

StartTimesOut ==
  /\ Event /\ sup.starting
  /\ sup' = StartTimeout(sup)
  /\ UNCHANGED op

StopTimesOut ==
  /\ Event /\ sup.stop.phase = "grace"
  /\ sup' = StopTimeout(sup)
  /\ UNCHANGED op

ForceTimesOut ==
  /\ Event /\ sup.stop.phase = "force"
  /\ sup' = ForceTimeout(sup)
  /\ UNCHANGED op

RestartTimer ==
  /\ Event /\ sup.armed > 0
  /\ \E c \in Fresh : sup' = RestartFires(sup, c)
  /\ UNCHANGED op

StableTimer ==
  /\ Event /\ sup.stable
  /\ sup' = StableRun(sup)
  /\ UNCHANGED op

PollStart(w) ==
  /\ Event /\ sup.wait[w] = "poll"
  /\ sup.status = "running" \/ ~sup.starting
  /\ sup' = Poll(sup, w)
  /\ UNCHANGED op

-----------------------------------------------------------------------------
Continue ==
  \/ \E w \in Caller : Resume(w) \/ Ignored(w)
  \/ OpEnds \/ RestartContinues \/ UpdateStopped \/ Recover \/ StartAfterStop
  \/ CloseDaemon \/ Closed

Timeouts == StartTimesOut \/ StopTimesOut \/ ForceTimesOut \/ ReadinessTimeout

Update == Staged \/ Prepared \/ Launched \/ Aborted

Next ==
  \/ Continue \/ Timeouts \/ Update \/ \E w \in Caller : PollStart(w)
  \/ RequestStart \/ RequestStop \/ RequestRestart \/ RequestApply
  \/ ReadinessOk \/ ReadinessRefused
  \/ InitialStart \/ RequestShutdown \/ BeginClose
  \/ RestartTimer \/ StableTimer
  \/ \E c \in Children :
       \/ DaemonReady(c) \/ DaemonStartupFails(c) \/ DaemonStopped(c) \/ DaemonErrs(c)
       \/ SpawnFails(c) \/ DaemonExits(c)

Spec == Init /\ [][Next]_vars

(* The event loop runs what is due, timeouts fire, an update step ends,    *)
(* and a process that was sent SIGKILL is gone sooner or later.  The       *)
(* fairness is strong because other callbacks may come first, but not for  *)
(* ever; a poll every 25 ms sees a start that failed before the restart    *)
(* timer of 250 ms fires.                                                  *)
Fairness ==
  /\ WF_vars(Continue) /\ WF_vars(CloseDaemon)
  /\ SF_vars(Timeouts) /\ SF_vars(\E w \in Caller : PollStart(w))
  /\ SF_vars(\E c \in Children : sup.proc[c] = "killed" /\ DaemonExits(c))

Work == Update \/ BeginClose \/ InitialStart

FairSpec == Spec /\ Fairness /\ SF_vars(Work)

-----------------------------------------------------------------------------
(* Properties.                                                             *)

(* There is at most one daemon process, the one the supervisor holds: two  *)
(* daemons would share the data directory.  daemonSupervisor.ts:160 refuses*)
(* a start while a child that did not stop is still there.                 *)
OneDaemon == Running(sup) \subseteq {sup.child}

(* A restart is pending only while no daemon runs or stops and one is      *)
(* desired, and no timer is ever out of reach of clearRestartTimer.        *)
TimerInv ==
  /\ sup.armed = IF sup.timer THEN 1 ELSE 0
  /\ sup.timer => sup.desired /\ sup.child = NoChild /\ sup.stop.phase = "none"

(* A status of running is true: a process that has said it is ready and    *)
(* was not told to stop.                                                   *)
RunningIsServing ==
  sup.status = "running" =>
    sup.child # NoChild /\ sup.proc[sup.child] = "up" /\ sup.child \notin sup.stopping

(* While the installer is prepared and launched no daemon runs and none is *)
(* about to be restarted (docs/recovery.md:182).  The initial start, which *)
(* is not queued with the requests, breaks it (hostRuntime.ts:158).        *)
InstallsAlone ==
  op \in {"preparing", "launching"} => sup.child = NoChild /\ ~sup.timer

(* Nothing else breaks it: a daemon that runs by the installer is there on *)
(* account of an initial start that came amid this very update.            *)
OnlyBootIntrudes == boot # "amid" => InstallsAlone

(* A host that has closed leaves no restart pending, and no daemon behind  *)
(* (hostApplication.test.ts:109) but one that an initial start has brought *)
(* which waited for the same stop as the close (daemonSupervisor.ts:142).  *)
OnlyBootIsLeft ==
  host = "closed" => sup.armed = 0 /\ (Running(sup) = {} \/ sup.wait["init"] = "start")

(* A desired daemon that is not there will be started, unless the crash    *)
(* loop was given up or the host closes: no error path forgets it.         *)
NeverForgotten ==
  Quiet /\ boot # "due" /\ op = "none" /\ ~shutdown /\ sup.desired /\ sup.child = NoChild =>
    sup.timer \/ sup.attempt = MaxRestarts

(* What the user asked for last: a daemon that was stopped stays stopped.  *)
(* docs/recovery.md:183 says that a failed update restores the requested   *)
(* daemon state; hostRuntime.ts:303 starts the daemon whatever it is.      *)
StopWins ==
  Quiet /\ op = "none" /\ ~wanted =>
    sup.child = NoChild \/ sup.child \in sup.stopping

(* Every control request is answered.                                      *)
RequestEnds == op # "none" ~> op = "none"

(* A host that was asked to shut down does so, retrying a stop that was    *)
(* not clean.                                                              *)
HostCloses == shutdown ~> host = "closed"
===============================================================================
