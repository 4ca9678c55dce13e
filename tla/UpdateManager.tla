----------------------------- MODULE UpdateManager -----------------------------
(***************************************************************************)
(* HostUpdateService and the UpdateManager of @deskcue/update: the file    *)
(* update-state.json, the installers in the stage directory, and the       *)
(* operations on them, which the queue of the host runs one by one after   *)
(* the start has reconciled the two.  The host may crash, a write of the   *)
(* state may fail, an installer may be damaged, and another version may be *)
(* installed by hand.                                                      *)
(***************************************************************************)
EXTENDS Naturals

CONSTANTS MaxVersion,           \* versions are numbers; each channel has a feed
          UpdateFaults          \* "write", "damage", "byHand": what may happen

ASSUME MaxVersionAssumption == MaxVersion \in Nat \ {0}

VARIABLES installed,            \* currentVersion: what runs when the host runs
          file,                 \* update-state.json
          stage,                \* staged installers: "none", "whole" or "broken"
          hostProcess,          \* "down", "up" or "leaving", after a launch
          service,              \* state.phase and managerChannel of the service
          job,                  \* the operation under way
          installer,            \* the version that is being installed, or 0
          damage                \* history: damaged installers, failed writes

UpdateVars == <<installed, file, stage, hostProcess, service, job, installer, damage>>

Version == 1 .. MaxVersion

Channel == {"stable", "beta"}

NoVersion == 0

(* createInitialUpdateState.                                               *)
Initial(channel) ==
  [version |-> installed, channel |-> channel, phase |-> "idle", target |-> NoVersion]

NoState == [version |-> 0, channel |-> "stable", phase |-> "idle", target |-> NoVersion]

NoOperation ==
  [kind |-> "none", step |-> "none", was |-> NoState, next |-> NoState,
   then |-> "end", fail |-> "refresh"]

UpdateInit ==
  /\ installed \in Version
  /\ file = Initial("stable")
  /\ stage = [v \in Version |-> "none"]
  /\ hostProcess = "down"
  /\ service = [phase |-> "idle", channel |-> "stable"]
  /\ job = NoOperation
  /\ installer = NoVersion
  /\ damage = [touched |-> {}, unreconciled |-> FALSE]

-----------------------------------------------------------------------------
(* writeState and what follows it: then when it is written, fail when it   *)
(* is not.                                                                 *)
Write(next, then, fail) ==
  job' = [job EXCEPT !.step = "writing", !.next = next, !.then = then, !.fail = fail]

(* A state that writeState was given carries the version and the channel.  *)
Own(state, phase) == [state EXCEPT !.phase = phase, !.version = installed, !.channel = service.channel]

At(kind, step) == job.kind = kind /\ job.step = step

Ends(phase) ==
  /\ job' = NoOperation
  /\ service' = [service EXCEPT !.phase = phase]

StateWritten ==
  /\ job.step = "writing"
  /\ file' = job.next
  /\ job' = [job EXCEPT !.step = job.then]
  /\ UNCHANGED <<installed, stage, hostProcess, service, installer, damage>>

(* What follows a reconciliation.                                          *)
Continued == IF job.kind = "start" THEN "end" ELSE "refreshing"

(* A result that is not written is recorded as a failure of the operation; *)
(* a launch that failed is recorded by launchApply, or else by abortApply, *)
(* and a state that was to be recovered from becomes one that failed.      *)
OnFailure == IF job.kind = "start" THEN "failed" ELSE "keep"

WriteFails ==
  /\ job.step = "writing" /\ "write" \in UpdateFaults
  /\ CASE job.fail = "mark"    -> Write([job.was EXCEPT !.phase = "failed"], "end", "refresh") /\ UNCHANGED service
       [] job.fail = "again"   -> Write(job.next, job.then, "keep") /\ UNCHANGED service
       [] job.fail = "recover" -> Write([file EXCEPT !.phase = "failed"], Continued, OnFailure) /\ UNCHANGED service
       [] job.fail = "keep"    -> Ends(service.phase)
       [] job.fail = "refresh" -> Ends(file.phase)
       [] job.fail = "failed"  -> Ends("failed")
  /\ damage' = [damage EXCEPT !.unreconciled =
                @ \/ (job.then \in {"cleaning", Continued} /\ job.fail # "recover")]
  /\ UNCHANGED <<installed, file, stage, hostProcess, installer>>

(* refresh().                                                              *)
OperationEnds ==
  /\ job.step = "end"
  /\ Ends(file.phase)
  /\ UNCHANGED <<installed, file, stage, hostProcess, installer, damage>>

(* cleanupUpdateStageArtifacts.                                            *)
Kept(v) == [u \in Version |-> IF u = v THEN stage[u] ELSE "none"]

-----------------------------------------------------------------------------
(* reconcileInstalledVersion, at the start or when the channel changes.    *)
(* What it finds is what an operation left that was interrupted.           *)
Whole == file.target # NoVersion /\ stage[file.target] = "whole"


(* Variant: what was staged for another version of the program is kept.    *)
AfreshForChannel ==
  \/ file.channel # service.channel
  \/ file.phase = "checking"
  \/ file.phase = "applying" /\ file.target = installed

Afresh ==
  \/ file.channel # service.channel
  \/ file.version # installed
  \/ file.phase = "checking"
  \/ file.phase = "applying" /\ file.target = installed

Recovered ==
  CASE file.phase = "applying"    -> [file EXCEPT !.phase = IF Whole THEN "staged" ELSE "failed"]
    [] file.phase = "downloading" -> [file EXCEPT !.phase = IF Whole THEN "staged" ELSE "available"]

ReconcilesState ==
  /\ job.step = "reconciling"
  /\ CASE Afresh -> Write(Initial(service.channel), "cleaning", OnFailure)
       [] ~Afresh /\ file.phase \in {"applying", "downloading"} ->
              Write(Recovered, Continued, IF Recovered.phase = "failed" THEN OnFailure ELSE "recover")
       [] OTHER -> job' = [job EXCEPT !.step = Continued]
  /\ UNCHANGED <<installed, file, hostProcess, service, installer, damage>>

(* Variant: the installers go before the state that names them.            *)
ReconcilesCleanFirst ==
  /\ ReconcilesState
  /\ stage' = IF Afresh THEN Kept(NoVersion) ELSE Kept(file.target)

Reconciles ==
  /\ ReconcilesState
  /\ stage' = Kept(IF ~Afresh /\ file.phase = "downloading" /\ ~Whole THEN NoVersion ELSE file.target)

Cleans ==
  /\ job.step = "cleaning"
  /\ stage' = Kept(file.target)
  /\ job' = [job EXCEPT !.step = Continued]
  /\ UNCHANGED <<installed, file, hostProcess, service, installer, damage>>

(* initialize, with the default channel; selectManager.                    *)
HostStarts ==
  /\ hostProcess = "down" /\ installer = NoVersion
  /\ hostProcess' = "up"
  /\ service' = [phase |-> "idle", channel |-> "stable"]
  /\ job' = [NoOperation EXCEPT !.kind = "start", !.step = "reconciling"]
  /\ UNCHANGED <<installed, file, stage, installer, damage>>

Requested(kind, channel) ==
  /\ hostProcess = "up" /\ job.step = "none"
  /\ service' = [service EXCEPT !.channel = channel]
  /\ job' = [NoOperation EXCEPT !.kind = kind,
              !.step = IF channel = service.channel THEN "refreshing" ELSE "reconciling"]
  /\ UNCHANGED <<installed, file, stage, hostProcess, installer, damage>>

-----------------------------------------------------------------------------
(* checkForUpdate.                                                         *)
CheckBegins ==
  /\ At("check", "refreshing")
  /\ job' = [job EXCEPT !.step = "writing", !.was = file, !.next = Own(file, "checking"),
                      !.then = "fetching", !.fail = "refresh"]
  /\ service' = [service EXCEPT !.phase = "checking"]
  /\ UNCHANGED <<installed, file, stage, hostProcess, installer, damage>>

(* The feed has a newer version, or this one; an older one is refused.     *)
CheckFinds(v) ==
  /\ At("check", "fetching") /\ v >= installed
  /\ Write(IF v > installed THEN [Own(job.was, "available") EXCEPT !.target = v]
           ELSE [Own(job.was, "idle") EXCEPT !.target = NoVersion], "end", "mark")
  /\ UNCHANGED <<installed, file, stage, hostProcess, service, installer, damage>>

CheckFails ==
  /\ At("check", "fetching")
  /\ \/ Write([job.was EXCEPT !.phase = "failed"], "end", "refresh")
     \/ Write(Own(job.was, job.was.phase), "end", "refresh")
  /\ UNCHANGED <<installed, file, stage, hostProcess, service, installer, damage>>

(* stageAvailable: an available update is downloaded first.                *)
DownloadBegins ==
  /\ At("apply", "refreshing") /\ file.phase = "available"
  /\ job' = [job EXCEPT !.step = "writing", !.was = file, !.next = Own(file, "downloading"),
                      !.then = "downloading", !.fail = "refresh"]
  /\ service' = [service EXCEPT !.phase = "downloading"]
  /\ UNCHANGED <<installed, file, stage, hostProcess, installer, damage>>

(* The installer of an earlier download is used if it is still whole.      *)
DownloadFound ==
  /\ At("apply", "downloading")
  /\ stage' = IF Whole THEN Kept(file.target) ELSE Kept(NoVersion)
  /\ IF Whole THEN Write(Own(job.was, "staged"), "staging", "mark")
     ELSE job' = [job EXCEPT !.step = "receiving"]
  /\ UNCHANGED <<installed, file, hostProcess, service, installer, damage>>

DownloadReceived ==
  /\ At("apply", "receiving")
  /\ stage' = [stage EXCEPT ![file.target] = "whole"]
  /\ damage' = [damage EXCEPT !.touched = @ \ {file.target}]
  /\ Write(Own(job.was, "staged"), "staging", "mark")
  /\ UNCHANGED <<installed, file, hostProcess, service, installer>>

DownloadFails ==
  /\ At("apply", "receiving")
  /\ \/ Write([job.was EXCEPT !.phase = "failed"], "end", "refresh")
     \/ Write(Own(job.was, "available"), "end", "refresh")
  /\ UNCHANGED <<installed, file, stage, hostProcess, service, installer, damage>>

(* Staged, and the daemon is asked and stopped (HostRuntime).              *)
StageSucceeds ==
  /\ \/ At("apply", "staging")
     \/ At("apply", "refreshing") /\ file.phase # "available"
  /\ IF file.phase = "staged"
     THEN /\ job' = [job EXCEPT !.step = "staged"]
          /\ service' = [service EXCEPT !.phase = "staged"]
     ELSE Ends(file.phase)
  /\ UNCHANGED <<installed, file, stage, hostProcess, installer, damage>>

ApplyRefused ==
  /\ At("apply", "staged")
  /\ Ends(service.phase)
  /\ UNCHANGED <<installed, file, stage, hostProcess, installer, damage>>

(* prepareApply verifies the installer and writes that it is applied.      *)
PreparesApply ==
  /\ At("apply", "staged")
  /\ IF Whole
     THEN /\ Write(Own(file, "applying"), "launching", "refresh")
          /\ service' = [service EXCEPT !.phase = "applying"]
     ELSE Ends(file.phase)
  /\ UNCHANGED <<installed, file, stage, hostProcess, installer, damage>>

(* launchInstallerApplyHandoff launches a copy that it verified.           *)
Launches ==
  /\ At("apply", "launching") /\ Whole
  /\ installer' = file.target
  /\ hostProcess' = "leaving"
  /\ job' = NoOperation
  /\ UNCHANGED <<installed, file, stage, service, damage>>

(* It did not verify or start, or the host is to shut down.                *)
LaunchFails ==
  /\ At("apply", "launching")
  /\ \E fail \in {"again", "keep"} : Write([file EXCEPT !.phase = "staged"], "end", fail)
  /\ UNCHANGED <<installed, file, stage, hostProcess, service, installer, damage>>

-----------------------------------------------------------------------------
(* What happens to the host and its files.                                 *)
HostGoes ==
  /\ hostProcess # "down"
  /\ hostProcess' = "down"
  /\ job' = NoOperation
  /\ UNCHANGED <<installed, file, stage, service, installer, damage>>

InstallerEnds ==
  /\ installer # NoVersion /\ hostProcess = "down"
  /\ installed' \in {installed, installer}
  /\ installer' = NoVersion
  /\ UNCHANGED <<file, stage, hostProcess, service, job, damage>>

InstalledByHand(v) ==
  /\ hostProcess = "down" /\ installer = NoVersion /\ "byHand" \in UpdateFaults
  /\ installed' = v
  /\ UNCHANGED <<file, stage, hostProcess, service, job, installer, damage>>

Damaged(v) ==
  /\ stage[v] = "whole" /\ "damage" \in UpdateFaults
  /\ stage' = [stage EXCEPT ![v] = "broken"]
  /\ damage' = [damage EXCEPT !.touched = @ \cup {v}]
  /\ UNCHANGED <<installed, file, hostProcess, service, job, installer>>

UpdateNext ==
  \/ StateWritten \/ WriteFails \/ OperationEnds \/ Reconciles \/ Cleans
  \/ HostStarts \/ HostGoes \/ InstallerEnds
  \/ \E channel \in Channel : Requested("check", channel) \/ Requested("apply", channel)
  \/ CheckBegins \/ CheckFails \/ DownloadBegins \/ DownloadFound \/ DownloadReceived
  \/ DownloadFails \/ StageSucceeds \/ ApplyRefused \/ PreparesApply \/ Launches \/ LaunchFails
  \/ \E v \in Version : CheckFinds(v) \/ InstalledByHand(v) \/ Damaged(v)

UpdateSpec == UpdateInit /\ [][UpdateNext]_UpdateVars

-----------------------------------------------------------------------------
(* An installer the state calls staged is there, and whole unless somebody *)
(* damaged it: wherever the host stopped, the state was changed before the *)
(* files that it names were removed (reconcileInstalledVersion).           *)
StagedIsKept ==
  file.phase \in {"staged", "applying"} /\ file.target \notin damage.touched =>
    stage[file.target] = "whole"

(* An update that is launched is newer than what is installed, whatever    *)
(* was installed since it was staged; a start that could not save what it  *)
(* reconciled is the exception.                                            *)
NeverBackwards ==
  [][installer' # installer /\ installer' # NoVersion =>
       installer' > installed \/ damage.unreconciled]_UpdateVars

(* docs/recovery.md:184: a still-valid staged installer remains retryable  *)
(* after an interrupted check, download or apply.                          *)
StagedRemains ==
  [][job.kind = "start" /\ file.phase \in {"checking", "downloading", "applying"}
       /\ file.version = installed /\ file.channel = service.channel
       /\ file.target > installed /\ Whole
         => file'.target = file.target]_UpdateVars
===============================================================================
