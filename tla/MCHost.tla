-------------------------------- MODULE MCHost --------------------------------
(***************************************************************************)
(* The two components of the host: the supervision of the daemon with two  *)
(* processes and two automatic restarts, and the update service with three *)
(* versions.  What joins them, the outcome of each step of an update, is   *)
(* free in both, so the initial state chooses the one that is driven.      *)
(***************************************************************************)
EXTENDS HostRuntime, UpdateManager

VARIABLE focus                  \* the component that is driven

HostInit ==
  /\ focus \in {"daemon", "update"}
  /\ Init /\ UpdateInit
  /\ focus = "daemon" => installed = 1
  /\ focus = "update" => ~wanted

HostNext ==
  /\ UNCHANGED focus
  /\ \/ focus = "daemon" /\ Next /\ UNCHANGED UpdateVars
     \/ focus = "update" /\ UpdateNext /\ UNCHANGED vars

(* A daemon at rest would still have its initial start to do; nothing else *)
(* that is fair is enabled in its initial state.                           *)
HostSpec ==
  /\ HostInit
  /\ [][HostNext]_<<focus, vars, UpdateVars>>
  /\ Fairness /\ SF_vars(focus = "daemon" /\ Work)
===============================================================================
