----------------------------- MODULE PromptPromise ----------------------------
(***************************************************************************)
(* What DeskCue promises about a prompt, without how it keeps the promise: *)
(* the process that carries a prompt is started at most once, and a prompt *)
(* that DeskCue offers to send again has reached no runtime and never      *)
(* will.                                                                   *)
(***************************************************************************)
CONSTANT Prompt

VARIABLES
  verdict,     \* what DeskCue holds of each prompt
  running,     \* the prompts whose process runs
  taken        \* the prompts that a runtime has taken

pvars == <<verdict, running, taken>>

Verdict == {"unasked", "asked", "retryable", "open", "closed"}

PromiseTypeOK ==
  /\ verdict \in [Prompt -> Verdict]
  /\ running \subseteq Prompt
  /\ taken \subseteq Prompt

Init ==
  /\ verdict = [d \in Prompt |-> "unasked"]
  /\ running = {}
  /\ taken = {}

(* How a verdict may change.  A prompt whose process was started becomes   *)
(* retryable again only when that process is gone without having taken it. *)
MayBecome(d, old, new) ==
  \/ new = old
  \/ old = "unasked" /\ new = "asked"
  \/ old = "asked" /\ new \in {"open", "retryable", "closed"}
  \/ old = "open" /\ new = "retryable" /\ d \notin taken /\ d \notin running'
  \/ old \in {"open", "retryable"} /\ new = "closed"

(* DeskCue judges prompts, and processes end.                              *)
Judge ==
  /\ verdict' \in [Prompt -> Verdict]
  /\ \A d \in Prompt : MayBecome(d, verdict[d], verdict'[d])
  /\ running' \subseteq running
  /\ taken' = taken

Start(d) ==
  /\ verdict[d] = "asked"
  /\ verdict' = [verdict EXCEPT ![d] = "open"]
  /\ running' = running \cup {d}
  /\ taken' = taken

Take(d) ==
  /\ d \in running
  /\ taken' = taken \cup {d}
  /\ UNCHANGED <<verdict, running>>

Next == Judge \/ \E d \in Prompt : Start(d) \/ Take(d)

Spec == Init /\ [][Next]_pvars

-----------------------------------------------------------------------------
(* What follows from it: a prompt that may be sent again is in no runtime, *)
(* and in no process that could still hand it to one.                      *)
RetryIsNoDuplicate ==
  \A d \in Prompt :
    verdict[d] \in {"unasked", "asked", "retryable"} => d \notin taken \cup running
=============================================================================
