--------------------------- MODULE MCPromptDelivery ---------------------------
(* Instances of PromptDelivery.  Two prompts are enough for a second one   *)
(* to be sent while something of the first is unfinished.                  *)
EXTENDS PromptDelivery
=============================================================================
