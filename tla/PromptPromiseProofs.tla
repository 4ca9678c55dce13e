-------------------------- MODULE PromptPromiseProofs -------------------------
(* What the promise is worth, for any set of prompts.                      *)
EXTENDS PromptPromise, TLAPS

LEMMA PromiseTyped == Spec => []PromiseTypeOK
  <1>1. Init => PromiseTypeOK
    BY DEF Init, PromiseTypeOK, Verdict
  <1>2. PromiseTypeOK /\ [Next]_pvars => PromiseTypeOK'
    BY DEF PromiseTypeOK, Next, Judge, Start, Take, pvars, Verdict
  <1> QED BY <1>1, <1>2, PTL DEF Spec

(* A prompt that may be sent again has reached no runtime, and no process  *)
(* is left that could hand it to one.                                      *)
THEOREM RetryNeverDuplicates == Spec => []RetryIsNoDuplicate
  <1>1. Init => RetryIsNoDuplicate
    BY DEF Init, RetryIsNoDuplicate
  <1>2. ASSUME PromiseTypeOK, RetryIsNoDuplicate, [Next]_pvars
        PROVE  RetryIsNoDuplicate'
    <2>1. ASSUME Judge PROVE RetryIsNoDuplicate'
      BY <1>2, <2>1 DEF Judge, MayBecome, RetryIsNoDuplicate
    <2>2. ASSUME NEW d \in Prompt, Start(d) PROVE RetryIsNoDuplicate'
      BY <1>2, <2>2 DEF Start, RetryIsNoDuplicate, PromiseTypeOK
    <2>3. ASSUME NEW d \in Prompt, Take(d) PROVE RetryIsNoDuplicate'
      BY <1>2, <2>3 DEF Take, RetryIsNoDuplicate
    <2>4. CASE UNCHANGED pvars
      BY <1>2, <2>4 DEF pvars, RetryIsNoDuplicate
    <2> QED BY <1>2, <2>1, <2>2, <2>3, <2>4 DEF Next
  <1> QED BY <1>1, <1>2, PromiseTyped, PTL DEF Spec
=============================================================================
