---------------------------- MODULE MCPromptQueue ----------------------------
(***************************************************************************)
(* TLC instances of PromptQueue.                                           *)
(***************************************************************************)
EXTENDS PromptQueue, TLC

CONSTANTS s1, s2, r1, r2, r3

\* One slot records two prompts, the other one.
MCSlotOf == (r1 :> s1) @@ (r2 :> s2) @@ (r3 :> s1)
=============================================================================
