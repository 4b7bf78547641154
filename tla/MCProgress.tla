----------------------------- MODULE MCProgress -----------------------------
(***************************************************************************)
(* Model values for the parts of the Host that must come to an end by their *)
(* threads' own steps: a completion that waits for its summary              *)
(* ("summaries", as long as nothing is heard), a Codex run that writes one  *)
(* ("run"), a recording that is assembled ("capture").  They share no state *)
(* here and are explored one at a time; a part that rests has no step that  *)
(* its fairness could ask for.                                              *)
(***************************************************************************)
EXTENDS SummaryPipeline, SparkRun, VoiceCapture

VARIABLE part

mcVars == <<part, allVars, sparkVars, captureVars>>

Completion(id, pack) == [id |-> id, pack |-> pack]
Sound == <<Completion("c1", "one final answer"), Completion("c2", "one final answer")>>
MCClaims == {[completions |-> Sound, previous |-> "sound"],
             [completions |-> Sound, previous |-> "missing"],
             [completions |-> << >>, previous |-> "none"],
             [completions |-> Append(Sound, Completion("c3", "one final answer")), previous |-> "none"],
             [completions |-> <<Completion("c1", "of another turn")>>, previous |-> "none"]}

MCInit ==
  /\ part \in {"summaries", "run", "capture"}
  /\ PipelineInit
  /\ SparkInit /\ (part # "run" => platform = "linux")
  /\ CaptureInit

MCNext ==
  \/ part = "summaries" /\ PipelineNext /\ UNCHANGED <<part, sparkVars, captureVars>>
  \/ part = "run" /\ SparkNext /\ UNCHANGED <<part, allVars, captureVars>>
  \/ part = "capture" /\ CaptureNext /\ UNCHANGED <<part, allVars, sparkVars>>

MCSpec ==
  /\ MCInit /\ [][MCNext]_mcVars
  /\ PipelineFairness /\ SparkFairness /\ CaptureFairness
=============================================================================
