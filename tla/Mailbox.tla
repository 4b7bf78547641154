------------------------------- MODULE Mailbox -------------------------------
(***************************************************************************)
(* What the Host promises about one completed Codex turn.                  *)
(*                                                                         *)
(* A completion of a task is first pending, then part of the one unread    *)
(* summary of its task, then heard.  It never moves backwards and never    *)
(* skips a stage: nothing is heard that was not first published, and what  *)
(* is unread becomes heard all together, because the unread summary of a   *)
(* task is cumulative.  Generations, claims, leases, crashes and caches do *)
(* not appear here; SummaryLedger and SummaryPipeline implement this.      *)
(***************************************************************************)
EXTENDS Naturals, Sequences

CONSTANTS Task,           \* the Codex tasks
          MaxCompletions  \* bound: completions recorded for one task

VARIABLE status           \* status[t][n]: stage of the n-th completion of t

Stage == {"pending", "unread", "heard"}

Init == status = [t \in Task |-> << >>]

Having(t, stage) == {n \in DOMAIN status[t] : status[t][n] = stage}

\* Completions in S move to the given stage.
Moved(t, S, stage) ==
  [status EXCEPT ![t] = [n \in DOMAIN status[t] |->
                           IF n \in S THEN stage ELSE status[t][n]]]

Arrive(t) ==
  /\ Len(status[t]) < MaxCompletions
  /\ status' = [status EXCEPT ![t] = Append(@, "pending")]

\* A new cumulative summary takes in the oldest pending completions.
Publish(t) ==
  \E S \in SUBSET Having(t, "pending") :
    /\ S # {}
    /\ \A n \in S, m \in Having(t, "pending") : m < n => m \in S
    /\ status' = Moved(t, S, "unread")

\* The unread summary has been played to its end.
Hear(t) ==
  /\ Having(t, "unread") # {}
  /\ status' = Moved(t, Having(t, "unread"), "heard")

Next == \E t \in Task : Arrive(t) \/ Publish(t) \/ Hear(t)

Spec == Init /\ [][Next]_status
=============================================================================
