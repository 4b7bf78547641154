----------------------------- MODULE PromptQueue -----------------------------
(***************************************************************************)
(* The durable prompt FIFO: the jobs table of store.rs, enqueue_slot and   *)
(* DurablePromptScheduler of prompt_queue.rs, and the Codex child process  *)
(* each worker thread drives (codex_runner.rs).                            *)
(*                                                                         *)
(* The daemon thread (health.rs serve_until) alternates between enqueueing *)
(* recognised prompts, handling bindings and one scheduler tick.  A tick   *)
(* is split at its transactions, because the process may end between any   *)
(* two of them and because worker threads send results while it runs.      *)
(*                                                                         *)
(* Data.  A job is its position in the table (`sequence`).  A request id   *)
(* carries its slot.  Transcripts are left out: the store compares them    *)
(* only to tell a replay from a conflict, and inserts nothing either way.  *)
(***************************************************************************)
EXTENDS Naturals, Sequences, FiniteSets

CONSTANTS Task, Slot, NoTask,
          Request,      \* request ids of recordings
          SlotOf,       \* Request -> Slot
          MaxPending,   \* MAX_PENDING_JOBS_PER_TASK
          MaxRunning,   \* MAX_GLOBAL_RUNNING_JOBS
          MaxBindings,  \* bound: binding generation of one slot
          MaxRestarts   \* bound: process ends

ASSUME QueueConstants ==
  /\ NoTask \notin Task
  /\ SlotOf \in [Request -> Slot]
  /\ MaxPending \in Nat \ {0} /\ MaxRunning \in Nat \ {0}
  /\ MaxBindings \in Nat /\ MaxRestarts \in Nat

VARIABLES binding,    \* slot -> bound task and binding generation
          jobs,       \* the jobs table, in sequence order
          phase,      \* daemon thread: between ticks, draining, or claiming
          workers,    \* scheduler.workers: [job, claim, child]
          results,    \* the mpsc channel: [job, claim, ok]
          submitted,  \* job -> times its prompt reached a Codex child (history)
          restarts

vars == <<binding, jobs, phase, workers, results, submitted, restarts>>

JobState == {"queued", "running", "completed", "failed"}
Settled == {"completed", "failed"}

Job == [req : Request, task : Task, gen : 1..MaxBindings,
        state : JobState, claim : Nat, recoveries : Nat]
Worker == [job : Nat \ {0}, claim : Nat, child : {"starting", "working", "gone"}]
Result == [job : Nat \ {0}, claim : Nat, ok : BOOLEAN]

JobsOf(t, S) == {j \in DOMAIN jobs : jobs[j].task = t /\ jobs[j].state \in S}
InState(S) == {j \in DOMAIN jobs : jobs[j].state \in S}

-----------------------------------------------------------------------------
Init ==
  /\ binding = [s \in Slot |-> [task |-> NoTask, gen |-> 0]]
  /\ jobs = << >>
  /\ phase = "idle"
  /\ workers = {}
  /\ results = << >>
  /\ submitted = << >>
  /\ restarts = 0

\* set_binding through the control connection.
SetBinding(s, t) ==
  /\ phase = "idle"
  /\ binding[s].gen < MaxBindings
  /\ binding' = [binding EXCEPT ![s] = [task |-> t, gen |-> @.gen + 1]]
  /\ UNCHANGED <<jobs, phase, workers, results, submitted, restarts>>

\* enqueue_slot and enqueue: a request id already in the table is a replay or a
\* conflict and inserts nothing; a full task queue refuses.
Enqueue(r) ==
  /\ phase = "idle"
  /\ LET bound == binding[SlotOf[r]]
     IN  /\ bound.task \in Task
         /\ \A j \in DOMAIN jobs : jobs[j].req # r
         /\ Cardinality(JobsOf(bound.task, {"queued", "running"})) < MaxPending
         /\ jobs' = Append(jobs, [req |-> r, task |-> bound.task, gen |-> bound.gen,
                                  state |-> "queued", claim |-> 0, recoveries |-> 0])
  /\ submitted' = Append(submitted, 0)
  /\ UNCHANGED <<binding, phase, workers, results, restarts>>

-----------------------------------------------------------------------------
(* One scheduler tick.                                                     *)

BeginTick ==
  /\ phase = "idle"
  /\ phase' = "drain"
  /\ UNCHANGED <<binding, jobs, workers, results, submitted, restarts>>

\* mark_completed and mark_failed: only the running claim the result belongs to.
Acknowledge(o) ==
  IF jobs[o.job].state = "running" /\ jobs[o.job].claim = o.claim
  THEN [jobs EXCEPT ![o.job].state = IF o.ok THEN "completed" ELSE "failed"]
  ELSE jobs

\* Mutant of DrainOne: the finished worker stays in the map.
DrainKeepingWorker ==
  /\ phase = "drain"
  /\ results # << >>
  /\ jobs' = Acknowledge(Head(results))
  /\ results' = Tail(results)
  /\ UNCHANGED <<binding, phase, workers, submitted, restarts>>

\* One received result: the worker is joined and removed, the outcome recorded.
DrainOne ==
  /\ phase = "drain"
  /\ results # << >>
  /\ workers' = {w \in workers : w.job # Head(results).job}
  /\ jobs' = Acknowledge(Head(results))
  /\ results' = Tail(results)
  /\ UNCHANGED <<binding, phase, submitted, restarts>>

EndDrain ==
  /\ phase = "drain"
  /\ results = << >>
  /\ phase' = "claim"
  /\ UNCHANGED <<binding, jobs, workers, results, submitted, restarts>>

\* Mutant of Runnable: a task may run two jobs.
RunnableAnyHead ==
  {j \in InState({"queued"}) : \A k \in JobsOf(jobs[j].task, {"queued"}) : j <= k}

\* Mutant of Runnable: the newest prompt of a task goes first.
RunnableNewest ==
  {j \in InState({"queued"}) :
     /\ JobsOf(jobs[j].task, {"running"}) = {}
     /\ \A k \in JobsOf(jobs[j].task, {"queued"}) : k <= j}

\* claim_next_runnable's candidates: the head of a task that runs nothing.
Runnable ==
  {j \in InState({"queued"}) :
     /\ JobsOf(jobs[j].task, {"running"}) = {}
     /\ \A k \in JobsOf(jobs[j].task, {"queued"}) : j <= k}

Claimable(j) ==
  /\ Cardinality(InState({"running"})) < MaxRunning
  /\ j \in Runnable
  /\ \A k \in Runnable : j <= k

\* claim_next_runnable and start: the claim is committed, then the worker thread
\* is spawned.
ClaimNext(j) ==
  /\ phase = "claim"
  /\ Cardinality(workers) < MaxRunning
  /\ Claimable(j)
  /\ jobs' = [jobs EXCEPT ![j].state = "running", ![j].claim = @ + 1]
  /\ workers' = workers \cup {[job |-> j, claim |-> jobs[j].claim + 1, child |-> "starting"]}
  /\ UNCHANGED <<binding, phase, results, submitted, restarts>>

EndTick ==
  /\ phase = "claim"
  /\ \/ Cardinality(workers) >= MaxRunning
     \/ \A j \in DOMAIN jobs : ~Claimable(j)
  /\ phase' = "idle"
  /\ UNCHANGED <<binding, jobs, workers, results, submitted, restarts>>

-----------------------------------------------------------------------------
(* A worker thread (run_with_cancel, drive_child).                         *)

\* The child is spawned in the task's directory and reads the prompt.
Submit(w) ==
  /\ w \in workers /\ w.child = "starting"
  /\ workers' = (workers \ {w}) \cup {[w EXCEPT !.child = "working"]}
  /\ submitted' = [submitted EXCEPT ![w.job] = @ + 1]
  /\ UNCHANGED <<binding, jobs, phase, results, restarts>>

\* The child is gone (it exited, was killed on timeout or oversized output, or
\* never started) and the thread sends its result.
Report(w, ok) ==
  /\ w \in workers
  /\ w.child = "working" \/ (w.child = "starting" /\ ~ok)
  /\ workers' = (workers \ {w}) \cup {[w EXCEPT !.child = "gone"]}
  /\ results' = Append(results, [job |-> w.job, claim |-> w.claim, ok |-> ok])
  /\ UNCHANGED <<binding, jobs, phase, submitted, restarts>>

-----------------------------------------------------------------------------
\* Mutant of Recovered: the recovery writes a state the table does not have.
RecoveredAsInterrupted(job) ==
  IF job.state = "running" THEN [job EXCEPT !.state = "interrupted"] ELSE job

\* Mutant of Recovered: the recovery is not counted.
RecoveredUncounted(job) ==
  IF job.state = "running" THEN [job EXCEPT !.state = "queued"] ELSE job

\* recover_interrupted_jobs on one job.
Recovered(job) ==
  IF job.state = "running"
  THEN [job EXCEPT !.state = "queued", !.recoveries = @ + 1]
  ELSE job

\* The process ends, by a crash or by shutdown_without_acknowledging, which
\* discards every result not drained; the children end with it (parent-death
\* signal, supervisor or job object).  StateStore::open requeues.
Restart ==
  /\ restarts < MaxRestarts
  /\ restarts' = restarts + 1
  /\ jobs' = [j \in DOMAIN jobs |-> Recovered(jobs[j])]
  /\ phase' = "idle"
  /\ workers' = {}
  /\ results' = << >>
  /\ UNCHANGED <<binding, submitted>>

-----------------------------------------------------------------------------
Tick == BeginTick \/ DrainOne \/ EndDrain \/ (\E j \in DOMAIN jobs : ClaimNext(j)) \/ EndTick

Next ==
  \/ \E s \in Slot, t \in Task : SetBinding(s, t)
  \/ \E r \in Request : Enqueue(r)
  \/ Tick
  \/ \E w \in workers : Submit(w) \/ (\E ok \in BOOLEAN : Report(w, ok))
  \/ Restart

Spec == Init /\ [][Next]_vars

\* The daemon loop keeps ticking, and every child ends: the runner's deadline
\* kills one that does not.
FairSpec ==
  /\ Spec
  /\ WF_vars(Tick)
  /\ \A j \in 1..Cardinality(Request) :
       WF_vars(\E w \in workers : w.job = j /\ \E ok \in BOOLEAN : Report(w, ok))

-----------------------------------------------------------------------------
(* Properties.                                                             *)

\* The table, the threads and the channel have their types.
TypeOK ==
  /\ binding \in [Slot -> [task : Task \cup {NoTask}, gen : 0..MaxBindings]]
  /\ jobs \in Seq(Job)
  /\ phase \in {"idle", "drain", "claim"}
  /\ workers \in SUBSET Worker
  /\ results \in Seq(Result)
  /\ submitted \in Seq(Nat)
  /\ restarts \in 0..MaxRestarts

\* Live children, and the task each works for.
Children == {w \in workers : w.child # "gone"}

\* No two Codex children of one task exist at a time, however ticks, late
\* results, full queues and restarts interleave (codex would refuse the second
\* with an active session).
OneChildPerTask ==
  \A v, w \in Children : jobs[v.job].task = jobs[w.job].task => v = w

\* A running row always has a worker or an undelivered result behind it: no job
\* is stuck until the next process start.
RunningIsAttended ==
  \A j \in InState({"running"}) :
    \E w \in workers : w.job = j /\ w.claim = jobs[j].claim

\* Table, worker threads and children agree on what runs (and have their types).
ChildrenAgree == TypeOK /\ OneChildPerTask /\ RunningIsAttended

\* Per-task FIFO: a prompt has reached Codex only if every earlier prompt of its
\* task has been settled, also when interrupted prompts are requeued.
FifoPerTask ==
  \A j \in DOMAIN jobs : submitted[j] > 0 \/ jobs[j].state # "queued" =>
    \A i \in DOMAIN jobs : i < j /\ jobs[i].task = jobs[j].task => jobs[i].state \in Settled

\* A prompt reaches Codex again only because the process ended while it ran:
\* once per recovery at most, and never once settled as completed without
\* having reached it.
SubmittedOncePerRecovery ==
  \A j \in DOMAIN jobs :
    /\ submitted[j] <= jobs[j].recoveries + 1
    /\ jobs[j].state = "completed" => submitted[j] > 0

\* Every queued prompt is eventually settled.
EveryPromptSettles ==
  \A j \in 1..Cardinality(Request) :
    (j \in DOMAIN jobs) ~> (j \in DOMAIN jobs /\ jobs[j].state \in Settled)
=============================================================================
