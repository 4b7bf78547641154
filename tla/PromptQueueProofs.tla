-------------------------- MODULE PromptQueueProofs --------------------------
(***************************************************************************)
(* Proofs about PromptQueue, for any number of tasks, slots, requests,     *)
(* restarts and any limits.                                                *)
(***************************************************************************)
EXTENDS PromptQueue, SequenceTheorems, TLAPS

-----------------------------------------------------------------------------
(* The inductive invariant.                                                *)

\* The tables are typed and aligned, and a bound slot has a binding generation.
Shape ==
  /\ TypeOK
  /\ Len(submitted) = Len(jobs)
  /\ \A s \in Slot : binding[s].task \in Task => binding[s].gen # 0

\* The worker threads are the running rows: each drives the claim of its row,
\* no two the same row, and no row runs without one.
Attended ==
  /\ \A w \in workers : /\ w.job \in DOMAIN jobs
                        /\ jobs[w.job].state = "running"
                        /\ jobs[w.job].claim = w.claim
  /\ \A v, w \in workers : v.job = w.job => v = w
  /\ RunningIsAttended

\* A result in the channel is of a worker still in the map, and the only one.
Delivered ==
  /\ \A i \in DOMAIN results : \E w \in workers :
       w.job = results[i].job /\ w.claim = results[i].claim /\ w.child = "gone"
  /\ \A i, k \in DOMAIN results : results[i].job = results[k].job => i = k

\* A task runs one row at a time.
OneRunningPerTask ==
  \A j, k \in InState({"running"}) : jobs[j].task = jobs[k].task => j = k

\* How often a prompt reached Codex, by where it is now.
Counted ==
  /\ \A j \in InState({"queued"}) : submitted[j] <= jobs[j].recoveries
  /\ \A w \in workers :
       /\ w.child = "starting" => submitted[w.job] <= jobs[w.job].recoveries
       /\ w.child = "working" => submitted[w.job] > 0
  /\ \A i \in DOMAIN results : results[i].ok => submitted[results[i].job] > 0

QueueInv ==
  /\ Shape /\ Attended /\ Delivered /\ OneRunningPerTask /\ Counted
  /\ FifoPerTask /\ SubmittedOncePerRecovery

-----------------------------------------------------------------------------
(* Tables.                                                                 *)

\* The typed tables are sequences with a job, a count and a result at each place.
LEMMA Tables ==
  ASSUME Shape
  PROVE  /\ jobs \in Seq(Job) /\ Len(jobs) \in Nat /\ DOMAIN jobs = 1..Len(jobs)
         /\ submitted \in Seq(Nat) /\ DOMAIN submitted = 1..Len(jobs)
         /\ results \in Seq(Result) /\ Len(results) \in Nat
         /\ DOMAIN results = 1..Len(results)
         /\ \A j \in DOMAIN jobs : jobs[j] \in Job /\ submitted[j] \in Nat
         /\ \A i \in DOMAIN results : results[i] \in Result
  <1>1. jobs \in Seq(Job) /\ submitted \in Seq(Nat) /\ results \in Seq(Result)
    BY DEF Shape, TypeOK
  <1>2. /\ Len(jobs) \in Nat /\ DOMAIN jobs = 1..Len(jobs)
        /\ Len(results) \in Nat /\ DOMAIN results = 1..Len(results)
        /\ DOMAIN submitted = 1..Len(submitted)
    BY <1>1, LenProperties
  <1>3. Len(submitted) = Len(jobs)
    BY DEF Shape
  <1> QED
    BY <1>1, <1>2, <1>3, ElementOfSeq

\* Replacing one job by a job changes that job only.
LEMMA OneJobChanges ==
  ASSUME Shape, NEW j \in DOMAIN jobs, NEW new \in Job,
         jobs' = [jobs EXCEPT ![j] = new]
  PROVE  /\ jobs' \in Seq(Job) /\ Len(jobs') = Len(jobs) /\ DOMAIN jobs' = DOMAIN jobs
         /\ jobs'[j] = new
         /\ \A k \in DOMAIN jobs : k # j => jobs'[k] = jobs[k]
  <1>1. jobs \in Seq(Job) /\ j \in 1..Len(jobs) /\ DOMAIN jobs = 1..Len(jobs)
    BY Tables
  <1>2. jobs' \in Seq(Job) /\ Len(jobs') = Len(jobs)
        /\ \A k \in 1..Len(jobs) : jobs'[k] = IF k = j THEN new ELSE jobs[k]
    BY <1>1, ExceptSeq
  <1>3. DOMAIN jobs' = 1..Len(jobs')
    BY <1>2, LenProperties
  <1> QED BY <1>1, <1>2, <1>3

\* The result at the head of the channel, and what is left behind it.
LEMMA FirstResult ==
  ASSUME Shape, results # << >>
  PROVE  /\ 1 \in DOMAIN results /\ Head(results) = results[1]
         /\ Tail(results) \in Seq(Result)
         /\ DOMAIN Tail(results) = 1..(Len(results) - 1)
         /\ \A i \in DOMAIN Tail(results) :
              Tail(results)[i] = results[i + 1] /\ i + 1 \in DOMAIN results /\ i + 1 # 1
  <1>1. results \in Seq(Result) /\ Len(results) \in Nat /\ DOMAIN results = 1..Len(results)
    BY Tables
  <1>2. Len(results) # 0
    BY <1>1, EmptySeq
  <1>3. /\ Tail(results) \in Seq(Result)
        /\ Len(Tail(results)) = Len(results) - 1
        /\ \A i \in 1..Len(Tail(results)) : Tail(results)[i] = results[i + 1]
    BY <1>1, HeadTailProperties
  <1>4. DOMAIN Tail(results) = 1..Len(Tail(results))
    BY <1>3, LenProperties
  <1>5. Head(results) = results[1]
    BY <1>1
  <1> QED BY <1>1, <1>2, <1>3, <1>4, <1>5

-----------------------------------------------------------------------------
(* Initially, and actions that leave the rows and the threads alone.       *)

LEMMA InitHolds == Init => QueueInv
  <1> SUFFICES ASSUME Init PROVE QueueInv
    OBVIOUS
  <1>1. TypeOK
    BY QueueConstants, EmptySeq DEF Init, TypeOK
  <1>2. DOMAIN jobs = {} /\ DOMAIN results = {} /\ Len(jobs) = 0 /\ Len(submitted) = 0
    BY DEF Init
  <1>3. Shape
    BY <1>1, <1>2, QueueConstants DEF Init, Shape
  <1>4. workers = {} /\ \A S : InState(S) = {}
    BY <1>2 DEF Init, InState
  <1> QED
    BY <1>2, <1>3, <1>4 DEF QueueInv, Attended, RunningIsAttended, Delivered,
       OneRunningPerTask, Counted, FifoPerTask, SubmittedOncePerRecovery

\* Only a typed change of the bindings, the phase or the restart count.
LEMMA TablesRest ==
  ASSUME QueueInv, UNCHANGED <<jobs, workers, results, submitted>>, Shape'
  PROVE  QueueInv'
  BY DEF QueueInv, Attended, RunningIsAttended, Delivered, OneRunningPerTask, Counted,
     FifoPerTask, SubmittedOncePerRecovery, InState

LEMMA SetBindingKeeps ==
  ASSUME QueueInv, NEW s \in Slot, NEW t \in Task, SetBinding(s, t)
  PROVE  QueueInv'
  <1>1. Shape /\ TypeOK
    BY DEF QueueInv, Shape
  <1>2. UNCHANGED <<jobs, phase, workers, results, submitted, restarts>>
    BY DEF SetBinding
  <1>3. binding[s].gen + 1 \in 1..MaxBindings
    BY <1>1, QueueConstants DEF SetBinding, TypeOK
  <1>4. /\ binding' \in [Slot -> [task : Task \cup {NoTask}, gen : 0..MaxBindings]]
        /\ \A u \in Slot : binding'[u].task \in Task => binding'[u].gen # 0
    BY <1>1, <1>3 DEF SetBinding, Shape, TypeOK
  <1>5. Shape'
    BY <1>1, <1>2, <1>4 DEF Shape, TypeOK
  <1> QED BY <1>2, <1>5, TablesRest

\* BeginTick, EndDrain and EndTick move the daemon thread on.
LEMMA PhaseKeeps ==
  ASSUME QueueInv, BeginTick \/ EndDrain \/ EndTick
  PROVE  QueueInv'
  <1>1. UNCHANGED <<binding, jobs, workers, results, submitted, restarts>>
    BY DEF BeginTick, EndDrain, EndTick
  <1>2. phase' \in {"idle", "drain", "claim"}
    BY DEF BeginTick, EndDrain, EndTick
  <1>3. Shape'
    BY <1>1, <1>2 DEF QueueInv, Shape, TypeOK
  <1> QED BY <1>1, <1>3, TablesRest

-----------------------------------------------------------------------------
(* Rows are added, claimed and settled.                                    *)

LEMMA EnqueueKeeps ==
  ASSUME QueueInv, NEW r \in Request, Enqueue(r)
  PROVE  QueueInv'
  <1> DEFINE bound == binding[SlotOf[r]]
             row == [req |-> r, task |-> bound.task, gen |-> bound.gen,
                     state |-> "queued", claim |-> 0, recoveries |-> 0]
             n == Len(jobs) + 1
  <1>1. Shape
    BY DEF QueueInv
  <1>2. /\ jobs' = Append(jobs, row) /\ submitted' = Append(submitted, 0)
        /\ bound.task \in Task
        /\ UNCHANGED <<binding, phase, workers, results, restarts>>
    BY DEF Enqueue
  <1>3. row \in Job
    <2>1. SlotOf[r] \in Slot
      BY QueueConstants
    <2>2. bound.gen \in 1..MaxBindings
      BY <1>1, <1>2, <2>1 DEF Shape, TypeOK
    <2> QED BY <1>2, <2>2 DEF Job, JobState
  <1>4. /\ jobs' \in Seq(Job) /\ Len(jobs') = n /\ DOMAIN jobs' = 1..n
        /\ jobs'[n] = row /\ \A j \in DOMAIN jobs : jobs'[j] = jobs[j]
        /\ submitted' \in Seq(Nat) /\ Len(submitted') = n
        /\ submitted'[n] = 0 /\ \A j \in DOMAIN jobs : submitted'[j] = submitted[j]
        /\ DOMAIN jobs = 1..(n - 1) /\ n \in Nat
    <2>1. /\ jobs \in Seq(Job) /\ submitted \in Seq(Nat) /\ Len(submitted) = Len(jobs)
          /\ DOMAIN jobs = 1..Len(jobs) /\ Len(jobs) \in Nat
      BY <1>1, Tables DEF Shape
    <2> HIDE DEF row
    <2>2. /\ jobs' \in Seq(Job) /\ Len(jobs') = n
          /\ jobs'[n] = row /\ \A j \in 1..Len(jobs) : jobs'[j] = jobs[j]
      BY <1>2, <1>3, <2>1, AppendProperties
    <2>3. /\ submitted' \in Seq(Nat) /\ Len(submitted') = n
          /\ submitted'[n] = 0 /\ \A j \in 1..Len(jobs) : submitted'[j] = submitted[j]
      BY <1>2, <2>1, AppendProperties
    <2>4. DOMAIN jobs' = 1..n
      BY <2>2, LenProperties
    <2> QED BY <2>1, <2>2, <2>3, <2>4
  <1>5. Shape'
    BY <1>1, <1>2, <1>4 DEF Shape, TypeOK
  <1>6. n \notin DOMAIN jobs /\ DOMAIN jobs' = DOMAIN jobs \cup {n}
        /\ \A j \in DOMAIN jobs : j < n
    BY <1>4
  <1>7. jobs'[n].state = "queued" /\ jobs'[n].recoveries = 0 /\ jobs'[n].task = bound.task
    BY <1>4
  <1> HIDE DEF row, n
  <1>8. Attended'
    BY <1>2, <1>4, <1>6, <1>7 DEF QueueInv, Attended, RunningIsAttended, InState
  <1>9. Delivered'
    BY <1>2 DEF QueueInv, Delivered
  <1>10. OneRunningPerTask'
    BY <1>4, <1>6, <1>7 DEF QueueInv, OneRunningPerTask, InState
  <1>11. Counted'
    <2>1. \A w \in workers : w.job \in DOMAIN jobs
      BY DEF QueueInv, Attended
    <2>2. \A i \in DOMAIN results : results[i].job \in DOMAIN jobs
      BY <2>1 DEF QueueInv, Delivered
    <2> QED
      BY <1>2, <1>4, <1>6, <1>7, <2>1, <2>2 DEF QueueInv, Counted, InState
  <1>12. FifoPerTask'
    <2> SUFFICES ASSUME NEW j \in DOMAIN jobs', submitted'[j] > 0 \/ jobs'[j].state # "queued",
                        NEW i \in DOMAIN jobs', i < j, jobs'[i].task = jobs'[j].task
                 PROVE  jobs'[i].state \in Settled
      BY DEF FifoPerTask
    <2>1. j # n
      BY <1>4, <1>7
    <2>2. i \in DOMAIN jobs /\ j \in DOMAIN jobs
      BY <1>4, <1>6, <2>1
    <2> QED BY <1>4, <2>2 DEF QueueInv, FifoPerTask
  <1>13. SubmittedOncePerRecovery'
    BY <1>4, <1>6, <1>7 DEF QueueInv, SubmittedOncePerRecovery
  <1> QED
    BY <1>5, <1>8, <1>9, <1>10, <1>11, <1>12, <1>13 DEF QueueInv

LEMMA ClaimKeeps ==
  ASSUME QueueInv, NEW j \in DOMAIN jobs, ClaimNext(j)
  PROVE  QueueInv'
  <1> DEFINE new == [jobs[j] EXCEPT !.state = "running", !.claim = @ + 1]
             w0 == [job |-> j, claim |-> jobs[j].claim + 1, child |-> "starting"]
  <1>1. Shape /\ jobs[j] \in Job
    BY Tables DEF QueueInv
  <1>2. /\ jobs' = [jobs EXCEPT ![j] = new] /\ workers' = workers \cup {w0}
        /\ UNCHANGED <<binding, phase, results, submitted, restarts>>
    BY DEF ClaimNext
  <1>3. /\ new \in Job /\ new.state = "running" /\ new.claim = jobs[j].claim + 1
        /\ new.task = jobs[j].task /\ new.recoveries = jobs[j].recoveries
    <2>1. PICK n \in Nat : n = jobs[j].claim + 1
      BY <1>1 DEF Job
    <2>2. "running" \in JobState
      BY DEF JobState
    <2>3. new = [jobs[j] EXCEPT !.state = "running", !.claim = n]
      BY <2>1
    <2> HIDE DEF new
    <2>4. jobs[j] \in Job
      BY <1>1
    <2>5. /\ new \in Job /\ new.state = "running" /\ new.claim = n
          /\ new.task = jobs[j].task /\ new.recoveries = jobs[j].recoveries
      BY <2>2, <2>3, <2>4 DEF Job
    <2> QED BY <2>1, <2>5
  <1>4. /\ jobs[j].state = "queued"
        /\ \A k \in DOMAIN jobs : jobs[k].task = jobs[j].task => jobs[k].state # "running"
        /\ \A k \in DOMAIN jobs :
             jobs[k].task = jobs[j].task /\ jobs[k].state = "queued" => j <= k
    BY DEF ClaimNext, Claimable, Runnable, InState, JobsOf
  <1>5. w0 \in Worker /\ w0.job = j /\ w0.claim = new.claim /\ w0.child = "starting"
    <2>1. j \in Nat \ {0} /\ jobs[j].claim + 1 \in Nat
      BY <1>1, Tables DEF Job
    <2> QED BY <1>3, <2>1 DEF Worker
  <1> HIDE DEF new, w0
  <1>6. /\ jobs' \in Seq(Job) /\ Len(jobs') = Len(jobs) /\ DOMAIN jobs' = DOMAIN jobs
        /\ jobs'[j] = new /\ \A k \in DOMAIN jobs : k # j => jobs'[k] = jobs[k]
    BY <1>1, <1>2, <1>3, OneJobChanges
  <1>7. Shape'
    BY <1>1, <1>2, <1>5, <1>6 DEF Shape, TypeOK
  <1>8. \A w \in workers : w.job \in DOMAIN jobs /\ w.job # j
    BY <1>4 DEF QueueInv, Attended
  <1>9. Attended'
    BY <1>2, <1>3, <1>5, <1>6, <1>8 DEF QueueInv, Attended, RunningIsAttended, InState
  <1>10. Delivered'
    BY <1>2 DEF QueueInv, Delivered
  <1>11. OneRunningPerTask'
    BY <1>3, <1>4, <1>6 DEF QueueInv, OneRunningPerTask, InState
  <1>12. Counted'
    <2>1. submitted[j] <= jobs[j].recoveries
      BY <1>4 DEF QueueInv, Counted, InState
    <2>2. \A k \in InState({"queued"})' : submitted'[k] <= jobs'[k].recoveries
      BY <1>2, <1>3, <1>6 DEF QueueInv, Counted, InState
    <2>3. \A w \in workers' :
            /\ w.child = "starting" => submitted'[w.job] <= jobs'[w.job].recoveries
            /\ w.child = "working" => submitted'[w.job] > 0
      BY <1>2, <1>3, <1>5, <1>6, <1>8, <2>1 DEF QueueInv, Counted
    <2>4. \A i \in DOMAIN results' : results'[i].ok => submitted'[results'[i].job] > 0
      BY <1>2 DEF QueueInv, Counted
    <2> QED BY <2>2, <2>3, <2>4 DEF Counted
  <1>13. FifoPerTask'
    <2> SUFFICES ASSUME NEW k \in DOMAIN jobs, submitted[k] > 0 \/ jobs'[k].state # "queued",
                        NEW i \in DOMAIN jobs, i < k, jobs'[i].task = jobs'[k].task
                 PROVE  jobs'[i].state \in Settled
      BY <1>2, <1>6 DEF FifoPerTask
    <2>1. jobs[i].task = jobs[k].task
      BY <1>3, <1>6
    <2>2. CASE k = j
      <3>1. i \in Nat /\ j \in Nat
        BY <1>1, Tables
      <3>2. jobs[i].state \notin {"queued", "running"} /\ i # j
        BY <1>4, <2>1, <2>2, <3>1
      <3>3. jobs[i].state \in JobState
        BY <1>1, Tables DEF Job
      <3> QED BY <1>6, <3>2, <3>3 DEF JobState, Settled
    <2>3. CASE k # j
      <3>1. jobs[i].state \in Settled
        BY <1>6, <2>1, <2>3 DEF QueueInv, FifoPerTask
      <3> QED BY <1>4, <1>6, <3>1 DEF Settled
    <2> QED BY <2>2, <2>3
  <1>14. SubmittedOncePerRecovery'
    BY <1>2, <1>3, <1>6 DEF QueueInv, SubmittedOncePerRecovery
  <1> QED
    BY <1>7, <1>9, <1>10, <1>11, <1>12, <1>13, <1>14 DEF QueueInv

\* The result that is drained is the one of the running claim of its row, and
\* settles it.
LEMMA DrainKeeps ==
  ASSUME QueueInv, DrainOne
  PROVE  QueueInv'
  <1> DEFINE o == Head(results)
             j == o.job
             new == [jobs[j] EXCEPT !.state = IF o.ok THEN "completed" ELSE "failed"]
  <1>1. Shape /\ results # << >>
    BY DEF QueueInv, DrainOne
  <1>2. /\ 1 \in DOMAIN results /\ o = results[1] /\ o \in Result
    BY <1>1, FirstResult, Tables
  <1>3. PICK w0 \in workers : w0.job = j /\ w0.claim = o.claim /\ w0.child = "gone"
    BY <1>2 DEF QueueInv, Delivered
  <1>4. j \in DOMAIN jobs /\ jobs[j].state = "running" /\ jobs[j].claim = o.claim
    BY <1>3 DEF QueueInv, Attended
  <1>5. /\ jobs' = [jobs EXCEPT ![j] = new]
        /\ workers' = {w \in workers : w.job # j}
        /\ results' = Tail(results)
        /\ UNCHANGED <<binding, phase, submitted, restarts>>
    BY <1>4 DEF DrainOne, Acknowledge
  <1>6. /\ new \in Job /\ new.state \in Settled
        /\ new.task = jobs[j].task /\ new.recoveries = jobs[j].recoveries
        /\ new.state = "completed" => o.ok
    BY <1>1, <1>2, <1>4, Tables, ZenonT(60) DEF Job, JobState, Settled, Result
  <1>7. /\ DOMAIN results' = 1..(Len(results) - 1) /\ results' \in Seq(Result)
        /\ \A i \in DOMAIN results' :
             results'[i] = results[i + 1] /\ i + 1 \in DOMAIN results /\ i + 1 # 1
    BY <1>1, <1>5, FirstResult
  <1>8. o.ok => submitted[j] > 0
    BY <1>2 DEF QueueInv, Counted
  <1> HIDE DEF new, o, j
  <1>9. /\ jobs' \in Seq(Job) /\ Len(jobs') = Len(jobs) /\ DOMAIN jobs' = DOMAIN jobs
        /\ jobs'[j] = new /\ \A k \in DOMAIN jobs : k # j => jobs'[k] = jobs[k]
    BY <1>1, <1>4, <1>5, <1>6, OneJobChanges
  <1>10. Shape'
    BY <1>1, <1>5, <1>7, <1>9 DEF Shape, TypeOK
  <1>11. Attended'
    BY <1>5, <1>6, <1>9 DEF QueueInv, Attended, RunningIsAttended, InState, Settled
  <1>12. \A i \in DOMAIN results' : results'[i].job # j
    BY <1>2, <1>7 DEF QueueInv, Delivered, j
  <1>13. Delivered'
    <2>1. ASSUME NEW i \in DOMAIN results'
          PROVE  \E w \in workers' : /\ w.job = results'[i].job
                                     /\ w.claim = results'[i].claim /\ w.child = "gone"
      <3>1. PICK w \in workers : /\ w.job = results[i + 1].job
                                 /\ w.claim = results[i + 1].claim /\ w.child = "gone"
        BY <1>7 DEF QueueInv, Delivered
      <3> QED BY <1>5, <1>7, <1>12, <3>1
    <2>2. ASSUME NEW i \in DOMAIN results', NEW k \in DOMAIN results',
                 results'[i].job = results'[k].job
          PROVE  i = k
      <3>1. i + 1 = k + 1
        BY <1>7, <2>2 DEF QueueInv, Delivered
      <3>2. i \in Int /\ k \in Int
        BY <1>7
      <3> QED BY <3>1, <3>2
    <2> QED BY <2>1, <2>2 DEF Delivered
  <1>14. OneRunningPerTask'
    BY <1>6, <1>9 DEF QueueInv, OneRunningPerTask, InState, Settled
  <1>15. Counted'
    <2>1. \A k \in InState({"queued"})' : submitted'[k] <= jobs'[k].recoveries
      BY <1>5, <1>6, <1>9 DEF QueueInv, Counted, InState, Settled
    <2>2. \A w \in workers' :
            /\ w.child = "starting" => submitted'[w.job] <= jobs'[w.job].recoveries
            /\ w.child = "working" => submitted'[w.job] > 0
      BY <1>5, <1>9 DEF QueueInv, Counted, Attended
    <2>3. \A i \in DOMAIN results' : results'[i].ok => submitted'[results'[i].job] > 0
      BY <1>5, <1>7 DEF QueueInv, Counted
    <2> QED BY <2>1, <2>2, <2>3 DEF Counted
  <1>16. FifoPerTask'
    <2>1. \A k \in DOMAIN jobs : /\ jobs'[k].task = jobs[k].task
                                 /\ jobs[k].state \in Settled => jobs'[k].state \in Settled
                                 /\ jobs'[k].state # "queued" => jobs[k].state # "queued"
      BY <1>4, <1>6, <1>9
    <2> QED BY <1>5, <1>9, <2>1 DEF QueueInv, FifoPerTask
  <1>17. SubmittedOncePerRecovery'
    BY <1>5, <1>6, <1>8, <1>9 DEF QueueInv, SubmittedOncePerRecovery
  <1> QED
    BY <1>10, <1>11, <1>13, <1>14, <1>15, <1>16, <1>17 DEF QueueInv

-----------------------------------------------------------------------------
(* A worker thread, and the end of the process.                            *)

LEMMA SubmitKeeps ==
  ASSUME QueueInv, NEW w \in workers, Submit(w)
  PROVE  QueueInv'
  <1> DEFINE v == [w EXCEPT !.child = "working"]
  <1>1. Shape /\ w \in Worker /\ w.child = "starting"
    BY DEF QueueInv, Shape, TypeOK, Submit
  <1>2. v \in Worker /\ v.job = w.job /\ v.claim = w.claim /\ v.child = "working"
    BY <1>1 DEF Worker
  <1>3. /\ workers' = (workers \ {w}) \cup {v}
        /\ submitted' = [submitted EXCEPT ![w.job] = @ + 1]
        /\ UNCHANGED <<binding, jobs, phase, results, restarts>>
    BY DEF Submit
  <1>4. w.job \in DOMAIN jobs /\ jobs[w.job].state = "running"
    BY DEF QueueInv, Attended
  <1>5. /\ submitted' \in Seq(Nat) /\ Len(submitted') = Len(jobs)
        /\ submitted'[w.job] = submitted[w.job] + 1
        /\ \A k \in DOMAIN jobs : k # w.job => submitted'[k] = submitted[k]
        /\ \A k \in DOMAIN jobs : submitted[k] \in Nat
    <2>1. /\ submitted \in Seq(Nat) /\ w.job \in 1..Len(submitted)
          /\ DOMAIN jobs = 1..Len(submitted) /\ submitted[w.job] + 1 \in Nat
          /\ Len(submitted) = Len(jobs) /\ \A k \in DOMAIN jobs : submitted[k] \in Nat
      BY <1>1, <1>4, Tables DEF Shape
    <2> QED BY <1>3, <2>1, ExceptSeq
  <1> HIDE DEF v
  <1>6. Shape'
    BY <1>1, <1>2, <1>3, <1>5 DEF Shape, TypeOK
  <1>7. Attended'
    BY <1>2, <1>3 DEF QueueInv, Attended, RunningIsAttended, InState
  <1>8. Delivered'
    BY <1>1, <1>3 DEF QueueInv, Delivered
  <1>9. OneRunningPerTask'
    BY <1>3 DEF QueueInv, OneRunningPerTask, InState
  <1>10. \A u \in workers : u # w => u.job # w.job /\ u.job \in DOMAIN jobs
    BY DEF QueueInv, Attended
  <1>11. Counted'
    <2>1. \A k \in InState({"queued"})' : submitted'[k] <= jobs'[k].recoveries
      BY <1>3, <1>4, <1>5 DEF QueueInv, Counted, InState
    <2>2. \A u \in workers' :
            /\ u.child = "starting" => submitted'[u.job] <= jobs'[u.job].recoveries
            /\ u.child = "working" => submitted'[u.job] > 0
      BY <1>2, <1>3, <1>4, <1>5, <1>10, SMTT(30) DEF QueueInv, Counted
    <2>3. \A i \in DOMAIN results' : results'[i].ok => submitted'[results'[i].job] > 0
      <3>1. \A i \in DOMAIN results : results[i].job \in DOMAIN jobs
        BY DEF QueueInv, Delivered, Attended
      <3> QED BY <1>3, <1>4, <1>5, <3>1 DEF QueueInv, Counted
    <2> QED BY <2>1, <2>2, <2>3 DEF Counted
  <1>12. FifoPerTask'
    BY <1>3, <1>4, <1>5 DEF QueueInv, FifoPerTask
  <1>13. SubmittedOncePerRecovery'
    <2>1. jobs[w.job].recoveries \in Nat /\ submitted[w.job] <= jobs[w.job].recoveries
      BY <1>1, <1>4, Tables DEF QueueInv, Counted, Job
    <2> QED
      BY <1>3, <1>4, <1>5, <2>1, SMTT(30) DEF QueueInv, SubmittedOncePerRecovery
  <1> QED
    BY <1>6, <1>7, <1>8, <1>9, <1>11, <1>12, <1>13 DEF QueueInv

LEMMA ReportKeeps ==
  ASSUME QueueInv, NEW w \in workers, NEW ok \in BOOLEAN, Report(w, ok)
  PROVE  QueueInv'
  <1> DEFINE v == [w EXCEPT !.child = "gone"]
             o == [job |-> w.job, claim |-> w.claim, ok |-> ok]
             n == Len(results) + 1
  <1>1. Shape /\ w \in Worker /\ w.child # "gone" /\ (ok => w.child = "working")
    BY DEF QueueInv, Shape, TypeOK, Report
  <1>2. v \in Worker /\ v.job = w.job /\ v.claim = w.claim /\ v.child = "gone"
    BY <1>1 DEF Worker
  <1>3. o \in Result /\ o.job = w.job /\ o.claim = w.claim /\ (o.ok => w.child = "working")
    BY <1>1 DEF Worker, Result
  <1>4. /\ workers' = (workers \ {w}) \cup {v}
        /\ results' = Append(results, o)
        /\ UNCHANGED <<binding, jobs, phase, submitted, restarts>>
    BY DEF Report
  <1> HIDE DEF v, o
  <1>5. /\ results' \in Seq(Result) /\ DOMAIN results' = DOMAIN results \cup {n}
        /\ n \notin DOMAIN results /\ results'[n] = o
        /\ \A i \in DOMAIN results : results'[i] = results[i]
    <2>1. results \in Seq(Result) /\ DOMAIN results = 1..Len(results) /\ Len(results) \in Nat
      BY <1>1, Tables
    <2>2. /\ results' \in Seq(Result) /\ Len(results') = n /\ results'[n] = o
          /\ \A i \in 1..Len(results) : results'[i] = results[i]
      BY <1>3, <1>4, <2>1, AppendProperties
    <2>3. DOMAIN results' = 1..n
      BY <2>2, LenProperties
    <2> QED BY <2>1, <2>2, <2>3
  <1> HIDE DEF n
  <1>6. Shape'
    BY <1>1, <1>2, <1>4, <1>5 DEF Shape, TypeOK
  <1>7. Attended'
    BY <1>2, <1>4 DEF QueueInv, Attended, RunningIsAttended, InState
  <1>8. \A i \in DOMAIN results : results[i].job # w.job
    BY <1>1 DEF QueueInv, Delivered, Attended
  <1>9. Delivered'
    <2>1. ASSUME NEW i \in DOMAIN results'
          PROVE  \E u \in workers' : /\ u.job = results'[i].job
                                     /\ u.claim = results'[i].claim /\ u.child = "gone"
      <3>1. CASE i = n
        BY <1>2, <1>3, <1>4, <1>5, <3>1
      <3>2. CASE i \in DOMAIN results
        <4>1. PICK u \in workers : /\ u.job = results[i].job
                                   /\ u.claim = results[i].claim /\ u.child = "gone"
          BY <3>2 DEF QueueInv, Delivered
        <4> QED BY <1>1, <1>4, <1>5, <3>2, <4>1
      <3> QED BY <1>5, <3>1, <3>2
    <2>2. \A i, k \in DOMAIN results' : results'[i].job = results'[k].job => i = k
      BY <1>3, <1>5, <1>8 DEF QueueInv, Delivered
    <2> QED BY <2>1, <2>2 DEF Delivered
  <1>10. OneRunningPerTask'
    BY <1>4 DEF QueueInv, OneRunningPerTask, InState
  <1>11. Counted'
    BY <1>2, <1>3, <1>4, <1>5 DEF QueueInv, Counted, InState
  <1>12. FifoPerTask' /\ SubmittedOncePerRecovery'
    BY <1>4 DEF QueueInv, FifoPerTask, SubmittedOncePerRecovery
  <1> QED
    BY <1>6, <1>7, <1>9, <1>10, <1>11, <1>12 DEF QueueInv

LEMMA RestartKeeps ==
  ASSUME QueueInv, Restart
  PROVE  QueueInv'
  <1>1. Shape /\ Len(jobs) \in Nat /\ DOMAIN jobs = 1..Len(jobs)
        /\ \A j \in DOMAIN jobs : jobs[j] \in Job /\ submitted[j] \in Nat
    BY Tables DEF QueueInv
  <1>2. /\ jobs' = [j \in DOMAIN jobs |-> Recovered(jobs[j])]
        /\ workers' = {} /\ results' = << >> /\ phase' = "idle"
        /\ restarts' = restarts + 1 /\ restarts < MaxRestarts
        /\ UNCHANGED <<binding, submitted>>
    BY DEF Restart
  <1>3. ASSUME NEW job \in Job
        PROVE  /\ Recovered(job) \in Job
               /\ Recovered(job).task = job.task
               /\ Recovered(job).state # "running"
               /\ job.state = "running" => /\ Recovered(job).state = "queued"
                                           /\ Recovered(job).recoveries = job.recoveries + 1
               /\ job.state # "running" => Recovered(job) = job
    <2>1. PICK n \in Nat : n = job.recoveries + 1
      BY DEF Job
    <2>2. "queued" \in JobState
      BY DEF JobState
    <2>3. CASE job.state = "running"
      <3>1. Recovered(job) = [job EXCEPT !.state = "queued", !.recoveries = n]
        BY <2>1, <2>3 DEF Recovered
      <3>2. /\ Recovered(job) \in Job /\ Recovered(job).state = "queued"
            /\ Recovered(job).recoveries = n /\ Recovered(job).task = job.task
        BY <2>2, <3>1 DEF Job
      <3> QED BY <2>1, <2>3, <3>2
    <2> QED BY <2>3 DEF Recovered
  <1>4. \A j \in DOMAIN jobs : jobs'[j] = Recovered(jobs[j]) /\ jobs'[j] \in Job
    BY <1>1, <1>2, <1>3
  <1>5. /\ DOMAIN jobs' = DOMAIN jobs /\ jobs' \in Seq(Job) /\ Len(jobs') = Len(jobs)
    <2>1. jobs' \in [1..Len(jobs) -> Job]
      BY <1>1, <1>2, <1>4
    <2>2. jobs' \in Seq(Job)
      BY <1>1, <2>1, SeqDef
    <2>3. DOMAIN jobs' = 1..Len(jobs') /\ Len(jobs') \in Nat
      BY <2>2, LenProperties
    <2>4. 1..Len(jobs') = 1..Len(jobs)
      BY <2>1, <2>3
    <2>5. Len(jobs') = Len(jobs)
      <3> DEFINE a == Len(jobs')
                 b == Len(jobs)
      <3>1. a \in Nat /\ b \in Nat /\ 1..a = 1..b
        BY <1>1, <2>3, <2>4
      <3> HIDE DEF a, b
      <3>2. a = b
        BY <3>1
      <3> QED BY <3>2 DEF a, b
    <2> QED BY <1>2, <2>2, <2>5
  <1>6. Shape'
    <2>1. restarts + 1 \in 0..MaxRestarts
      BY <1>1, <1>2, QueueConstants DEF Shape, TypeOK
    <2>2. << >> \in Seq(Result)
      BY EmptySeq
    <2> QED BY <1>1, <1>2, <1>5, <2>1, <2>2 DEF Shape, TypeOK
  <1>7. InState({"running"})' = {}
    BY <1>1, <1>3, <1>4, <1>5 DEF InState
  <1>8. DOMAIN results' = {}
    BY <1>2
  <1>9. Attended' /\ Delivered' /\ OneRunningPerTask'
    BY <1>2, <1>7, <1>8 DEF Attended, RunningIsAttended, Delivered, OneRunningPerTask
  <1>10. Counted'
    <2>1. ASSUME NEW j \in DOMAIN jobs, jobs'[j].state = "queued"
          PROVE  submitted[j] <= jobs'[j].recoveries
      <3>1. CASE jobs[j].state = "running"
        BY <1>1, <1>3, <1>4, <3>1 DEF QueueInv, SubmittedOncePerRecovery
      <3>2. CASE jobs[j].state # "running"
        BY <1>1, <1>3, <1>4, <2>1, <3>2 DEF QueueInv, Counted, InState
      <3> QED BY <3>1, <3>2
    <2> QED BY <1>2, <1>5, <1>8, <2>1 DEF Counted, InState
  <1>11. FifoPerTask'
    <2>1. \A j \in DOMAIN jobs : /\ jobs'[j].task = jobs[j].task
                                 /\ jobs[j].state \in Settled => jobs'[j].state \in Settled
                                 /\ jobs'[j].state # "queued" => jobs[j].state # "queued"
      BY <1>1, <1>3, <1>4 DEF Settled
    <2> QED BY <1>2, <1>5, <2>1 DEF QueueInv, FifoPerTask
  <1>12. SubmittedOncePerRecovery'
    <2>1. ASSUME NEW j \in DOMAIN jobs
          PROVE  /\ submitted[j] <= jobs'[j].recoveries + 1
                 /\ jobs'[j].state = "completed" => submitted[j] > 0
      <3>1. CASE jobs[j].state = "running"
        <4>1. jobs[j].recoveries \in Nat
          BY <1>1 DEF Job
        <4> QED BY <1>1, <1>3, <1>4, <3>1, <4>1 DEF QueueInv, SubmittedOncePerRecovery
      <3>2. CASE jobs[j].state # "running"
        BY <1>1, <1>3, <1>4, <3>2 DEF QueueInv, SubmittedOncePerRecovery
      <3> QED BY <3>1, <3>2
    <2> QED BY <1>2, <1>5, <2>1 DEF SubmittedOncePerRecovery
  <1> QED
    BY <1>6, <1>9, <1>10, <1>11, <1>12 DEF QueueInv

-----------------------------------------------------------------------------
(* The theorems.                                                           *)

LEMMA NextKeeps == QueueInv /\ [Next]_vars => QueueInv'
  <1> SUFFICES ASSUME QueueInv, [Next]_vars PROVE QueueInv'
    OBVIOUS
  <1>1. CASE UNCHANGED vars
    <2>1. Shape'
      BY <1>1 DEF vars, QueueInv, Shape, TypeOK
    <2> QED BY <1>1, <2>1, TablesRest DEF vars
  <1>2. CASE Next
    BY <1>2, SetBindingKeeps, EnqueueKeeps, PhaseKeeps, ClaimKeeps, DrainKeeps, SubmitKeeps,
       ReportKeeps, RestartKeeps DEF Next, Tick
  <1> QED BY <1>1, <1>2

\* The inductive invariant holds in every reachable state of the prompt queue.
THEOREM QueueInvariance == Spec => []QueueInv
  BY InitHolds, NextKeeps, PTL DEF Spec

\* ChildrenAgree: no two Codex children of one task, and no running row without a
\* worker thread, for any number of tasks, jobs and restarts (prompt_queue.rs,
\* claim_next_runnable of store.rs).
THEOREM OneChild == Spec => []ChildrenAgree
  <1>1. QueueInv => ChildrenAgree
    <2> SUFFICES ASSUME QueueInv PROVE ChildrenAgree
      OBVIOUS
    <2>1. OneChildPerTask
      BY DEF QueueInv, Attended, OneRunningPerTask, InState, OneChildPerTask, Children
    <2> QED BY <2>1 DEF QueueInv, Shape, Attended, ChildrenAgree
  <1> QED BY <1>1, QueueInvariance, PTL

\* FifoPerTask: prompts of a task reach Codex in the order they were enqueued,
\* across restarts (claim_next_runnable, recover_interrupted_jobs of store.rs).
THEOREM Fifo == Spec => []FifoPerTask
  <1>1. QueueInv => FifoPerTask
    BY DEF QueueInv
  <1> QED BY <1>1, QueueInvariance, PTL

\* SubmittedOncePerRecovery: a prompt reaches Codex again only after a recovery
\* (recover_interrupted_jobs of store.rs).
THEOREM SubmittedOnce == Spec => []SubmittedOncePerRecovery
  <1>1. QueueInv => SubmittedOncePerRecovery
    BY DEF QueueInv
  <1> QED BY <1>1, QueueInvariance, PTL
=============================================================================
