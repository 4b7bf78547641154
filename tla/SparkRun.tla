------------------------------ MODULE SparkRun ------------------------------
(***************************************************************************)
(* One Codex run that writes a summary: spark_runner.rs (macOS and Linux)   *)
(* and windows_spark_runner.rs.  The run has a directory of its own, holds  *)
(* the lock of its task and the owner lock of its directory, and starts a   *)
(* Codex child that must not outlive its Host: on macOS through a           *)
(* supervisor process that inherits both locks and listens on two guardian  *)
(* sockets, on Linux through the parent death signal, on Windows through a  *)
(* job object.                                                              *)
(*                                                                         *)
(* A lock belongs to an open file: it is held until it is unlocked, or      *)
(* until the last process that has the file open ends.  SIGKILL to a        *)
(* process group ends all its processes in one step.                        *)
(***************************************************************************)
EXTENDS Naturals, Sequences, FiniteSets, SequencesExt

CONSTANTS Hosts,      \* Host processes: the service, the command line
          Tasks,
          Claims,     \* claims the ledger may hand out: [completions, previous]
          MaxClaimed, \* MAX_SUMMARY_COMPLETIONS_PER_CLAIM
          Platforms,  \* the systems that are tried, of "macos", "linux", "windows"
          MaxRuns,    \* bound: runs that are started
          MaxDeaths   \* bound: Host processes and supervisors that die

ASSUME SparkConstants ==
  Platforms \subseteq {"macos", "linux", "windows"} /\ MaxRuns \in Nat /\ MaxDeaths \in Nat

VARIABLES platform,
          up,       \* the Host processes that run
          runs,     \* sequence of all runs
          sweeper,  \* the run that holds .sweep.lock, or 0
          sock,     \* task -> the run whose supervisor bound its guardian socket, or 0
          deaths

sparkVars == <<platform, up, runs, sweeper, sock, deaths>>

Ids == DOMAIN runs
\* The stages of a run: mkdir, made, wait, attach, drive, read, drop, unlocked, over, lost.

\* The Host still works on the run: it is in live_runs and live_tasks.
Registered(i) == runs[i].stage \notin {"over", "lost", "unlocked"}

\* The parts of a run that keep its two lock files open besides the Host.
Inherited(i) ==
  CASE platform = "macos" -> runs[i].sup \notin {"none", "dead"}
    [] platform = "linux" -> runs[i].child = "alive"
    [] platform = "windows" -> FALSE

\* Mutant of Locked: the child does not inherit the lock files.
LockedByHost(i) == Registered(i)

Locked(i) == Registered(i) \/ (runs[i].stage = "lost" /\ Inherited(i))

\* A supervisor answers on its sockets.
Guarded(i) == runs[i].sup \in {"bound", "ready", "watch", "hold"}

TaskBusy(t) ==
  \/ sock[t] # 0 /\ Guarded(sock[t])
  \/ \E i \in Ids : runs[i].task = t /\ Locked(i)

\* sweep_stale_runs: the directories nobody owns any more.
Stale(i) ==
  /\ runs[i].dir \in {"bare", "owned"}
  /\ ~Registered(i)
  /\ runs[i].dir = "owned" => ~Locked(i)
  /\ ~Guarded(i)

\* valid_assistant_turn_pack: the pack is of this completion and holds one final answer.
ValidPack(completion) == completion.pack = "one final answer"

\* validate_claim_input: the previous summary is there exactly when the claim names one.
ValidClaimInput(claim) ==
  /\ Len(claim.completions) \in 1..MaxClaimed
  /\ claim.previous \in {"none", "sound"}
  /\ \A k \in DOMAIN claim.completions : ValidPack(claim.completions[k])

ExpectedCovers(claim) == [k \in DOMAIN claim.completions |-> claim.completions[k].id]

\* build_prompt, assistant_completions: what the child is told.
BuildPrompt(claim) == [previous |-> claim.previous, completions |-> ExpectedCovers(claim)]

\* What a child may leave behind: a document about what it was told, or about less of it or
\* in another order; or a trace of something it was not to do.
Traces == {"output", "login", "workspace", "scratch", "database"}
Leavings(prompt) ==
  LET ids == prompt.completions
  IN  [covers : {ids}, trace : Traces] \cup [covers : {ids, Tail(ids), Reverse(ids)}, trace : {"none"}]

\* The file that is read is the one that was made, and no longer than it may be.
OutputIntact(left) == left.trace # "output"
AuthCopyIntact(left) == left.trace # "login"
\* audit: nothing but what Codex needs, in the directories that were made.
WorkspaceAudit(left) == left.trace # "workspace"
Arg0Scratch(left) == left.trace # "scratch"
RuntimeDatabases(left) == left.trace # "database"

\* The login is still the file that was copied.
VerifySource(r) == r.fresh

With(i, r) == runs' = [runs EXCEPT ![i] = r]
Host(i) == runs[i].host \in up

\* kill of the process group, JobObject::terminate
Killed(r) == [r EXCEPT !.sup = IF @ = "none" THEN "none" ELSE "dead",
                       !.child = IF @ = "none" THEN "none" ELSE "dead"]

SparkInit ==
  /\ platform \in Platforms
  /\ up = Hosts /\ runs = << >> /\ sweeper = 0
  /\ sock = [t \in Tasks |-> 0]
  /\ deaths = 0

-----------------------------------------------------------------------------
(* The Host.                                                               *)

\* SparkRunFiles::create, to the new directory: under the sweep lock, a task that is
\* guarded or locked is busy; then stale runs are swept.  Windows has no guardians.
Create(h, t, claim) ==
  /\ h \in up /\ Len(runs) < MaxRuns
  /\ ValidClaimInput(claim)
  /\ sweeper = 0
  /\ ~TaskBusy(t)
  /\ runs' = Append([i \in Ids |-> IF Stale(i) THEN [runs[i] EXCEPT !.dir = "gone"] ELSE runs[i]],
                    [task |-> t, host |-> h, claim |-> claim, stage |-> "mkdir", sup |-> "none",
                     child |-> "none", job |-> FALSE, code |-> "none", dir |-> "bare",
                     out |-> "none", fresh |-> TRUE])
  /\ sweeper' = Len(runs) + 1
  /\ sock' = [sock EXCEPT ![t] = 0]
  /\ UNCHANGED <<platform, up, deaths>>

\* The owner lock, the private copies and the sandbox; then the sweep lock is given back.
Own(i) ==
  /\ runs[i].stage = "mkdir"
  /\ With(i, [runs[i] EXCEPT !.stage = "made", !.dir = "owned"])
  /\ sweeper' = 0
  /\ UNCHANGED <<platform, up, sock, deaths>>

\* The child, or its supervisor, starts; but on Windows, once the user's login was compared
\* with the copy again.
Spawn(i) ==
  /\ runs[i].stage = "made" /\ (VerifySource(runs[i]) \/ platform = "windows")
  /\ With(i, CASE platform = "macos" -> [runs[i] EXCEPT !.stage = "wait", !.sup = "started"]
               [] platform = "linux" -> [runs[i] EXCEPT !.stage = "drive", !.child = "alive"]
               [] platform = "windows" -> [runs[i] EXCEPT !.stage = "attach", !.child = "alive"])
  /\ UNCHANGED <<platform, up, sweeper, sock, deaths>>

\* JobObject::attach
Attach(i) ==
  /\ runs[i].stage = "attach"
  /\ With(i, [runs[i] EXCEPT !.stage = "drive", !.job = TRUE])
  /\ UNCHANGED <<platform, up, sweeper, sock, deaths>>

\* SPARK_SUPERVISOR_READY was read.
Ready(i) ==
  /\ runs[i].stage = "wait" /\ runs[i].sup \in {"ready", "watch", "hold"}
  /\ With(i, [runs[i] EXCEPT !.stage = "drive"])
  /\ UNCHANGED <<platform, up, sweeper, sock, deaths>>

\* Mutant of StopRun: the files are dropped while the child still runs.
StopRunChildRunning(i) ==
  /\ runs[i].stage \in {"mkdir", "made", "wait", "attach", "drive", "read"}
  /\ With(i, [runs[i] EXCEPT !.stage = "drop"])
  /\ sweeper' = IF sweeper = i THEN 0 ELSE sweeper
  /\ UNCHANGED <<platform, up, sock, deaths>>

\* Any error, a monitor that found something, the deadline or a cancellation: ChildGuard
\* kills the process group before the run is dropped.
StopRun(i) ==
  /\ runs[i].stage \in {"mkdir", "made", "wait", "attach", "drive", "read"}
  /\ With(i, [Killed(runs[i]) EXCEPT !.stage = "drop"])
  /\ sweeper' = IF sweeper = i THEN 0 ELSE sweeper
  /\ UNCHANGED <<platform, up, sock, deaths>>

\* drive_child: the exit code came, from the supervisor that holds or from the child.  The
\* rest of the process group is killed.  A supervisor that died says nothing of its child.
Ended(i) ==
  IF platform = "macos" THEN runs[i].sup \in {"hold", "dead"} ELSE runs[i].child = "dead"

ChildDone(i) ==
  /\ runs[i].stage = "drive" /\ Ended(i)
  /\ LET ok == runs[i].code = "ok" /\ runs[i].sup # "dead"
     IN  With(i, [Killed(runs[i]) EXCEPT !.stage = IF ok THEN "read" ELSE "drop"])
  /\ UNCHANGED <<platform, up, sweeper, sock, deaths>>

\* The last checks: the workspace and its databases (not on Windows), the login, the output
\* file, and that the document covers the completions of the claim, in their order.
Accepted(r, left) ==
  /\ platform = "windows" \/ (WorkspaceAudit(left) /\ Arg0Scratch(left) /\ RuntimeDatabases(left))
  /\ AuthCopyIntact(left) /\ VerifySource(r)
  /\ OutputIntact(left) /\ left.covers = ExpectedCovers(r.claim)

Read(i) ==
  /\ runs[i].stage = "read"
  /\ \E left \in Leavings(BuildPrompt(runs[i].claim)) :
       With(i, [runs[i] EXCEPT !.stage = "drop",
                               !.out = IF Accepted(runs[i], left) THEN "accepted" ELSE "refused"])
  /\ UNCHANGED <<platform, up, sweeper, sock, deaths>>

\* Drop for SparkRunFiles, under the sweep lock; the lock files are unlocked last.
Drop(i) ==
  /\ runs[i].stage = "drop" /\ platform # "windows" /\ sweeper = 0
  /\ With(i, [runs[i] EXCEPT !.stage = "over", !.dir = "gone", !.code = "none"])
  /\ sock' = [sock EXCEPT ![runs[i].task] = 0]
  /\ UNCHANGED <<platform, up, sweeper, deaths>>

\* Windows: the locks are given back, then the directory is removed, without the sweep lock.
Unlock(i) ==
  /\ runs[i].stage = "drop" /\ platform = "windows"
  /\ With(i, [runs[i] EXCEPT !.stage = "unlocked"])
  /\ UNCHANGED <<platform, up, sweeper, sock, deaths>>

RemoveRunRoot(i) ==
  /\ runs[i].stage = "unlocked"
  /\ With(i, [runs[i] EXCEPT !.stage = "over", !.dir = "gone"])
  /\ UNCHANGED <<platform, up, sweeper, sock, deaths>>

-----------------------------------------------------------------------------
(* run_spark_supervisor, on macOS.                                         *)

Supervise(i, from, r) ==
  /\ runs[i].sup = from
  /\ With(i, r)
  /\ UNCHANGED <<platform, up, sweeper, deaths>>

\* Both guardian sockets; a bind to an existing path fails, and so does one in a directory
\* that is gone.
SupervisorBind(i) ==
  LET free == sock[runs[i].task] = 0 /\ runs[i].dir = "owned"
  IN  /\ Supervise(i, "started", [runs[i] EXCEPT !.sup = IF free THEN "bound" ELSE "dead"])
      /\ sock' = IF free THEN [sock EXCEPT ![runs[i].task] = i] ELSE sock

\* NOTE_EXIT of the Host: refused when it is already dead.
SupervisorRegister(i) ==
  /\ Supervise(i, "bound", [runs[i] EXCEPT !.sup = IF runs[i].stage = "lost" THEN "dead" ELSE "ready"])
  /\ UNCHANGED sock

SupervisorSpawn(i) ==
  /\ \/ Supervise(i, "ready", [runs[i] EXCEPT !.sup = "watch", !.child = "alive"])
     \/ Supervise(i, "ready", [runs[i] EXCEPT !.sup = "hold", !.code = "fail"])
  /\ UNCHANGED sock

\* spark_supervisor_hold: the code is told, and the supervisor waits to be killed.
SupervisorHold(i) ==
  /\ runs[i].child = "dead"
  /\ Supervise(i, "watch", [runs[i] EXCEPT !.sup = "hold"])
  /\ UNCHANGED sock

\* Mutant of ParentExit: the supervisor ends alone, not with its process group.
ParentExitAlone(i) ==
  /\ runs[i].stage = "lost" /\ runs[i].sup \in {"watch", "hold"}
  /\ Supervise(i, runs[i].sup, [runs[i] EXCEPT !.sup = "dead"])
  /\ UNCHANGED sock

\* The Host is gone: the group is killed.
ParentExit(i) ==
  /\ runs[i].stage = "lost" /\ runs[i].sup \in {"watch", "hold"}
  /\ Supervise(i, runs[i].sup, Killed(runs[i]))
  /\ UNCHANGED sock

\* terminate_supervisor_group
SupervisorError(i) ==
  /\ deaths < MaxDeaths /\ deaths' = deaths + 1
  /\ runs[i].sup \in {"watch", "hold"}
  /\ With(i, Killed(runs[i]))
  /\ UNCHANGED <<platform, up, sweeper, sock>>

-----------------------------------------------------------------------------
(* The rest of the system.                                                 *)

ChildExits(i) ==
  /\ runs[i].child = "alive"
  /\ \E code \in {"ok", "fail"} : With(i, [runs[i] EXCEPT !.child = "dead", !.code = code])
  /\ UNCHANGED <<platform, up, sweeper, sock, deaths>>

\* PR_SET_PDEATHSIG
ParentDeathSignal(i) ==
  /\ platform = "linux" /\ runs[i].stage = "lost" /\ runs[i].child = "alive"
  /\ With(i, Killed(runs[i]))
  /\ UNCHANGED <<platform, up, sweeper, sock, deaths>>

\* The supervisor is killed while its Host lives; the child stays.
SupervisorDies(i) ==
  /\ deaths < MaxDeaths /\ deaths' = deaths + 1
  /\ runs[i].sup \notin {"none", "dead"} /\ runs[i].stage # "lost"
  /\ With(i, [runs[i] EXCEPT !.sup = "dead"])
  /\ UNCHANGED <<platform, up, sweeper, sock>>

\* A Host process dies.  Its locks and job objects go with it.  Not while it is the only
\* one left to kill a child: that needs a second fault in the same 10 ms.
HostDies(h) ==
  /\ h \in up /\ deaths < MaxDeaths /\ deaths' = deaths + 1
  /\ \A i \in Ids : ~(platform = "macos" /\ runs[i].host = h /\ Registered(i)
                      /\ runs[i].sup = "dead" /\ runs[i].child = "alive")
  /\ up' = up \ {h}
  /\ runs' = [i \in Ids |->
                IF runs[i].host # h \/ runs[i].stage \in {"over", "lost"} THEN runs[i]
                ELSE [(IF runs[i].job THEN Killed(runs[i]) ELSE runs[i]) EXCEPT !.stage = "lost"]]
  /\ sweeper' = IF sweeper # 0 /\ runs[sweeper].host = h THEN 0 ELSE sweeper
  /\ UNCHANGED <<platform, sock>>

HostStarts(h) ==
  /\ h \notin up /\ up' = up \cup {h}
  /\ UNCHANGED <<platform, runs, sweeper, sock, deaths>>

\* The user logs in anew: auth.json is no longer the file the runs copied.
Login ==
  /\ \E i \in Ids : runs[i].fresh /\ Registered(i)
  /\ runs' = [i \in Ids |-> [runs[i] EXCEPT !.fresh = FALSE]]
  /\ UNCHANGED <<platform, up, sweeper, sock, deaths>>

HostStep(i) ==
  \/ Own(i) \/ Spawn(i) \/ Attach(i) \/ Ready(i) \/ StopRun(i) \/ ChildDone(i) \/ Read(i)
  \/ Drop(i) \/ Unlock(i) \/ RemoveRunRoot(i)

\* What runs by itself: the supervisor and the kernel.
GuardStep(i) ==
  \/ SupervisorBind(i) \/ SupervisorRegister(i) \/ SupervisorSpawn(i) \/ SupervisorHold(i)
  \/ ParentExit(i) \/ ParentDeathSignal(i)

SparkNext ==
  \/ \E h \in Hosts, t \in Tasks, claim \in Claims : Create(h, t, claim)
  \/ \E i \in Ids :
       \/ HostStep(i) \/ GuardStep(i)
       \/ ChildExits(i) \/ SupervisorError(i) \/ SupervisorDies(i)
  \/ \E h \in Hosts : HostDies(h) \/ HostStarts(h)
  \/ Login

\* The deadline ends every run of a live Host, the supervisors and the kernel do their part.
SparkFairness == \A i \in 1..MaxRuns :
  /\ WF_sparkVars(i \in Ids /\ HostStep(i))
  /\ WF_sparkVars(i \in Ids /\ GuardStep(i))

SparkSpec == SparkInit /\ [][SparkNext]_sparkVars /\ SparkFairness

-----------------------------------------------------------------------------
\* A child Windows lost: its Host died between the start and JobObject::attach.
Unattached(i) == platform = "windows" /\ runs[i].stage = "lost" /\ ~runs[i].job

\* Whatever Host processes and supervisors die and however runs of several Hosts overlap,
\* no task has two Codex children at a time, and the directory of a run is not swept away
\* under its Host or its child (spark_runner.rs SparkRunFiles::create, sweep_stale_runs).
RunsKeepApart ==
  /\ \A i, j \in Ids :
       i # j /\ runs[i].task = runs[j].task /\ ~Unattached(i) /\ ~Unattached(j)
       => ~(runs[i].child = "alive" /\ runs[j].child = "alive")
  /\ \A i \in Ids :
       runs[i].stage \in {"made", "wait", "attach", "drive", "read"}
         \/ (runs[i].child = "alive" /\ ~Unattached(i))
       => runs[i].dir = "owned"

\* A run ends for its Host, and no Codex child stays behind, not even when the Host dies at
\* any point of its start (spark_runner.rs run_spark_supervisor, ChildGuard).
ChildrenEnd ==
  \A i \in 1..MaxRuns :
    (i \in Ids) ~> (/\ i \in Ids /\ runs[i].stage \in {"over", "lost"}
                    /\ runs[i].child # "alive" \/ Unattached(i))
=============================================================================
