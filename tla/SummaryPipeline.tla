--------------------------- MODULE SummaryPipeline ---------------------------
(***************************************************************************)
(* The Host threads that use the summary ledger: the summary worker        *)
(* (summary_worker.rs driving summary_orchestrator.rs), the encrypted cache*)
(* (cache.rs, tts_cache.rs) and the daemon loop's playback handler         *)
(* (health.rs), with process crashes between any two of their steps.       *)
(*                                                                         *)
(* Each step is one ledger transaction or one cache operation.  The cache  *)
(* gate, a mutex, is held from the publication of an object to the end of  *)
(* the ledger transaction that refers to it (`worker.pc = "commit"`).      *)
(*                                                                         *)
(* The LAN side is external here: the ingress thread reports that a        *)
(* playback finished, at most for audio the keyboard drained, or that it   *)
(* was cancelled.  LanPlayback models how it comes to say so.              *)
(***************************************************************************)
EXTENDS SummaryLedger

CONSTANTS NoClaim, NoLease, NoSlot,
          MaxFaults,     \* bound: failures of LLM, TTS, cache writes and cleanup
          MaxBadReads,   \* bound: cache objects that fail to read back on recovery
          MaxRestarts,   \* bound: process crashes
          MaxPlayed      \* bound: playbacks the keyboard drains

VARIABLES worker,    \* [pc, claim, tells]: the orchestrator run in progress
          cache,     \* finalized cache objects [task, gen, tells]
          daemon,    \* [pc, slot, lease]: the playback event being handled
          active,    \* ActiveHostPlayback map: [lease, heard, tells]; tells is the
                     \* audio handed to the transport
          played,    \* leases whose audio the keyboard drained
          told,      \* task -> completions told by drained audio (history)
          faults, badReads, restarts

bounds == <<faults, badReads, restarts>>
hostVars == <<worker, cache, daemon, active, played, told, bounds>>
ledgerVars == vars
allVars == <<ledgerVars, hostVars>>

Idle == [pc |-> "idle", claim |-> NoClaim, tells |-> {}]
DaemonIdle == [pc |-> "idle", slot |-> NoSlot, lease |-> NoLease]

PipelineInit ==
  /\ Init
  /\ worker = Idle
  /\ cache = {}
  /\ daemon = DaemonIdle
  /\ active = {}
  /\ played = {}
  /\ told = [t \in Task |-> {}]
  /\ faults = 0
  /\ badReads = 0
  /\ restarts = 0

Cached(t, g) == {o \in cache : o.task = t /\ o.gen = g}

\* Mutant of GateFree: cleanup and reads do not wait for a publication.
GateAlwaysFree == TRUE

GateFree == worker.pc # "commit"

Fault == faults < MaxFaults /\ faults' = faults + 1

-----------------------------------------------------------------------------
(* The observer thread and the control connection.                         *)

Bind(s, t) == SetBinding(s, t) /\ UNCHANGED hostVars

Observe(t) == CommitCompletion(t) /\ UNCHANGED hostVars

-----------------------------------------------------------------------------
(* The summary worker.                                                     *)

\* run_ready: an interrupted claim is resumed before a fresh one is made.
\* SummaryBusy, and an interrupted claim that cannot be loaded, end the run
\* with an error that changes nothing and is retried after a backoff.
TakeWork(t) ==
  /\ worker.pc = "idle"
  /\ IF InState(t, {"interrupted"}) # {}
     THEN ResumeInterruptedSummary(t)
     ELSE ClaimSummary(t)
  /\ \E c \in issued' \ issued :
       worker' = [pc |-> "claimed", claim |-> c, tells |-> {}]
  /\ UNCHANGED <<cache, daemon, active, played, told, bounds>>

\* Mutant of GiveUp: a failed run keeps its claim.
GiveUpKeepingClaim ==
  /\ worker' = Idle
  /\ UNCHANGED ledgerVars

\* self.abandon: the claim is released and the run ends.
GiveUp ==
  /\ AbandonSummaryClaim(worker.claim)
  /\ worker' = Idle

\* recover_authenticated_cache with the object of this generation on disk: it
\* is published as it is.  A ledger error ends the run, the claim kept.
RecoverCache ==
  /\ worker.pc = "claimed"
  /\ Cached(worker.claim.task, worker.claim.gen) # {}
  /\ IF Publishable(worker.claim)
     THEN PublishSummary(worker.claim)
     ELSE UNCHANGED ledgerVars
  /\ worker' = Idle
  /\ UNCHANGED <<cache, daemon, active, played, told, bounds>>

\* The object of this generation cannot be read or authenticated, or does not
\* cover what the claim covers: the run ends, the claim kept.
RecoverCacheFails ==
  /\ worker.pc = "claimed"
  /\ Cached(worker.claim.task, worker.claim.gen) # {}
  /\ badReads < MaxBadReads
  /\ badReads' = badReads + 1
  /\ worker' = Idle
  /\ UNCHANGED <<ledgerVars, cache, daemon, active, played, told, faults, restarts>>

\* No object: an attempt that had already started speech synthesis is given up,
\* any other goes on.
CheckAttempt ==
  /\ worker.pc = "claimed"
  /\ Cached(worker.claim.task, worker.claim.gen) = {}
  /\ IF rows[worker.claim.task][worker.claim.gen].tts
     THEN GiveUp
     ELSE worker' = [worker EXCEPT !.pc = "load"] /\ UNCHANGED ledgerVars
  /\ UNCHANGED <<cache, daemon, active, played, told, bounds>>

\* load_tts_summary of the unread summary this claim extends.
LoadPrevious ==
  /\ worker.pc = "load"
  /\ LET c == worker.claim
     IN  IF c.prev = 0
         THEN worker' = [worker EXCEPT !.pc = "generate"] /\ UNCHANGED ledgerVars
         ELSE IF Cached(c.task, c.prev) = {}
         THEN GiveUp
         ELSE /\ \E o \in Cached(c.task, c.prev) :
                   worker' = [worker EXCEPT !.pc = "generate", !.tells = o.tells]
              /\ UNCHANGED ledgerVars
  /\ UNCHANGED <<cache, daemon, active, played, told, bounds>>

\* Mutant of Generate: the previous summary is not merged in.
GenerateFresh ==
  /\ worker.pc = "generate"
  /\ worker' = [worker EXCEPT !.pc = "attempt", !.tells = worker.claim.covers]
  /\ UNCHANGED <<ledgerVars, cache, daemon, active, played, told, bounds>>

\* generator.generate: the summary merges the previous document with the newly
\* claimed completions.
Generate ==
  /\ worker.pc = "generate"
  /\ worker' = [worker EXCEPT !.pc = "attempt", !.tells = @ \cup worker.claim.covers]
  /\ UNCHANGED <<ledgerVars, cache, daemon, active, played, told, bounds>>

BeginTts ==
  /\ worker.pc = "attempt"
  /\ BeginSummaryTtsAttempt(worker.claim)
  /\ worker' = [worker EXCEPT !.pc = "synthesize"]
  /\ UNCHANGED <<cache, daemon, active, played, told, bounds>>

Synthesize ==
  /\ worker.pc = "synthesize"
  /\ worker' = [worker EXCEPT !.pc = "store"]
  /\ UNCHANGED <<ledgerVars, cache, daemon, active, played, told, bounds>>

\* Reading the previous object, the LLM, its validation, the TTS service, the
\* cache write or the read after a reported cache error fails.
WorkerFails ==
  /\ \/ worker.pc \in {"generate", "synthesize", "store", "recheck"}
     \/ worker.pc = "load" /\ worker.claim.prev # 0
  /\ Fault
  /\ GiveUp
  /\ UNCHANGED <<cache, daemon, active, played, told, badReads, restarts>>

\* publish_or_verify_with: the object is renamed into place, fsynced and read
\* back; the gate stays held.
StoreObject ==
  /\ worker.pc = "store"
  /\ cache' = cache \cup {[task |-> worker.claim.task, gen |-> worker.claim.gen,
                           tells |-> worker.tells]}
  /\ worker' = [worker EXCEPT !.pc = "commit"]
  /\ UNCHANGED <<ledgerVars, daemon, active, played, told, bounds>>

\* The callback under the gate.  SummaryClaimChanged ends the run with the
\* claim still open: execute_claim returns it without abandoning.
CommitObject ==
  /\ worker.pc = "commit"
  /\ IF Publishable(worker.claim)
     THEN PublishSummary(worker.claim)
     ELSE UNCHANGED ledgerVars
  /\ worker' = Idle
  /\ UNCHANGED <<cache, daemon, active, played, told, bounds>>

\* The object is in place but the cache reports an error afterwards (directory
\* fsync, read back); the gate is released with the error.
CacheReportsError ==
  /\ worker.pc = "commit"
  /\ Fault
  /\ worker' = [worker EXCEPT !.pc = "recheck"]
  /\ UNCHANGED <<ledgerVars, cache, daemon, active, played, told, badReads, restarts>>

\* recover_authenticated_cache after that error publishes the object if it is
\* still there; here, unlike in RecoverCache, a ledger error releases the claim.
RecheckCache ==
  /\ worker.pc = "recheck"
  /\ IF Cached(worker.claim.task, worker.claim.gen) # {} /\ Publishable(worker.claim)
     THEN PublishSummary(worker.claim) /\ worker' = Idle
     ELSE GiveUp
  /\ UNCHANGED <<cache, daemon, active, played, told, bounds>>

-----------------------------------------------------------------------------
(* The daemon's playback handler.                                          *)

\* A playback request of a new request generation reaches the daemon.
Request(s) ==
  /\ daemon.pc = "idle"
  /\ daemon' = [pc |-> "begin", slot |-> s, lease |-> NoLease]
  /\ leaseCount < MaxLeases
  /\ UNCHANGED <<ledgerVars, worker, cache, active, played, told, bounds>>

\* Mutant of EndActive: the playback is forgotten, its lease kept.
EndActiveKeepingLease(a) ==
  /\ active' = active \ {a}
  /\ UNCHANGED ledgerVars

\* Release of an active playback: one already committed as heard keeps no lease.
EndActive(a) ==
  /\ active' = active \ {a}
  /\ IF ~a.heard /\ a.lease \in leases
     THEN CancelSummaryPlayback(a.lease)
     ELSE UNCHANGED ledgerVars

\* begin_lan_playback first cancels whatever is active.
CancelOther ==
  /\ daemon.pc = "begin"
  /\ \E a \in active : EndActive(a)
  /\ UNCHANGED <<worker, cache, daemon, played, told, bounds>>

Acquire ==
  /\ daemon.pc = "begin"
  /\ active = {}
  /\ IF Playable(daemon.slot)
     THEN /\ AcquireSummaryPlayback(daemon.slot)
          /\ \E l \in granted' \ granted :
               daemon' = [daemon EXCEPT !.pc = "load", !.lease = l]
     ELSE daemon' = DaemonIdle /\ UNCHANGED ledgerVars
  /\ UNCHANGED <<worker, cache, active, played, told, bounds>>

\* cache.read, transcoding and the hand-over to the transport; a failure
\* returns the lease.
StartPlayback ==
  /\ daemon.pc = "load"
  /\ GateFree
  /\ \E o \in Cached(daemon.lease.task, daemon.lease.gen) :
       active' = active \cup {[lease |-> daemon.lease, heard |-> FALSE, tells |-> o.tells]}
  /\ daemon' = DaemonIdle
  /\ UNCHANGED <<ledgerVars, worker, cache, played, told, bounds>>

StartPlaybackFails ==
  /\ daemon.pc = "load"
  /\ GateFree
  /\ IF Cached(daemon.lease.task, daemon.lease.gen) = {} THEN UNCHANGED faults ELSE Fault
  /\ CancelSummaryPlayback(daemon.lease)
  /\ daemon' = DaemonIdle
  /\ UNCHANGED <<worker, cache, active, played, told, badReads, restarts>>

\* External: the keyboard drains the audio it was sent.
KeyboardDrains(a) ==
  /\ a \in active /\ a.lease \notin played
  /\ Cardinality(played) < MaxPlayed
  /\ played' = played \cup {a.lease}
  /\ told' = [told EXCEPT ![a.lease.task] = @ \cup a.tells]
  /\ UNCHANGED <<ledgerVars, worker, cache, daemon, active, bounds>>

\* LanPlaybackEvent::Finished, possibly re-sent: heard is committed once, then
\* the cache is cleaned.
Finished(a) ==
  /\ daemon.pc = "idle"
  /\ a \in active /\ a.lease \in played
  /\ IF a.heard
     THEN UNCHANGED <<ledgerVars, active>>
     ELSE /\ FinishSummaryPlayback(a.lease)
          /\ active' = (active \ {a}) \cup {[a EXCEPT !.heard = TRUE]}
  /\ daemon' = [pc |-> "clean", slot |-> NoSlot, lease |-> a.lease]
  /\ UNCHANGED <<worker, cache, played, told, bounds>>

\* retained_summary_cache_references: what the ledger still needs.
Retained == {r \in Task \X (1..MaxGenerations) : r[2] \in InState(r[1], Unread)}

\* reconcile_with: refuses when a reference is missing, then removes every
\* object that is not referenced; the finish is acknowledged afterwards.
Reconcile ==
  /\ daemon.pc = "clean"
  /\ GateFree
  /\ \A r \in Retained : Cached(r[1], r[2]) # {}
  /\ cache' = {o \in cache : <<o.task, o.gen>> \in Retained}
  /\ active' = {a \in active : a.lease # daemon.lease}
  /\ daemon' = DaemonIdle
  /\ UNCHANGED <<ledgerVars, worker, played, told, bounds>>

\* cleanup_deferred: a reference is missing, or the removal fails after some of
\* the orphans are gone.  The playback stays active and unacknowledged, so that
\* the re-sent EIPF retries the cleanup.
ReconcileDeferred ==
  /\ daemon.pc = "clean"
  /\ GateFree
  /\ IF \E r \in Retained : Cached(r[1], r[2]) = {}
     THEN UNCHANGED <<cache, faults>>
     ELSE /\ Fault
          /\ \E S \in SUBSET {o \in cache : <<o.task, o.gen>> \notin Retained} :
               cache' = cache \ S
  /\ daemon' = DaemonIdle
  /\ UNCHANGED <<ledgerVars, worker, active, played, told, badReads, restarts>>

\* LanPlaybackEvent::Cancelled.
Cancelled(a) ==
  /\ daemon.pc = "idle"
  /\ a \in active
  /\ EndActive(a)
  /\ UNCHANGED <<worker, cache, daemon, played, told, bounds>>

-----------------------------------------------------------------------------
(* The process ends, at any step, and is started again; or the operator    *)
(* runs summary-abandon-slot in between.                                   *)

HostRestart ==
  /\ restarts < MaxRestarts
  /\ restarts' = restarts + 1
  /\ \/ Restart
     \/ \E s \in Slot : AbandonSlotSummary(s)
  /\ worker' = Idle
  /\ daemon' = DaemonIdle
  /\ active' = {}
  /\ UNCHANGED <<cache, played, told, faults, badReads>>

WorkerStep ==
  \/ \E t \in Task : TakeWork(t)
  \/ RecoverCache \/ CheckAttempt \/ LoadPrevious \/ Generate \/ BeginTts
  \/ Synthesize \/ StoreObject \/ CommitObject \/ RecheckCache

DaemonStep == CancelOther \/ Acquire \/ StartPlayback \/ Reconcile

PipelineNext ==
  \/ \E s \in Slot, t \in Task : Bind(s, t)
  \/ \E t \in Task : Observe(t)
  \/ WorkerStep \/ WorkerFails \/ RecoverCacheFails \/ CacheReportsError
  \/ DaemonStep \/ StartPlaybackFails \/ ReconcileDeferred
  \/ \E s \in Slot : Request(s)
  \/ \E a \in active : KeyboardDrains(a) \/ Finished(a) \/ Cancelled(a)
  \/ HostRestart

PipelineSpec == PipelineInit /\ [][PipelineNext]_allVars

\* Threads are scheduled; the worker's scan goes round all tasks with work, so
\* that none is passed over for ever; and the transport ends every playback it started:
\* its retries and its finish deadline are finite.
PipelineFairness ==
  /\ \A t \in Task : SF_allVars(TakeWork(t))
  /\ WF_allVars(WorkerStep)
  /\ WF_allVars(DaemonStep)
  /\ WF_allVars(\E a \in active : Finished(a) \/ Cancelled(a))

FairPipelineSpec == PipelineSpec /\ PipelineFairness

-----------------------------------------------------------------------------
(* Properties.                                                             *)

\* Every reference the ledger retains has its object in the cache, across
\* cleanups, failed publications and crashes: otherwise the summary could not
\* be played and reconcile would refuse (MissingReference) for ever.
RetainedIsCached ==
  \A t \in Task : \A g \in InState(t, Unread) : Cached(t, g) # {}

\* The audio of the current unread summary tells exactly the completions that
\* hearing it will mark: the cumulative merge missed none and adds none.
AudioTellsCoverage ==
  \A t \in Task : \A g \in CurrentUnread(t) :
    \A o \in Cached(t, g) : o.tells = Coverage(t, g)

\* A completion counts as heard only if audio that tells it was drained by the
\* keyboard, however publication, supersession, cancellation and restarts
\* interleaved with the playback.
HeardWasTold ==
  \A t \in Task : \A g \in InState(t, {"heard"}) : Coverage(t, g) \subseteq told[t]

\* Only the acknowledged finish of the playback, or a new publication, takes a
\* summary out of the unread mailbox: never a crash, a cancellation or a
\* failed start.
UnreadLeavesOnlyWhenHeardOrReplaced ==
  [][\A t \in Task : \A g \in CurrentUnread(t) :
       \/ g \in CurrentUnread(t)'
       \/ rows'[t][g].state = "heard" /\ \E l \in played : l.task = t /\ l.gen = g
       \/ rows'[t][g].by \in CurrentUnread(t)']_allVars

\* A recorded completion is eventually taken into a published summary.
CompletionsGetSummarized ==
  \A t \in Task : \A n \in 1..MaxCompletions :
    (n \in DOMAIN summarized[t]) ~> (n \in DOMAIN summarized[t] /\ summarized[t][n] # 0)

\* A playback lease does not last for ever.
LeasesEnd == \A i \in 1..MaxLeases : []<>(\A l \in leases : l.id # i)
=============================================================================
