----------------------------- MODULE CacheFiles -----------------------------
(***************************************************************************)
(* The summary cache on disk: cache.rs, with the two callers that commit or *)
(* read references while they hold its gate (tts_cache.rs, called by the    *)
(* summary worker, and the playback handler of health.rs).                  *)
(*                                                                         *)
(* A generation is a directory of three encrypted objects in the directory  *)
(* of its task.  A change of a directory is in the page cache at once and   *)
(* on the disk once the directory is synced: "disk" is the set of what a    *)
(* power loss may leave.  The death of the process loses nothing that was   *)
(* written.  sync_directory is that of macOS and Linux.                     *)
(***************************************************************************)
EXTENDS Naturals, Sequences, FiniteSets, FiniteSetsExt

CONSTANTS CacheIds,        \* pairs of a task and a generation number
          MaxCacheGenerations,  \* CacheLimits.max_generations
          MaxObjects,      \* CacheLimits.max_total_bytes, counted in objects
          MaxDirs,         \* bound: generation directories ever made
          MaxMishaps       \* bound: failing calls, deaths of the process, power losses

ASSUME CacheConstants ==
  MaxCacheGenerations \in Nat /\ MaxObjects \in Nat /\ MaxDirs \in Nat /\ MaxMishaps \in Nat

VARIABLES host,     \* where the process is: "down", the steps of initialize, "open"
          secret,   \* the cache key is in the secret store
          marker,   \* the key marker
          taskDirs, \* the task directories
          dirs,     \* sequence of the generation directories ever made
          gate,     \* operation_gate: "free", "worker" or "daemon"
          worker,   \* the summary worker in publish_or_verify_with
          daemon,   \* the playback handler in reconcile_with
          refs,     \* external: the references the ledger retains
          used,     \* external: the generations the ledger ever published
          adopted,  \* history: referenced, though a directory that names it was not synced
          mishaps

cacheVars == <<host, secret, marker, taskDirs, dirs, gate, worker, daemon, refs, used, adopted, mishaps>>
cacheDisk == <<secret, marker, taskDirs, dirs>>

TaskOf(id) == id[1]
CacheTasks == {TaskOf(id) : id \in CacheIds}
Objects == 3  \* manifest, WAV, EIAD

\* An entry: what it is now, and what it may be after a power loss.
New(from, to) == [name |-> to, disk |-> {from, to}]
Entry(x) == [name |-> x, disk |-> {x}]
Changed(e, to) == [e EXCEPT !.name = to, !.disk = @ \cup {to}]
Synced(e) == Entry(e.name)

Here(d) == d.name.name # "gone" /\ taskDirs[TaskOf(d.id)].name = "there"
Finals == {k \in DOMAIN dirs : Here(dirs[k]) /\ dirs[k].name.name = "final"}
Temps == {k \in DOMAIN dirs : Here(dirs[k]) /\ dirs[k].name.name = "temp"}
Finalized == {dirs[k].id : k \in Finals}

\* read_unlocked: the three objects decrypt, and nothing else is there.
Authentic(id) == \E k \in Finals : dirs[k].id = id /\ dirs[k].files.name = Objects

\* scan_unlocked: the audit.
ObjectsIn(S) == MapThenSumSet(LAMBDA k : dirs[k].files.name, S)
CapacityExceeded == \/ Cardinality(Finals) >= MaxCacheGenerations
                    \/ ObjectsIn(Finals \cup Temps) + Objects > MaxObjects

\* sync_directory of a task: the names of its generation directories.
SyncTask(ds, t) == [k \in DOMAIN ds |-> IF TaskOf(ds[k].id) = t
                                        THEN [ds[k] EXCEPT !.name = Synced(@)] ELSE ds[k]]

\* Of these references, the ones whose directories are not sure to be on the disk.
Unsettled(ids, ds, ts) ==
  {id \in ids : \/ ts[TaskOf(id)].disk # {"there"}
                \/ \A k \in DOMAIN ds : ds[k].id = id => ds[k].name # Entry("final")}

Idle == [at |-> "idle"]

CacheInit ==
  /\ host = "down" /\ secret = FALSE /\ marker = Entry("gone")
  /\ taskDirs = [t \in CacheTasks |-> Entry("gone")]
  /\ dirs = << >> /\ gate = "free" /\ worker = Idle /\ daemon = Idle
  /\ refs = {} /\ used = {} /\ adopted = {} /\ mishaps = 0

-----------------------------------------------------------------------------
(* CacheStore::initialize.                                                 *)

Opening(from, to) == host = from /\ host' = to
Rest == UNCHANGED <<gate, worker, daemon, refs, used, adopted, mishaps>>

\* The process lock, cleanup_key_marker_temporaries, then the marker or a root without
\* tasks; CacheKey::initialize keeps a key that is there.
OpenCache ==
  /\ host = "down"
  /\ IF marker.name = "done"
     THEN host' = "open" /\ UNCHANGED <<secret, marker>>
     ELSE /\ \A t \in CacheTasks : taskDirs[t].name = "gone"
          /\ host' = "keyed" /\ secret' = TRUE
          /\ marker' = IF marker.name = "temp" THEN Entry("gone") ELSE marker
  /\ UNCHANGED <<taskDirs, dirs>> /\ Rest

\* write_key_marker
WriteMarker ==
  /\ \/ Opening("keyed", "written") /\ marker' = Entry("temp")
     \/ Opening("written", "renamed") /\ marker' = Changed(marker, "done")
     \/ Opening("renamed", "open") /\ marker' = Synced(marker)
  /\ UNCHANGED <<secret, taskDirs, dirs>> /\ Rest

-----------------------------------------------------------------------------
(* The summary worker.                                                     *)

\* Mutant of GateFree: the operations do not exclude each other.
GateIgnored == TRUE

\* CacheStore::gate
GateFree == gate = "free"

WorkerStep(from, to) ==
  /\ worker.at = from
  /\ worker' = [worker EXCEPT !.at = to]
  /\ UNCHANGED <<host, secret, marker, gate, daemon, refs, used, mishaps>>

CurrentDir == Len(dirs)

\* publish_observed: the scan, the limits, the task directory.
BeginPublish(id) ==
  LET t == TaskOf(id)
      created == taskDirs[t].name = "gone"
  IN
  /\ host = "open" /\ GateFree /\ worker = Idle
  /\ id \notin used /\ id \notin Finalized
  /\ ~CapacityExceeded /\ Len(dirs) < MaxDirs
  /\ taskDirs' = IF created THEN [taskDirs EXCEPT ![t] = New("gone", "there")] ELSE taskDirs
  /\ gate' = "worker" /\ worker' = [at |-> IF created THEN "root" ELSE "make", id |-> id]
  /\ UNCHANGED <<host, secret, marker, dirs, daemon, refs, used, adopted, mishaps>>

\* A new task directory is synced into the root, and with it the marker.
SyncRoot ==
  /\ worker.at = "root" /\ worker' = [worker EXCEPT !.at = "make"]
  /\ marker' = Synced(marker)
  /\ taskDirs' = [t \in CacheTasks |-> Synced(taskDirs[t])]
  /\ adopted' = Unsettled(adopted, dirs, taskDirs')
  /\ UNCHANGED <<host, secret, dirs, gate, daemon, refs, used, mishaps>>

MakeTemporary ==
  /\ WorkerStep("make", "write")
  /\ dirs' = Append(dirs, [id |-> worker.id, name |-> New("gone", "temp"), files |-> Entry(0)])
  /\ UNCHANGED <<taskDirs, adopted>>

\* write_object: the file is synced, its entry in the temporary directory is not.
WriteObject ==
  /\ WorkerStep("write", IF dirs[CurrentDir].files.name + 1 = Objects THEN "sync" ELSE "write")
  /\ dirs' = [dirs EXCEPT ![CurrentDir].files = Changed(@, @.name + 1)]
  /\ UNCHANGED <<taskDirs, adopted>>

\* Mutant of SyncTemporary: the objects are not made durable before the rename.
SkipSyncTemporary ==
  /\ WorkerStep("sync", "rename")
  /\ UNCHANGED <<dirs, taskDirs, adopted>>

SyncTemporary ==
  /\ WorkerStep("sync", "rename")
  /\ dirs' = [dirs EXCEPT ![CurrentDir].files = Synced(@)]
  /\ UNCHANGED <<taskDirs, adopted>>

Rename ==
  /\ WorkerStep("rename", "renamed")
  /\ dirs' = [dirs EXCEPT ![CurrentDir].name = Changed(@, "final")]
  /\ UNCHANGED <<taskDirs, adopted>>

SyncParent ==
  /\ WorkerStep("renamed", "commit")
  /\ dirs' = SyncTask(dirs, TaskOf(worker.id))
  /\ adopted' = Unsettled(adopted, dirs', taskDirs)
  /\ UNCHANGED taskDirs

Published(id) == refs' = refs \cup {id} /\ used' = used \cup {id}

\* The objects are read back, and the ledger commits the reference under the gate.
CommitReference ==
  /\ worker.at = "commit" /\ Authentic(worker.id)
  /\ Published(worker.id)
  /\ adopted' = IF taskDirs[TaskOf(worker.id)].disk = {"there"} THEN adopted
                 ELSE adopted \cup {worker.id}
  /\ worker' = Idle /\ gate' = "free"
  /\ UNCHANGED <<host, daemon, mishaps>> /\ UNCHANGED cacheDisk

\* A call fails.  Before the rename the temporary directory is removed, if that succeeds;
\* after it the generation stays, without a reference.
PublishFails ==
  /\ worker # Idle /\ mishaps < MaxMishaps /\ mishaps' = mishaps + 1
  /\ \/ /\ worker.at \in {"write", "sync", "rename"}
        /\ dirs' = [dirs EXCEPT ![CurrentDir].name = Changed(@, "gone")]
     \/ UNCHANGED dirs
  /\ worker' = Idle /\ gate' = "free"
  /\ UNCHANGED <<host, secret, marker, taskDirs, daemon, refs, used, adopted>>

\* recover_authenticated_cache: a generation that a failed or killed attempt left is read
\* and committed as it is.
Recover(id) ==
  /\ host = "open" /\ GateFree /\ worker = Idle
  /\ id \notin used /\ Authentic(id)
  /\ Published(id)
  /\ UNCHANGED cacheDisk
  /\ adopted' = Unsettled(adopted \cup {id}, dirs, taskDirs)
  /\ UNCHANGED <<host, gate, worker, daemon, mishaps>>

\* The ledger: the summary was heard, or a newer one took its place.
Release(id) ==
  /\ id \in refs /\ refs' = refs \ {id} /\ adopted' = adopted \ {id}
  /\ UNCHANGED <<host, gate, worker, daemon, used, mishaps>> /\ UNCHANGED cacheDisk

-----------------------------------------------------------------------------
(* The playback handler: reconcile_unlocked.                               *)

\* The references are read under the gate; all of them must be there and authentic, or
\* nothing is touched and the clean-up is put off.
BeginReconcile ==
  /\ host = "open" /\ GateFree /\ daemon = Idle
  /\ \A id \in refs : Authentic(id)
  /\ gate' = "daemon"
  /\ daemon' = [at |-> "remove", left |-> Temps \cup {k \in Finals : dirs[k].id \notin refs}]
  /\ UNCHANGED <<host, worker, refs, used, adopted, mishaps>> /\ UNCHANGED cacheDisk

DaemonStep(d) == /\ daemon' = d
                 /\ UNCHANGED <<host, secret, marker, taskDirs, gate, worker, refs, used, mishaps>>

\* remove_orphan_atomically: renamed to a temporary name and synced first.  One step, as
\* the removal of a directory and the sync behind it are: a file system that keeps the order
\* of changes to a directory is assumed for a process that dies between the two.
RetireOrphan(k) ==
  /\ daemon.at = "remove" /\ k \in daemon.left /\ dirs[k].name.name = "final"
  /\ dirs' = SyncTask([dirs EXCEPT ![k].name = Changed(@, "temp")], TaskOf(dirs[k].id))
  /\ adopted' = Unsettled(adopted, dirs', taskDirs)
  /\ DaemonStep(daemon)

\* remove_flat_directory_at: an object, then the directory, and the sync of its parent.
RemoveObject(k) ==
  /\ daemon.at = "remove" /\ k \in daemon.left /\ dirs[k].name.name = "temp"
  /\ dirs[k].files.name > 0
  /\ dirs' = [dirs EXCEPT ![k].files = Changed(@, @.name - 1)]
  /\ UNCHANGED adopted
  /\ DaemonStep(daemon)

RemoveDirectory(k) ==
  /\ daemon.at = "remove" /\ k \in daemon.left /\ dirs[k].name.name = "temp"
  /\ dirs[k].files.name = 0
  /\ dirs' = SyncTask([dirs EXCEPT ![k].name = Changed(@, "gone")], TaskOf(dirs[k].id))
  /\ adopted' = Unsettled(adopted, dirs', taskDirs)
  /\ DaemonStep([daemon EXCEPT !.left = @ \ {k}])

\* sync_all_task_directories
EndReconcile ==
  /\ daemon.at = "remove" /\ daemon.left = {}
  /\ dirs' = [k \in DOMAIN dirs |-> [dirs[k] EXCEPT !.name = Synced(@)]]
  /\ taskDirs' = [t \in CacheTasks |-> Synced(taskDirs[t])]
  /\ marker' = Synced(marker)
  /\ adopted' = Unsettled(adopted, dirs', taskDirs')
  /\ daemon' = Idle /\ gate' = "free"
  /\ UNCHANGED <<host, secret, worker, refs, used, mishaps>>

ReconcileFails ==
  /\ daemon # Idle /\ mishaps < MaxMishaps /\ mishaps' = mishaps + 1
  /\ daemon' = Idle /\ gate' = "free"
  /\ UNCHANGED <<host, worker, refs, used, adopted>> /\ UNCHANGED cacheDisk

-----------------------------------------------------------------------------
Stopped == /\ host' = "down" /\ gate' = "free" /\ worker' = Idle /\ daemon' = Idle
           /\ mishaps < MaxMishaps /\ mishaps' = mishaps + 1
           /\ UNCHANGED <<secret, refs, used>>

\* The process dies.
HostStops ==
  /\ host # "down" /\ Stopped
  /\ UNCHANGED <<marker, taskDirs, dirs, adopted>>

\* After a power loss every entry is one of those that may be on the disk.
AfterLoss(e) == {Entry(x) : x \in e.disk}

PowerLoss ==
  /\ Stopped
  /\ marker' \in AfterLoss(marker)
  /\ taskDirs' \in {f \in [CacheTasks -> {Entry("gone"), Entry("there")}] :
                      \A t \in CacheTasks : f[t] \in AfterLoss(taskDirs[t])}
  /\ \E names \in [DOMAIN dirs -> {"gone", "temp", "final"}], counts \in [DOMAIN dirs -> 0..Objects] :
       /\ \A k \in DOMAIN dirs : names[k] \in dirs[k].name.disk /\ counts[k] \in dirs[k].files.disk
       /\ dirs' = [k \in DOMAIN dirs |->
                     [dirs[k] EXCEPT !.files = Entry(counts[k]),
                                     !.name = IF taskDirs'[TaskOf(dirs[k].id)].name = "gone"
                                              THEN Entry("gone") ELSE Entry(names[k])]]
  /\ UNCHANGED adopted

WorkerActs == SyncRoot \/ MakeTemporary \/ WriteObject \/ SyncTemporary \/ Rename \/ SyncParent \/ CommitReference

CacheNext ==
  \/ OpenCache \/ WriteMarker
  \/ WorkerActs \/ PublishFails
  \/ \E id \in CacheIds : BeginPublish(id) \/ Recover(id) \/ Release(id)
  \/ BeginReconcile \/ EndReconcile \/ ReconcileFails
  \/ \E k \in DOMAIN dirs : RetireOrphan(k) \/ RemoveObject(k) \/ RemoveDirectory(k)
  \/ HostStops \/ PowerLoss

CacheSpec == CacheInit /\ [][CacheNext]_cacheVars

-----------------------------------------------------------------------------
\* What the ledger refers to is on the disk, whole, and can be opened with the key: through
\* every failing call, death of the process and power loss, and through every clean-up that
\* runs beside a publication.  One exception is left: a failed or killed attempt left a
\* directory unsynced, the root with the key marker in it or that of the task, and the next
\* one committed a reference as it found it (cache.rs publish_observed, reconcile_unlocked,
\* initialize).
ReferencedIsWhole ==
  /\ \A id \in refs \ adopted : Authentic(id)
  /\ refs \ adopted # {} => secret /\ marker.name = "done"
=============================================================================
