--------------------------- MODULE GenerationProofs ---------------------------
(***************************************************************************)
(* Proofs about the three services that make a generation of a summary:    *)
(* the Codex run that writes the document (SparkRun), the speech service   *)
(* that speaks it (SpeechCall), the cache that keeps it (CacheFiles).      *)
(* They hold for any set of tasks, Hosts, claims and generations, any      *)
(* limits, and any number of failing calls, deaths and power losses.       *)
(* The services share no state: each has its own specification and its     *)
(* own inductive invariant.                                                *)
(***************************************************************************)
EXTENDS CacheFiles, SparkRun, SpeechCall, SequenceTheorems, TLAPS

-----------------------------------------------------------------------------
(* The cache of spoken summaries: CacheFiles.                               *)

Names == {"gone", "temp", "final"}
MarkerNames == {"gone", "temp", "done"}
EntryOf(S) == [name : S, disk : SUBSET S]
Dir == [id : CacheIds, name : EntryOf(Names), files : EntryOf(0..Objects)]

\* An entry that may be "final" after a power loss is so now, and its objects are on the disk.
SoundDir(d) ==
  /\ d \in Dir /\ d.name.name \in d.name.disk /\ d.files.name \in d.files.disk
  /\ "final" \in d.name.disk => d.name.name = "final" /\ d.files = Entry(Objects)

SoundDirs(ds) == ds \in Seq(Dir) /\ \A k \in DOMAIN ds : SoundDir(ds[k])

DirsSound == SoundDirs(dirs)

\* A task directory that is not there was never made, or is gone for good.
TasksSound ==
  /\ taskDirs \in [CacheTasks -> EntryOf({"gone", "there"})]
  /\ \A t \in CacheTasks : /\ taskDirs[t].name \in taskDirs[t].disk
                           /\ taskDirs[t].name = "gone" => taskDirs[t] = Entry("gone")

\* The root was synced with the first task directory that was synced.
MarkerSound ==
  /\ secret \in BOOLEAN
  /\ marker \in EntryOf(MarkerNames) /\ marker.name \in marker.disk
  /\ "done" \in marker.disk => secret
  /\ \A t \in CacheTasks : taskDirs[t].disk = {"there"} => marker = Entry(marker.name)

\* Where the process is.
HostSound ==
  /\ host \in {"down", "keyed", "written", "renamed", "open"}
  /\ host \in {"renamed", "open"} => marker.name = "done"
  /\ host # "open" => worker = Idle /\ daemon = Idle
  /\ host \in {"keyed", "written", "renamed"} =>
       secret /\ \A t \in CacheTasks : taskDirs[t] = Entry("gone")

\* The gate is held by one of the two, or by none.
GateSound ==
  /\ worker # Idle => gate = "worker"
  /\ daemon # Idle => gate = "daemon"

\* The directory that the worker makes, by where it is.
WorkerAt(w, ds) ==
  LET n == Len(ds) IN
  /\ w \in [at : {"root", "make", "write", "sync", "rename", "renamed", "commit"}, id : CacheIds]
  /\ w.at \notin {"root", "make"} => n \in DOMAIN ds /\ ds[n].id = w.id
  /\ w.at \in {"write", "sync", "rename"} => ds[n].name.name = "temp"
  /\ w.at = "write" => ds[n].files.name < Objects
  /\ w.at = "sync" => ds[n].files.name = Objects
  /\ w.at = "rename" => ds[n].files = Entry(Objects)
  /\ w.at = "renamed" => ds[n].name.name = "final"
  /\ w.at = "commit" => ds[n].name = Entry("final")

WorkerSound == worker # Idle => WorkerAt(worker, dirs)

\* The clean-up removes nothing that is referenced.
DaemonAt(d, ds, rs) ==
  /\ d \in [at : {"remove"}, left : SUBSET (DOMAIN ds)]
  /\ \A k \in d.left : ds[k].name.name = "temp" \/ ds[k].id \notin rs

DaemonSound == daemon # Idle => DaemonAt(daemon, dirs, refs)

\* The directories of this generation are sure to be on the disk.
Settled(id, ds, ts) ==
  /\ ts[TaskOf(id)].disk = {"there"}
  /\ \E k \in DOMAIN ds : ds[k].id = id /\ ds[k].name = Entry("final")

RefsSettled ==
  /\ refs \subseteq CacheIds
  /\ \A id \in refs \ adopted : Settled(id, dirs, taskDirs)
  /\ refs \ adopted # {} => marker = Entry("done")

CacheInv ==
  /\ DirsSound /\ TasksSound /\ MarkerSound /\ HostSound /\ GateSound /\ WorkerSound
  /\ DaemonSound /\ RefsSettled

-----------------------------------------------------------------------------
(* Entries and sequences of directories.                                   *)

\* The directories after a sync: their names are the same, and what was settled is.
SyncedFrom(es, ds) ==
  /\ SoundDirs(es) /\ Len(es) = Len(ds) /\ DOMAIN es = DOMAIN ds
  /\ \A k \in DOMAIN ds : /\ es[k].id = ds[k].id /\ es[k].files = ds[k].files
                          /\ es[k].name.name = ds[k].name.name
                          /\ ds[k].name = Entry("final") => es[k].name = Entry("final")

\* sync_directory makes the name of a directory durable and keeps it sound.
LEMMA SyncedDirSound ==
  ASSUME NEW d, SoundDir(d)
  PROVE  LET e == [d EXCEPT !.name = Synced(@)] IN
         /\ SoundDir(e) /\ e \in Dir /\ e.id = d.id /\ e.files = d.files
         /\ e.name = Entry(d.name.name)
<1>1. d \in Dir /\ d.name \in EntryOf(Names) /\ d.name.name \in Names
  BY DEF SoundDir, Dir, EntryOf
<1>2. Entry(d.name.name) \in EntryOf(Names)
  BY <1>1 DEF Entry, EntryOf
<1> DEFINE e == [d EXCEPT !.name = Synced(@)]
<1>3. e \in Dir /\ e.id = d.id /\ e.files = d.files /\ e.name = Entry(d.name.name)
  BY <1>1, <1>2 DEF Dir, Synced
<1>4. e.name.name = d.name.name /\ e.name.disk = {d.name.name}
  BY <1>3 DEF Entry
<1>5. SoundDir(e)
  BY <1>3, <1>4 DEF SoundDir
<1> QED  BY <1>3, <1>5

\* sync_directory of one task leaves the directories sound, and syncs those of the task.
LEMMA SyncTaskSound ==
  ASSUME NEW ds, SoundDirs(ds), NEW t
  PROVE  /\ SyncedFrom(SyncTask(ds, t), ds)
         /\ \A k \in DOMAIN ds : TaskOf(ds[k].id) = t =>
               SyncTask(ds, t)[k].name = Entry(ds[k].name.name)
<1> DEFINE es == SyncTask(ds, t)
<1>1. Len(ds) \in Nat /\ DOMAIN ds = 1..Len(ds) /\ DOMAIN es = DOMAIN ds
  BY DEF SoundDirs, SyncTask
<1>2. ASSUME NEW k \in DOMAIN ds
      PROVE  /\ SoundDir(es[k]) /\ es[k] \in Dir
             /\ es[k].id = ds[k].id /\ es[k].files = ds[k].files
             /\ es[k].name.name = ds[k].name.name
             /\ ds[k].name = Entry("final") => es[k].name = Entry("final")
             /\ TaskOf(ds[k].id) = t => es[k].name = Entry(ds[k].name.name)
  <2>1. SoundDir(ds[k])  BY DEF SoundDirs
  <2>2. CASE TaskOf(ds[k].id) = t
    <3>1. es[k] = [ds[k] EXCEPT !.name = Synced(@)]  BY <2>2 DEF SyncTask
    <3> QED  BY <2>1, <3>1, SyncedDirSound DEF Entry
  <2>3. CASE TaskOf(ds[k].id) # t
    <3>1. es[k] = ds[k]  BY <2>3 DEF SyncTask
    <3> QED  BY <2>1, <2>3, <3>1 DEF SoundDir
  <2> QED  BY <2>2, <2>3
<1>3. es \in [1..Len(ds) -> Dir]
  BY <1>1, <1>2 DEF SyncTask
<1>4. es \in Seq(Dir) /\ Len(es) = Len(ds)
  BY <1>1, <1>3, IsASeq, LenProperties
<1> HIDE DEF es
<1>5. SoundDirs(es)
  BY <1>1, <1>2, <1>4 DEF SoundDirs
<1> QED  BY <1>1, <1>2, <1>4, <1>5 DEF SyncedFrom, es

\* sync_all_task_directories leaves the directories sound.
LEMMA SyncAllSound ==
  ASSUME NEW ds, SoundDirs(ds)
  PROVE  SyncedFrom([k \in DOMAIN ds |-> [ds[k] EXCEPT !.name = Synced(@)]], ds)
<1> DEFINE es == [k \in DOMAIN ds |-> [ds[k] EXCEPT !.name = Synced(@)]]
<1>1. Len(ds) \in Nat /\ DOMAIN ds = 1..Len(ds) /\ DOMAIN es = DOMAIN ds
  BY DEF SoundDirs
<1>2. ASSUME NEW k \in DOMAIN ds
      PROVE  /\ SoundDir(es[k]) /\ es[k] \in Dir
             /\ es[k].id = ds[k].id /\ es[k].files = ds[k].files
             /\ es[k].name.name = ds[k].name.name
             /\ ds[k].name = Entry("final") => es[k].name = Entry("final")
  <2>1. SoundDir(ds[k])  BY DEF SoundDirs
  <2>2. es[k] = [ds[k] EXCEPT !.name = Synced(@)]  OBVIOUS
  <2> DEFINE d == ds[k]
  <2>3. LET e == [d EXCEPT !.name = Synced(@)] IN
        /\ SoundDir(e) /\ e \in Dir /\ e.id = d.id /\ e.files = d.files
        /\ e.name = Entry(d.name.name)
    BY <2>1, SyncedDirSound
  <2> HIDE DEF es
  <2> QED  BY <2>2, <2>3 DEF Entry
<1>3. es \in [1..Len(ds) -> Dir]
  BY <1>1, <1>2
<1>4. es \in Seq(Dir) /\ Len(es) = Len(ds)
  BY <1>1, <1>3, IsASeq, LenProperties
<1> HIDE DEF es
<1>5. SoundDirs(es)
  BY <1>1, <1>2, <1>4 DEF SoundDirs
<1> QED  BY <1>1, <1>2, <1>4, <1>5 DEF SyncedFrom, es

\* One directory is replaced by a sound one.
LEMMA ReplacedSound ==
  ASSUME NEW ds, SoundDirs(ds), NEW k \in DOMAIN ds, NEW d, SoundDir(d)
  PROVE  LET es == [ds EXCEPT ![k] = d] IN
         /\ SoundDirs(es) /\ Len(es) = Len(ds) /\ DOMAIN es = DOMAIN ds
         /\ es[k] = d /\ \A j \in DOMAIN ds \ {k} : es[j] = ds[j]
<1> DEFINE es == [ds EXCEPT ![k] = d]
<1>1. Len(ds) \in Nat /\ DOMAIN ds = 1..Len(ds) /\ DOMAIN es = DOMAIN ds /\ ds \in [1..Len(ds) -> Dir]
  BY DEF SoundDirs
<1>2. d \in Dir  BY DEF SoundDir
<1>3. es[k] = d /\ \A j \in DOMAIN ds \ {k} : es[j] = ds[j]  OBVIOUS
<1>4. es \in [1..Len(ds) -> Dir]  BY <1>1, <1>2
<1>5. es \in Seq(Dir) /\ Len(es) = Len(ds)
  BY <1>1, <1>4, IsASeq, LenProperties
<1> HIDE DEF es
<1>6. SoundDirs(es)
  BY <1>1, <1>3, <1>5 DEF SoundDirs
<1> QED  BY <1>1, <1>3, <1>5, <1>6 DEF es

\* A directory that is not final gets another name than "final".
LEMMA RenamedSound ==
  ASSUME NEW d, SoundDir(d), NEW x \in {"gone", "temp"}, d.name.name # "final"
  PROVE  LET e == [d EXCEPT !.name = Changed(@, x)] IN
         SoundDir(e) /\ e.id = d.id /\ e.files = d.files /\ e.name.name = x
<1>1. d \in Dir /\ d.name \in EntryOf(Names) /\ "final" \notin d.name.disk
  BY DEF SoundDir, Dir
<1> DEFINE n == Changed(d.name, x)
<1>2. n \in EntryOf(Names) /\ n.name = x /\ n.disk = d.name.disk \cup {x}
  BY <1>1 DEF Changed, EntryOf, Names
<1> HIDE DEF n
<1> DEFINE e == [d EXCEPT !.name = n]
<1>3. e \in Dir /\ e.id = d.id /\ e.files = d.files /\ e.name = n
  BY <1>1, <1>2 DEF Dir
<1>4. SoundDir(e)
  BY <1>1, <1>2, <1>3 DEF SoundDir
<1> QED  BY <1>2, <1>3, <1>4 DEF n

\* A directory whose objects are on the disk gets its final name.
LEMMA FinalizedSound ==
  ASSUME NEW d, SoundDir(d), d.files = Entry(Objects)
  PROVE  LET e == [d EXCEPT !.name = Changed(@, "final")] IN
         SoundDir(e) /\ e.id = d.id /\ e.files = d.files /\ e.name.name = "final"
<1>1. d \in Dir /\ d.name \in EntryOf(Names)
  BY DEF SoundDir, Dir
<1> DEFINE n == Changed(d.name, "final")
<1>2. n \in EntryOf(Names) /\ n.name = "final" /\ n.disk = d.name.disk \cup {"final"}
  BY <1>1 DEF Changed, EntryOf, Names
<1> HIDE DEF n
<1> DEFINE e == [d EXCEPT !.name = n]
<1>3. e \in Dir /\ e.id = d.id /\ e.files = d.files /\ e.name = n
  BY <1>1, <1>2 DEF Dir
<1>4. SoundDir(e)
  BY <1>2, <1>3 DEF SoundDir
<1> QED  BY <1>2, <1>3, <1>4 DEF n

\* The objects of a directory that is not final change.
LEMMA RefilledSound ==
  ASSUME NEW d, SoundDir(d), d.name.name # "final",
         NEW f \in EntryOf(0..Objects), f.name \in f.disk
  PROVE  LET e == [d EXCEPT !.files = f] IN
         SoundDir(e) /\ e.id = d.id /\ e.files = f /\ e.name = d.name
<1>1. d \in Dir /\ "final" \notin d.name.disk
  BY DEF SoundDir
<1> DEFINE e == [d EXCEPT !.files = f]
<1>2. e \in Dir /\ e.id = d.id /\ e.files = f /\ e.name = d.name
  BY <1>1 DEF Dir
<1>3. SoundDir(e)
  BY <1>1, <1>2 DEF SoundDir
<1> QED  BY <1>2, <1>3

\* What Unsettled releases is settled.
LEMMA ReleasedIsSettled ==
  ASSUME NEW ids, NEW ds, NEW ts, NEW id \in ids, id \notin Unsettled(ids, ds, ts)
  PROVE  Settled(id, ds, ts)
BY DEF Unsettled, Settled

-----------------------------------------------------------------------------
(* CacheStore::initialize.                                                 *)

\* Whatever the process is doing, a settled reference has the marker behind it.
LEMMA OpenMarker ==
  ASSUME CacheInv, host = "open", NEW t \in CacheTasks, taskDirs[t].disk = {"there"}
  PROVE  marker = Entry("done")
BY DEF CacheInv, HostSound, MarkerSound

\* The task of a generation.
LEMMA TaskIn ==
  ASSUME NEW id \in CacheIds
  PROVE  TaskOf(id) \in CacheTasks
BY DEF CacheTasks

\* OpenCache keeps the invariant.
LEMMA OpenCacheStep ==
  ASSUME CacheInv, OpenCache
  PROVE  CacheInv'
<1> USE DEF CacheInv
<1>1. DirsSound'
  BY DEF OpenCache, DirsSound
<1>2. TasksSound'
  BY DEF OpenCache, TasksSound
<1>3. MarkerSound' /\ HostSound' /\ RefsSettled'
  <2>1. CASE marker.name = "done"
    <3>1. host' = "open" /\ UNCHANGED <<secret, marker, taskDirs, dirs, worker, daemon, refs, adopted>>
      BY <2>1 DEF OpenCache, Rest
    <3>2. MarkerSound' /\ RefsSettled'
      BY <3>1 DEF MarkerSound, RefsSettled
    <3>3. HostSound'
      BY <2>1, <3>1 DEF HostSound
    <3> QED  BY <3>2, <3>3
  <2>2. CASE marker.name # "done"
    <3>1. /\ host = "down" /\ host' = "keyed" /\ secret' = TRUE
          /\ marker' = Entry("gone") \/ marker' = marker
          /\ \A t \in CacheTasks : taskDirs[t] = Entry("gone")
          /\ UNCHANGED <<taskDirs, dirs, worker, daemon, refs, adopted>>
      BY <2>2 DEF OpenCache, Rest, TasksSound
    <3>2. \A t \in CacheTasks : taskDirs[t].disk # {"there"}
      BY <3>1 DEF Entry
    <3>3. Entry("gone") \in EntryOf(MarkerNames) /\ Entry("gone").name \in Entry("gone").disk
      BY DEF Entry, EntryOf, MarkerNames
    <3>4. MarkerSound'
      BY <3>1, <3>2, <3>3 DEF MarkerSound
    <3>5. HostSound'
      BY <3>1 DEF HostSound
    <3>6. refs \ adopted = {}
      BY <2>2 DEF RefsSettled, Entry
    <3>7. RefsSettled'
      BY <3>1, <3>6 DEF RefsSettled
    <3> QED  BY <3>4, <3>5, <3>7
  <2> QED  BY <2>1, <2>2
<1>4. GateSound' /\ WorkerSound' /\ DaemonSound'
  BY DEF OpenCache, Rest, GateSound, WorkerSound, DaemonSound
<1> QED  BY <1>1, <1>2, <1>3, <1>4

\* WriteMarker keeps the invariant: no task directory is there yet.
LEMMA WriteMarkerStep ==
  ASSUME CacheInv, WriteMarker
  PROVE  CacheInv'
<1> USE DEF CacheInv
<1>0. UNCHANGED <<secret, taskDirs, dirs, gate, worker, daemon, refs, used, adopted>>
  BY DEF WriteMarker, Rest
<1>1. DirsSound' /\ TasksSound' /\ GateSound' /\ WorkerSound' /\ DaemonSound'
  BY <1>0 DEF DirsSound, TasksSound, GateSound, WorkerSound, DaemonSound
<1>2. /\ host \in {"keyed", "written", "renamed"} /\ secret
      /\ \A t \in CacheTasks : taskDirs[t] = Entry("gone")
  BY DEF WriteMarker, Opening, HostSound
<1>3. \A t \in CacheTasks : taskDirs[t].disk # {"there"}
  BY <1>2 DEF Entry
<1>4. refs \ adopted = {}
  BY <1>3, TaskIn DEF RefsSettled, Settled
<1>5. RefsSettled'
  BY <1>0, <1>4 DEF RefsSettled
<1>6. marker \in EntryOf(MarkerNames) /\ marker.name \in MarkerNames
  BY DEF MarkerSound, EntryOf
<1>7. MarkerSound' /\ HostSound'
  <2>1. CASE host = "keyed" /\ host' = "written" /\ marker' = Entry("temp")
    <3>1. marker' \in EntryOf(MarkerNames) /\ marker'.name \in marker'.disk
      BY <2>1 DEF Entry, EntryOf, MarkerNames
    <3> QED  BY <1>0, <1>2, <1>3, <2>1, <3>1 DEF MarkerSound, HostSound
  <2>2. CASE host = "written" /\ host' = "renamed" /\ marker' = Changed(marker, "done")
    <3>1. marker' \in EntryOf(MarkerNames) /\ marker'.name \in marker'.disk
      BY <1>6, <2>2 DEF Changed, EntryOf, MarkerNames
    <3>2. marker'.name = "done"
      BY <1>6, <2>2 DEF Changed, EntryOf
    <3> QED  BY <1>0, <1>2, <1>3, <2>2, <3>1, <3>2 DEF MarkerSound, HostSound
  <2>3. CASE host = "renamed" /\ host' = "open" /\ marker' = Synced(marker)
    <3>1. marker.name = "done"
      BY <2>3 DEF HostSound
    <3>2. marker' = Entry("done")
      BY <2>3, <3>1 DEF Synced
    <3>3. /\ marker' \in EntryOf(MarkerNames) /\ marker'.name \in marker'.disk
          /\ marker'.name = "done"
      BY <3>2 DEF Entry, EntryOf, MarkerNames
    <3> QED  BY <1>0, <1>2, <1>3, <2>3, <3>3 DEF MarkerSound, HostSound
  <2> QED  BY <2>1, <2>2, <2>3 DEF WriteMarker, Opening
<1> QED  BY <1>1, <1>5, <1>7

-----------------------------------------------------------------------------
(* The summary worker.                                                     *)

\* A worker that is in publish_observed holds the gate, and the cache is open.
LEMMA WorkerActive ==
  ASSUME CacheInv, worker # Idle
  PROVE  /\ WorkerAt(worker, dirs) /\ gate = "worker" /\ daemon = Idle
         /\ host = "open" /\ marker.name = "done"
BY DEF CacheInv, WorkerSound, GateSound, HostSound

\* A worker that is at a step is not idle.
LEMMA NotIdle ==
  ASSUME NEW w, w.at # "idle"
  PROVE  w # Idle
BY DEF Idle

\* The references stay settled when the directories stay so and what leaves the exception
\* is settled.
LEMMA RefsKept ==
  ASSUME CacheInv, refs' \subseteq refs,
         \A id \in CacheIds : Settled(id, dirs, taskDirs) => Settled(id, dirs', taskDirs'),
         \A id \in refs' \cap adopted : id \in adopted' \/ Settled(id, dirs', taskDirs'),
         \A t \in CacheTasks : taskDirs'[t].disk = {"there"} => marker' = Entry("done")
  PROVE  RefsSettled'
<1>1. refs \subseteq CacheIds
  BY DEF CacheInv, RefsSettled
<1>2. ASSUME NEW id \in refs' \ adopted'
      PROVE  Settled(id, dirs', taskDirs') /\ marker' = Entry("done")
  <2>1. Settled(id, dirs', taskDirs')
    <3>1. CASE id \in adopted
      BY <3>1
    <3>2. CASE id \notin adopted
      BY <1>1, <3>2 DEF CacheInv, RefsSettled
    <3> QED  BY <3>1, <3>2
  <2>2. TaskOf(id) \in CacheTasks
    BY <1>1, TaskIn
  <2> QED  BY <2>1, <2>2 DEF Settled
<1> QED  BY <1>1, <1>2 DEF RefsSettled

\* A step of the worker that leaves the root alone disturbs the directories only.
LEMMA WorkerFrame ==
  ASSUME CacheInv, worker # Idle, worker' # Idle,
         UNCHANGED <<host, secret, marker, gate, daemon, taskDirs>>
  PROVE  TasksSound' /\ MarkerSound' /\ HostSound' /\ GateSound' /\ DaemonSound'
<1>1. gate = "worker" /\ daemon = Idle /\ host = "open" /\ marker.name = "done"
  BY WorkerActive
<1>2. TasksSound'
  BY DEF CacheInv, TasksSound
<1>3. MarkerSound'
  BY DEF CacheInv, MarkerSound
<1>4. HostSound' /\ GateSound' /\ DaemonSound'
  BY <1>1 DEF HostSound, GateSound, DaemonSound
<1> QED  BY <1>2, <1>3, <1>4

\* Another step of a worker.
LEMMA NextWorker ==
  ASSUME NEW ds, NEW w, WorkerAt(w, ds),
         NEW to \in {"root", "make", "write", "sync", "rename", "renamed", "commit"}
  PROVE  LET v == [w EXCEPT !.at = to] IN
         /\ v \in [at : {"root", "make", "write", "sync", "rename", "renamed", "commit"}, id : CacheIds]
         /\ v.at = to /\ v.id = w.id /\ v # Idle
<1>1. w \in [at : {"root", "make", "write", "sync", "rename", "renamed", "commit"}, id : CacheIds]
  BY DEF WorkerAt
<1> DEFINE v == [w EXCEPT !.at = to]
<1>2. /\ v \in [at : {"root", "make", "write", "sync", "rename", "renamed", "commit"}, id : CacheIds]
      /\ v.at = to /\ v.id = w.id
  BY <1>1
<1> HIDE DEF v
<1>3. v # Idle
  BY <1>2, NotIdle
<1> QED  BY <1>2, <1>3 DEF v

\* BeginPublish keeps the invariant: the task directory it makes is not settled.
LEMMA BeginPublishStep ==
  ASSUME CacheInv, NEW id \in CacheIds, BeginPublish(id)
  PROVE  CacheInv'
<1> DEFINE t == TaskOf(id)
<1>0. /\ host = "open" /\ gate = "free" /\ worker = Idle /\ gate' = "worker"
      /\ worker' = [at |-> IF taskDirs[t].name = "gone" THEN "root" ELSE "make", id |-> id]
      /\ taskDirs' = IF taskDirs[t].name = "gone" THEN [taskDirs EXCEPT ![t] = New("gone", "there")]
                                                  ELSE taskDirs
      /\ UNCHANGED <<host, secret, marker, dirs, daemon, refs, adopted>>
  BY DEF BeginPublish, GateFree
<1>1. daemon = Idle /\ marker.name = "done"
  BY <1>0 DEF CacheInv, GateSound, HostSound
<1>2. t \in CacheTasks
  BY TaskIn
<1>3. DirsSound'
  BY <1>0 DEF CacheInv, DirsSound
<1>4. taskDirs \in [CacheTasks -> EntryOf({"gone", "there"})]
  BY DEF CacheInv, TasksSound
<1>5. /\ taskDirs' \in [CacheTasks -> EntryOf({"gone", "there"})]
      /\ \A s \in CacheTasks :
           \/ taskDirs'[s] = taskDirs[s]
           \/ taskDirs'[s] = New("gone", "there") /\ taskDirs[s].name = "gone"
  <2>1. New("gone", "there") \in EntryOf({"gone", "there"})
    BY DEF New, EntryOf
  <2> QED  BY <1>0, <1>2, <1>4, <2>1
<1>6. /\ New("gone", "there").name = "there" /\ New("gone", "there").disk = {"gone", "there"}
      /\ New("gone", "there").disk # {"there"}
  BY DEF New
<1>7. TasksSound'
  BY <1>5, <1>6 DEF CacheInv, TasksSound
<1>8. MarkerSound'
  BY <1>0, <1>5, <1>6 DEF CacheInv, MarkerSound
<1>9. worker' \in [at : {"root", "make"}, id : CacheIds] /\ worker' # Idle
  <2>1. worker' \in [at : {"root", "make"}, id : CacheIds]
    BY <1>0
  <2> QED  BY <2>1, NotIdle
<1>10. HostSound' /\ GateSound' /\ DaemonSound'
  BY <1>0, <1>1, <1>9 DEF HostSound, GateSound, DaemonSound
<1>11. WorkerSound'
  BY <1>9 DEF WorkerSound, WorkerAt
<1>12. \A s \in CacheTasks : taskDirs[s].disk = {"there"} => taskDirs[s].name = "there"
  BY DEF CacheInv, TasksSound
<1>13. RefsSettled'
  <2>1. \A x \in CacheIds : Settled(x, dirs, taskDirs) => Settled(x, dirs', taskDirs')
    BY <1>0, <1>5, <1>12, TaskIn DEF Settled
  <2>2. \A s \in CacheTasks : taskDirs'[s].disk = {"there"} => marker' = Entry("done")
    BY <1>0, <1>5, <1>6, OpenMarker
  <2> QED  BY <1>0, <2>1, <2>2, RefsKept
<1> QED  BY <1>3, <1>7, <1>8, <1>10, <1>11, <1>13 DEF CacheInv

\* A sync of the root makes every task directory and the marker durable.
LEMMA RootSynced ==
  ASSUME CacheInv, host = "open", UNCHANGED <<host, secret>>,
         marker' = Synced(marker), taskDirs' = [t \in CacheTasks |-> Synced(taskDirs[t])]
  PROVE  /\ TasksSound' /\ MarkerSound' /\ marker' = Entry("done") /\ marker'.name = "done"
         /\ \A t \in CacheTasks : taskDirs[t].disk = {"there"} => taskDirs'[t].disk = {"there"}
<1>1. marker.name = "done" /\ secret
  BY DEF CacheInv, HostSound, MarkerSound
<1>2. marker' = Entry("done") /\ marker'.name = "done" /\ marker' = Entry(marker'.name)
  BY <1>1 DEF Synced, Entry
<1>3. marker' \in EntryOf(MarkerNames) /\ marker'.name \in marker'.disk
  BY <1>2 DEF Entry, EntryOf, MarkerNames
<1>4. MarkerSound'
  BY <1>1, <1>2, <1>3 DEF MarkerSound
<1>5. ASSUME NEW t \in CacheTasks
      PROVE  /\ taskDirs'[t] \in EntryOf({"gone", "there"})
             /\ taskDirs'[t].name \in taskDirs'[t].disk
             /\ taskDirs'[t].name = "gone" => taskDirs'[t] = Entry("gone")
             /\ taskDirs[t].disk = {"there"} => taskDirs'[t].disk = {"there"}
  <2>1. /\ taskDirs[t] \in EntryOf({"gone", "there"}) /\ taskDirs[t].name \in {"gone", "there"}
        /\ taskDirs[t].name \in taskDirs[t].disk
    BY DEF CacheInv, TasksSound, EntryOf
  <2>2. taskDirs'[t] = Entry(taskDirs[t].name)
    BY DEF Synced
  <2> QED  BY <2>1, <2>2 DEF Entry, EntryOf
<1>6. taskDirs' \in [CacheTasks -> EntryOf({"gone", "there"})]
  BY <1>5
<1>7. TasksSound'
  BY <1>5, <1>6 DEF TasksSound
<1> QED  BY <1>2, <1>4, <1>5, <1>7

\* SyncRoot keeps the invariant.
LEMMA SyncRootStep ==
  ASSUME CacheInv, SyncRoot
  PROVE  CacheInv'
<1>0. /\ worker.at = "root" /\ worker' = [worker EXCEPT !.at = "make"]
      /\ marker' = Synced(marker) /\ taskDirs' = [t \in CacheTasks |-> Synced(taskDirs[t])]
      /\ adopted' = Unsettled(adopted, dirs, taskDirs')
      /\ UNCHANGED <<host, secret, dirs, gate, daemon, refs>>
  BY DEF SyncRoot
<1>1. /\ worker # Idle /\ WorkerAt(worker, dirs) /\ gate = "worker" /\ daemon = Idle
      /\ host = "open"
  BY <1>0, NotIdle, WorkerActive
<1>2. /\ TasksSound' /\ MarkerSound' /\ marker' = Entry("done") /\ marker'.name = "done"
      /\ \A t \in CacheTasks : taskDirs[t].disk = {"there"} => taskDirs'[t].disk = {"there"}
  BY <1>0, <1>1, RootSynced
<1>3. DirsSound'
  BY <1>0 DEF CacheInv, DirsSound
<1>4. /\ worker' \in [at : {"root", "make", "write", "sync", "rename", "renamed", "commit"}, id : CacheIds]
      /\ worker'.at = "make" /\ worker' # Idle
  BY <1>0, <1>1, NextWorker
<1>5. WorkerSound'
  BY <1>4 DEF WorkerSound, WorkerAt
<1>6. HostSound' /\ GateSound' /\ DaemonSound'
  BY <1>0, <1>1, <1>2 DEF HostSound, GateSound, DaemonSound
<1>7. RefsSettled'
  <2>1. \A x \in CacheIds : Settled(x, dirs, taskDirs) => Settled(x, dirs', taskDirs')
    BY <1>0, <1>2, TaskIn DEF Settled
  <2>2. \A x \in refs' \cap adopted : x \in adopted' \/ Settled(x, dirs', taskDirs')
    <3> PICK ts : ts = taskDirs'  OBVIOUS
    <3>1. adopted' = Unsettled(adopted, dirs, ts)  BY <1>0
    <3> QED  BY <1>0, <3>1, ReleasedIsSettled
  <2> QED  BY <1>0, <1>2, <2>1, <2>2, RefsKept
<1> QED  BY <1>2, <1>3, <1>5, <1>6, <1>7 DEF CacheInv

\* A directory that was not settled is replaced: what was settled is.
LEMMA ReplacedSettled ==
  ASSUME NEW ds, NEW es, NEW ts, NEW k \in DOMAIN ds, ds[k].name # Entry("final"),
         DOMAIN es = DOMAIN ds, \A j \in DOMAIN ds \ {k} : es[j] = ds[j],
         NEW id, Settled(id, ds, ts)
  PROVE  Settled(id, es, ts)
BY DEF Settled

\* The worker changes the directory it makes, which is not settled yet.
LEMMA CurrentReplaced ==
  ASSUME CacheInv, worker # Idle, worker' # Idle,
         UNCHANGED <<host, secret, marker, gate, daemon, refs, taskDirs, adopted>>,
         CurrentDir \in DOMAIN dirs, dirs[CurrentDir].name.name = "temp",
         NEW d, SoundDir(d), dirs' = [dirs EXCEPT ![CurrentDir] = d],
         WorkerAt(worker', dirs')
  PROVE  CacheInv'
<1>1. TasksSound' /\ MarkerSound' /\ HostSound' /\ GateSound' /\ DaemonSound'
  BY WorkerFrame
<1>2. SoundDirs(dirs)
  BY DEF CacheInv, DirsSound
<1>3. /\ SoundDirs(dirs') /\ DOMAIN dirs' = DOMAIN dirs
      /\ \A j \in DOMAIN dirs \ {CurrentDir} : dirs'[j] = dirs[j]
  BY <1>2, ReplacedSound
<1>4. DirsSound' /\ WorkerSound'
  BY <1>3 DEF DirsSound, WorkerSound
<1>5. host = "open"
  BY WorkerActive
<1>6. RefsSettled'
  <2>1. dirs[CurrentDir].name # Entry("final")
    BY DEF Entry
  <2>2. ASSUME NEW x \in CacheIds, Settled(x, dirs, taskDirs)
        PROVE  Settled(x, dirs', taskDirs')
    <3> PICK es : es = dirs'  OBVIOUS
    <3>1. Settled(x, es, taskDirs)
      BY <1>3, <2>1, <2>2, ReplacedSettled
    <3> QED  BY <3>1
  <2>3. \A t \in CacheTasks : taskDirs'[t].disk = {"there"} => marker' = Entry("done")
    BY <1>5, OpenMarker
  <2> QED  BY <2>2, <2>3, RefsKept
<1> QED  BY <1>1, <1>4, <1>6 DEF CacheInv

\* MakeTemporary keeps the invariant.
LEMMA MakeTemporaryStep ==
  ASSUME CacheInv, MakeTemporary
  PROVE  CacheInv'
<1> DEFINE d == [id |-> worker.id, name |-> New("gone", "temp"), files |-> Entry(0)]
<1>0. /\ worker.at = "make" /\ worker' = [worker EXCEPT !.at = "write"]
      /\ dirs' = Append(dirs, d)
      /\ UNCHANGED <<host, secret, marker, gate, daemon, refs, taskDirs, adopted>>
  BY DEF MakeTemporary, WorkerStep
<1>1. worker # Idle /\ WorkerAt(worker, dirs) /\ host = "open"
  BY <1>0, NotIdle, WorkerActive
<1>2. /\ worker' \in [at : {"root", "make", "write", "sync", "rename", "renamed", "commit"}, id : CacheIds]
      /\ worker'.at = "write" /\ worker'.id = worker.id /\ worker' # Idle
  BY <1>0, <1>1, NextWorker
<1>3. TasksSound' /\ MarkerSound' /\ HostSound' /\ GateSound' /\ DaemonSound'
  BY <1>0, <1>1, <1>2, WorkerFrame
<1>4. /\ d.id = worker.id /\ d.name.name = "temp" /\ d.files.name = 0 /\ SoundDir(d) /\ d \in Dir
  <2>1. New("gone", "temp") \in EntryOf(Names) /\ Entry(0) \in EntryOf(0..Objects)
    BY DEF New, Entry, EntryOf, Names, Objects
  <2>2. worker.id \in CacheIds
    BY <1>1 DEF WorkerAt
  <2>3. d \in Dir
    BY <2>1, <2>2 DEF Dir
  <2> QED  BY <2>3 DEF SoundDir, New, Entry
<1> HIDE DEF d
<1>5. SoundDirs(dirs) /\ dirs \in Seq(Dir)
  BY DEF CacheInv, DirsSound, SoundDirs
<1>6. /\ dirs' \in Seq(Dir) /\ Len(dirs') = Len(dirs) + 1
      /\ Len(dirs) \in Nat /\ DOMAIN dirs = 1..Len(dirs) /\ DOMAIN dirs' = 1..(Len(dirs) + 1)
      /\ dirs'[Len(dirs) + 1] = d /\ \A k \in DOMAIN dirs : dirs'[k] = dirs[k]
  <2> PICK es : es = Append(dirs, d)  OBVIOUS
  <2>1. /\ es \in Seq(Dir) /\ Len(es) = Len(dirs) + 1
        /\ Len(dirs) \in Nat /\ DOMAIN dirs = 1..Len(dirs) /\ DOMAIN es = 1..(Len(dirs) + 1)
        /\ es[Len(dirs) + 1] = d /\ \A k \in DOMAIN dirs : es[k] = dirs[k]
    BY <1>4, <1>5
  <2> QED  BY <1>0, <2>1
<1>7. DirsSound'
  <2>1. ASSUME NEW k \in DOMAIN dirs'  PROVE SoundDir(dirs'[k])
    <3>1. k \in DOMAIN dirs \/ k = Len(dirs) + 1
      BY <1>6
    <3> QED  BY <1>4, <1>5, <1>6, <3>1 DEF SoundDirs
  <2> QED  BY <1>6, <2>1 DEF DirsSound, SoundDirs
<1>8. WorkerSound'
  <2>1. Len(dirs') \in DOMAIN dirs' /\ dirs'[Len(dirs')] = d
    BY <1>6
  <2>2. WorkerAt(worker', dirs')
    BY <1>2, <1>4, <2>1 DEF WorkerAt, Objects
  <2> QED  BY <2>2 DEF WorkerSound
<1>9. RefsSettled'
  <2>1. DOMAIN dirs \subseteq DOMAIN dirs'
    BY <1>6
  <2>2. \A x \in CacheIds : Settled(x, dirs, taskDirs) => Settled(x, dirs', taskDirs')
    BY <1>0, <1>6, <2>1 DEF Settled
  <2>3. \A t \in CacheTasks : taskDirs'[t].disk = {"there"} => marker' = Entry("done")
    BY <1>0, <1>1, OpenMarker
  <2> QED  BY <1>0, <2>2, <2>3, RefsKept
<1> QED  BY <1>3, <1>7, <1>8, <1>9 DEF CacheInv

\* WriteObject keeps the invariant.
LEMMA WriteObjectStep ==
  ASSUME CacheInv, WriteObject
  PROVE  CacheInv'
<1> DEFINE n == CurrentDir
<1> DEFINE to == IF dirs[n].files.name + 1 = Objects THEN "sync" ELSE "write"
<1>0. /\ worker.at = "write" /\ worker' = [worker EXCEPT !.at = to]
      /\ dirs' = [dirs EXCEPT ![n].files = Changed(@, @.name + 1)]
      /\ UNCHANGED <<host, secret, marker, gate, daemon, refs, taskDirs, adopted>>
  BY DEF WriteObject, WorkerStep
<1>1. worker # Idle /\ WorkerAt(worker, dirs)
  BY <1>0, NotIdle, WorkerActive
<1>2. /\ worker' \in [at : {"root", "make", "write", "sync", "rename", "renamed", "commit"}, id : CacheIds]
      /\ worker'.at = to /\ worker'.id = worker.id /\ worker' # Idle
  BY <1>0, <1>1, NextWorker
<1>3. /\ n \in DOMAIN dirs /\ dirs[n].id = worker.id /\ dirs[n].name.name = "temp"
      /\ dirs[n].files.name < Objects /\ n = Len(dirs)
  BY <1>0, <1>1 DEF WorkerAt, CurrentDir
<1>4. SoundDirs(dirs) /\ SoundDir(dirs[n])
  BY <1>3 DEF CacheInv, DirsSound, SoundDirs
<1>5. /\ dirs[n].files \in EntryOf(0..Objects) /\ dirs[n].files.name \in 0..Objects
      /\ dirs[n].files.disk \in SUBSET (0..Objects)
  BY <1>4 DEF SoundDir, Dir, EntryOf
<1> PICK m \in 0..Objects : m = dirs[n].files.name + 1
  BY <1>3, <1>5 DEF Objects
<1> DEFINE f == Changed(dirs[n].files, m)
<1>6. f \in EntryOf(0..Objects) /\ f.name = m /\ f.name \in f.disk
  BY <1>5 DEF Changed, EntryOf
<1> HIDE DEF f
<1> DEFINE d == [dirs[n] EXCEPT !.files = f]
<1>7. SoundDir(d) /\ d.id = dirs[n].id /\ d.files = f /\ d.name = dirs[n].name
  BY <1>3, <1>4, <1>6, RefilledSound
<1>8. dirs' = [dirs EXCEPT ![n] = d]
  BY <1>0 DEF f
<1> HIDE DEF d, n
<1>9. Len(dirs') = Len(dirs) /\ DOMAIN dirs' = DOMAIN dirs /\ dirs'[n] = d
  BY <1>3, <1>4, <1>7, <1>8, ReplacedSound
<1>10. worker'.at = IF m = Objects THEN "sync" ELSE "write"
  BY <1>2
<1>11. WorkerAt(worker', dirs')
  <2>1. m # Objects => m < Objects
    BY DEF Objects
  <2> QED  BY <1>2, <1>3, <1>6, <1>7, <1>9, <1>10, <2>1 DEF WorkerAt
<1> QED  BY <1>0, <1>1, <1>2, <1>3, <1>7, <1>8, <1>11, CurrentReplaced DEF n

\* SyncTemporary keeps the invariant.
LEMMA SyncTemporaryStep ==
  ASSUME CacheInv, SyncTemporary
  PROVE  CacheInv'
<1> DEFINE n == CurrentDir
<1>0. /\ worker.at = "sync" /\ worker' = [worker EXCEPT !.at = "rename"]
      /\ dirs' = [dirs EXCEPT ![n].files = Synced(@)]
      /\ UNCHANGED <<host, secret, marker, gate, daemon, refs, taskDirs, adopted>>
  BY DEF SyncTemporary, WorkerStep
<1>1. worker # Idle /\ WorkerAt(worker, dirs)
  BY <1>0, NotIdle, WorkerActive
<1>2. /\ worker' \in [at : {"root", "make", "write", "sync", "rename", "renamed", "commit"}, id : CacheIds]
      /\ worker'.at = "rename" /\ worker'.id = worker.id /\ worker' # Idle
  BY <1>0, <1>1, NextWorker
<1>3. /\ n \in DOMAIN dirs /\ dirs[n].id = worker.id /\ dirs[n].name.name = "temp"
      /\ dirs[n].files.name = Objects /\ n = Len(dirs)
  BY <1>0, <1>1 DEF WorkerAt, CurrentDir
<1>4. SoundDirs(dirs) /\ SoundDir(dirs[n])
  BY <1>3 DEF CacheInv, DirsSound, SoundDirs
<1> DEFINE f == Entry(Objects)
<1>6. f \in EntryOf(0..Objects) /\ f.name \in f.disk
  BY DEF Entry, EntryOf, Objects
<1> HIDE DEF f
<1> DEFINE d == [dirs[n] EXCEPT !.files = f]
<1>7. SoundDir(d) /\ d.id = dirs[n].id /\ d.files = f /\ d.name = dirs[n].name
  BY <1>3, <1>4, <1>6, RefilledSound
<1>8. dirs' = [dirs EXCEPT ![n] = d]
  BY <1>0, <1>3 DEF f, Synced
<1> HIDE DEF d, n
<1>9. Len(dirs') = Len(dirs) /\ DOMAIN dirs' = DOMAIN dirs /\ dirs'[n] = d
  BY <1>3, <1>4, <1>7, <1>8, ReplacedSound
<1>10. WorkerAt(worker', dirs')
  BY <1>2, <1>3, <1>7, <1>9 DEF WorkerAt, f
<1> QED  BY <1>0, <1>1, <1>2, <1>3, <1>7, <1>8, <1>10, CurrentReplaced DEF n

\* Rename keeps the invariant: the objects are on the disk.
LEMMA RenameStep ==
  ASSUME CacheInv, Rename
  PROVE  CacheInv'
<1> DEFINE n == CurrentDir
<1>0. /\ worker.at = "rename" /\ worker' = [worker EXCEPT !.at = "renamed"]
      /\ dirs' = [dirs EXCEPT ![n].name = Changed(@, "final")]
      /\ UNCHANGED <<host, secret, marker, gate, daemon, refs, taskDirs, adopted>>
  BY DEF Rename, WorkerStep
<1>1. worker # Idle /\ WorkerAt(worker, dirs)
  BY <1>0, NotIdle, WorkerActive
<1>2. /\ worker' \in [at : {"root", "make", "write", "sync", "rename", "renamed", "commit"}, id : CacheIds]
      /\ worker'.at = "renamed" /\ worker'.id = worker.id /\ worker' # Idle
  BY <1>0, <1>1, NextWorker
<1>3. /\ n \in DOMAIN dirs /\ dirs[n].id = worker.id /\ dirs[n].name.name = "temp"
      /\ dirs[n].files = Entry(Objects) /\ n = Len(dirs)
  BY <1>0, <1>1 DEF WorkerAt, CurrentDir
<1>4. SoundDirs(dirs) /\ SoundDir(dirs[n])
  BY <1>3 DEF CacheInv, DirsSound, SoundDirs
<1> DEFINE d == [dirs[n] EXCEPT !.name = Changed(@, "final")]
<1>5. SoundDir(d) /\ d.id = dirs[n].id /\ d.name.name = "final"
  BY <1>3, <1>4, FinalizedSound
<1>6. dirs' = [dirs EXCEPT ![n] = d]
  BY <1>0
<1> HIDE DEF d, n
<1>7. Len(dirs') = Len(dirs) /\ DOMAIN dirs' = DOMAIN dirs /\ dirs'[n] = d
  BY <1>3, <1>4, <1>5, <1>6, ReplacedSound
<1>8. WorkerAt(worker', dirs')
  BY <1>2, <1>3, <1>5, <1>7 DEF WorkerAt
<1> QED  BY <1>0, <1>1, <1>2, <1>3, <1>5, <1>6, <1>8, CurrentReplaced DEF n

\* What was settled is settled after a sync.
LEMMA SyncedSettled ==
  ASSUME NEW ds, NEW es, SyncedFrom(es, ds), NEW ts, NEW id, Settled(id, ds, ts)
  PROVE  Settled(id, es, ts)
BY DEF Settled, SyncedFrom

\* SyncParent keeps the invariant.
LEMMA SyncParentStep ==
  ASSUME CacheInv, SyncParent
  PROVE  CacheInv'
<1> DEFINE n == Len(dirs)
<1>0. /\ worker.at = "renamed" /\ worker' = [worker EXCEPT !.at = "commit"]
      /\ dirs' = SyncTask(dirs, TaskOf(worker.id)) /\ adopted' = Unsettled(adopted, dirs', taskDirs)
      /\ UNCHANGED <<host, secret, marker, gate, daemon, refs, taskDirs>>
  BY DEF SyncParent, WorkerStep
<1>1. worker # Idle /\ WorkerAt(worker, dirs) /\ host = "open"
  BY <1>0, NotIdle, WorkerActive
<1>2. /\ worker' \in [at : {"root", "make", "write", "sync", "rename", "renamed", "commit"}, id : CacheIds]
      /\ worker'.at = "commit" /\ worker'.id = worker.id /\ worker' # Idle
  BY <1>0, <1>1, NextWorker
<1>3. TasksSound' /\ MarkerSound' /\ HostSound' /\ GateSound' /\ DaemonSound'
  BY <1>0, <1>1, <1>2, WorkerFrame
<1>4. n \in DOMAIN dirs /\ dirs[n].id = worker.id /\ dirs[n].name.name = "final"
  BY <1>0, <1>1 DEF WorkerAt
<1> PICK es : es = SyncTask(dirs, TaskOf(worker.id))  OBVIOUS
<1>5. SyncedFrom(es, dirs) /\ es[n].name = Entry("final")
  BY <1>4, SyncTaskSound DEF CacheInv, DirsSound
<1>6. SoundDirs(es) /\ Len(es) = n /\ DOMAIN es = DOMAIN dirs /\ es[n].id = worker.id
  BY <1>4, <1>5 DEF SyncedFrom
<1>7. DirsSound'
  BY <1>0, <1>6 DEF DirsSound
<1>8. WorkerAt(worker', es)
  BY <1>2, <1>4, <1>5, <1>6 DEF WorkerAt
<1>9. WorkerSound'
  BY <1>0, <1>8 DEF WorkerSound
<1>10. RefsSettled'
  <2>1. \A x \in CacheIds : Settled(x, dirs, taskDirs) => Settled(x, dirs', taskDirs')
    BY <1>0, <1>5, SyncedSettled
  <2>2. \A x \in refs' \cap adopted : x \in adopted' \/ Settled(x, dirs', taskDirs')
    <3>1. adopted' = Unsettled(adopted, es, taskDirs)  BY <1>0
    <3> QED  BY <1>0, <3>1, ReleasedIsSettled
  <2>3. \A t \in CacheTasks : taskDirs'[t].disk = {"there"} => marker' = Entry("done")
    BY <1>0, <1>1, OpenMarker
  <2> QED  BY <1>0, <2>1, <2>2, <2>3, RefsKept
<1> QED  BY <1>3, <1>7, <1>9, <1>10 DEF CacheInv

\* A reference is added that is settled or counted as an exception.
LEMMA RefAdded ==
  ASSUME CacheInv, host = "open", UNCHANGED <<dirs, taskDirs, marker>>,
         NEW id \in CacheIds, refs' = refs \cup {id},
         id \in adopted' \/ Settled(id, dirs, taskDirs),
         \A x \in adopted : x \in adopted' \/ Settled(x, dirs, taskDirs)
  PROVE  RefsSettled'
<1>1. refs \subseteq CacheIds /\ refs' \subseteq CacheIds
  BY DEF CacheInv, RefsSettled
<1>2. ASSUME NEW x \in refs' \ adopted'
      PROVE  Settled(x, dirs, taskDirs)
  BY <1>2 DEF CacheInv, RefsSettled
<1>3. ASSUME NEW x \in refs' \ adopted'
      PROVE  marker = Entry("done")
  <2>1. TaskOf(x) \in CacheTasks
    BY <1>1, TaskIn
  <2>2. taskDirs[TaskOf(x)].disk = {"there"}
    BY <1>2 DEF Settled
  <2> QED  BY <2>1, <2>2, OpenMarker
<1> QED  BY <1>1, <1>2, <1>3 DEF RefsSettled

\* The disk is left alone, and the gate is free and nobody is at work afterwards.
LEMMA RestFrame ==
  ASSUME CacheInv, host = "open", host' = "open", UNCHANGED cacheDisk, worker' = Idle, daemon' = Idle
  PROVE  /\ DirsSound' /\ TasksSound' /\ MarkerSound' /\ HostSound' /\ GateSound'
         /\ WorkerSound' /\ DaemonSound'
<1>1. UNCHANGED <<secret, marker, taskDirs, dirs>>
  BY DEF cacheDisk
<1>2. DirsSound' /\ TasksSound' /\ MarkerSound'
  BY <1>1 DEF CacheInv, DirsSound, TasksSound, MarkerSound
<1>3. HostSound' /\ GateSound' /\ WorkerSound' /\ DaemonSound'
  BY <1>1 DEF CacheInv, HostSound, GateSound, WorkerSound, DaemonSound
<1> QED  BY <1>2, <1>3

\* CommitReference keeps the invariant: its generation is settled, or its task is not synced.
LEMMA CommitReferenceStep ==
  ASSUME CacheInv, CommitReference
  PROVE  CacheInv'
<1> DEFINE n == Len(dirs)
<1>0. /\ worker.at = "commit" /\ refs' = refs \cup {worker.id}
      /\ adopted' = IF taskDirs[TaskOf(worker.id)].disk = {"there"} THEN adopted
                    ELSE adopted \cup {worker.id}
      /\ worker' = Idle /\ gate' = "free" /\ UNCHANGED <<host, daemon>> /\ UNCHANGED cacheDisk
  BY DEF CommitReference, Published
<1>1. worker # Idle /\ WorkerAt(worker, dirs) /\ host = "open" /\ daemon = Idle
  BY <1>0, NotIdle, WorkerActive
<1>2. /\ n \in DOMAIN dirs /\ dirs[n].id = worker.id /\ dirs[n].name = Entry("final")
      /\ worker.id \in CacheIds
  BY <1>0, <1>1 DEF WorkerAt
<1>3. worker.id \in adopted' \/ Settled(worker.id, dirs, taskDirs)
  BY <1>0, <1>2 DEF Settled
<1>4. RefsSettled'
  BY <1>0, <1>1, <1>2, <1>3, RefAdded DEF cacheDisk
<1> QED  BY <1>0, <1>1, <1>4, RestFrame DEF CacheInv

\* Recover keeps the invariant.
LEMMA RecoverStep ==
  ASSUME CacheInv, NEW id \in CacheIds, Recover(id)
  PROVE  CacheInv'
<1>0. /\ host = "open" /\ gate = "free" /\ worker = Idle /\ refs' = refs \cup {id}
      /\ adopted' = Unsettled(adopted \cup {id}, dirs, taskDirs)
      /\ UNCHANGED <<host, gate, worker, daemon>> /\ UNCHANGED cacheDisk
  BY DEF Recover, GateFree, Published
<1>1. daemon = Idle
  BY <1>0 DEF CacheInv, GateSound
<1>2. \A x \in adopted \cup {id} : x \in adopted' \/ Settled(x, dirs, taskDirs)
  BY <1>0, ReleasedIsSettled
<1>3. RefsSettled'
  BY <1>0, <1>2, RefAdded DEF cacheDisk
<1> QED  BY <1>0, <1>1, <1>3, RestFrame DEF CacheInv

\* Release keeps the invariant.
LEMMA ReleaseStep ==
  ASSUME CacheInv, NEW id \in CacheIds, Release(id)
  PROVE  CacheInv'
<1>0. /\ refs' = refs \ {id} /\ adopted' = adopted \ {id}
      /\ UNCHANGED <<host, gate, worker, daemon, secret, marker, taskDirs, dirs>>
  BY DEF Release, cacheDisk
<1>1. DirsSound' /\ TasksSound' /\ MarkerSound' /\ HostSound' /\ GateSound' /\ WorkerSound'
  BY <1>0 DEF CacheInv, DirsSound, TasksSound, MarkerSound, HostSound, GateSound, WorkerSound
<1>2. DaemonSound'
  BY <1>0 DEF CacheInv, DaemonSound, DaemonAt
<1>3. RefsSettled'
  <2>1. refs' \ adopted' \subseteq refs \ adopted
    BY <1>0
  <2> QED  BY <1>0, <2>1 DEF CacheInv, RefsSettled
<1> QED  BY <1>1, <1>2, <1>3 DEF CacheInv

\* PublishFails keeps the invariant: the directory it may remove is not final.
LEMMA PublishFailsStep ==
  ASSUME CacheInv, PublishFails
  PROVE  CacheInv'
<1> DEFINE n == CurrentDir
<1>0. /\ worker # Idle /\ worker' = Idle /\ gate' = "free"
      /\ UNCHANGED <<host, secret, marker, taskDirs, daemon, refs, adopted>>
      /\ \/ /\ worker.at \in {"write", "sync", "rename"}
            /\ dirs' = [dirs EXCEPT ![n].name = Changed(@, "gone")]
         \/ UNCHANGED dirs
  BY DEF PublishFails
<1>1. /\ WorkerAt(worker, dirs) /\ gate = "worker" /\ daemon = Idle
      /\ host = "open" /\ marker.name = "done"
  BY <1>0, WorkerActive
<1>2. TasksSound' /\ MarkerSound' /\ HostSound' /\ GateSound' /\ WorkerSound' /\ DaemonSound'
  <2>1. TasksSound' /\ MarkerSound'
    BY <1>0 DEF CacheInv, TasksSound, MarkerSound
  <2>2. HostSound' /\ GateSound' /\ WorkerSound' /\ DaemonSound'
    BY <1>0, <1>1 DEF HostSound, GateSound, WorkerSound, DaemonSound
  <2> QED  BY <2>1, <2>2
<1>3. \A t \in CacheTasks : taskDirs'[t].disk = {"there"} => marker' = Entry("done")
  BY <1>0, <1>1, OpenMarker
<1>4. CASE UNCHANGED dirs
  <2>1. DirsSound' /\ RefsSettled'
    BY <1>0, <1>4 DEF CacheInv, DirsSound, RefsSettled
  <2> QED  BY <1>2, <2>1 DEF CacheInv
<1>5. CASE /\ worker.at \in {"write", "sync", "rename"}
           /\ dirs' = [dirs EXCEPT ![n].name = Changed(@, "gone")]
  <2>1. n \in DOMAIN dirs /\ dirs[n].name.name = "temp"
    BY <1>1, <1>5 DEF WorkerAt, CurrentDir
  <2>2. SoundDirs(dirs) /\ SoundDir(dirs[n])
    BY <2>1 DEF CacheInv, DirsSound, SoundDirs
  <2> DEFINE d == [dirs[n] EXCEPT !.name = Changed(@, "gone")]
  <2>3. SoundDir(d)
    BY <2>1, <2>2, RenamedSound
  <2>4. dirs' = [dirs EXCEPT ![n] = d]
    BY <1>5
  <2> HIDE DEF d, n
  <2> PICK es : es = [dirs EXCEPT ![n] = d]  OBVIOUS
  <2>5. /\ SoundDirs(es) /\ DOMAIN es = DOMAIN dirs
        /\ \A j \in DOMAIN dirs \ {n} : es[j] = dirs[j]
    BY <2>1, <2>2, <2>3, ReplacedSound
  <2>6. DirsSound'
    BY <2>4, <2>5 DEF DirsSound
  <2>7. dirs[n].name # Entry("final")
    BY <2>1 DEF Entry
  <2>8. \A x \in CacheIds : Settled(x, dirs, taskDirs) => Settled(x, dirs', taskDirs')
    BY <1>0, <2>1, <2>4, <2>5, <2>7, ReplacedSettled
  <2>9. RefsSettled'
    BY <1>0, <1>3, <2>8, RefsKept
  <2> QED  BY <1>2, <2>6, <2>9 DEF CacheInv
<1> QED  BY <1>0, <1>4, <1>5

-----------------------------------------------------------------------------
(* The playback handler.                                                   *)

\* A clean-up that is at work holds the gate, and the cache is open.
LEMMA DaemonActive ==
  ASSUME CacheInv, daemon # Idle
  PROVE  /\ DaemonAt(daemon, dirs, refs) /\ gate = "daemon" /\ worker = Idle
         /\ host = "open" /\ marker.name = "done"
BY DEF CacheInv, DaemonSound, GateSound, HostSound

\* BeginReconcile keeps the invariant: what it lists is temporary or has no reference.
LEMMA BeginReconcileStep ==
  ASSUME CacheInv, BeginReconcile
  PROVE  CacheInv'
<1> DEFINE left == Temps \cup {k \in Finals : dirs[k].id \notin refs}
<1>0. /\ host = "open" /\ gate = "free" /\ daemon = Idle /\ gate' = "daemon"
      /\ daemon' = [at |-> "remove", left |-> left]
      /\ UNCHANGED <<host, worker, refs, adopted, secret, marker, taskDirs, dirs>>
  BY DEF BeginReconcile, GateFree, cacheDisk
<1>1. worker = Idle /\ marker.name = "done"
  BY <1>0 DEF CacheInv, GateSound, HostSound
<1>2. DirsSound' /\ TasksSound' /\ MarkerSound' /\ WorkerSound' /\ RefsSettled'
  BY <1>0 DEF CacheInv, DirsSound, TasksSound, MarkerSound, WorkerSound, RefsSettled
<1>3. HostSound' /\ GateSound'
  BY <1>0, <1>1 DEF HostSound, GateSound
<1>4. /\ left \in SUBSET (DOMAIN dirs)
      /\ \A k \in left : dirs[k].name.name = "temp" \/ dirs[k].id \notin refs
  BY DEF Temps, Finals
<1> HIDE DEF left
<1>5. daemon' \in [at : {"remove"}, left : SUBSET (DOMAIN dirs)] /\ daemon'.left = left
  BY <1>0, <1>4
<1>6. DaemonSound'
  BY <1>0, <1>4, <1>5 DEF DaemonSound, DaemonAt
<1> QED  BY <1>2, <1>3, <1>6 DEF CacheInv

\* One directory has another name than "final" now, and the others are as they were or synced.
RetiredFrom(es, ds, k, x) ==
  /\ SoundDirs(es) /\ DOMAIN es = DOMAIN ds
  /\ es[k].id = ds[k].id /\ es[k].name.name = x
  /\ \A j \in DOMAIN ds \ {k} :
       /\ es[j].id = ds[j].id /\ es[j].name.name = ds[j].name.name
       /\ ds[j].name = Entry("final") => es[j].name = Entry("final")

\* A directory gets another name than "final", and its task is synced.
LEMMA RetiredSound ==
  ASSUME NEW ds, SoundDirs(ds), NEW k \in DOMAIN ds, NEW x \in {"gone", "temp"}
  PROVE  RetiredFrom(SyncTask([ds EXCEPT ![k].name = Changed(@, x)], TaskOf(ds[k].id)), ds, k, x)
<1> DEFINE t == TaskOf(ds[k].id)
<1> DEFINE d == [ds[k] EXCEPT !.name = Entry(x)]
<1> DEFINE cs == [ds EXCEPT ![k].name = Changed(@, x)]
<1> DEFINE ss == SyncTask(ds, t)
<1>1. SoundDir(ds[k]) /\ ds[k] \in Dir /\ ds[k].name \in EntryOf(Names)
  BY DEF SoundDirs, SoundDir, Dir
<1>2. SoundDir(d) /\ d.id = ds[k].id /\ d.name = Entry(x)
  <2>1. Entry(x) \in EntryOf(Names) /\ Entry(x).name = x /\ Entry(x).disk = {x}
    BY DEF Entry, EntryOf, Names
  <2>2. d \in Dir /\ d.id = ds[k].id /\ d.name = Entry(x) /\ d.files = ds[k].files
    BY <1>1, <2>1 DEF Dir
  <2>3. SoundDir(d)
    BY <1>1, <2>1, <2>2 DEF SoundDir
  <2> QED  BY <2>2, <2>3
<1>3. SyncedFrom(ss, ds)
  BY SyncTaskSound
<1>4. SyncTask(cs, t) = [ss EXCEPT ![k] = d]
  <2>1. DOMAIN cs = DOMAIN ds /\ DOMAIN ss = DOMAIN ds
    BY DEF SyncTask
  <2>2. ASSUME NEW j \in DOMAIN ds  PROVE SyncTask(cs, t)[j] = [ss EXCEPT ![k] = d][j]
    <3>1. CASE j = k
      <4>1. cs[k] = [ds[k] EXCEPT !.name = Changed(@, x)]
        OBVIOUS
      <4>2. cs[k].id = ds[k].id /\ cs[k].name = Changed(ds[k].name, x)
        BY <1>1, <4>1 DEF Dir
      <4>3. cs[k].name.name = x
        BY <1>1, <4>2 DEF Changed, EntryOf
      <4>4. SyncTask(cs, t)[k] = [cs[k] EXCEPT !.name = Entry(x)]
        BY <2>1, <4>2, <4>3 DEF SyncTask, Synced
      <4>5. [cs[k] EXCEPT !.name = Entry(x)] = d
        BY <1>1, <4>1 DEF Dir
      <4> QED  BY <2>1, <3>1, <4>4, <4>5
    <3>2. CASE j # k
      <4>1. cs[j] = ds[j]
        BY <3>2
      <4> QED  BY <2>1, <3>2, <4>1 DEF SyncTask
    <3> QED  BY <3>1, <3>2
  <2>3. SyncTask(cs, t) = [j \in DOMAIN ds |-> SyncTask(cs, t)[j]]
    BY <2>1 DEF SyncTask
  <2> DEFINE rs == [ss EXCEPT ![k] = d]
  <2>4. rs = [j \in DOMAIN ds |-> rs[j]]
    BY <2>1 DEF SyncTask
  <2> QED  BY <2>2, <2>3, <2>4
<1> HIDE DEF ss, cs, d
<1>5. SoundDirs(ss) /\ DOMAIN ss = DOMAIN ds
  BY <1>3 DEF SyncedFrom
<1> DEFINE es == [ss EXCEPT ![k] = d]
<1>6. /\ SoundDirs(es) /\ DOMAIN es = DOMAIN ds /\ es[k] = d
      /\ \A j \in DOMAIN ds \ {k} : es[j] = ss[j]
  BY <1>2, <1>5, ReplacedSound
<1> HIDE DEF es
<1>7. \A j \in DOMAIN ds \ {k} :
        /\ es[j].id = ds[j].id /\ es[j].name.name = ds[j].name.name
        /\ ds[j].name = Entry("final") => es[j].name = Entry("final")
  BY <1>3, <1>6 DEF SyncedFrom
<1>8. es[k].id = ds[k].id /\ es[k].name.name = x
  BY <1>2, <1>6 DEF Entry
<1> QED  BY <1>4, <1>6, <1>7, <1>8 DEF RetiredFrom, es, cs

\* A step of the clean-up that changes one directory, to another name than "final" or inside
\* a temporary one, keeps the invariant.
LEMMA CleanupStep ==
  ASSUME CacheInv, daemon # Idle, NEW k \in daemon.left,
         UNCHANGED <<host, secret, marker, taskDirs, gate, worker, refs>>,
         \A x \in adopted : x \in adopted' \/ Settled(x, dirs', taskDirs'),
         daemon' \in [at : {"remove"}, left : SUBSET daemon.left],
         SoundDirs(dirs'), DOMAIN dirs' = DOMAIN dirs, dirs'[k].id = dirs[k].id,
         k \in daemon'.left => dirs'[k].name.name = "temp",
         \A j \in DOMAIN dirs \ {k} :
           /\ dirs'[j].id = dirs[j].id /\ dirs'[j].name.name = dirs[j].name.name
           /\ dirs[j].name = Entry("final") => dirs'[j].name = Entry("final")
  PROVE  CacheInv'
<1>1. /\ DaemonAt(daemon, dirs, refs) /\ gate = "daemon" /\ worker = Idle
      /\ host = "open" /\ marker.name = "done"
  BY DaemonActive
<1>2. daemon.left \subseteq DOMAIN dirs /\ k \in DOMAIN dirs
  BY <1>1 DEF DaemonAt
<1>3. DirsSound' /\ TasksSound' /\ MarkerSound'
  BY DEF CacheInv, DirsSound, TasksSound, MarkerSound
<1>4. HostSound' /\ GateSound' /\ WorkerSound'
  BY <1>1 DEF HostSound, GateSound, WorkerSound
<1>5. DaemonSound'
  <2>1. daemon' \in [at : {"remove"}, left : SUBSET (DOMAIN dirs')] /\ daemon'.left \subseteq daemon.left
    BY <1>2
  <2>2. ASSUME NEW j \in daemon'.left
        PROVE  dirs'[j].name.name = "temp" \/ dirs'[j].id \notin refs'
    <3>1. CASE j = k  BY <3>1
    <3>2. CASE j # k
      <4>1. j \in DOMAIN dirs \ {k} /\ j \in daemon.left  BY <1>2, <2>1, <3>2
      <4> QED  BY <1>1, <4>1 DEF DaemonAt
    <3> QED  BY <3>1, <3>2
  <2> QED  BY <2>1, <2>2 DEF DaemonSound, DaemonAt
<1>6. RefsSettled'
  <2>1. dirs[k].name = Entry("final") => dirs[k].id \notin refs
    BY <1>1 DEF DaemonAt, Entry
  <2>2. ASSUME NEW x \in refs \ adopted
        PROVE  Settled(x, dirs', taskDirs')
    <3>1. Settled(x, dirs, taskDirs)
      BY DEF CacheInv, RefsSettled
    <3> QED  BY <2>1, <3>1 DEF Settled
  <2>3. ASSUME NEW x \in refs' \ adopted'
        PROVE  Settled(x, dirs', taskDirs') /\ marker' = Entry("done")
    <3>1. Settled(x, dirs', taskDirs')
      BY <2>2
    <3>2. TaskOf(x) \in CacheTasks
      BY TaskIn DEF CacheInv, RefsSettled
    <3>3. taskDirs[TaskOf(x)].disk = {"there"}
      BY <3>1 DEF Settled
    <3> QED  BY <1>1, <3>1, <3>2, <3>3, OpenMarker
  <2> QED  BY <2>3 DEF CacheInv, RefsSettled
<1> QED  BY <1>3, <1>4, <1>5, <1>6 DEF CacheInv

\* RetireOrphan keeps the invariant.
LEMMA RetireOrphanStep ==
  ASSUME CacheInv, NEW k \in DOMAIN dirs, RetireOrphan(k)
  PROVE  CacheInv'
<1>0. /\ daemon.at = "remove" /\ k \in daemon.left /\ daemon' = daemon
      /\ dirs' = SyncTask([dirs EXCEPT ![k].name = Changed(@, "temp")], TaskOf(dirs[k].id))
      /\ adopted' = Unsettled(adopted, dirs', taskDirs)
      /\ UNCHANGED <<host, secret, marker, taskDirs, gate, worker, refs>>
  BY DEF RetireOrphan, DaemonStep
<1>1. daemon # Idle
  BY <1>0, NotIdle
<1>2. daemon' \in [at : {"remove"}, left : SUBSET daemon.left]
  BY <1>0, <1>1, DaemonActive DEF DaemonAt
<1> PICK es : es = SyncTask([dirs EXCEPT ![k].name = Changed(@, "temp")], TaskOf(dirs[k].id))
  OBVIOUS
<1>3. SoundDirs(dirs)
  BY DEF CacheInv, DirsSound
<1>4. RetiredFrom(es, dirs, k, "temp")
  BY <1>3, RetiredSound
<1>5. dirs' = es /\ adopted' = Unsettled(adopted, es, taskDirs)
  BY <1>0
<1>6. \A x \in adopted : x \in adopted' \/ Settled(x, dirs', taskDirs')
  BY <1>0, <1>5, ReleasedIsSettled
<1>7. /\ SoundDirs(dirs') /\ DOMAIN dirs' = DOMAIN dirs
      /\ dirs'[k].id = dirs[k].id /\ dirs'[k].name.name = "temp"
      /\ \A j \in DOMAIN dirs \ {k} :
           /\ dirs'[j].id = dirs[j].id /\ dirs'[j].name.name = dirs[j].name.name
           /\ dirs[j].name = Entry("final") => dirs'[j].name = Entry("final")
  BY <1>4, <1>5 DEF RetiredFrom
<1> QED  BY <1>0, <1>1, <1>2, <1>6, <1>7, CleanupStep

\* RemoveObject keeps the invariant.
LEMMA RemoveObjectStep ==
  ASSUME CacheInv, NEW k \in DOMAIN dirs, RemoveObject(k)
  PROVE  CacheInv'
<1>0. /\ daemon.at = "remove" /\ k \in daemon.left /\ daemon' = daemon
      /\ dirs[k].name.name = "temp" /\ dirs[k].files.name > 0
      /\ dirs' = [dirs EXCEPT ![k].files = Changed(@, @.name - 1)]
      /\ UNCHANGED <<host, secret, marker, taskDirs, gate, worker, refs, adopted>>
  BY DEF RemoveObject, DaemonStep
<1>1. daemon # Idle
  BY <1>0, NotIdle
<1>2. daemon' \in [at : {"remove"}, left : SUBSET daemon.left]
  BY <1>0, <1>1, DaemonActive DEF DaemonAt
<1>3. SoundDirs(dirs) /\ SoundDir(dirs[k])
  BY DEF CacheInv, DirsSound, SoundDirs
<1>4. /\ dirs[k].files \in EntryOf(0..Objects) /\ dirs[k].files.name \in 0..Objects
      /\ dirs[k].files.disk \in SUBSET (0..Objects)
  BY <1>3 DEF SoundDir, Dir, EntryOf
<1> PICK m \in 0..Objects : m = dirs[k].files.name - 1
  BY <1>0, <1>4 DEF Objects
<1> DEFINE f == Changed(dirs[k].files, m)
<1>5. f \in EntryOf(0..Objects) /\ f.name \in f.disk
  BY <1>4 DEF Changed, EntryOf
<1> HIDE DEF f
<1> DEFINE d == [dirs[k] EXCEPT !.files = f]
<1>6. SoundDir(d) /\ d.id = dirs[k].id /\ d.name = dirs[k].name
  BY <1>0, <1>3, <1>5, RefilledSound
<1>7. dirs' = [dirs EXCEPT ![k] = d]
  BY <1>0 DEF f
<1> HIDE DEF d
<1> PICK es : es = [dirs EXCEPT ![k] = d]  OBVIOUS
<1>8. /\ SoundDirs(es) /\ DOMAIN es = DOMAIN dirs /\ es[k] = d
      /\ \A j \in DOMAIN dirs \ {k} : es[j] = dirs[j]
  BY <1>3, <1>6, ReplacedSound
<1>9. dirs' = es /\ es[k].id = dirs[k].id /\ es[k].name.name = "temp"
  BY <1>0, <1>6, <1>7, <1>8
<1> QED  BY <1>0, <1>1, <1>2, <1>8, <1>9, CleanupStep

\* RemoveDirectory keeps the invariant.
LEMMA RemoveDirectoryStep ==
  ASSUME CacheInv, NEW k \in DOMAIN dirs, RemoveDirectory(k)
  PROVE  CacheInv'
<1>0. /\ daemon.at = "remove" /\ k \in daemon.left
      /\ daemon' = [daemon EXCEPT !.left = @ \ {k}]
      /\ dirs' = SyncTask([dirs EXCEPT ![k].name = Changed(@, "gone")], TaskOf(dirs[k].id))
      /\ adopted' = Unsettled(adopted, dirs', taskDirs)
      /\ UNCHANGED <<host, secret, marker, taskDirs, gate, worker, refs>>
  BY DEF RemoveDirectory, DaemonStep
<1>1. daemon # Idle
  BY <1>0, NotIdle
<1>2. daemon' \in [at : {"remove"}, left : SUBSET daemon.left] /\ k \notin daemon'.left
  BY <1>0, <1>1, DaemonActive DEF DaemonAt
<1> PICK es : es = SyncTask([dirs EXCEPT ![k].name = Changed(@, "gone")], TaskOf(dirs[k].id))
  OBVIOUS
<1>3. SoundDirs(dirs)
  BY DEF CacheInv, DirsSound
<1>4. RetiredFrom(es, dirs, k, "gone")
  BY <1>3, RetiredSound
<1>5. dirs' = es /\ adopted' = Unsettled(adopted, es, taskDirs)
  BY <1>0
<1>6. \A x \in adopted : x \in adopted' \/ Settled(x, dirs', taskDirs')
  BY <1>0, <1>5, ReleasedIsSettled
<1>7. /\ SoundDirs(dirs') /\ DOMAIN dirs' = DOMAIN dirs
      /\ dirs'[k].id = dirs[k].id
      /\ \A j \in DOMAIN dirs \ {k} :
           /\ dirs'[j].id = dirs[j].id /\ dirs'[j].name.name = dirs[j].name.name
           /\ dirs[j].name = Entry("final") => dirs'[j].name = Entry("final")
  BY <1>4, <1>5 DEF RetiredFrom
<1> QED  BY <1>0, <1>1, <1>2, <1>6, <1>7, CleanupStep

\* EndReconcile keeps the invariant.
LEMMA EndReconcileStep ==
  ASSUME CacheInv, EndReconcile
  PROVE  CacheInv'
<1> DEFINE ns == [k \in DOMAIN dirs |-> [dirs[k] EXCEPT !.name = Synced(@)]]
<1>0. /\ daemon.at = "remove" /\ dirs' = ns
      /\ taskDirs' = [t \in CacheTasks |-> Synced(taskDirs[t])] /\ marker' = Synced(marker)
      /\ adopted' = Unsettled(adopted, dirs', taskDirs')
      /\ daemon' = Idle /\ gate' = "free" /\ UNCHANGED <<host, secret, worker, refs>>
  BY DEF EndReconcile
<1>1. worker = Idle /\ host = "open"
  BY <1>0, NotIdle, DaemonActive
<1>2. /\ TasksSound' /\ MarkerSound' /\ marker' = Entry("done") /\ marker'.name = "done"
      /\ \A t \in CacheTasks : taskDirs[t].disk = {"there"} => taskDirs'[t].disk = {"there"}
  BY <1>0, <1>1, RootSynced
<1> PICK es : es = ns  OBVIOUS
<1>3. SyncedFrom(es, dirs)
  BY SyncAllSound DEF CacheInv, DirsSound
<1> HIDE DEF ns
<1>4. DirsSound'
  BY <1>0, <1>3 DEF DirsSound, SyncedFrom
<1>5. HostSound' /\ GateSound' /\ WorkerSound' /\ DaemonSound'
  BY <1>0, <1>1, <1>2 DEF HostSound, GateSound, WorkerSound, DaemonSound
<1>6. RefsSettled'
  <2>1. ASSUME NEW x \in CacheIds, Settled(x, dirs, taskDirs)
        PROVE  Settled(x, dirs', taskDirs')
    <3>1. Settled(x, es, taskDirs)
      BY <1>3, <2>1, SyncedSettled
    <3> QED  BY <1>0, <1>2, <3>1, TaskIn DEF Settled
  <2>2. \A x \in refs' \cap adopted : x \in adopted' \/ Settled(x, dirs', taskDirs')
    <3> PICK ts : ts = taskDirs'  OBVIOUS
    <3>1. adopted' = Unsettled(adopted, es, ts)  BY <1>0
    <3> QED  BY <1>0, <3>1, ReleasedIsSettled
  <2> QED  BY <1>0, <1>2, <2>1, <2>2, RefsKept
<1> QED  BY <1>2, <1>4, <1>5, <1>6 DEF CacheInv

\* ReconcileFails keeps the invariant.
LEMMA ReconcileFailsStep ==
  ASSUME CacheInv, ReconcileFails
  PROVE  CacheInv'
<1>0. /\ daemon # Idle /\ daemon' = Idle /\ UNCHANGED <<host, worker, refs, adopted>>
      /\ UNCHANGED cacheDisk
  BY DEF ReconcileFails
<1>1. worker = Idle /\ host = "open"
  BY <1>0, DaemonActive
<1>2. RefsSettled'
  BY <1>0 DEF CacheInv, RefsSettled, cacheDisk
<1> QED  BY <1>0, <1>1, <1>2, RestFrame DEF CacheInv

-----------------------------------------------------------------------------
(* The death of the process and the loss of power.                         *)

\* HostStops keeps the invariant.
LEMMA HostStopsStep ==
  ASSUME CacheInv, HostStops
  PROVE  CacheInv'
<1>0. /\ host' = "down" /\ gate' = "free" /\ worker' = Idle /\ daemon' = Idle
      /\ UNCHANGED <<secret, refs, marker, taskDirs, dirs, adopted>>
  BY DEF HostStops, Stopped
<1>1. DirsSound' /\ TasksSound' /\ MarkerSound' /\ RefsSettled'
  BY <1>0 DEF CacheInv, DirsSound, TasksSound, MarkerSound, RefsSettled
<1>2. HostSound' /\ GateSound' /\ WorkerSound' /\ DaemonSound'
  BY <1>0 DEF HostSound, GateSound, WorkerSound, DaemonSound
<1> QED  BY <1>1, <1>2 DEF CacheInv

\* A directory after a power loss.
LostFrom(e, d, x) == SoundDir(e) /\ e \in Dir /\ e.id = d.id /\ e.name = Entry(x)

\* A directory is sound after a power loss, whichever of its entries was on the disk.
LEMMA LostDirSound ==
  ASSUME NEW d, SoundDir(d), NEW c \in d.files.disk, NEW x \in {"gone"} \cup d.name.disk
  PROVE  LostFrom([d EXCEPT !.files = Entry(c), !.name = Entry(x)], d, x)
<1>1. d \in Dir /\ d.name.disk \subseteq Names /\ d.files.disk \subseteq 0..Objects
  BY DEF SoundDir, Dir, EntryOf
<1>2. Entry(c) \in EntryOf(0..Objects) /\ Entry(x) \in EntryOf(Names)
  BY <1>1 DEF Entry, EntryOf, Names
<1> DEFINE e == [d EXCEPT !.files = Entry(c), !.name = Entry(x)]
<1>3. e \in Dir /\ e.id = d.id /\ e.name = Entry(x) /\ e.files = Entry(c)
  BY <1>1, <1>2 DEF Dir
<1>4. x = "final" => Entry(c) = Entry(Objects)
  BY DEF SoundDir, Entry
<1> HIDE DEF e
<1>5. /\ e.name.name = x /\ e.name.disk = {x} /\ e.files.name = c /\ e.files.disk = {c}
  BY <1>3 DEF Entry
<1>6. SoundDir(e)
  BY <1>3, <1>4, <1>5 DEF SoundDir
<1> QED  BY <1>3, <1>6 DEF LostFrom, e

\* PowerLoss keeps the invariant: what is settled has one entry on the disk.
LEMMA PowerLossStep ==
  ASSUME CacheInv, PowerLoss
  PROVE  CacheInv'
<1>0. /\ host' = "down" /\ gate' = "free" /\ worker' = Idle /\ daemon' = Idle
      /\ UNCHANGED <<secret, refs, adopted>>
      /\ marker' \in AfterLoss(marker)
      /\ taskDirs' \in [CacheTasks -> {Entry("gone"), Entry("there")}]
      /\ \A t \in CacheTasks : taskDirs'[t] \in AfterLoss(taskDirs[t])
  BY DEF PowerLoss, Stopped
<1>1. HostSound' /\ GateSound' /\ WorkerSound' /\ DaemonSound'
  BY <1>0 DEF HostSound, GateSound, WorkerSound, DaemonSound
<1>2. PICK m \in marker.disk : marker' = Entry(m)
  BY <1>0 DEF AfterLoss
<1>3. MarkerSound'
  <2>1. m \in MarkerNames
    BY DEF CacheInv, MarkerSound, EntryOf
  <2>2. /\ marker' \in EntryOf(MarkerNames) /\ marker'.name = m /\ marker'.disk = {m}
        /\ marker' = Entry(marker'.name)
    BY <1>2, <2>1 DEF Entry, EntryOf
  <2> QED  BY <1>0, <2>2 DEF CacheInv, MarkerSound
<1>4. TasksSound'
  <2>1. {Entry("gone"), Entry("there")} \subseteq EntryOf({"gone", "there"})
    BY DEF Entry, EntryOf
  <2>2. /\ Entry("gone").name \in Entry("gone").disk /\ Entry("there").name \in Entry("there").disk
        /\ Entry("there").name # "gone"
    BY DEF Entry
  <2> QED  BY <1>0, <2>1, <2>2 DEF TasksSound
<1>5. PICK names \in [DOMAIN dirs -> {"gone", "temp", "final"}],
           counts \in [DOMAIN dirs -> 0..Objects] :
        /\ \A k \in DOMAIN dirs : names[k] \in dirs[k].name.disk /\ counts[k] \in dirs[k].files.disk
        /\ dirs' = [k \in DOMAIN dirs |->
                      [dirs[k] EXCEPT !.files = Entry(counts[k]),
                                      !.name = IF taskDirs'[TaskOf(dirs[k].id)].name = "gone"
                                               THEN Entry("gone") ELSE Entry(names[k])]]
  BY DEF PowerLoss
<1> PICK ts : ts = taskDirs'  OBVIOUS
<1> DEFINE nm(k) == IF ts[TaskOf(dirs[k].id)].name = "gone" THEN "gone" ELSE names[k]
<1> DEFINE es == [k \in DOMAIN dirs |-> [dirs[k] EXCEPT !.files = Entry(counts[k]), !.name = Entry(nm(k))]]
<1>6. dirs' = es
  BY <1>5
<1>7. ASSUME NEW k \in DOMAIN dirs
      PROVE  SoundDir(es[k]) /\ es[k] \in Dir /\ es[k].id = dirs[k].id /\ es[k].name = Entry(nm(k))
  <2> PICK d : d = dirs[k]  OBVIOUS
  <2> PICK x : x = nm(k)  OBVIOUS
  <2> PICK c : c = counts[k]  OBVIOUS
  <2>1. SoundDir(d) /\ c \in d.files.disk /\ x \in {"gone"} \cup d.name.disk
    BY <1>5 DEF CacheInv, DirsSound, SoundDirs
  <2>2. es[k] = [d EXCEPT !.files = Entry(c), !.name = Entry(x)]
    OBVIOUS
  <2> HIDE DEF es, nm
  <2>3. LostFrom([d EXCEPT !.files = Entry(c), !.name = Entry(x)], d, x)
    BY <2>1, LostDirSound
  <2> QED  BY <2>2, <2>3 DEF LostFrom
<1>8. Len(dirs) \in Nat /\ DOMAIN dirs = 1..Len(dirs) /\ DOMAIN es = DOMAIN dirs
  BY DEF CacheInv, DirsSound, SoundDirs
<1>9. es \in [1..Len(dirs) -> Dir]
  BY <1>7, <1>8
<1> HIDE DEF es
<1>10. es \in Seq(Dir)
  BY <1>8, <1>9, IsASeq
<1>11. DirsSound'
  BY <1>6, <1>7, <1>8, <1>10 DEF DirsSound, SoundDirs
<1>12. RefsSettled'
  <2>1. ASSUME NEW id \in refs \ adopted
        PROVE  Settled(id, dirs', taskDirs')
    <3>1. id \in CacheIds /\ Settled(id, dirs, taskDirs) /\ TaskOf(id) \in CacheTasks
      BY TaskIn DEF CacheInv, RefsSettled
    <3>2. ts[TaskOf(id)] = Entry("there") /\ ts[TaskOf(id)].disk = {"there"} /\ ts[TaskOf(id)].name # "gone"
      BY <1>0, <3>1 DEF Settled, AfterLoss, Entry
    <3>3. PICK k \in DOMAIN dirs : dirs[k].id = id /\ dirs[k].name = Entry("final")
      BY <3>1 DEF Settled
    <3>4. names[k] = "final"
      <4>1. names[k] \in dirs[k].name.disk  BY <1>5
      <4> QED  BY <3>3, <4>1 DEF Entry
    <3>5. es[k].id = id /\ es[k].name = Entry("final")
      BY <1>7, <3>2, <3>3, <3>4
    <3> QED  BY <1>6, <1>8, <3>2, <3>3, <3>5 DEF Settled
  <2>2. refs \ adopted # {} => m = "done"
    BY DEF CacheInv, RefsSettled, Entry
  <2> QED  BY <1>0, <1>2, <2>1, <2>2 DEF CacheInv, RefsSettled
<1> QED  BY <1>1, <1>3, <1>4, <1>11, <1>12 DEF CacheInv

-----------------------------------------------------------------------------
(* The theorems.                                                           *)

\* The invariant holds of the empty cache.
LEMMA CacheInitInv ==
  ASSUME CacheInit
  PROVE  CacheInv
<1>1. DirsSound
  BY DEF CacheInit, DirsSound, SoundDirs
<1>2. TasksSound
  BY DEF CacheInit, TasksSound, Entry, EntryOf
<1>3. MarkerSound
  BY DEF CacheInit, MarkerSound, Entry, EntryOf, MarkerNames
<1>4. HostSound /\ GateSound /\ WorkerSound /\ DaemonSound /\ RefsSettled
  BY DEF CacheInit, HostSound, GateSound, WorkerSound, DaemonSound, RefsSettled
<1> QED  BY <1>1, <1>2, <1>3, <1>4 DEF CacheInv

\* Every step of the cache, its two callers and the machine keeps the invariant.
LEMMA CacheStepInv ==
  ASSUME CacheInv, [CacheNext]_cacheVars
  PROVE  CacheInv'
<1>1. CASE OpenCache \/ WriteMarker
  BY <1>1, OpenCacheStep, WriteMarkerStep
<1>2. CASE WorkerActs
  BY <1>2, SyncRootStep, MakeTemporaryStep, WriteObjectStep, SyncTemporaryStep, RenameStep,
     SyncParentStep, CommitReferenceStep DEF WorkerActs
<1>3. CASE PublishFails
  BY <1>3, PublishFailsStep
<1>4. CASE \E id \in CacheIds : BeginPublish(id) \/ Recover(id) \/ Release(id)
  BY <1>4, BeginPublishStep, RecoverStep, ReleaseStep
<1>5. CASE BeginReconcile \/ EndReconcile \/ ReconcileFails
  BY <1>5, BeginReconcileStep, EndReconcileStep, ReconcileFailsStep
<1>6. CASE \E k \in DOMAIN dirs : RetireOrphan(k) \/ RemoveObject(k) \/ RemoveDirectory(k)
  BY <1>6, RetireOrphanStep, RemoveObjectStep, RemoveDirectoryStep
<1>7. CASE HostStops \/ PowerLoss
  BY <1>7, HostStopsStep, PowerLossStep
<1>8. CASE UNCHANGED cacheVars
  BY <1>8 DEF cacheVars, CacheInv, DirsSound, TasksSound, MarkerSound, HostSound, GateSound,
     WorkerSound, DaemonSound, RefsSettled
<1> QED  BY <1>1, <1>2, <1>3, <1>4, <1>5, <1>6, <1>7, <1>8 DEF CacheNext

\* The inductive invariant of the cache on disk: its types, the exclusion of the two callers
\* by the gate, where each of them is, and that a reference outside the exception is settled
\* (cache.rs initialize, publish_observed, reconcile_unlocked).
THEOREM CacheInvariance == CacheSpec => []CacheInv
<1>1. CacheInit => CacheInv
  BY CacheInitInv
<1>2. CacheInv /\ [CacheNext]_cacheVars => CacheInv'
  BY CacheStepInv
<1> QED  BY <1>1, <1>2, PTL DEF CacheSpec

\* What the ledger refers to is whole on the disk and can be opened, however many calls fail,
\* processes die and power losses happen between any two steps of a publication and of a
\* clean-up, except what was committed into an unsynced directory (cache.rs publish_observed,
\* reconcile_unlocked).
THEOREM ReferencedStaysWhole == CacheSpec => []ReferencedIsWhole
<1>1. CacheInv => ReferencedIsWhole
  <2> SUFFICES ASSUME CacheInv PROVE ReferencedIsWhole
    OBVIOUS
  <2>1. ASSUME NEW id \in refs \ adopted  PROVE Authentic(id)
    <3>1. id \in CacheIds /\ Settled(id, dirs, taskDirs) /\ TaskOf(id) \in CacheTasks
      BY TaskIn DEF CacheInv, RefsSettled
    <3>2. taskDirs[TaskOf(id)].name = "there"
      BY <3>1 DEF CacheInv, TasksSound, Settled
    <3>3. PICK k \in DOMAIN dirs : dirs[k].id = id /\ dirs[k].name = Entry("final")
      BY <3>1 DEF Settled
    <3>4. dirs[k].name.name = "final" /\ "final" \in dirs[k].name.disk
      BY <3>3 DEF Entry
    <3>5. dirs[k].files.name = Objects
      BY <3>4 DEF CacheInv, DirsSound, SoundDirs, SoundDir, Entry
    <3>6. k \in Finals
      BY <3>2, <3>3, <3>4 DEF Finals, Here
    <3> QED  BY <3>3, <3>5, <3>6 DEF Authentic
  <2>2. refs \ adopted # {} => secret /\ marker.name = "done"
    BY DEF CacheInv, RefsSettled, MarkerSound, Entry
  <2> QED  BY <2>1, <2>2 DEF ReferencedIsWhole
<1> QED  BY <1>1, CacheInvariance, PTL

-----------------------------------------------------------------------------
(* Runs of Codex that keep apart.                                          *)

RunStages == {"mkdir", "made", "wait", "attach", "drive", "read", "drop", "unlocked", "over", "lost"}
Supervisors == {"none", "started", "bound", "ready", "watch", "hold", "dead"}
Run == [task : Tasks, host : Hosts, claim : Claims, stage : RunStages, sup : Supervisors,
        child : {"none", "alive", "dead"}, job : BOOLEAN, code : {"none", "ok", "fail"},
        dir : {"bare", "owned", "gone"}, out : {"none", "accepted", "refused"}, fresh : BOOLEAN]

\* Locked and Unattached of a run, as a record.
Holds(r) ==
  \/ r.stage \notin {"over", "lost", "unlocked"}
  \/ r.stage = "lost" /\ platform = "macos" /\ r.sup \notin {"none", "dead"}
  \/ r.stage = "lost" /\ platform = "linux" /\ r.child = "alive"
Astray(r) == platform = "windows" /\ r.stage = "lost" /\ ~r.job

\* Only the Host and what it started work in the directory, and while they do it is there.
RunSound(r) ==
  /\ r \in Run
  /\ r.sup # "none" => platform = "macos"
  /\ r.sup = "none" /\ platform = "macos" => r.child # "alive"
  /\ r.stage \in {"mkdir", "made"} => r.sup = "none" /\ r.child = "none"
  /\ r.stage \in {"read", "drop", "unlocked", "over"} => r.sup \in {"none", "dead"} /\ r.child # "alive"
  /\ r.stage \in {"made", "wait", "attach", "drive", "read"} => r.dir = "owned"
  /\ r.sup \notin {"none", "dead"} => r.dir = "owned"
  /\ r.sup \in {"started", "bound", "ready", "hold"} => r.child # "alive"
  /\ r.child = "alive" /\ ~Astray(r) => r.dir = "owned" /\ Holds(r)

SparkInv ==
  /\ platform \in {"macos", "linux", "windows"}
  /\ runs \in Seq(Run)
  /\ \A i \in Ids : RunSound(runs[i])
  /\ \A i, j \in Ids : runs[i].task = runs[j].task /\ Holds(runs[i]) /\ Holds(runs[j]) => i = j

LEMMA HoldsIsLocked ==
  ASSUME SparkInv, NEW i \in Ids
  PROVE  (Locked(i) <=> Holds(runs[i])) /\ (Unattached(i) <=> Astray(runs[i]))
BY DEF SparkInv, Locked, Registered, Inherited, Holds, Unattached, Astray

\* A run goes on as another: it is sound, of the same task, and took no lock.
GoesOn(r, q) == RunSound(q) /\ q.task = r.task /\ (Holds(q) => Holds(r))

LEMMA RunsGoOn ==
  ASSUME SparkInv, UNCHANGED platform, NEW f, runs' = f, f \in Seq(Run), DOMAIN f = Ids,
         \A i \in Ids : GoesOn(runs[i], f[i])
  PROVE  SparkInv'
<1>1. \A r : (RunSound(r)' <=> RunSound(r)) /\ (Holds(r)' <=> Holds(r))
  BY DEF RunSound, Holds, Astray
<1>2. \A i \in Ids' : i \in Ids /\ RunSound(f[i]) /\ f[i].task = runs[i].task /\ (Holds(f[i]) => Holds(runs[i]))
  BY DEF Ids, GoesOn
<1>3. \A i \in Ids' : RunSound(runs[i])'
  BY <1>2 DEF RunSound, Holds, Astray
<1>4. ASSUME NEW i \in Ids', NEW j \in Ids', f[i].task = f[j].task, Holds(f[i])', Holds(f[j])' PROVE i = j
  <2>1. Holds(f[i]) /\ Holds(f[j])
    BY <1>4 DEF Holds
  <2> QED BY <1>2, <1>4, <2>1 DEF SparkInv
<1> QED BY <1>3, <1>4 DEF SparkInv, Ids

\* One run goes on.
LEMMA RunGoesOn ==
  ASSUME SparkInv, UNCHANGED platform, NEW i \in Ids, NEW r, With(i, r), GoesOn(runs[i], r)
  PROVE  SparkInv'
<1> PICK f : f = [runs EXCEPT ![i] = r]  OBVIOUS
<1>1. runs' = f /\ r \in Run /\ runs \in Seq(Run)
  BY DEF With, GoesOn, RunSound, SparkInv
<1>2. f \in Seq(Run) /\ DOMAIN f = Ids
  BY <1>1 DEF Ids
<1>3. \A j \in Ids : GoesOn(runs[j], f[j])
  BY DEF SparkInv, GoesOn, Ids
<1> QED BY <1>1, <1>2, <1>3, RunsGoOn

LEMMA KilledFields ==
  ASSUME NEW r \in Run
  PROVE  LET q == Killed(r) IN
         /\ q \in Run /\ q.task = r.task /\ q.stage = r.stage /\ q.job = r.job /\ q.dir = r.dir
         /\ q.sup = (IF r.sup = "none" THEN "none" ELSE "dead")
         /\ q.child = (IF r.child = "none" THEN "none" ELSE "dead")
<1> PICK s \in Supervisors : s = IF r.sup = "none" THEN "none" ELSE "dead"
  BY DEF Supervisors
<1> PICK c \in {"none", "alive", "dead"} : c = IF r.child = "none" THEN "none" ELSE "dead"
  OBVIOUS
<1> PICK q : q = [r EXCEPT !.sup = s, !.child = c]  OBVIOUS
<1>1. q \in Run
  BY DEF Run
<1>2. /\ q.task = r.task /\ q.stage = r.stage /\ q.job = r.job /\ q.dir = r.dir
      /\ q.sup = s /\ q.child = c
  BY DEF Run
<1>3. q = Killed(r)
  BY DEF Killed
<1> QED BY <1>1, <1>2, <1>3

\* A run whose processes were killed, at a later stage.
LEMMA KilledGoesOn ==
  ASSUME SparkInv, NEW i \in Ids, NEW s \in RunStages,
         \/ s = runs[i].stage
         \/ s = "read" /\ runs[i].stage = "drive"
         \/ s = "drop" /\ Registered(i)
         \/ s = "lost"
  PROVE  GoesOn(runs[i], [Killed(runs[i]) EXCEPT !.stage = s]) /\ GoesOn(runs[i], Killed(runs[i]))
<1> PICK r \in Run : r = runs[i]
  BY DEF SparkInv, RunSound
<1> PICK k : k = Killed(r)  OBVIOUS
<1> PICK q : q = [k EXCEPT !.stage = s]  OBVIOUS
<1>0. RunSound(r)
  BY DEF SparkInv
<1>1. /\ k \in Run /\ k.task = r.task /\ k.stage = r.stage /\ k.job = r.job /\ k.dir = r.dir
      /\ k.sup = (IF r.sup = "none" THEN "none" ELSE "dead")
      /\ k.child = (IF r.child = "none" THEN "none" ELSE "dead")
  BY KilledFields
<1>2. /\ q \in Run /\ q.task = k.task /\ q.stage = s /\ q.job = k.job /\ q.dir = k.dir
      /\ q.sup = k.sup /\ q.child = k.child
  BY <1>1 DEF Run
<1>3. GoesOn(r, k)
  BY <1>0, <1>1 DEF GoesOn, RunSound, Holds, Astray
<1>4. GoesOn(r, q)
  BY <1>0, <1>1, <1>2 DEF GoesOn, RunSound, Holds, Astray, Registered
<1> QED BY <1>3, <1>4

LEMMA HostStepGoesOn ==
  ASSUME SparkInv, NEW i \in Ids, HostStep(i)
  PROVE  SparkInv'
<1> PICK r \in Run : r = runs[i]
  BY DEF SparkInv, RunSound
<1>0. RunSound(r)
  BY DEF SparkInv
<1>1. /\ r.stage \in RunStages /\ r.sup \in Supervisors /\ r.child \in {"none", "alive", "dead"}
      /\ r.job \in BOOLEAN /\ r.dir \in {"bare", "owned", "gone"}
      /\ {"made", "wait", "attach", "drive", "read", "drop", "unlocked", "over"} \subseteq RunStages
      /\ {"started", "dead"} \subseteq Supervisors
  BY DEF Run, RunStages, Supervisors
<1>2. CASE Own(i)
  <2> PICK q : q = [r EXCEPT !.stage = "made", !.dir = "owned"]  OBVIOUS
  <2>1. With(i, q) /\ UNCHANGED platform /\ r.stage = "mkdir"
    BY <1>2 DEF Own
  <2>2. q \in Run
    BY <1>1 DEF Run
  <2>3. q.task = r.task /\ q.stage = "made" /\ q.sup = r.sup /\ q.child = r.child /\ q.job = r.job /\ q.dir = "owned"
    BY DEF Run
  <2>4. GoesOn(r, q)
    BY <1>0, <1>1, <2>1, <2>2, <2>3 DEF GoesOn, RunSound, Holds, Astray
  <2> QED BY <2>1, <2>4, RunGoesOn
<1>3. CASE Attach(i)
  <2> PICK q : q = [r EXCEPT !.stage = "drive", !.job = TRUE]  OBVIOUS
  <2>1. With(i, q) /\ UNCHANGED platform /\ r.stage = "attach"
    BY <1>3 DEF Attach
  <2>2. q \in Run
    BY <1>1 DEF Run
  <2>3. q.task = r.task /\ q.stage = "drive" /\ q.sup = r.sup /\ q.child = r.child /\ q.job = TRUE /\ q.dir = r.dir
    BY DEF Run
  <2>4. GoesOn(r, q)
    BY <1>0, <1>1, <2>1, <2>2, <2>3 DEF GoesOn, RunSound, Holds, Astray
  <2> QED BY <2>1, <2>4, RunGoesOn
<1>4. CASE Ready(i)
  <2> PICK q : q = [r EXCEPT !.stage = "drive"]  OBVIOUS
  <2>1. With(i, q) /\ UNCHANGED platform /\ r.stage = "wait"
    BY <1>4 DEF Ready
  <2>2. q \in Run
    BY <1>1 DEF Run
  <2>3. q.task = r.task /\ q.stage = "drive" /\ q.sup = r.sup /\ q.child = r.child /\ q.job = r.job /\ q.dir = r.dir
    BY DEF Run
  <2>4. GoesOn(r, q)
    BY <1>0, <1>1, <2>1, <2>2, <2>3 DEF GoesOn, RunSound, Holds, Astray
  <2> QED BY <2>1, <2>4, RunGoesOn
<1>5. CASE Drop(i)
  <2> PICK q : q = [r EXCEPT !.stage = "over", !.dir = "gone", !.code = "none"]  OBVIOUS
  <2>1. With(i, q) /\ UNCHANGED platform /\ r.stage = "drop"
    BY <1>5 DEF Drop
  <2>2. q \in Run
    BY <1>1 DEF Run
  <2>3. q.task = r.task /\ q.stage = "over" /\ q.sup = r.sup /\ q.child = r.child /\ q.job = r.job /\ q.dir = "gone"
    BY DEF Run
  <2>4. GoesOn(r, q)
    BY <1>0, <1>1, <2>1, <2>2, <2>3 DEF GoesOn, RunSound, Holds, Astray
  <2> QED BY <2>1, <2>4, RunGoesOn
<1>6. CASE Unlock(i)
  <2> PICK q : q = [r EXCEPT !.stage = "unlocked"]  OBVIOUS
  <2>1. With(i, q) /\ UNCHANGED platform /\ r.stage = "drop"
    BY <1>6 DEF Unlock
  <2>2. q \in Run
    BY <1>1 DEF Run
  <2>3. q.task = r.task /\ q.stage = "unlocked" /\ q.sup = r.sup /\ q.child = r.child /\ q.job = r.job /\ q.dir = r.dir
    BY DEF Run
  <2>4. GoesOn(r, q)
    BY <1>0, <1>1, <2>1, <2>2, <2>3 DEF GoesOn, RunSound, Holds, Astray
  <2> QED BY <2>1, <2>4, RunGoesOn
<1>7. CASE RemoveRunRoot(i)
  <2> PICK q : q = [r EXCEPT !.stage = "over", !.dir = "gone"]  OBVIOUS
  <2>1. With(i, q) /\ UNCHANGED platform /\ r.stage = "unlocked"
    BY <1>7 DEF RemoveRunRoot
  <2>2. q \in Run
    BY <1>1 DEF Run
  <2>3. q.task = r.task /\ q.stage = "over" /\ q.sup = r.sup /\ q.child = r.child /\ q.job = r.job /\ q.dir = "gone"
    BY DEF Run
  <2>4. GoesOn(r, q)
    BY <1>0, <1>1, <2>1, <2>2, <2>3 DEF GoesOn, RunSound, Holds, Astray
  <2> QED BY <2>1, <2>4, RunGoesOn

<1>8. CASE Spawn(i)
  <2> PICK m : m = [r EXCEPT !.stage = "wait", !.sup = "started"]  OBVIOUS
  <2> PICK l : l = [r EXCEPT !.stage = "drive", !.child = "alive"]  OBVIOUS
  <2> PICK w : w = [r EXCEPT !.stage = "attach", !.child = "alive"]  OBVIOUS
  <2>0. r.stage = "made" /\ UNCHANGED platform
    BY <1>8 DEF Spawn
  <2>1. m \in Run
    BY <1>1 DEF Run
  <2>2. m.task = r.task /\ m.stage = "wait" /\ m.sup = "started" /\ m.child = r.child /\ m.job = r.job /\ m.dir = r.dir
    BY DEF Run
  <2>3. l \in Run
    BY <1>1 DEF Run
  <2>4. l.task = r.task /\ l.stage = "drive" /\ l.sup = r.sup /\ l.child = "alive" /\ l.job = r.job /\ l.dir = r.dir
    BY DEF Run
  <2>5. w \in Run
    BY <1>1 DEF Run
  <2>6. w.task = r.task /\ w.stage = "attach" /\ w.sup = r.sup /\ w.child = "alive" /\ w.job = r.job /\ w.dir = r.dir
    BY DEF Run
  <2>7. \/ platform = "macos" /\ With(i, m)
        \/ platform = "linux" /\ With(i, l)
        \/ platform = "windows" /\ With(i, w)
    BY <1>8 DEF Spawn, SparkInv
  <2>8. CASE platform = "macos" /\ With(i, m)
    <3>1. GoesOn(r, m)
      BY <1>0, <1>1, <2>0, <2>1, <2>2, <2>8 DEF GoesOn, RunSound, Holds, Astray
    <3> QED BY <2>0, <2>8, <3>1, RunGoesOn
  <2>9. CASE platform = "linux" /\ With(i, l)
    <3>1. GoesOn(r, l)
      BY <1>0, <1>1, <2>0, <2>3, <2>4, <2>9 DEF GoesOn, RunSound, Holds, Astray
    <3> QED BY <2>0, <2>9, <3>1, RunGoesOn
  <2>10. CASE platform = "windows" /\ With(i, w)
    <3>1. GoesOn(r, w)
      BY <1>0, <1>1, <2>0, <2>5, <2>6, <2>10 DEF GoesOn, RunSound, Holds, Astray
    <3> QED BY <2>0, <2>10, <3>1, RunGoesOn
  <2> QED BY <2>7, <2>8, <2>9, <2>10
<1>9. CASE StopRun(i)
  <2>1. With(i, [Killed(runs[i]) EXCEPT !.stage = "drop"]) /\ UNCHANGED platform /\ Registered(i)
    BY <1>9 DEF StopRun, Registered
  <2> QED BY <1>1, <2>1, KilledGoesOn, RunGoesOn
<1>10. CASE ChildDone(i)
  <2>1. PICK s \in {"read", "drop"} : With(i, [Killed(runs[i]) EXCEPT !.stage = s])
    BY <1>10 DEF ChildDone
  <2>2. UNCHANGED platform /\ Registered(i) /\ runs[i].stage = "drive"
    BY <1>10 DEF ChildDone, Registered
  <2> QED BY <1>1, <2>1, <2>2, KilledGoesOn, RunGoesOn
<1>11. CASE Read(i)
  <2>1. PICK out \in {"accepted", "refused"} : With(i, [r EXCEPT !.stage = "drop", !.out = out])
    BY <1>11 DEF Read
  <2>2. UNCHANGED platform /\ r.stage = "read"
    BY <1>11 DEF Read
  <2> PICK q : q = [r EXCEPT !.stage = "drop", !.out = out]  OBVIOUS
  <2>3. q \in Run
    BY <1>1 DEF Run
  <2>4. q.task = r.task /\ q.stage = "drop" /\ q.sup = r.sup /\ q.child = r.child /\ q.job = r.job /\ q.dir = r.dir
    BY DEF Run
  <2>5. GoesOn(r, q)
    BY <1>0, <1>1, <2>2, <2>3, <2>4 DEF GoesOn, RunSound, Holds, Astray
  <2> QED BY <2>1, <2>2, <2>5, RunGoesOn
<1> QED BY <1>2, <1>3, <1>4, <1>5, <1>6, <1>7, <1>8, <1>9, <1>10, <1>11 DEF HostStep

LEMMA GuardStepGoesOn ==
  ASSUME SparkInv, NEW i \in Ids,
         GuardStep(i) \/ ChildExits(i) \/ SupervisorError(i) \/ SupervisorDies(i)
  PROVE  SparkInv'
<1> PICK r \in Run : r = runs[i]
  BY DEF SparkInv, RunSound
<1>0. RunSound(r)
  BY DEF SparkInv
<1>1. /\ r.stage \in RunStages /\ r.sup \in Supervisors /\ r.child \in {"none", "alive", "dead"}
      /\ r.job \in BOOLEAN /\ r.dir \in {"bare", "owned", "gone"}
      /\ {"bound", "ready", "watch", "hold", "dead"} \subseteq Supervisors
  BY DEF Run, RunStages, Supervisors
<1>2. ASSUME NEW p \in Supervisors,
             \/ Supervise(i, "started", [r EXCEPT !.sup = p]) /\ p \in {"bound", "dead"}
             \/ Supervise(i, "bound", [r EXCEPT !.sup = p]) /\ p \in {"ready", "dead"}
      PROVE  SparkInv'
  <2> PICK q : q = [r EXCEPT !.sup = p]  OBVIOUS
  <2>1. /\ With(i, q) /\ UNCHANGED platform
        /\ ((r.sup = "started" /\ p \in {"bound", "dead"}) \/ (r.sup = "bound" /\ p \in {"ready", "dead"}))
    BY <1>2 DEF Supervise
  <2>2. q \in Run
    BY <1>1 DEF Run
  <2>3. q.task = r.task /\ q.stage = r.stage /\ q.sup = p /\ q.child = r.child /\ q.job = r.job /\ q.dir = r.dir
    BY DEF Run
  <2>4. GoesOn(r, q)
    BY <1>0, <1>1, <2>1, <2>2, <2>3 DEF GoesOn, RunSound, Holds, Astray
  <2> QED BY <2>1, <2>4, RunGoesOn
<1>3. CASE Supervise(i, "ready", [r EXCEPT !.sup = "watch", !.child = "alive"])
  <2> PICK q : q = [r EXCEPT !.sup = "watch", !.child = "alive"]  OBVIOUS
  <2>1. With(i, q) /\ UNCHANGED platform /\ r.sup = "ready"
    BY <1>3 DEF Supervise
  <2>2. q \in Run
    BY <1>1 DEF Run
  <2>3. q.task = r.task /\ q.stage = r.stage /\ q.sup = "watch" /\ q.child = "alive" /\ q.job = r.job /\ q.dir = r.dir
    BY DEF Run
  <2>4. GoesOn(r, q)
    BY <1>0, <1>1, <2>1, <2>2, <2>3 DEF GoesOn, RunSound, Holds, Astray
  <2> QED BY <2>1, <2>4, RunGoesOn
<1>4. CASE Supervise(i, "ready", [r EXCEPT !.sup = "hold", !.code = "fail"])
  <2> PICK q : q = [r EXCEPT !.sup = "hold", !.code = "fail"]  OBVIOUS
  <2>1. With(i, q) /\ UNCHANGED platform /\ r.sup = "ready"
    BY <1>4 DEF Supervise
  <2>2. q \in Run
    BY <1>1 DEF Run
  <2>3. q.task = r.task /\ q.stage = r.stage /\ q.sup = "hold" /\ q.child = r.child /\ q.job = r.job /\ q.dir = r.dir
    BY DEF Run
  <2>4. GoesOn(r, q)
    BY <1>0, <1>1, <2>1, <2>2, <2>3 DEF GoesOn, RunSound, Holds, Astray
  <2> QED BY <2>1, <2>4, RunGoesOn
<1>5. CASE SupervisorHold(i)
  <2> PICK q : q = [r EXCEPT !.sup = "hold"]  OBVIOUS
  <2>1. With(i, q) /\ UNCHANGED platform /\ r.sup = "watch" /\ r.child = "dead"
    BY <1>5 DEF SupervisorHold, Supervise
  <2>2. q \in Run
    BY <1>1 DEF Run
  <2>3. q.task = r.task /\ q.stage = r.stage /\ q.sup = "hold" /\ q.child = r.child /\ q.job = r.job /\ q.dir = r.dir
    BY DEF Run
  <2>4. GoesOn(r, q)
    BY <1>0, <1>1, <2>1, <2>2, <2>3 DEF GoesOn, RunSound, Holds, Astray
  <2> QED BY <2>1, <2>4, RunGoesOn
<1>6. CASE SupervisorDies(i)
  <2> PICK q : q = [r EXCEPT !.sup = "dead"]  OBVIOUS
  <2>1. With(i, q) /\ UNCHANGED platform /\ r.sup \notin {"none", "dead"} /\ r.stage # "lost"
    BY <1>6 DEF SupervisorDies
  <2>2. q \in Run
    BY <1>1 DEF Run
  <2>3. q.task = r.task /\ q.stage = r.stage /\ q.sup = "dead" /\ q.child = r.child /\ q.job = r.job /\ q.dir = r.dir
    BY DEF Run
  <2>4. GoesOn(r, q)
    BY <1>0, <1>1, <2>1, <2>2, <2>3 DEF GoesOn, RunSound, Holds, Astray
  <2> QED BY <2>1, <2>4, RunGoesOn
<1>7. CASE ChildExits(i)
  <2>0. PICK code \in {"ok", "fail"} : With(i, [r EXCEPT !.child = "dead", !.code = code])
    BY <1>7 DEF ChildExits
  <2> PICK q : q = [r EXCEPT !.child = "dead", !.code = code]  OBVIOUS
  <2>1. With(i, q) /\ UNCHANGED platform /\ r.child = "alive"
    BY <1>7, <2>0 DEF ChildExits
  <2>2. q \in Run
    BY <1>1 DEF Run
  <2>3. q.task = r.task /\ q.stage = r.stage /\ q.sup = r.sup /\ q.child = "dead" /\ q.job = r.job /\ q.dir = r.dir
    BY DEF Run
  <2>4. GoesOn(r, q)
    BY <1>0, <1>1, <2>1, <2>2, <2>3 DEF GoesOn, RunSound, Holds, Astray
  <2> QED BY <2>1, <2>4, RunGoesOn
<1>8. CASE ParentExit(i) \/ ParentDeathSignal(i) \/ SupervisorError(i)
  <2>1. With(i, Killed(runs[i])) /\ UNCHANGED platform
    BY <1>8 DEF ParentExit, ParentDeathSignal, SupervisorError, Supervise
  <2> QED BY <1>1, <2>1, KilledGoesOn, RunGoesOn
<1>9. CASE SupervisorBind(i)
  BY <1>1, <1>2, <1>9 DEF SupervisorBind
<1>10. CASE SupervisorRegister(i)
  BY <1>1, <1>2, <1>10 DEF SupervisorRegister
<1>11. CASE SupervisorSpawn(i)
  BY <1>3, <1>4, <1>11 DEF SupervisorSpawn
<1> QED BY <1>5, <1>6, <1>7, <1>8, <1>9, <1>10, <1>11 DEF GuardStep

\* A Host dies, and with it its job objects.
LEMMA HostDiesGoesOn ==
  ASSUME SparkInv, NEW h \in Hosts, HostDies(h)
  PROVE  SparkInv'
<1> PICK f : f = [i \in Ids |->
                IF runs[i].host # h \/ runs[i].stage \in {"over", "lost"} THEN runs[i]
                ELSE [(IF runs[i].job THEN Killed(runs[i]) ELSE runs[i]) EXCEPT !.stage = "lost"]]
  OBVIOUS
<1>1. runs' = f /\ UNCHANGED platform
  BY DEF HostDies
<1>2. ASSUME NEW i \in Ids PROVE GoesOn(runs[i], f[i])
  <2> PICK r \in Run : r = runs[i]
    BY DEF SparkInv, RunSound
  <2>0. RunSound(r) /\ GoesOn(r, r)
    BY DEF SparkInv, GoesOn
  <2>1. "lost" \in RunStages
    BY DEF RunStages
  <2>2. GoesOn(r, [Killed(r) EXCEPT !.stage = "lost"])
    BY <2>1, KilledGoesOn
  <2>3. CASE r.host = h /\ r.stage \notin {"over", "lost"} /\ ~r.job
    <3> PICK q : q = [r EXCEPT !.stage = "lost"]  OBVIOUS
    <3>1. q \in Run
      BY <2>1 DEF Run
    <3>2. q.task = r.task /\ q.stage = "lost" /\ q.sup = r.sup /\ q.child = r.child /\ q.job = r.job /\ q.dir = r.dir
      BY DEF Run
    <3>3. platform = "macos" /\ r.stage # "unlocked" => ~(r.sup = "dead" /\ r.child = "alive")
      BY <2>3 DEF HostDies, Registered
    <3>4. platform \in {"macos", "linux", "windows"} /\ r.sup \in Supervisors
      BY DEF SparkInv, Run
    <3>5. r.child = "alive" /\ platform = "macos" => r.sup \notin {"none", "dead"}
      BY <2>0, <2>3, <3>3 DEF RunSound, Holds
    <3>6. GoesOn(r, q)
      BY <2>0, <2>3, <3>1, <3>2, <3>3, <3>4, <3>5 DEF GoesOn, RunSound, Holds, Astray
    <3> QED BY <2>3, <3>6
  <2>4. CASE r.host = h /\ r.stage \notin {"over", "lost"} /\ r.job
    BY <2>2, <2>4
  <2>5. CASE r.host # h \/ r.stage \in {"over", "lost"}
    BY <2>0, <2>5
  <2>6. r.job \in BOOLEAN
    BY DEF Run
  <2> QED BY <2>3, <2>4, <2>5, <2>6
<1>3. f \in Seq(Run) /\ DOMAIN f = Ids
  <2>1. \A i \in Ids : f[i] \in Run
    BY <1>2 DEF GoesOn, RunSound
  <2>2. Ids = 1..Len(runs) /\ Len(runs) \in Nat
    BY DEF SparkInv, Ids
  <2> QED BY <2>1, <2>2
<1> QED BY <1>1, <1>2, <1>3, RunsGoOn

\* The runs go on, and one of a task nobody holds is added.
LEMMA RunJoins ==
  ASSUME SparkInv, UNCHANGED platform, NEW f \in Seq(Run), NEW r, runs' = Append(f, r),
         DOMAIN f = Ids, \A i \in Ids : GoesOn(runs[i], f[i]), RunSound(r),
         \A i \in Ids : runs[i].task = r.task => ~Holds(runs[i])
  PROVE  SparkInv'
<1>0. r \in Run
  BY DEF RunSound
<1> PICK g : g = Append(f, r)  OBVIOUS
<1>1. Len(f) \in Nat /\ Ids = 1..Len(f)
  OBVIOUS
<1> PICK n \in Nat : n = Len(f) + 1
  BY <1>1
<1>2. g \in Seq(Run) /\ Len(g) = n /\ DOMAIN g = 1..n /\ g[n] = r
  BY <1>0, <1>1
<1>3. \A i \in 1..n : i # n => i \in Ids /\ g[i] = f[i]
  BY <1>0, <1>1
<1>4. ASSUME NEW i \in 1..n PROVE RunSound(g[i]) /\ (i # n /\ g[i].task = r.task => ~Holds(g[i]))
  <2>1. CASE i = n
    BY <1>2, <2>1
  <2>2. CASE i # n
    <3>1. i \in Ids /\ g[i] = f[i] /\ GoesOn(runs[i], f[i])
      BY <1>3, <2>2
    <3> QED BY <3>1 DEF GoesOn
  <2> QED BY <2>1, <2>2
<1>5. ASSUME NEW i \in 1..n, NEW j \in 1..n, g[i].task = g[j].task, Holds(g[i]), Holds(g[j]) PROVE i = j
  <2>1. CASE i = n \/ j = n
    BY <1>2, <1>4, <1>5, <2>1
  <2>2. CASE i # n /\ j # n
    <3>1. /\ i \in Ids /\ runs[i].task = g[i].task /\ Holds(runs[i])
          /\ j \in Ids /\ runs[j].task = g[j].task /\ Holds(runs[j])
      BY <1>3, <1>5, <2>2 DEF GoesOn
    <3> QED BY <1>5, <3>1 DEF SparkInv
  <2> QED BY <2>1, <2>2
<1>6. runs' = g /\ Ids' = 1..n
  BY <1>2 DEF Ids
<1>7. \A q : (RunSound(q)' <=> RunSound(q)) /\ (Holds(q)' <=> Holds(q))
  BY DEF RunSound, Holds, Astray
<1>8. \A i \in Ids' : RunSound(g[i])'
  BY <1>4, <1>6, <1>7 DEF RunSound, Holds, Astray
<1>9. ASSUME NEW i \in Ids', NEW j \in Ids', g[i].task = g[j].task, Holds(g[i])', Holds(g[j])' PROVE i = j
  <2>1. Holds(g[i]) /\ Holds(g[j])
    BY <1>9 DEF Holds
  <2> QED BY <1>5, <1>6, <1>9, <2>1
<1>10. (\A i \in Ids : RunSound(runs[i]))'
  BY <1>6, <1>8 DEF RunSound, Holds, Astray
<1> QED BY <1>2, <1>6, <1>10, <1>9 DEF SparkInv

\* A task that is not busy has no run that holds its lock, and a stale run holds none.
LEMMA CreateGoesOn ==
  ASSUME SparkInv, NEW h \in Hosts, NEW t \in Tasks, NEW claim \in Claims, Create(h, t, claim)
  PROVE  SparkInv'
<1> PICK r : r = [task |-> t, host |-> h, claim |-> claim, stage |-> "mkdir", sup |-> "none",
                  child |-> "none", job |-> FALSE, code |-> "none", dir |-> "bare",
                  out |-> "none", fresh |-> TRUE]
  OBVIOUS
<1> PICK f : f = [i \in Ids |-> IF Stale(i) THEN [runs[i] EXCEPT !.dir = "gone"] ELSE runs[i]]
  OBVIOUS
<1>1. runs' = Append(f, r) /\ UNCHANGED platform /\ ~TaskBusy(t)
  BY DEF Create
<1>2. r \in Run /\ r.task = t /\ r.stage = "mkdir" /\ r.sup = "none" /\ r.child = "none"
  BY DEF Run, RunStages, Supervisors
<1>3. RunSound(r)
  BY <1>2 DEF RunSound
<1>4. ASSUME NEW i \in Ids PROVE GoesOn(runs[i], f[i])
  <2> PICK o \in Run : o = runs[i]
    BY DEF SparkInv, RunSound
  <2>0. RunSound(o) /\ GoesOn(o, o)
    BY DEF SparkInv, GoesOn
  <2>1. CASE Stale(i)
    <3> PICK q : q = [o EXCEPT !.dir = "gone"]  OBVIOUS
    <3>1. q \in Run
      BY DEF Run
    <3>2. q.task = o.task /\ q.stage = o.stage /\ q.sup = o.sup /\ q.child = o.child /\ q.job = o.job /\ q.dir = "gone"
      BY DEF Run
    <3>3. o.stage \in {"over", "lost", "unlocked"} /\ (o.dir = "owned" => ~Holds(o))
      BY <2>1, HoldsIsLocked DEF Stale, Registered
    <3>4. o.sup \in {"none", "dead"}
      BY <2>0, <3>3 DEF RunSound, Holds
    <3>5. ~(o.child = "alive" /\ ~Astray(o))
      BY <2>0, <3>3 DEF RunSound
    <3>6. GoesOn(o, q)
      BY <2>0, <3>1, <3>2, <3>3, <3>4, <3>5 DEF GoesOn, RunSound, Holds, Astray
    <3> QED BY <2>1, <3>6
  <2>2. CASE ~Stale(i)
    BY <2>0, <2>2
  <2> QED BY <2>1, <2>2
<1>5. f \in Seq(Run) /\ DOMAIN f = Ids /\ Len(f) \in Nat /\ Ids = 1..Len(f)
  <2>1. \A i \in Ids : f[i] \in Run
    BY <1>4 DEF GoesOn, RunSound
  <2>2. Ids = 1..Len(runs) /\ Len(runs) \in Nat
    BY DEF SparkInv, Ids
  <2> QED BY <2>1, <2>2
<1>6. \A i \in Ids : runs[i].task = t => ~Holds(runs[i])
  BY <1>1, HoldsIsLocked DEF TaskBusy
<1> QED BY <1>1, <1>2, <1>3, <1>4, <1>5, <1>6, RunJoins

\* The user logs in anew.
LEMMA LoginGoesOn ==
  ASSUME SparkInv, Login
  PROVE  SparkInv'
<1> PICK f : f = [i \in Ids |-> [runs[i] EXCEPT !.fresh = FALSE]]
  OBVIOUS
<1>1. runs' = f /\ UNCHANGED platform
  BY DEF Login
<1>2. ASSUME NEW i \in Ids PROVE GoesOn(runs[i], f[i])
  <2> PICK r \in Run : r = runs[i]
    BY DEF SparkInv, RunSound
  <2> PICK q : q = [r EXCEPT !.fresh = FALSE]  OBVIOUS
  <2>1. RunSound(r)
    BY DEF SparkInv
  <2>2. q \in Run
    BY DEF Run
  <2>3. q.task = r.task /\ q.stage = r.stage /\ q.sup = r.sup /\ q.child = r.child /\ q.job = r.job /\ q.dir = r.dir
    BY DEF Run
  <2>4. GoesOn(r, q)
    BY <2>1, <2>2, <2>3 DEF GoesOn, RunSound, Holds, Astray
  <2> QED BY <2>4
<1>3. f \in Seq(Run) /\ DOMAIN f = Ids
  <2>1. \A i \in Ids : f[i] \in Run
    BY <1>2 DEF GoesOn, RunSound
  <2>2. Ids = 1..Len(runs) /\ Len(runs) \in Nat
    BY DEF SparkInv, Ids
  <2> QED BY <2>1, <2>2
<1> QED BY <1>1, <1>2, <1>3, RunsGoOn

LEMMA RunsSpared ==
  ASSUME SparkInv, UNCHANGED <<platform, runs>>
  PROVE  SparkInv'
BY DEF SparkInv, Ids, RunSound, Holds, Astray

\* However Hosts, supervisors and children end, every run is sound and no two hold the lock
\* of one task (spark_runner.rs SparkRunFiles::create, run_spark_supervisor).
THEOREM SparkInvariant == SparkSpec => []SparkInv
<1>1. SparkInit => SparkInv
  <2> SUFFICES ASSUME SparkInit PROVE SparkInv
    OBVIOUS
  <2>1. platform \in {"macos", "linux", "windows"}
    BY SparkConstants DEF SparkInit
  <2>2. runs = << >> /\ Ids = {} /\ runs \in Seq(Run)
    BY DEF SparkInit, Ids
  <2> QED BY <2>1, <2>2 DEF SparkInv
<1>2. SparkInv /\ [SparkNext]_sparkVars => SparkInv'
  <2> SUFFICES ASSUME SparkInv, [SparkNext]_sparkVars PROVE SparkInv'
    OBVIOUS
  <2>1. CASE \E h \in Hosts, t \in Tasks, claim \in Claims : Create(h, t, claim)
    BY <2>1, CreateGoesOn
  <2>2. ASSUME NEW i \in Ids, HostStep(i) PROVE SparkInv'
    BY <2>2, HostStepGoesOn
  <2>3. ASSUME NEW i \in Ids,
               GuardStep(i) \/ ChildExits(i) \/ SupervisorError(i) \/ SupervisorDies(i)
        PROVE  SparkInv'
    BY <2>3, GuardStepGoesOn
  <2>4. ASSUME NEW h \in Hosts, HostDies(h) PROVE SparkInv'
    BY <2>4, HostDiesGoesOn
  <2>5. ASSUME NEW h \in Hosts, HostStarts(h) PROVE SparkInv'
    BY <2>5, RunsSpared DEF HostStarts
  <2>6. CASE Login
    BY <2>6, LoginGoesOn
  <2>7. CASE UNCHANGED sparkVars
    BY <2>7, RunsSpared DEF sparkVars
  <2> QED BY <2>1, <2>2, <2>3, <2>4, <2>5, <2>6, <2>7 DEF SparkNext
<1> QED BY <1>1, <1>2, PTL DEF SparkSpec

\* The child of a run holds its task's lock until it ends, through its supervisor or
\* itself: a second run of the task finds the lock taken, and the sweep its directory owned
\* (spark_runner.rs SparkRunFiles::create, sweep_stale_runs, run_spark_supervisor).
THEOREM RunsApart == SparkSpec => []RunsKeepApart
<1>1. SparkInv => RunsKeepApart
  <2> SUFFICES ASSUME SparkInv PROVE RunsKeepApart
    OBVIOUS
  <2>1. ASSUME NEW i \in Ids, runs[i].child = "alive", ~Unattached(i)
        PROVE  runs[i].dir = "owned" /\ Holds(runs[i])
    BY <2>1, HoldsIsLocked DEF SparkInv, RunSound
  <2>2. \A i \in Ids : runs[i].stage \in {"made", "wait", "attach", "drive", "read"} => runs[i].dir = "owned"
    BY DEF SparkInv, RunSound
  <2>3. \A i, j \in Ids : i # j /\ runs[i].task = runs[j].task /\ ~Unattached(i) /\ ~Unattached(j)
          => ~(runs[i].child = "alive" /\ runs[j].child = "alive")
    BY <2>1 DEF SparkInv
  <2> QED BY <2>1, <2>2, <2>3 DEF RunsKeepApart
<1> QED BY <1>1, SparkInvariant, PTL

-----------------------------------------------------------------------------
(* A call of the speech service.                                           *)

Chunk == Seq({"w", "s", "n"})
Routes == {"none", "direct", "https_proxy"}
Failures == {"InvalidRequest", "Credential", "Unavailable", "Protocol", "AudioLimit", "RateLimited",
             "Rejected", "AmbiguousAfterCommit"}
SpeechPhases == {"start", "prepare", "resolve", "connect", "tunnel", "tls", "upgrade", "created",
                 "update", "updated", "append", "commit", "response", "post", "answer", "audio",
                 "fetch", "close", "over"}
SpokenPart == [chunk : Chunk, route : Routes, request : Nat, whole : BOOLEAN]
CallRecord == [kind : {"verify", "asr", "http", "ws"}, text : Texts, chunks : Seq(Chunk),
               at : Nat, attempt : Nat, phase : SpeechPhases, route : Routes,
               parts : Seq(SpokenPart), result : Failures \cup {"none", "ok"}]
SessionRecord ==
  [rid : Nat, iid : Nat, submitted : BOOLEAN, committed : BOOLEAN, itemAdded : BOOLEAN,
   partAdded : BOOLEAN, audioDone : BOOLEAN, partDone : BOOLEAN, itemDone : BOOLEAN,
   done : BOOLEAN, pcm : Seq(Nat), fragmented : Seq(Events), heard : Seq(Events)]

Spoken(kind) == kind \in {"http", "ws"}

\* Which kinds of call come to a phase.
KindsAt(phase) ==
  CASE phase \in {"post", "answer"} -> {"http", "asr"}
    [] phase \in {"audio", "fetch"} -> {"http"}
    [] phase \in {"upgrade", "created"} -> {"ws", "verify"}
    [] phase \in {"update", "updated", "append", "commit", "response"} -> {"ws"}
    [] phase = "close" -> {"verify"}
    [] OTHER -> {"verify", "asr", "http", "ws"}

\* A call works on its chunks one after the other, and has a part of each chunk before.
CallGood(c) ==
  /\ c \in CallRecord
  /\ Spoken(c.kind) => FlattenSeq(c.chunks) = c.text
  /\ c.kind \in KindsAt(c.phase)
  /\ c.phase # "over" =>
       /\ c.result = "none" /\ c.at >= 1 /\ Len(c.parts) + 1 = c.at
       /\ c.at <= Len(c.chunks) \/ (c.chunks = << >> /\ c.phase = "start")
  /\ c.result = "ok" /\ Spoken(c.kind) =>
       Len(c.parts) = Len(c.chunks) /\ \A k \in DOMAIN c.parts : c.parts[k].route = c.parts[1].route
  /\ \A k \in DOMAIN c.parts : c.parts[k].chunk = c.chunks[k] /\ c.parts[k].whole

Asked == {"answer", "audio", "fetch", "response"}

\* Each part is of the last request for its chunk; over the WebSocket no request was made
\* for the chunk at hand until the commit.
SentGood(c, b) ==
  /\ b \in Seq(Nat)
  /\ \A j \in DOMAIN b : b[j] <= c.at
  /\ c.kind = "ws" => \A i, j \in DOMAIN b : b[i] = b[j] => i = j
  /\ c.kind = "ws" /\ c.phase \notin {"response", "over"} => \A j \in DOMAIN b : b[j] < c.at
  /\ Spoken(c.kind) /\ c.phase \in Asked => Len(b) > 0 /\ b[Len(b)] = c.at
  /\ \A k \in DOMAIN c.parts :
       /\ c.parts[k].request \in DOMAIN b /\ b[c.parts[k].request] = k
       /\ \A j \in DOMAIN b : j > c.parts[k].request => b[j] > k

\* The place and the type of every event of a response that has m deltas.
EventAt(k, m) ==
  CASE k = 1 -> "committed"
    [] k = 2 -> "response.created"
    [] k = 3 -> "item.added"
    [] k = 4 -> "part.added"
    [] k >= 5 /\ k <= 4 + m -> "delta"
    [] k >= 5 /\ k = 5 + m -> "audio.done"
    [] k >= 5 /\ k = 6 + m -> "part.done"
    [] OTHER -> "item.done"

\* How many events led to the state of a session.
HeardCount(s, m, n) ==
  /\ s.itemDone => n = 7 + m
  /\ ~s.itemDone /\ s.partDone => n = 6 + m
  /\ ~s.partDone /\ s.audioDone => n = 5 + m
  /\ ~s.audioDone /\ s.partAdded => n = 4 + m
  /\ ~s.partAdded /\ s.itemAdded => n = 3
  /\ ~s.itemAdded /\ s.rid # 0 => n = 2
  /\ s.rid = 0 /\ s.committed => n = 1
  /\ s.rid = 0 /\ ~s.committed => n = 0

\* What was heard is the beginning of one response.
SessionGood(s) ==
  /\ s \in SessionRecord
  /\ (s.itemDone => s.partDone) /\ (s.partDone => s.audioDone) /\ (s.audioDone => Len(s.pcm) > 0)
  /\ (Len(s.pcm) > 0 => s.partAdded) /\ (s.partAdded => s.itemAdded) /\ (s.itemAdded <=> s.iid # 0)
  /\ (s.itemAdded => s.rid # 0) /\ (s.rid # 0 => s.committed)
  /\ HeardCount(s, Len(s.pcm), Len(s.heard))
  /\ \A k \in DOMAIN s.heard :
       /\ s.heard[k].type = EventAt(k, Len(s.pcm)) /\ s.heard[k].flaw = "none"
       /\ k >= 2 => s.heard[k].rid = s.rid
       /\ k >= 3 => s.heard[k].iid = s.iid

Untried(c, s) == (c.phase = "response" => s.submitted) /\ (c.phase \notin {"response", "over"} => ~s.submitted)

SpeechGood(c, s, b) == CallGood(c) /\ SentGood(c, b) /\ Untried(c, s) /\ SessionGood(s)

SpeechInv == SpeechGood(call, session, sent)

LEMMA FlattenOne ==
  ASSUME NEW text PROVE FlattenSeq(<<text>>) = text
<1> DEFINE f == [i \in 1..1 |-> text]
<1> DEFINE Step(g) == [i \in 1..1 |-> IF i = 1 THEN <<text>>[i] ELSE g[i - 1] \o <<text>>[i]]
<1>1. f = Step(f)
  OBVIOUS
<1>2. \A g : g = Step(g) => g[1] = text
  OBVIOUS
<1>3. (CHOOSE g : g = Step(g)) = Step(CHOOSE g : g = Step(g))
  <2> HIDE DEF f, Step
  <2> QED BY <1>1
<1>4. Len(<<text>>) = 1
  OBVIOUS
<1>5. FlattenSeq(<<text>>) = (CHOOSE g : g = Step(g))[1]
  BY <1>4 DEF FlattenSeq
<1> QED BY <1>2, <1>3, <1>5

LEMMA KnownPhases ==
  /\ {"prepare", "resolve", "connect", "tunnel", "tls", "upgrade", "created", "update", "updated",
      "append", "commit", "response", "post", "answer", "audio", "fetch", "close", "over"}
       \subseteq SpeechPhases
  /\ "start" \in SpeechPhases
BY DEF SpeechPhases

\* The call goes on to another phase, over the route that was chosen; or ends.
MovesTo(c, p, r, d) == d = [c EXCEPT !.phase = p, !.route = r]
EndsAs(c, x, d) == d = [c EXCEPT !.phase = "over", !.result = x]

LEMMA CallMoves ==
  ASSUME NEW c, CallGood(c), c.phase # "over", c.chunks # << >>, NEW p \in SpeechPhases,
         c.kind \in KindsAt(p), p # "over", NEW r \in Routes,
         NEW d, MovesTo(c, p, r, d)
  PROVE  /\ CallGood(d) /\ d.kind = c.kind /\ d.phase = p /\ d.at = c.at /\ d.parts = c.parts
         /\ d \in CallRecord
<1>1. c \in CallRecord
  BY DEF CallGood
<1>2. d \in CallRecord
  BY <1>1 DEF CallRecord, MovesTo
<1>3. /\ d.kind = c.kind /\ d.phase = p /\ d.at = c.at /\ d.parts = c.parts /\ d.chunks = c.chunks
      /\ d.text = c.text /\ d.result = c.result
  BY <1>1 DEF CallRecord, MovesTo
<1> QED BY <1>2, <1>3 DEF CallGood

\* The call ends without audio.
LEMMA CallEnds ==
  ASSUME NEW c, CallGood(c), c.phase # "over", NEW x \in Failures \cup {"ok"},
         x = "ok" => ~Spoken(c.kind), NEW d, EndsAs(c, x, d)
  PROVE  /\ CallGood(d) /\ d.kind = c.kind /\ d.phase = "over" /\ d.at = c.at /\ d.parts = c.parts
         /\ d \in CallRecord
<1>1. c \in CallRecord
  BY DEF CallGood
<1>2. d \in CallRecord
  BY <1>1, KnownPhases DEF CallRecord, EndsAs
<1>3. /\ d.kind = c.kind /\ d.phase = "over" /\ d.at = c.at /\ d.parts = c.parts /\ d.chunks = c.chunks
      /\ d.text = c.text /\ d.result = x
  BY <1>1 DEF CallRecord, EndsAs
<1>4. d.kind \in KindsAt(d.phase)
  BY <1>1, <1>3 DEF CallRecord, KindsAt
<1> QED BY <1>2, <1>3, <1>4 DEF CallGood

\* The next attempt.
LEMMA CallRetries ==
  ASSUME NEW c, CallGood(c), c.phase \notin {"start", "over"},
         NEW d, d = [c EXCEPT !.attempt = @ + 1, !.phase = "prepare"]
  PROVE  /\ CallGood(d) /\ d.kind = c.kind /\ d.phase = "prepare" /\ d.at = c.at /\ d.parts = c.parts
         /\ d \in CallRecord
<1>1. c \in CallRecord /\ c.attempt \in Nat
  BY DEF CallGood, CallRecord
<1> PICK n \in Nat : n = c.attempt + 1
  BY <1>1
<1>0. d = [c EXCEPT !.attempt = n, !.phase = "prepare"]
  BY <1>1 DEF CallRecord
<1>2. d \in CallRecord
  BY <1>0, <1>1, KnownPhases DEF CallRecord
<1>3. /\ d.kind = c.kind /\ d.phase = "prepare" /\ d.at = c.at /\ d.parts = c.parts /\ d.chunks = c.chunks
      /\ d.text = c.text /\ d.result = c.result
  BY <1>0, <1>1 DEF CallRecord
<1>4. d.kind \in KindsAt(d.phase)
  BY <1>1, <1>3 DEF CallRecord, KindsAt
<1> QED BY <1>2, <1>3, <1>4 DEF CallGood

\* Nothing was sent.
LEMMA SentStays ==
  ASSUME NEW c, NEW d, NEW b, SentGood(c, b), d.kind = c.kind, d.at = c.at, d.parts = c.parts,
         d.phase # "response" \/ c.phase = "response",
         d.phase \in Asked /\ Spoken(d.kind) => c.phase \in Asked,
         \/ d.phase \in {"response", "over"}
         \/ c.phase \notin {"response", "over"}
         \/ c.kind # "ws"
  PROVE  SentGood(d, b)
BY DEF SentGood

\* A request for the chunk at hand was sent.
LEMMA SentGrows ==
  ASSUME NEW c, CallGood(c), c.phase # "over", NEW d \in CallRecord, NEW b, SentGood(c, b), d.kind = c.kind, d.at = c.at, d.parts = c.parts,
         c.kind = "ws" => c.phase # "response" /\ d.phase \in {"response", "over"}
  PROVE  SentGood(d, Append(b, c.at))
<1> PICK n \in Nat : n = c.at
  BY DEF CallGood, CallRecord
<1> PICK l \in Nat : l = Len(b)
  BY DEF SentGood
<1> PICK e : e = Append(b, n)  OBVIOUS
<1>1. b \in Seq(Nat) /\ e \in Seq(Nat) /\ Len(e) = l + 1 /\ DOMAIN e = 1..(l + 1) /\ DOMAIN b = 1..l
  BY DEF SentGood
<1>2. e[l + 1] = n /\ \A j \in 1..l : e[j] = b[j]
  BY <1>1
<1>7. DOMAIN b = 1..l /\ \A k \in 1..l : b[k] \in Nat
  <2>1. b \in Seq(Nat) /\ l = Len(b)
    BY <1>1
  <2> QED BY ONLY <2>1
<1>3. \A j \in DOMAIN e : e[j] <= d.at
  BY <1>1, <1>2 DEF SentGood
<1>4. d.kind = "ws" => \A i, j \in DOMAIN e : e[i] = e[j] => i = j
  <2> SUFFICES ASSUME d.kind = "ws", NEW i \in DOMAIN e, NEW j \in DOMAIN e, e[i] = e[j] PROVE i = j
    OBVIOUS
  <2>0. c.kind = "ws" /\ c.phase \notin {"response", "over"} /\ SentGood(c, b) /\ n = c.at
    OBVIOUS
  <2>3. \A k \in DOMAIN b : b[k] < c.at
    BY ONLY <2>0 DEF SentGood
  <2>1. \A k \in 1..l : b[k] < n /\ b[k] \in Nat
    BY ONLY <1>7, <2>0, <2>3
  <2>2. \A h, k \in 1..l : b[h] = b[k] => h = k
    BY <1>1 DEF SentGood
  <2> QED BY <1>1, <1>2, <2>1, <2>2
<1>5. Spoken(d.kind) /\ d.phase \in Asked => Len(e) > 0 /\ e[Len(e)] = d.at
  BY <1>1, <1>2
<1>6. ASSUME NEW k \in DOMAIN d.parts
      PROVE  /\ d.parts[k].request \in DOMAIN e /\ e[d.parts[k].request] = k
             /\ \A j \in DOMAIN e : j > d.parts[k].request => e[j] > k
  <2> PICK q : q = d.parts[k].request  OBVIOUS
  <2>1. q \in 1..l /\ b[q] = k /\ \A j \in 1..l : j > q => b[j] > k
    BY <1>1 DEF SentGood
  <2>2. k < n /\ k \in Nat
    BY <1>1 DEF CallGood, CallRecord
  <2> QED BY <1>1, <1>2, <2>1, <2>2
<1> QED BY <1>1, <1>3, <1>4, <1>5, <1>6 DEF SentGood

-----------------------------------------------------------------------------
(* The session of an attempt.                                              *)

LEMMA NewSessionGood == SessionGood(NewSession) /\ NewSession.submitted = FALSE
<1> PICK s : s = NewSession  OBVIOUS
<1>1. /\ s.rid = 0 /\ s.iid = 0 /\ s.submitted = FALSE /\ s.committed = FALSE /\ s.itemAdded = FALSE
      /\ s.partAdded = FALSE /\ s.audioDone = FALSE /\ s.partDone = FALSE /\ s.itemDone = FALSE
      /\ s.pcm = << >> /\ s.heard = << >>
  BY DEF NewSession
<1>2. s \in SessionRecord
  BY DEF NewSession, SessionRecord
<1>3. Len(s.heard) = 0 /\ Len(s.pcm) = 0 /\ DOMAIN s.heard = {}
  BY <1>1
<1>4. HeardCount(s, 0, 0)
  BY <1>1 DEF HeardCount
<1> QED BY <1>1, <1>2, <1>3, <1>4 DEF SessionGood

\* Frames come in parts, and the commit is sent: what was heard is the same.
LEMMA SessionMoves ==
  ASSUME NEW s, SessionGood(s), NEW g \in Seq(Events), NEW m \in BOOLEAN,
         NEW t, t = [s EXCEPT !.fragmented = g, !.submitted = m]
  PROVE  SessionGood(t) /\ t.submitted = m
<1>1. s \in SessionRecord
  BY DEF SessionGood
<1>2. t \in SessionRecord
  BY <1>1 DEF SessionRecord
<1>3. /\ t.rid = s.rid /\ t.iid = s.iid /\ t.submitted = m /\ t.committed = s.committed
      /\ t.itemAdded = s.itemAdded /\ t.partAdded = s.partAdded /\ t.audioDone = s.audioDone
      /\ t.partDone = s.partDone /\ t.itemDone = s.itemDone /\ t.pcm = s.pcm /\ t.heard = s.heard
  BY <1>1 DEF SessionRecord
<1>4. HeardCount(t, Len(t.pcm), Len(t.heard))
  BY <1>3 DEF HeardCount, SessionGood
<1> QED BY <1>2, <1>3, <1>4 DEF SessionGood

LEMMA SessionCommits ==
  ASSUME NEW s, SessionGood(s), NEW t, t = [s EXCEPT !.submitted = TRUE]
  PROVE  SessionGood(t) /\ t.submitted = TRUE
<1>1. s \in SessionRecord
  BY DEF SessionGood
<1>2. t \in SessionRecord
  BY <1>1 DEF SessionRecord
<1>3. /\ t.rid = s.rid /\ t.iid = s.iid /\ t.submitted = TRUE /\ t.committed = s.committed
      /\ t.itemAdded = s.itemAdded /\ t.partAdded = s.partAdded /\ t.audioDone = s.audioDone
      /\ t.partDone = s.partDone /\ t.itemDone = s.itemDone /\ t.pcm = s.pcm /\ t.heard = s.heard
  BY <1>1 DEF SessionRecord
<1>4. HeardCount(t, Len(t.pcm), Len(t.heard))
  BY <1>3 DEF HeardCount, SessionGood
<1> QED BY <1>2, <1>3, <1>4 DEF SessionGood

LEMMA SessionFields ==
  ASSUME SessionGood(session), NEW g \in Seq(Events), NEW m \in BOOLEAN
  PROVE  /\ session.submitted \in BOOLEAN /\ session.fragmented \in Seq(Events)
         /\ [session EXCEPT !.fragmented = g] = [session EXCEPT !.fragmented = g, !.submitted = session.submitted]
         /\ [session EXCEPT !.submitted = m] = [session EXCEPT !.fragmented = session.fragmented, !.submitted = m]
BY DEF SessionGood, SessionRecord

\* One more event was heard, and it is the next one.
NextHeard(s, e, t) ==
  /\ t \in SessionRecord
  /\ t.heard = Append(s.heard, e)
  /\ (t.itemDone => t.partDone) /\ (t.partDone => t.audioDone) /\ (t.audioDone => Len(t.pcm) > 0)
  /\ (Len(t.pcm) > 0 => t.partAdded) /\ (t.partAdded => t.itemAdded) /\ (t.itemAdded <=> t.iid # 0)
  /\ (t.itemAdded => t.rid # 0) /\ (t.rid # 0 => t.committed)
  /\ HeardCount(t, Len(t.pcm), Len(s.heard) + 1)
  /\ e.type = EventAt(Len(s.heard) + 1, Len(t.pcm))
  /\ \A k \in 1..Len(s.heard) : EventAt(k, Len(t.pcm)) = EventAt(k, Len(s.pcm))
  /\ Len(s.heard) >= 1 => e.rid = t.rid
  /\ Len(s.heard) >= 2 => t.rid = s.rid /\ e.iid = t.iid
  /\ Len(s.heard) >= 3 => t.iid = s.iid

LEMMA SessionHears ==
  ASSUME NEW s, SessionGood(s), NEW e \in Events, e.flaw = "none", NEW t, NextHeard(s, e, t)
  PROVE  SessionGood(t)
<1> PICK n \in Nat : n = Len(s.heard)
  BY DEF SessionGood, SessionRecord
<1>1. s.heard \in Seq(Events) /\ t.heard = Append(s.heard, e)
  BY DEF SessionGood, SessionRecord, NextHeard
<1>2. Len(t.heard) = n + 1 /\ DOMAIN t.heard = 1..(n + 1) /\ DOMAIN s.heard = 1..n
  BY <1>1
<1>3. t.heard[n + 1] = e /\ \A k \in 1..n : t.heard[k] = s.heard[k]
  BY <1>1
<1>4. ASSUME NEW k \in DOMAIN t.heard
      PROVE  /\ t.heard[k].type = EventAt(k, Len(t.pcm)) /\ t.heard[k].flaw = "none"
             /\ k >= 2 => t.heard[k].rid = t.rid
             /\ k >= 3 => t.heard[k].iid = t.iid
  <2>1. CASE k = n + 1
    BY <1>3, <2>1 DEF NextHeard
  <2>2. CASE k # n + 1
    <3>1. k \in 1..n /\ t.heard[k] = s.heard[k]
      BY <1>2, <1>3, <2>2
    <3>2. /\ s.heard[k].type = EventAt(k, Len(s.pcm)) /\ s.heard[k].flaw = "none"
          /\ k >= 2 => s.heard[k].rid = s.rid
          /\ k >= 3 => s.heard[k].iid = s.iid
      BY <1>2, <3>1 DEF SessionGood
    <3> QED BY <3>1, <3>2 DEF NextHeard
  <2> QED BY <1>2, <2>1, <2>2
<1> QED BY <1>2, <1>4 DEF SessionGood, NextHeard

LEMMA EventFields ==
  ASSUME NEW e \in Events
  PROVE  e.rid \in {1, 2} /\ e.iid \in {1, 2} /\ e.type \in EventTypes
BY DEF Events, ResponseTypes, EventTypes

\* What every handler does before it sets a flag: the event is heard, its item is bound.
Hearing(s, e, i, z) ==
  /\ z \in SessionRecord /\ z.heard = Append(s.heard, e) /\ z.iid = i
  /\ z.rid = s.rid /\ z.submitted = s.submitted /\ z.committed = s.committed /\ z.itemAdded = s.itemAdded /\ z.partAdded = s.partAdded
  /\ z.audioDone = s.audioDone /\ z.partDone = s.partDone /\ z.itemDone = s.itemDone /\ z.pcm = s.pcm

LEMMA HeardFields ==
  ASSUME NEW s \in SessionRecord, NEW e \in Events, NEW i \in Nat,
         NEW h \in Seq(Events), h = Append(s.heard, e),
         NEW x, x = [s EXCEPT !.heard = h, !.fragmented = << >>],
         NEW y, y = [x EXCEPT !.iid = i]
  PROVE  Hearing(s, e, s.iid, x) /\ Hearing(s, e, i, y)
<1>1. s.heard \in Seq(Events) /\ << >> \in Seq(Events)
  BY DEF SessionRecord
<1>3. x \in SessionRecord
  BY <1>1 DEF SessionRecord
<1>4. Hearing(s, e, s.iid, x)
  BY <1>3 DEF SessionRecord, Hearing
<1>5. y \in SessionRecord
  BY <1>3 DEF SessionRecord
<1>6. y.iid = i /\ y.heard = x.heard /\ y.rid = x.rid /\ y.submitted = x.submitted /\ y.committed = x.committed /\ y.itemAdded = x.itemAdded /\ y.partAdded = x.partAdded /\ y.audioDone = x.audioDone /\ y.partDone = x.partDone /\ y.itemDone = x.itemDone /\ y.pcm = x.pcm
  BY <1>3 DEF SessionRecord
<1> QED BY <1>4, <1>5, <1>6 DEF Hearing

LEMMA GoodFields ==
  ASSUME NEW s, SessionGood(s)
  PROVE  /\ s.rid \in Nat /\ s.iid \in Nat /\ s.pcm \in Seq(Nat) /\ Len(s.pcm) \in Nat /\ s.heard \in Seq(Events)
         /\ s.committed \in BOOLEAN /\ s.itemAdded \in BOOLEAN /\ s.partAdded \in BOOLEAN
         /\ s.audioDone \in BOOLEAN /\ s.partDone \in BOOLEAN /\ s.itemDone \in BOOLEAN
         /\ (s.pcm = << >> <=> Len(s.pcm) = 0)
BY DEF SessionGood, SessionRecord

LEMMA CommittedHeard ==
  ASSUME NEW s, SessionGood(s), NEW e \in Events, e.flaw = "none", e.type = "committed",
         NEW z, Hearing(s, e, s.iid, z), ~s.committed, s.rid = 0,
         NEW t, t = [z EXCEPT !.committed = TRUE]
  PROVE  SessionGood(t) /\ t.submitted = s.submitted
<1> PICK m \in Nat : m = Len(s.pcm)
  BY GoodFields
<1>0. e.rid \in {1, 2} /\ e.iid \in {1, 2} /\ z \in SessionRecord
  BY EventFields DEF Hearing
<1>1. t \in SessionRecord
  BY <1>0 DEF SessionRecord
<1>2. /\ t.committed = TRUE /\ t.heard = Append(s.heard, e) /\ t.iid = s.iid
      /\ t.rid = s.rid /\ t.submitted = s.submitted /\ t.itemAdded = s.itemAdded /\ t.partAdded = s.partAdded /\ t.audioDone = s.audioDone /\ t.partDone = s.partDone /\ t.itemDone = s.itemDone /\ t.pcm = s.pcm
  BY <1>0 DEF SessionRecord, Hearing
<1>3. /\ s.committed \in BOOLEAN /\ s.itemAdded \in BOOLEAN /\ s.partAdded \in BOOLEAN
      /\ s.audioDone \in BOOLEAN /\ s.partDone \in BOOLEAN /\ s.itemDone \in BOOLEAN
      /\ s.rid \in Nat /\ s.iid \in Nat
  BY GoodFields
<1>4. /\ (s.itemDone => s.partDone) /\ (s.partDone => s.audioDone) /\ (s.audioDone => m > 0)
      /\ (m > 0 => s.partAdded) /\ (s.partAdded => s.itemAdded) /\ (s.itemAdded <=> s.iid # 0)
      /\ (s.itemAdded => s.rid # 0) /\ (s.rid # 0 => s.committed)
      /\ HeardCount(s, m, Len(s.heard))
  BY DEF SessionGood
<1>5. Len(t.pcm) = m
  BY <1>0, <1>2, GoodFields
<1>6. Len(s.heard) = 0
  BY <1>3, <1>4 DEF HeardCount
<1>7. t.committed /\ t.rid = 0 /\ ~t.itemAdded /\ ~t.partAdded /\ ~t.audioDone /\ ~t.partDone /\ ~t.itemDone
  BY <1>0, <1>2, <1>3, <1>4
<1>10. HeardCount(t, m, 0 + 1)
  <2> QED BY <1>7 DEF HeardCount
<1>8. e.type = EventAt(0 + 1, m) /\ \A k \in 1..(0) : EventAt(k, m) = EventAt(k, m)
  BY DEF EventAt
<1>9. NextHeard(s, e, t)
  BY <1>0, <1>1, <1>2, <1>3, <1>4, <1>5, <1>6, <1>7, <1>8, <1>10 DEF NextHeard
<1> QED BY <1>2, <1>9, SessionHears

BindsResponse(z, e, t) == t = [z EXCEPT !.rid = e.rid]

LEMMA CreatedHeard ==
  ASSUME NEW s, SessionGood(s), NEW e \in Events, e.flaw = "none", e.type = "response.created",
         NEW z, Hearing(s, e, s.iid, z), s.committed, s.rid = 0,
         NEW t, BindsResponse(z, e, t)
  PROVE  SessionGood(t) /\ t.submitted = s.submitted
<1> PICK r \in Nat : r = e.rid
  BY EventFields
<1>11. t = [z EXCEPT !.rid = r]
  BY DEF BindsResponse
<1> PICK m \in Nat : m = Len(s.pcm)
  BY GoodFields
<1>0. e.rid \in {1, 2} /\ e.iid \in {1, 2} /\ z \in SessionRecord
  BY EventFields DEF Hearing
<1>1. t \in SessionRecord
  BY <1>0, <1>11 DEF SessionRecord
<1>2. /\ t.rid = r /\ t.heard = Append(s.heard, e) /\ t.iid = s.iid
      /\ t.submitted = s.submitted /\ t.committed = s.committed /\ t.itemAdded = s.itemAdded /\ t.partAdded = s.partAdded /\ t.audioDone = s.audioDone /\ t.partDone = s.partDone /\ t.itemDone = s.itemDone /\ t.pcm = s.pcm
  BY <1>0, <1>11 DEF SessionRecord, Hearing
<1>3. /\ s.committed \in BOOLEAN /\ s.itemAdded \in BOOLEAN /\ s.partAdded \in BOOLEAN
      /\ s.audioDone \in BOOLEAN /\ s.partDone \in BOOLEAN /\ s.itemDone \in BOOLEAN
      /\ s.rid \in Nat /\ s.iid \in Nat
  BY GoodFields
<1>4. /\ (s.itemDone => s.partDone) /\ (s.partDone => s.audioDone) /\ (s.audioDone => m > 0)
      /\ (m > 0 => s.partAdded) /\ (s.partAdded => s.itemAdded) /\ (s.itemAdded <=> s.iid # 0)
      /\ (s.itemAdded => s.rid # 0) /\ (s.rid # 0 => s.committed)
      /\ HeardCount(s, m, Len(s.heard))
  BY DEF SessionGood
<1>5. Len(t.pcm) = m
  BY <1>0, <1>2, GoodFields
<1>6. Len(s.heard) = 1
  BY <1>3, <1>4 DEF HeardCount
<1>7. t.committed /\ t.rid # 0 /\ ~t.itemAdded /\ ~t.partAdded /\ ~t.audioDone /\ ~t.partDone /\ ~t.itemDone
  <2>1. r # 0
    BY <1>0
  <2>2. ~s.itemAdded /\ ~s.partAdded /\ ~s.audioDone /\ ~s.partDone /\ ~s.itemDone
    BY <1>4
  <2> QED BY <1>2, <2>1, <2>2
<1>10. HeardCount(t, m, 1 + 1)
  <2> QED BY <1>7 DEF HeardCount
<1>8. e.type = EventAt(1 + 1, m) /\ \A k \in 1..(1) : EventAt(k, m) = EventAt(k, m)
  BY DEF EventAt
<1>9. NextHeard(s, e, t)
  BY <1>0, <1>1, <1>2, <1>3, <1>4, <1>5, <1>6, <1>7, <1>8, <1>10 DEF NextHeard
<1> QED BY <1>2, <1>9, SessionHears

LEMMA ItemAddedHeard ==
  ASSUME NEW s, SessionGood(s), NEW e \in Events, e.flaw = "none", e.type = "item.added",
         NEW z, Hearing(s, e, e.iid, z), s.rid # 0, s.rid = e.rid, s.iid \in {0, e.iid}, ~s.itemAdded,
         NEW t, t = [z EXCEPT !.itemAdded = TRUE]
  PROVE  SessionGood(t) /\ t.submitted = s.submitted
<1> PICK m \in Nat : m = Len(s.pcm)
  BY GoodFields
<1>0. e.rid \in {1, 2} /\ e.iid \in {1, 2} /\ z \in SessionRecord
  BY EventFields DEF Hearing
<1>1. t \in SessionRecord
  BY <1>0 DEF SessionRecord
<1>2. /\ t.itemAdded = TRUE /\ t.heard = Append(s.heard, e) /\ t.iid = e.iid
      /\ t.rid = s.rid /\ t.submitted = s.submitted /\ t.committed = s.committed /\ t.partAdded = s.partAdded /\ t.audioDone = s.audioDone /\ t.partDone = s.partDone /\ t.itemDone = s.itemDone /\ t.pcm = s.pcm
  BY <1>0 DEF SessionRecord, Hearing
<1>3. /\ s.committed \in BOOLEAN /\ s.itemAdded \in BOOLEAN /\ s.partAdded \in BOOLEAN
      /\ s.audioDone \in BOOLEAN /\ s.partDone \in BOOLEAN /\ s.itemDone \in BOOLEAN
      /\ s.rid \in Nat /\ s.iid \in Nat
  BY GoodFields
<1>4. /\ (s.itemDone => s.partDone) /\ (s.partDone => s.audioDone) /\ (s.audioDone => m > 0)
      /\ (m > 0 => s.partAdded) /\ (s.partAdded => s.itemAdded) /\ (s.itemAdded <=> s.iid # 0)
      /\ (s.itemAdded => s.rid # 0) /\ (s.rid # 0 => s.committed)
      /\ HeardCount(s, m, Len(s.heard))
  BY DEF SessionGood
<1>5. Len(t.pcm) = m
  BY <1>0, <1>2, GoodFields
<1>6. Len(s.heard) = 2
  BY <1>3, <1>4 DEF HeardCount
<1>7. t.committed /\ t.rid # 0 /\ t.itemAdded /\ ~t.partAdded /\ ~t.audioDone /\ ~t.partDone /\ ~t.itemDone
  BY <1>0, <1>2, <1>3, <1>4
<1>10. HeardCount(t, m, 2 + 1)
  <2> QED BY <1>7 DEF HeardCount
<1>8. e.type = EventAt(2 + 1, m) /\ \A k \in 1..(2) : EventAt(k, m) = EventAt(k, m)
  BY DEF EventAt
<1>9. NextHeard(s, e, t)
  BY <1>0, <1>1, <1>2, <1>3, <1>4, <1>5, <1>6, <1>7, <1>8, <1>10 DEF NextHeard
<1> QED BY <1>2, <1>9, SessionHears

\* The flag that an event sets.
PartOpens(z, t) == t = [z EXCEPT !.partAdded = TRUE]
AudioEnds(z, t) == t = [z EXCEPT !.audioDone = TRUE]
PartEnds(z, t) == t = [z EXCEPT !.partDone = TRUE]
ItemEnds(z, t) == t = [z EXCEPT !.itemDone = TRUE]

LEMMA PartAddedHeard ==
  ASSUME NEW s, SessionGood(s), NEW e \in Events, e.flaw = "none", e.type = "part.added",
         NEW z, Hearing(s, e, e.iid, z), s.rid # 0, s.rid = e.rid, s.iid \in {0, e.iid}, s.itemAdded, ~s.partAdded,
         NEW t, PartOpens(z, t)
  PROVE  SessionGood(t) /\ t.submitted = s.submitted
<1> USE DEF PartOpens
<1> PICK m \in Nat : m = Len(s.pcm)
  BY GoodFields
<1>0. e.rid \in {1, 2} /\ e.iid \in {1, 2} /\ z \in SessionRecord
  BY EventFields DEF Hearing
<1>1. t \in SessionRecord
  BY <1>0 DEF SessionRecord
<1>2. /\ t.partAdded = TRUE /\ t.heard = Append(s.heard, e) /\ t.iid = e.iid
      /\ t.rid = s.rid /\ t.submitted = s.submitted /\ t.committed = s.committed /\ t.itemAdded = s.itemAdded /\ t.audioDone = s.audioDone /\ t.partDone = s.partDone /\ t.itemDone = s.itemDone /\ t.pcm = s.pcm
  BY <1>0 DEF SessionRecord, Hearing
<1>3. /\ s.committed \in BOOLEAN /\ s.itemAdded \in BOOLEAN /\ s.partAdded \in BOOLEAN
      /\ s.audioDone \in BOOLEAN /\ s.partDone \in BOOLEAN /\ s.itemDone \in BOOLEAN
      /\ s.rid \in Nat /\ s.iid \in Nat
  BY GoodFields
<1>4. /\ (s.itemDone => s.partDone) /\ (s.partDone => s.audioDone) /\ (s.audioDone => m > 0)
      /\ (m > 0 => s.partAdded) /\ (s.partAdded => s.itemAdded) /\ (s.itemAdded <=> s.iid # 0)
      /\ (s.itemAdded => s.rid # 0) /\ (s.rid # 0 => s.committed)
      /\ HeardCount(s, m, Len(s.heard))
  BY DEF SessionGood
<1>5. Len(t.pcm) = m
  BY <1>0, <1>2, GoodFields
<1>6. Len(s.heard) = 3
  BY <1>3, <1>4 DEF HeardCount
<1>7. t.committed /\ t.rid # 0 /\ t.itemAdded /\ t.partAdded /\ ~t.audioDone /\ ~t.partDone /\ ~t.itemDone
  BY <1>0, <1>2, <1>3, <1>4
<1>10. HeardCount(t, m, 3 + 1)
  <2>2. m = 0
    BY <1>4
  <2> QED BY <1>7, <2>2 DEF HeardCount
<1>8. e.type = EventAt(3 + 1, m) /\ \A k \in 1..(3) : EventAt(k, m) = EventAt(k, m)
  BY DEF EventAt
<1>9. NextHeard(s, e, t)
  BY <1>0, <1>1, <1>2, <1>3, <1>4, <1>5, <1>6, <1>7, <1>8, <1>10 DEF NextHeard
<1> QED BY <1>2, <1>9, SessionHears

AppendsDelta(s, z, e, t) == t = [z EXCEPT !.pcm = Append(s.pcm, e.rid)]

LEMMA DeltaHeard ==
  ASSUME NEW s, SessionGood(s), NEW e \in Events, e.flaw = "none", e.type = "delta",
         NEW z, Hearing(s, e, e.iid, z), s.rid # 0, s.rid = e.rid, s.iid \in {0, e.iid}, s.partAdded, ~s.audioDone,
         NEW t, AppendsDelta(s, z, e, t)
  PROVE  SessionGood(t) /\ t.submitted = s.submitted
<1>11. Append(s.pcm, e.rid) \in Seq(Nat)
  BY GoodFields, EventFields
<1> PICK v \in Seq(Nat) : v = Append(s.pcm, e.rid)
  BY <1>11
<1>12. t = [z EXCEPT !.pcm = v]
  BY DEF AppendsDelta
<1> PICK m \in Nat : m = Len(s.pcm)
  BY GoodFields
<1>0. e.rid \in {1, 2} /\ e.iid \in {1, 2} /\ z \in SessionRecord
  BY EventFields DEF Hearing
<1>1. t \in SessionRecord
  BY <1>0, <1>12 DEF SessionRecord
<1>2. /\ t.pcm = v /\ t.heard = Append(s.heard, e) /\ t.iid = e.iid
      /\ t.rid = s.rid /\ t.submitted = s.submitted /\ t.committed = s.committed /\ t.itemAdded = s.itemAdded /\ t.partAdded = s.partAdded /\ t.audioDone = s.audioDone /\ t.partDone = s.partDone /\ t.itemDone = s.itemDone
  BY <1>0, <1>12 DEF SessionRecord, Hearing
<1>3. /\ s.committed \in BOOLEAN /\ s.itemAdded \in BOOLEAN /\ s.partAdded \in BOOLEAN
      /\ s.audioDone \in BOOLEAN /\ s.partDone \in BOOLEAN /\ s.itemDone \in BOOLEAN
      /\ s.rid \in Nat /\ s.iid \in Nat
  BY GoodFields
<1>4. /\ (s.itemDone => s.partDone) /\ (s.partDone => s.audioDone) /\ (s.audioDone => m > 0)
      /\ (m > 0 => s.partAdded) /\ (s.partAdded => s.itemAdded) /\ (s.itemAdded <=> s.iid # 0)
      /\ (s.itemAdded => s.rid # 0) /\ (s.rid # 0 => s.committed)
      /\ HeardCount(s, m, Len(s.heard))
  BY DEF SessionGood
<1>5. Len(t.pcm) = (m + 1)
  BY <1>0, <1>2, GoodFields
<1>6. Len(s.heard) = 4 + m
  BY <1>3, <1>4 DEF HeardCount
<1>7. t.committed /\ t.rid # 0 /\ t.itemAdded /\ t.partAdded /\ ~t.audioDone /\ ~t.partDone /\ ~t.itemDone
  BY <1>0, <1>2, <1>3, <1>4
<1>10. HeardCount(t, (m + 1), 4 + m + 1)
  <2> QED BY <1>7 DEF HeardCount
<1>8. e.type = EventAt(4 + m + 1, (m + 1)) /\ \A k \in 1..(4 + m) : EventAt(k, (m + 1)) = EventAt(k, m)
  BY DEF EventAt
<1>9. NextHeard(s, e, t)
  BY <1>0, <1>1, <1>2, <1>3, <1>4, <1>5, <1>6, <1>7, <1>8, <1>10 DEF NextHeard
<1> QED BY <1>2, <1>9, SessionHears

LEMMA AudioDoneHeard ==
  ASSUME NEW s, SessionGood(s), NEW e \in Events, e.flaw = "none", e.type = "audio.done",
         NEW z, Hearing(s, e, e.iid, z), s.rid # 0, s.rid = e.rid, s.iid \in {0, e.iid}, s.partAdded, ~s.audioDone, Len(s.pcm) > 0,
         NEW t, AudioEnds(z, t)
  PROVE  SessionGood(t) /\ t.submitted = s.submitted
<1> USE DEF AudioEnds
<1> PICK m \in Nat : m = Len(s.pcm)
  BY GoodFields
<1>0. e.rid \in {1, 2} /\ e.iid \in {1, 2} /\ z \in SessionRecord
  BY EventFields DEF Hearing
<1>1. t \in SessionRecord
  BY <1>0 DEF SessionRecord
<1>2. /\ t.audioDone = TRUE /\ t.heard = Append(s.heard, e) /\ t.iid = e.iid
      /\ t.rid = s.rid /\ t.submitted = s.submitted /\ t.committed = s.committed /\ t.itemAdded = s.itemAdded /\ t.partAdded = s.partAdded /\ t.partDone = s.partDone /\ t.itemDone = s.itemDone /\ t.pcm = s.pcm
  BY <1>0 DEF SessionRecord, Hearing
<1>3. /\ s.committed \in BOOLEAN /\ s.itemAdded \in BOOLEAN /\ s.partAdded \in BOOLEAN
      /\ s.audioDone \in BOOLEAN /\ s.partDone \in BOOLEAN /\ s.itemDone \in BOOLEAN
      /\ s.rid \in Nat /\ s.iid \in Nat
  BY GoodFields
<1>4. /\ (s.itemDone => s.partDone) /\ (s.partDone => s.audioDone) /\ (s.audioDone => m > 0)
      /\ (m > 0 => s.partAdded) /\ (s.partAdded => s.itemAdded) /\ (s.itemAdded <=> s.iid # 0)
      /\ (s.itemAdded => s.rid # 0) /\ (s.rid # 0 => s.committed)
      /\ HeardCount(s, m, Len(s.heard))
  BY DEF SessionGood
<1>5. Len(t.pcm) = m
  BY <1>0, <1>2, GoodFields
<1>6. Len(s.heard) = 4 + m
  BY <1>3, <1>4 DEF HeardCount
<1>7. t.committed /\ t.rid # 0 /\ t.itemAdded /\ t.partAdded /\ t.audioDone /\ ~t.partDone /\ ~t.itemDone
  BY <1>0, <1>2, <1>3, <1>4
<1>10. HeardCount(t, m, 4 + m + 1)
  <2> QED BY <1>7 DEF HeardCount
<1>8. e.type = EventAt(4 + m + 1, m) /\ \A k \in 1..(4 + m) : EventAt(k, m) = EventAt(k, m)
  BY DEF EventAt
<1>9. NextHeard(s, e, t)
  BY <1>0, <1>1, <1>2, <1>3, <1>4, <1>5, <1>6, <1>7, <1>8, <1>10 DEF NextHeard
<1> QED BY <1>2, <1>9, SessionHears

LEMMA PartDoneHeard ==
  ASSUME NEW s, SessionGood(s), NEW e \in Events, e.flaw = "none", e.type = "part.done",
         NEW z, Hearing(s, e, e.iid, z), s.rid # 0, s.rid = e.rid, s.iid \in {0, e.iid}, s.audioDone, ~s.partDone,
         NEW t, PartEnds(z, t)
  PROVE  SessionGood(t) /\ t.submitted = s.submitted
<1> USE DEF PartEnds
<1> PICK m \in Nat : m = Len(s.pcm)
  BY GoodFields
<1>0. e.rid \in {1, 2} /\ e.iid \in {1, 2} /\ z \in SessionRecord
  BY EventFields DEF Hearing
<1>1. t \in SessionRecord
  BY <1>0 DEF SessionRecord
<1>2. /\ t.partDone = TRUE /\ t.heard = Append(s.heard, e) /\ t.iid = e.iid
      /\ t.rid = s.rid /\ t.submitted = s.submitted /\ t.committed = s.committed /\ t.itemAdded = s.itemAdded /\ t.partAdded = s.partAdded /\ t.audioDone = s.audioDone /\ t.itemDone = s.itemDone /\ t.pcm = s.pcm
  BY <1>0 DEF SessionRecord, Hearing
<1>3. /\ s.committed \in BOOLEAN /\ s.itemAdded \in BOOLEAN /\ s.partAdded \in BOOLEAN
      /\ s.audioDone \in BOOLEAN /\ s.partDone \in BOOLEAN /\ s.itemDone \in BOOLEAN
      /\ s.rid \in Nat /\ s.iid \in Nat
  BY GoodFields
<1>4. /\ (s.itemDone => s.partDone) /\ (s.partDone => s.audioDone) /\ (s.audioDone => m > 0)
      /\ (m > 0 => s.partAdded) /\ (s.partAdded => s.itemAdded) /\ (s.itemAdded <=> s.iid # 0)
      /\ (s.itemAdded => s.rid # 0) /\ (s.rid # 0 => s.committed)
      /\ HeardCount(s, m, Len(s.heard))
  BY DEF SessionGood
<1>5. Len(t.pcm) = m
  BY <1>0, <1>2, GoodFields
<1>6. Len(s.heard) = 5 + m
  BY <1>3, <1>4 DEF HeardCount
<1>7. t.committed /\ t.rid # 0 /\ t.itemAdded /\ t.partAdded /\ t.audioDone /\ t.partDone /\ ~t.itemDone
  BY <1>0, <1>2, <1>3, <1>4
<1>10. HeardCount(t, m, 5 + m + 1)
  <2> QED BY <1>7 DEF HeardCount
<1>8. e.type = EventAt(5 + m + 1, m) /\ \A k \in 1..(5 + m) : EventAt(k, m) = EventAt(k, m)
  BY DEF EventAt
<1>9. NextHeard(s, e, t)
  BY <1>0, <1>1, <1>2, <1>3, <1>4, <1>5, <1>6, <1>7, <1>8, <1>10 DEF NextHeard
<1> QED BY <1>2, <1>9, SessionHears

LEMMA ItemDoneHeard ==
  ASSUME NEW s, SessionGood(s), NEW e \in Events, e.flaw = "none", e.type = "item.done",
         NEW z, Hearing(s, e, e.iid, z), s.rid # 0, s.rid = e.rid, s.iid \in {0, e.iid}, s.partDone, ~s.itemDone,
         NEW t, ItemEnds(z, t)
  PROVE  SessionGood(t) /\ t.submitted = s.submitted
<1> USE DEF ItemEnds
<1> PICK m \in Nat : m = Len(s.pcm)
  BY GoodFields
<1>0. e.rid \in {1, 2} /\ e.iid \in {1, 2} /\ z \in SessionRecord
  BY EventFields DEF Hearing
<1>1. t \in SessionRecord
  BY <1>0 DEF SessionRecord
<1>2. /\ t.itemDone = TRUE /\ t.heard = Append(s.heard, e) /\ t.iid = e.iid
      /\ t.rid = s.rid /\ t.submitted = s.submitted /\ t.committed = s.committed /\ t.itemAdded = s.itemAdded /\ t.partAdded = s.partAdded /\ t.audioDone = s.audioDone /\ t.partDone = s.partDone /\ t.pcm = s.pcm
  BY <1>0 DEF SessionRecord, Hearing
<1>3. /\ s.committed \in BOOLEAN /\ s.itemAdded \in BOOLEAN /\ s.partAdded \in BOOLEAN
      /\ s.audioDone \in BOOLEAN /\ s.partDone \in BOOLEAN /\ s.itemDone \in BOOLEAN
      /\ s.rid \in Nat /\ s.iid \in Nat
  BY GoodFields
<1>4. /\ (s.itemDone => s.partDone) /\ (s.partDone => s.audioDone) /\ (s.audioDone => m > 0)
      /\ (m > 0 => s.partAdded) /\ (s.partAdded => s.itemAdded) /\ (s.itemAdded <=> s.iid # 0)
      /\ (s.itemAdded => s.rid # 0) /\ (s.rid # 0 => s.committed)
      /\ HeardCount(s, m, Len(s.heard))
  BY DEF SessionGood
<1>5. Len(t.pcm) = m
  BY <1>0, <1>2, GoodFields
<1>6. Len(s.heard) = 6 + m
  BY <1>3, <1>4 DEF HeardCount
<1>7. t.committed /\ t.rid # 0 /\ t.itemAdded /\ t.partAdded /\ t.audioDone /\ t.partDone /\ t.itemDone
  BY <1>0, <1>2, <1>3, <1>4
<1>10. HeardCount(t, m, 6 + m + 1)
  <2> QED BY <1>7 DEF HeardCount
<1>8. e.type = EventAt(6 + m + 1, m) /\ \A k \in 1..(6 + m) : EventAt(k, m) = EventAt(k, m)
  BY DEF EventAt
<1>9. NextHeard(s, e, t)
  BY <1>0, <1>1, <1>2, <1>3, <1>4, <1>5, <1>6, <1>7, <1>8, <1>10 DEF NextHeard
<1> QED BY <1>2, <1>9, SessionHears

\* Every handler takes only the event that comes next in a whole response.
LEMMA AppliedGood ==
  ASSUME SessionGood(session), NEW e \in Events, Fit(e), Handled(e), e.type # "response.done"
  PROVE  SessionGood(Applied(e)) /\ Applied(e).submitted = session.submitted
<1> PICK s \in SessionRecord : s = session
  BY DEF SessionGood
<1>0. e.rid \in {1, 2} /\ e.iid \in {1, 2} /\ e.type \in EventTypes /\ e.flaw = "none"
  BY EventFields DEF Fit
<1> PICK i \in Nat : i = e.iid
  BY <1>0
<1>1. s.heard \in Seq(Events) /\ s.pcm \in Seq(Nat) /\ (s.pcm = << >> <=> Len(s.pcm) = 0) /\ Len(s.pcm) \in Nat
  BY DEF SessionRecord
<1>2. Append(s.heard, e) \in Seq(Events)
  BY <1>1
<1> PICK h \in Seq(Events) : h = Append(s.heard, e)
  BY <1>2
<1> PICK x : x = [s EXCEPT !.heard = h, !.fragmented = << >>]  OBVIOUS
<1> PICK y : y = [x EXCEPT !.iid = i]  OBVIOUS
<1>3. Hearing(s, e, s.iid, x) /\ Hearing(s, e, e.iid, y)
  BY HeardFields
<1>14. /\ session = s /\ e.iid = i /\ h = Append(s.heard, e)
       /\ x = [s EXCEPT !.heard = h, !.fragmented = << >>] /\ y = [x EXCEPT !.iid = i]
  OBVIOUS
<1>4. y.pcm = s.pcm
  BY <1>3 DEF Hearing
<1>5. CASE e.type = "committed"
  <2> PICK t : t = [x EXCEPT !.committed = TRUE]  OBVIOUS
  <2>1. ~s.committed /\ s.rid = 0
    BY <1>1, <1>5 DEF Handled, Committed
  <2>0. e \in Events /\ SessionGood(s) /\ t = [x EXCEPT !.committed = TRUE]
    OBVIOUS
  <2>2. SessionGood(t) /\ t.submitted = s.submitted
    BY ONLY <1>0, <1>3, <1>5, <2>0, <2>1, CommittedHeard
  <2>3. Applied(e) = t
    BY ONLY <1>5, <1>14, <2>0 DEF Applied
  <2> QED BY <2>2, <2>3
<1>6. CASE e.type = "response.created"
  <2> PICK t : t = [x EXCEPT !.rid = e.rid]  OBVIOUS
  <2>1. s.committed /\ s.rid = 0
    BY <1>1, <1>6 DEF Handled, ParseResponseCreated
  <2>0. e \in Events /\ SessionGood(s) /\ BindsResponse(x, e, t)
    BY DEF BindsResponse
  <2>2. SessionGood(t) /\ t.submitted = s.submitted
    BY ONLY <1>0, <1>3, <1>6, <2>0, <2>1, CreatedHeard
  <2>3. Applied(e) = t
    BY ONLY <1>6, <1>14, <2>0 DEF Applied, BindsResponse
  <2> QED BY <2>2, <2>3
<1>7. CASE e.type = "item.added"
  <2> PICK t : t = [y EXCEPT !.itemAdded = TRUE]  OBVIOUS
  <2>1. s.rid # 0 /\ s.rid = e.rid /\ s.iid \in {0, e.iid} /\ ~s.itemAdded
    BY <1>1, <1>7 DEF Handled, ValidateResponseScaffold, OfResponse, ItemFits
  <2>0. e \in Events /\ SessionGood(s) /\ t = [y EXCEPT !.itemAdded = TRUE]
    OBVIOUS
  <2>2. SessionGood(t) /\ t.submitted = s.submitted
    BY ONLY <1>0, <1>3, <1>7, <2>0, <2>1, ItemAddedHeard
  <2>3. Applied(e) = t
    BY ONLY <1>7, <1>14, <2>0 DEF Applied
  <2> QED BY <2>2, <2>3
<1>8. CASE e.type = "part.added"
  <2> PICK t : t = [y EXCEPT !.partAdded = TRUE]  OBVIOUS
  <2>1. s.rid # 0 /\ s.rid = e.rid /\ s.iid \in {0, e.iid} /\ s.itemAdded /\ ~s.partAdded
    BY <1>1, <1>8 DEF Handled, ValidateResponseScaffold, OfResponse, ItemFits
  <2>0. e \in Events /\ SessionGood(s) /\ PartOpens(y, t)
    BY DEF PartOpens
  <2>2. SessionGood(t) /\ t.submitted = s.submitted
    BY ONLY <1>0, <1>3, <1>8, <2>0, <2>1, PartAddedHeard
  <2>3. Applied(e) = t
    BY ONLY <1>8, <1>14, <2>0 DEF Applied, PartOpens
  <2> QED BY <2>2, <2>3
<1>9. CASE e.type = "delta"
  <2> PICK t : t = [y EXCEPT !.pcm = Append(s.pcm, e.rid)]  OBVIOUS
  <2>1. s.rid # 0 /\ s.rid = e.rid /\ s.iid \in {0, e.iid} /\ s.partAdded /\ ~s.audioDone
    BY <1>1, <1>9 DEF Handled, AudioOpen, OfResponse, ItemFits
  <2>0. e \in Events /\ SessionGood(s) /\ AppendsDelta(s, y, e, t)
    BY DEF AppendsDelta
  <2>2. SessionGood(t) /\ t.submitted = s.submitted
    BY ONLY <1>0, <1>3, <1>9, <2>0, <2>1, DeltaHeard
  <2>3. Applied(e) = t
    BY <1>4, <1>9 DEF Applied, SessionRecord, Hearing
  <2> QED BY <2>2, <2>3
<1>10. CASE e.type = "audio.done"
  <2> PICK t : t = [y EXCEPT !.audioDone = TRUE]  OBVIOUS
  <2>1. s.rid # 0 /\ s.rid = e.rid /\ s.iid \in {0, e.iid} /\ s.partAdded /\ ~s.audioDone /\ Len(s.pcm) > 0
    BY <1>1, <1>10 DEF Handled, MarkAudioDone, OfResponse, ItemFits
  <2>0. e \in Events /\ SessionGood(s) /\ AudioEnds(y, t)
    BY DEF AudioEnds
  <2>2. SessionGood(t) /\ t.submitted = s.submitted
    BY ONLY <1>0, <1>3, <1>10, <2>0, <2>1, AudioDoneHeard
  <2>3. Applied(e) = t
    BY ONLY <1>10, <1>14, <2>0 DEF Applied, AudioEnds
  <2> QED BY <2>2, <2>3
<1>11. CASE e.type = "part.done"
  <2> PICK t : t = [y EXCEPT !.partDone = TRUE]  OBVIOUS
  <2>1. s.rid # 0 /\ s.rid = e.rid /\ s.iid \in {0, e.iid} /\ s.audioDone /\ ~s.partDone
    BY <1>1, <1>11 DEF Handled, ValidateResponseScaffold, OfResponse, ItemFits
  <2>0. e \in Events /\ SessionGood(s) /\ PartEnds(y, t)
    BY DEF PartEnds
  <2>2. SessionGood(t) /\ t.submitted = s.submitted
    BY ONLY <1>0, <1>3, <1>11, <2>0, <2>1, PartDoneHeard
  <2>3. Applied(e) = t
    BY ONLY <1>11, <1>14, <2>0 DEF Applied, PartEnds
  <2> QED BY <2>2, <2>3
<1>12. CASE e.type = "item.done"
  <2> PICK t : t = [y EXCEPT !.itemDone = TRUE]  OBVIOUS
  <2>1. s.rid # 0 /\ s.rid = e.rid /\ s.iid \in {0, e.iid} /\ s.partDone /\ ~s.itemDone
    BY <1>1, <1>12 DEF Handled, ValidateResponseScaffold, OfResponse, ItemFits
  <2>0. e \in Events /\ SessionGood(s) /\ ItemEnds(y, t)
    BY DEF ItemEnds
  <2>2. SessionGood(t) /\ t.submitted = s.submitted
    BY ONLY <1>0, <1>3, <1>12, <2>0, <2>1, ItemDoneHeard
  <2>3. Applied(e) = t
    BY ONLY <1>12, <1>14, <2>0 DEF Applied, ItemEnds
  <2> QED BY <2>2, <2>3
<1>13. e.type \in {"committed", "response.created", "item.added", "part.added", "delta", "audio.done",
                  "part.done", "item.done"}
  BY <1>0 DEF Handled, EventTypes
<1> QED BY <1>5, <1>6, <1>7, <1>8, <1>9, <1>10, <1>11, <1>12, <1>13

\* The types, the response and the item of every event, for a response with m deltas.
LEMMA WholeFrom ==
  ASSUME NEW m \in Nat, m > 0, NEW h, Len(h) = 8 + m,
         h[8 + m].type = "response.done", h[8 + m].flaw = "none", h[8 + m].rid = h[2].rid,
         \A k \in 1..(7 + m) :
           /\ h[k].type = EventAt(k, m) /\ h[k].flaw = "none"
           /\ k >= 2 => h[k].rid = h[2].rid
           /\ k >= 3 => h[k].iid = h[3].iid
  PROVE  WholeResponse(h)
<1> PICK n \in Nat : n = 8 + m
  OBVIOUS
<1>1. /\ EventAt(1, m) = "committed" /\ EventAt(2, m) = "response.created" /\ EventAt(3, m) = "item.added"
      /\ EventAt(4, m) = "part.added" /\ EventAt(5 + m, m) = "audio.done" /\ EventAt(6 + m, m) = "part.done"
      /\ EventAt(7 + m, m) = "item.done" /\ \A k \in 5..(4 + m) : EventAt(k, m) = "delta"
  BY DEF EventAt
<1>2. n - 3 = 5 + m /\ n - 2 = 6 + m /\ n - 1 = 7 + m /\ n - 4 = 4 + m /\ n > 8
  OBVIOUS
<1>3. h[1].type = "committed" /\ h[2].type = "response.created" /\ h[3].type = "item.added" /\ h[4].type = "part.added"
  BY <1>1
<1>4. h[5 + m].type = "audio.done" /\ h[6 + m].type = "part.done" /\ h[7 + m].type = "item.done"
  BY <1>1
<1>5. \A k \in 5..(n - 4) : h[k].type = "delta"
  BY <1>1, <1>2
<1>6. ASSUME NEW k \in 3..n PROVE h[k].rid = h[2].rid
  <2>1. k \in 1..(7 + m) \/ k = n
    OBVIOUS
  <2> QED BY <2>1
<1>7. \A k \in 3..(n - 1) : h[k].iid = h[3].iid
  BY <1>2
<1>8. \A k \in 1..n : h[k].flaw = "none"
  <2>1. \A k \in 1..n : k \in 1..(7 + m) \/ k = n
    OBVIOUS
  <2> QED BY <2>1
<1>9. <<h[1].type, h[2].type, h[3].type, h[4].type>> = <<"committed", "response.created", "item.added", "part.added">>
  BY <1>3
<1>10. <<h[n - 3].type, h[n - 2].type, h[n - 1].type, h[n].type>>
         = <<"audio.done", "part.done", "item.done", "response.done">>
  BY <1>2, <1>4
<1> QED BY <1>2, <1>5, <1>6, <1>7, <1>8, <1>9, <1>10 DEF WholeResponse

\* The last event makes the response whole.
LEMMA DoneIsWhole ==
  ASSUME SessionGood(session), NEW e \in Events, Fit(e), Handled(e), e.type = "response.done"
  PROVE  WholeResponse(Applied(e).heard)
<1> PICK s \in SessionRecord : s = session
  BY DEF SessionGood
<1>1. s.heard \in Seq(Events) /\ s.pcm \in Seq(Nat) /\ Len(s.pcm) \in Nat
  BY DEF SessionRecord
<1> PICK m \in Nat : m = Len(s.pcm)
  BY <1>1
<1> PICK h : h = Append(s.heard, e)  OBVIOUS
<1>2. Applied(e).heard = h
  BY DEF Applied, SessionRecord
<1>3. s.audioDone /\ s.partDone /\ s.itemDone /\ s.rid = e.rid /\ e.flaw = "none"
  BY DEF Handled, MarkResponseDone, Fit
<1>4. Len(s.heard) = 7 + m /\ m > 0
  BY <1>3 DEF SessionGood, HeardCount
<1> PICK n \in Nat : n = 8 + m
  OBVIOUS
<1>5. Len(h) = n /\ h[n] = e /\ \A k \in 1..(7 + m) : h[k] = s.heard[k]
  <2>1. /\ s.heard \in Seq(Events) /\ e \in Events /\ h = Append(s.heard, e) /\ Len(s.heard) = 7 + m
        /\ m \in Nat /\ n = Len(s.heard) + 1
    BY <1>1, <1>4
  <2> QED BY ONLY <2>1
<1>6. ASSUME NEW k \in 1..(7 + m)
      PROVE  /\ h[k].type = EventAt(k, m) /\ h[k].flaw = "none"
             /\ k >= 2 => h[k].rid = s.rid
             /\ k >= 3 => h[k].iid = s.iid
  <2>1. h[k] = s.heard[k] /\ k \in DOMAIN s.heard
    BY <1>1, <1>4, <1>5
  <2>2. /\ s.heard[k].type = EventAt(k, Len(s.pcm)) /\ s.heard[k].flaw = "none"
        /\ k >= 2 => s.heard[k].rid = s.rid
        /\ k >= 3 => s.heard[k].iid = s.iid
    BY <2>1 DEF SessionGood
  <2> QED BY <2>1, <2>2
<1>7. h[2].rid = s.rid /\ h[3].iid = s.iid
  <2>1. 2 \in 1..(7 + m) /\ 3 \in 1..(7 + m) /\ 2 >= 2 /\ 3 >= 3
    OBVIOUS
  <2> QED BY ONLY <1>6, <2>1
<1>8. /\ m \in Nat /\ m > 0 /\ Len(h) = 8 + m
      /\ h[8 + m].type = "response.done" /\ h[8 + m].flaw = "none" /\ h[8 + m].rid = h[2].rid
  BY <1>3, <1>4, <1>5, <1>7
<1>9. \A k \in 1..(7 + m) :
        /\ h[k].type = EventAt(k, m) /\ h[k].flaw = "none"
        /\ k >= 2 => h[k].rid = h[2].rid
        /\ k >= 3 => h[k].iid = h[3].iid
  BY <1>6, <1>7
<1>10. WholeResponse(h)
  BY ONLY <1>8, <1>9, WholeFrom
<1> QED BY <1>2, <1>10

-----------------------------------------------------------------------------
(* The steps of a call.                                                    *)

\* An attempt fails, before or after it sent its request.
LEMMA FailGood ==
  ASSUME SpeechInv, call.phase \notin {"start", "over"}, NEW f, Fail(f), f.error \in Failures,
         f.retryable \in BOOLEAN,
         \/ UNCHANGED sent /\ (f.retryable => call.phase # "response")
         \/ /\ sent' = Append(sent, call.at)
            /\ call.phase # "response" /\ (call.kind = "ws" => ~f.retryable)
  PROVE  SpeechInv'
<1>1. CallGood(call) /\ SentGood(call, sent) /\ Untried(call, session) /\ SessionGood(session)
  BY DEF SpeechInv, SpeechGood
<1>2. CASE f.retryable /\ call.attempt < MaxAttempts /\ IsTts
  <2>1. call' = [call EXCEPT !.attempt = @ + 1, !.phase = "prepare"] /\ session' = NewSession
    BY <1>2 DEF Fail
  <2>2. /\ CallGood(call') /\ call'.kind = call.kind /\ call'.phase = "prepare" /\ call'.at = call.at
        /\ call'.parts = call.parts /\ call' \in CallRecord
    BY <1>1, <2>1, CallRetries
  <2>3. SentGood(call', sent')
    <3>1. CASE UNCHANGED sent
      <4>1. call.phase # "response" \/ call.kind # "ws"
        <5>1. sent \in Seq(Nat) /\ call.at \in Nat
          BY <1>1 DEF SentGood, CallGood, CallRecord
        <5>2. sent # Append(sent, call.at)
          BY <5>1
        <5> QED BY <1>2, <3>1, <5>2
      <4> QED BY <1>1, <2>2, <3>1, <4>1, SentStays DEF Asked
    <3>2. CASE sent' = Append(sent, call.at) /\ call.kind # "ws"
      BY <1>1, <2>2, <3>2, SentGrows
    <3> QED BY <1>2, <3>1, <3>2
  <2>4. Untried(call', session') /\ SessionGood(session')
    BY <2>1, <2>2, NewSessionGood DEF Untried
  <2> QED BY <2>2, <2>3, <2>4 DEF SpeechInv, SpeechGood
<1>3. CASE ~(f.retryable /\ call.attempt < MaxAttempts /\ IsTts)
  <2>1. call' = [call EXCEPT !.phase = "over", !.result = f.error] /\ session' = session
    BY <1>3 DEF Fail
  <2>2. /\ CallGood(call') /\ call'.kind = call.kind /\ call'.phase = "over" /\ call'.at = call.at
        /\ call'.parts = call.parts /\ call' \in CallRecord
    <3>1. f.error \in Failures \cup {"ok"} /\ f.error # "ok" /\ EndsAs(call, f.error, call') /\ call.phase # "over"
      BY <2>1 DEF Failures, EndsAs
    <3> QED BY ONLY <1>1, <3>1, CallEnds
  <2>3. SentGood(call', sent')
    <3>1. CASE UNCHANGED sent
      BY <1>1, <2>2, <3>1, SentStays DEF Asked
    <3>2. CASE sent' = Append(sent, call.at) /\ call.phase # "response"
      BY <1>1, <2>2, <3>2, SentGrows
    <3> QED BY <3>1, <3>2
  <2>4. Untried(call', session') /\ SessionGood(session')
    BY <1>1, <2>1, <2>2 DEF Untried
  <2> QED BY <2>2, <2>3, <2>4 DEF SpeechInv, SpeechGood
<1> QED BY <1>2, <1>3

\* The call goes on, and the session stays as it is or takes another frame.
LEMMA MoveGood ==
  ASSUME SpeechInv, call.phase # "over", call.chunks # << >>, NEW p \in SpeechPhases,
         NEW r \in Routes, call.kind \in KindsAt(p),
         p \notin {"over", "response", "answer"}, p \in Asked => call.phase \in Asked, call.phase # "response",
         call' = [call EXCEPT !.phase = p, !.route = r],
         SessionGood(session'), session'.submitted = session.submitted, UNCHANGED sent
  PROVE  SpeechInv'
<1>1. CallGood(call) /\ SentGood(call, sent) /\ Untried(call, session)
  BY DEF SpeechInv, SpeechGood
<1>2. /\ CallGood(call') /\ call'.kind = call.kind /\ call'.phase = p /\ call'.at = call.at
      /\ call'.parts = call.parts
  <2>1. /\ MovesTo(call, p, r, call') /\ call.phase # "over" /\ call.chunks # << >> /\ p # "over"
        /\ p \in SpeechPhases /\ r \in Routes /\ call.kind \in KindsAt(p)
    BY DEF MovesTo
  <2> QED BY ONLY <1>1, <2>1, CallMoves
<1>3. SentGood(call', sent')
  <2>1. /\ call.phase \notin {"over", "response"} /\ p # "response" /\ (p \in Asked => call.phase \in Asked)
        /\ sent' = sent
    OBVIOUS
  <2> QED BY ONLY <1>1, <1>2, <2>1, SentStays
<1>4. Untried(call', session')
  BY <1>1, <1>2 DEF Untried
<1> QED BY <1>2, <1>3, <1>4 DEF SpeechInv, SpeechGood

\* A move that leaves the route alone.
LEMMA SameRoute ==
  ASSUME SpeechInv, NEW p
  PROVE  /\ call.route \in Routes /\ call.kind \in {"verify", "asr", "http", "ws"}
         /\ [call EXCEPT !.phase = p] = [call EXCEPT !.phase = p, !.route = call.route]
BY DEF SpeechInv, SpeechGood, CallGood, CallRecord

LEMMA InPhase ==
  ASSUME SpeechInv
  PROVE  /\ call.kind \in KindsAt(call.phase) /\ SessionGood(session)
         /\ call.phase \notin {"start", "over"} => call.chunks # << >>
<1>1. CallGood(call) /\ SessionGood(session)
  BY DEF SpeechInv, SpeechGood
<1>2. call.chunks \in Seq(Chunk) /\ call.at \in Nat
  BY <1>1 DEF CallGood, CallRecord
<1>3. call.phase \notin {"start", "over"} => call.at >= 1 /\ call.at <= Len(call.chunks)
  BY <1>1 DEF CallGood
<1> QED BY <1>1, <1>2, <1>3 DEF CallGood

\* A chunk was spoken: the part is of the last request, which was for this chunk.
PartAdded(c, b, d) ==
  LET part == [chunk |-> c.chunks[c.at], route |-> c.route, request |-> Len(b), whole |-> TRUE]
      parts == Append(c.parts, part)
      last == c.at = Len(c.chunks)
  IN  \E x \in Failures \cup {"ok", "none"} :
        /\ d = [c EXCEPT !.parts = parts, !.attempt = 1, !.at = IF last THEN c.at ELSE c.at + 1,
                         !.phase = IF last THEN "over" ELSE "start", !.result = x]
        /\ ~last => x = "none"
        /\ x = "ok" => \A k \in DOMAIN parts : parts[k].route = parts[1].route

LEMMA PartGood ==
  ASSUME NEW c, NEW b, NEW d, CallGood(c), SentGood(c, b), c.phase \in {"fetch", "response"},
         PartAdded(c, b, d)
  PROVE  CallGood(d) /\ SentGood(d, b) /\ d.phase \in {"start", "over"}
<1>0. c \in CallRecord /\ b \in Seq(Nat) /\ Len(b) \in Nat
  BY DEF CallGood, SentGood
<1>1. /\ c.at \in Nat /\ c.at >= 1 /\ c.at <= Len(c.chunks) /\ Len(c.parts) + 1 = c.at /\ Spoken(c.kind)
      /\ Len(b) > 0 /\ b[Len(b)] = c.at /\ c.chunks \in Seq(Chunk) /\ c.parts \in Seq(SpokenPart)
      /\ Len(c.chunks) \in Nat
  BY <1>0 DEF CallGood, CallRecord, SentGood, Asked, KindsAt, Spoken
<1> PICK part : part = [chunk |-> c.chunks[c.at], route |-> c.route, request |-> Len(b), whole |-> TRUE]
  OBVIOUS
<1> PICK parts : parts = Append(c.parts, part)
  OBVIOUS
<1> PICK n \in Nat : n = c.at
  BY <1>1
<1> PICK l \in BOOLEAN : l = (n = Len(c.chunks))
  OBVIOUS
<1> PICK at \in Nat : at = IF l THEN n ELSE n + 1
  OBVIOUS
<1> PICK ph \in SpeechPhases : ph = IF l THEN "over" ELSE "start"
  BY KnownPhases
<1>2. PICK x \in Failures \cup {"ok", "none"} :
        /\ d = [c EXCEPT !.parts = parts, !.attempt = 1, !.at = at, !.phase = ph, !.result = x]
        /\ ~l => x = "none"
        /\ x = "ok" => \A k \in DOMAIN parts : parts[k].route = parts[1].route
  BY DEF PartAdded
<1>3. part \in SpokenPart /\ part.chunk = c.chunks[n] /\ part.request = Len(b) /\ part.whole = TRUE
  <2>1. c.chunks[n] \in Chunk /\ c.route \in Routes
    BY <1>0, <1>1 DEF CallRecord
  <2> QED BY <1>0, <2>1 DEF SpokenPart
<1>4. parts \in Seq(SpokenPart) /\ Len(parts) = n /\ DOMAIN parts = 1..n /\ parts[n] = part
  BY <1>1, <1>3
<1>5. \A k \in 1..n : k # n => k \in DOMAIN c.parts /\ parts[k] = c.parts[k]
  BY <1>1, <1>3
<1>6. d \in CallRecord
  <2>1. /\ c \in CallRecord /\ parts \in Seq(SpokenPart) /\ at \in Nat /\ ph \in SpeechPhases /\ 1 \in Nat
        /\ x \in Failures \cup {"none", "ok"}
        /\ d = [c EXCEPT !.parts = parts, !.attempt = 1, !.at = at, !.phase = ph, !.result = x]
    BY <1>0, <1>2, <1>4
  <2> QED BY ONLY <2>1 DEF CallRecord
<1>7. /\ d.kind = c.kind /\ d.text = c.text /\ d.chunks = c.chunks /\ d.parts = parts /\ d.at = at
      /\ d.phase = ph /\ d.result = x
  BY <1>0, <1>2 DEF CallRecord
<1>8. ASSUME NEW k \in DOMAIN d.parts PROVE d.parts[k].chunk = d.chunks[k] /\ d.parts[k].whole
  <2>1. CASE k = n
    BY <1>3, <1>4, <1>7, <2>1
  <2>2. CASE k # n
    <3>1. k \in DOMAIN c.parts /\ d.parts[k] = c.parts[k]
      BY <1>4, <1>5, <1>7, <2>2
    <3> QED BY <1>7, <3>1 DEF CallGood
  <2> QED BY <2>1, <2>2
<1>9. d.kind \in KindsAt(d.phase)
  BY <1>1, <1>7 DEF KindsAt, Spoken
<1>15. (x = "ok" => n = Len(c.chunks)) /\ (x = "ok" => \A k \in DOMAIN parts : parts[k].route = parts[1].route)
  BY <1>2
<1>16. ph # "over" => n # Len(c.chunks) /\ at = n + 1 /\ x = "none" /\ n \in Nat
  BY <1>2
<1>10. d.result = "ok" => Len(d.parts) = Len(d.chunks) /\ \A k \in DOMAIN d.parts : d.parts[k].route = d.parts[1].route
  BY ONLY <1>4, <1>7, <1>15
<1>11. d.phase # "over" =>
         /\ d.result = "none" /\ d.at >= 1 /\ Len(d.parts) + 1 = d.at
         /\ d.at <= Len(d.chunks) \/ (d.chunks = << >> /\ d.phase = "start")
  <2>1. n <= Len(c.chunks) /\ Len(c.chunks) \in Nat
    BY <1>1
  <2> QED BY ONLY <1>4, <1>7, <1>16, <2>1
<1>12. CallGood(d)
  <2>1. Spoken(d.kind) => FlattenSeq(d.chunks) = d.text
    BY <1>7 DEF CallGood
  <2> QED BY ONLY <1>6, <1>8, <1>9, <1>10, <1>11, <2>1 DEF CallGood
<1>13. ASSUME NEW k \in DOMAIN d.parts
       PROVE  /\ d.parts[k].request \in DOMAIN b /\ b[d.parts[k].request] = k
              /\ \A j \in DOMAIN b : j > d.parts[k].request => b[j] > k
  <2>1. CASE k = n
    BY <1>0, <1>1, <1>3, <1>4, <1>7, <2>1
  <2>2. CASE k # n
    <3>1. k \in DOMAIN c.parts /\ d.parts[k] = c.parts[k]
      BY <1>4, <1>5, <1>7, <2>2
    <3> QED BY <3>1 DEF SentGood
  <2> QED BY <2>1, <2>2
<1>14. SentGood(d, b)
  <2>1. \A j \in DOMAIN b : b[j] <= n /\ b[j] \in Nat
    BY <1>0 DEF SentGood
  <2>2. (\A j \in DOMAIN b : b[j] <= d.at) /\ (d.phase # "over" => \A j \in DOMAIN b : b[j] < d.at)
    BY <1>7, <2>1
  <2>3. d.kind = "ws" => \A i, j \in DOMAIN b : b[i] = b[j] => i = j
    BY <1>7 DEF SentGood
  <2>4. d.phase \notin Asked
    BY <1>7 DEF Asked
  <2> QED BY ONLY <1>0, <1>13, <2>2, <2>3, <2>4 DEF SentGood
<1> QED BY <1>7, <1>12, <1>14

LEMMA ChunkDoneGood ==
  ASSUME SpeechInv, call.phase \in {"fetch", "response"}, NEW h, ChunkDone(Part(h)),
         call.kind = "ws" => WholeResponse(h), UNCHANGED sent
  PROVE  SpeechInv'
<1>1. CallGood(call) /\ SentGood(call, sent)
  BY DEF SpeechInv, SpeechGood
<1> PICK part : part = [chunk |-> call.chunks[call.at], route |-> call.route, request |-> Len(sent), whole |-> TRUE]
  OBVIOUS
<1>2. Part(h) = part
  BY DEF Part
<1> PICK parts : parts = Append(call.parts, part)
  OBVIOUS
<1> PICK combined : combined = CASE \E p \in Range(parts) : p.route # parts[1].route -> "Protocol"
                                 [] Len(parts) > MaxParts -> "AudioLimit"
                                 [] OTHER -> "ok"
  OBVIOUS
<1>3. combined \in {"Protocol", "AudioLimit", "ok"} /\ (combined = "ok" => \A k \in DOMAIN parts : parts[k].route = parts[1].route)
  <2>1. \A k \in DOMAIN parts : parts[k] \in Range(parts)
    BY DEF Range
  <2>2. combined = "ok" => ~\E p \in Range(parts) : p.route # parts[1].route
    OBVIOUS
  <2>3. combined \in {"Protocol", "AudioLimit", "ok"}
    OBVIOUS
  <2> QED BY ONLY <2>1, <2>2, <2>3
<1>4. /\ call' = [call EXCEPT !.parts = parts, !.attempt = 1,
                              !.at = IF call.at = Len(call.chunks) THEN @ ELSE @ + 1,
                              !.phase = IF call.at = Len(call.chunks) THEN "over" ELSE "start",
                              !.result = IF call.at = Len(call.chunks) THEN combined ELSE "none"]
      /\ session' = NewSession
  BY <1>2 DEF ChunkDone
<1>5. call' = [call EXCEPT !.parts = parts, !.attempt = 1,
                           !.at = IF call.at = Len(call.chunks) THEN call.at ELSE call.at + 1,
                           !.phase = IF call.at = Len(call.chunks) THEN "over" ELSE "start",
                           !.result = IF call.at = Len(call.chunks) THEN combined ELSE "none"]
  BY <1>4
<1>6. PartAdded(call, sent, call')
  <2>0. \E x : x = IF call.at = Len(call.chunks) THEN combined ELSE "none"
    BY ONLY TRUE
  <2> PICK x : x = IF call.at = Len(call.chunks) THEN combined ELSE "none"
    BY ONLY <2>0
  <2>1. /\ x \in Failures \cup {"ok", "none"} /\ (call.at # Len(call.chunks) => x = "none")
        /\ x = "ok" => \A k \in DOMAIN parts : parts[k].route = parts[1].route
    BY <1>3 DEF Failures
  <2>2. /\ part = [chunk |-> call.chunks[call.at], route |-> call.route, request |-> Len(sent), whole |-> TRUE]
        /\ parts = Append(call.parts, part)
        /\ call' = [call EXCEPT !.parts = parts, !.attempt = 1,
                                !.at = IF call.at = Len(call.chunks) THEN call.at ELSE call.at + 1,
                                !.phase = IF call.at = Len(call.chunks) THEN "over" ELSE "start",
                                !.result = x]
    BY <1>5
  <2> QED BY ONLY <2>1, <2>2 DEF PartAdded
<1>7. CallGood(call') /\ SentGood(call', sent') /\ call'.phase \in {"start", "over"}
  BY ONLY <1>1, <1>6, PartGood, call.phase \in {"fetch", "response"}, sent' = sent
<1>8. Untried(call', session') /\ SessionGood(session')
  BY <1>4, <1>7, NewSessionGood DEF Untried
<1> QED BY <1>7, <1>8 DEF SpeechInv, SpeechGood

LEMMA OverGood ==
  ASSUME SpeechInv, call.phase # "over", NEW x \in Failures \cup {"ok"},
         x = "ok" => ~Spoken(call.kind),
         call' = [call EXCEPT !.phase = "over", !.result = x], UNCHANGED <<session, sent>>
  PROVE  SpeechInv'
<1>1. CallGood(call) /\ SentGood(call, sent) /\ Untried(call, session) /\ SessionGood(session)
  BY DEF SpeechInv, SpeechGood
<1>2. EndsAs(call, x, call') /\ call.phase # "over" /\ x \in Failures \cup {"ok"} /\ (x = "ok" => ~Spoken(call.kind))
  BY DEF EndsAs
<1>3. /\ CallGood(call') /\ call'.kind = call.kind /\ call'.phase = "over" /\ call'.at = call.at
      /\ call'.parts = call.parts
  BY ONLY <1>1, <1>2, CallEnds
<1>4. SentGood(call', sent')
  BY <1>1, <1>3, SentStays DEF Asked
<1> QED BY <1>1, <1>3, <1>4 DEF SpeechInv, SpeechGood, Untried

\* A step of the connection.
LEMMA StepGood ==
  ASSUME SpeechInv, call.phase \notin {"over", "response"}, call.chunks # << >>, NEW p \in SpeechPhases,
         call.kind \in KindsAt(p), p \notin {"over", "response", "answer"},
         p \in Asked => call.phase \in Asked,
         call' = [call EXCEPT !.phase = p], UNCHANGED <<session, sent>>
  PROVE  SpeechInv'
<1>1. call.route \in Routes /\ call' = [call EXCEPT !.phase = p, !.route = call.route]
  BY SameRoute
<1>2. SessionGood(session') /\ session'.submitted = session.submitted
  BY InPhase
<1> QED BY <1>1, <1>2, MoveGood

\* Verdicts that are not fine name one of the errors.
Verdict(f) == f.retryable \in BOOLEAN /\ (f # Fine => f.error \in Failures)

LEMMA Verdicts ==
  ASSUME NEW reply
  PROVE  /\ Verdict(AuthorizeWebsocket(reply)) /\ Verdict(AuthorizeTtsWebsocket(reply))
         /\ Verdict(ReadBatchTtsResponse(reply)) /\ Verdict(ReadAsrResponse(reply))
         /\ Verdict(GetBatchTtsAudio(reply))
<1> USE DEF Verdict, Fine, Terminal, Retryable, AmbiguousAfterCommit, Failures
<1>1. Verdict(AuthorizeWebsocket(reply))
  BY DEF AuthorizeWebsocket, ValidateHandshakeResponse
<1>2. Verdict(AuthorizeTtsWebsocket(reply))
  BY DEF AuthorizeTtsWebsocket, ValidateTtsHandshakeResponse
<1>3. Verdict(ReadBatchTtsResponse(reply))
  BY DEF ReadBatchTtsResponse, ValidateBatchTtsHeader, ParseBatchTtsResponse
<1>4. Verdict(ReadAsrResponse(reply))
  BY DEF ReadAsrResponse, ValidateAsrHttpHeader, Transcript
<1>5. Verdict(GetBatchTtsAudio(reply))
  BY DEF GetBatchTtsAudio, ValidateBatchTtsAudioHeader
<1> QED BY <1>1, <1>2, <1>3, <1>4, <1>5

LEMMA Refusals ==
  /\ \A e \in {"Unavailable"} : Transport(e).error \in Failures /\ Transport(e).retryable \in BOOLEAN
  /\ Retryable("Unavailable").error \in Failures /\ Retryable("Unavailable").retryable \in BOOLEAN
  /\ Terminal("Unavailable").error \in Failures /\ Terminal("Unavailable").retryable = FALSE
  /\ AmbiguousAfterCommit.error \in Failures /\ AmbiguousAfterCommit.retryable = FALSE
  /\ Terminal("InvalidRequest").error \in Failures /\ Terminal("InvalidRequest").retryable = FALSE
BY DEF Transport, Retryable, Terminal, AmbiguousAfterCommit, Failures

LEMMA ProxyRoutes ==
  ASSUME NEW env \in Environments
  PROVE  ProxyFromEnvironment(env) \in {"direct", "https_proxy", "Unavailable"}
<1>1. SystemProxy(env.system) \in {"direct", "https_proxy", "Unavailable"}
  BY SpeechConstants DEF SystemProxy
<1> QED BY <1>1 DEF ProxyFromEnvironment

\* The kinds of call that come to the phases of the connection.
LEMMA PhaseKinds ==
  ASSUME SpeechInv
  PROVE  /\ \A p \in {"prepare", "resolve", "connect", "tunnel", "tls"} : call.kind \in KindsAt(p)
         /\ call.phase = "upgrade" => call.kind \in {"ws", "verify"} /\ call.kind \in KindsAt("created")
         /\ call.phase = "created" => call.kind \in {"ws", "verify"}
         /\ call.phase \in {"update", "updated", "append", "commit", "response"} => call.kind = "ws"
         /\ call.phase \in {"audio", "fetch"} => call.kind = "http"
         /\ call.phase \in {"post", "answer"} => call.kind \in {"http", "asr"}
         /\ call.phase = "close" => call.kind = "verify"
         /\ (call.kind = "ws" => \A p \in {"update", "updated", "append", "commit"} : call.kind \in KindsAt(p))
         /\ (call.kind = "http" => call.kind \in KindsAt("audio") /\ call.kind \in KindsAt("fetch"))
         /\ (call.kind = "verify" => call.kind \in KindsAt("close"))
         /\ IF call.kind \in {"http", "asr"} THEN call.kind \in KindsAt("post") ELSE call.kind \in KindsAt("upgrade")
BY SameRoute, InPhase DEF KindsAt

LEMMA StartGood ==
  ASSUME SpeechInv, Start
  PROVE  SpeechInv'
<1>1. call.phase = "start"
  BY DEF Start
<1>2. CASE call.chunks # << >> /\ To("prepare")
  BY <1>1, <1>2, PhaseKinds, KnownPhases, StepGood DEF To, Asked
<1>3. CASE \E x \in {"InvalidRequest", "Credential"} : Over(x)
  BY <1>1, <1>3, OverGood DEF Over, Failures
<1> QED BY <1>2, <1>3 DEF Start

\* An attempt fails before anything was sent.
LEMMA UnsentFails ==
  ASSUME SpeechInv, call.phase \notin {"start", "over", "response"}, NEW f, Verdict(f), f # Fine, Fail(f),
         UNCHANGED sent
  PROVE  SpeechInv'
BY FailGood DEF Verdict

LEMMA UnavailableFails ==
  ASSUME SpeechInv, call.phase \notin {"start", "over", "response"}, UNCHANGED sent,
         \/ Fail(Transport("Unavailable")) \/ Fail(Retryable("Unavailable"))
         \/ Fail(Terminal("InvalidRequest"))
  PROVE  SpeechInv'
BY FailGood, Refusals

LEMMA ConnectionGood ==
  ASSUME SpeechInv, \/ Prepare \/ ResolveWithDeadline \/ ConnectAddresses \/ EstablishProxyTunnel \/ StartTls
                    \/ PrepareAudio \/ Send("update", "updated") \/ Send("append", "commit")
  PROVE  SpeechInv'
<1>1. CASE Fail(Transport("Unavailable")) \/ Fail(Retryable("Unavailable")) \/ Fail(Terminal("InvalidRequest"))
  <2>1. call.phase \notin {"start", "over", "response"} /\ UNCHANGED sent
    BY DEF Prepare, ResolveWithDeadline, ConnectAddresses, EstablishProxyTunnel, StartTls, PrepareAudio,
           Send, Connecting
  <2> QED BY <1>1, <2>1, UnavailableFails
<1>2. CASE Prepare /\ ~Fail(Transport("Unavailable"))
  <2>1. PICK env \in Environments :
          /\ ProxyFromEnvironment(env) # "Unavailable"
          /\ call' = [call EXCEPT !.phase = "resolve", !.route = ProxyFromEnvironment(env)]
    BY <1>2 DEF Prepare
  <2>2. call.phase = "prepare" /\ UNCHANGED <<session, sent>>
    BY <1>2 DEF Prepare
  <2> PICK r : r = ProxyFromEnvironment(env)  OBVIOUS
  <2>3. r \in Routes /\ call' = [call EXCEPT !.phase = "resolve", !.route = r]
    BY <2>1, ProxyRoutes DEF Routes
  <2>4. /\ "resolve" \in SpeechPhases /\ call.kind \in KindsAt("resolve") /\ call.chunks # << >>
        /\ SessionGood(session') /\ session'.submitted = session.submitted /\ "resolve" \notin Asked
    BY <2>2, PhaseKinds, KnownPhases, InPhase DEF Asked
  <2> QED BY <2>2, <2>3, <2>4, MoveGood
<1>3. ASSUME NEW p \in {"connect", "tunnel", "tls", "post", "upgrade", "fetch", "updated", "commit"},
             call' = [call EXCEPT !.phase = p], call.phase \notin {"start", "over", "response"},
             call.kind \in KindsAt(p), p = "fetch" => call.phase = "audio", UNCHANGED <<session, sent>>
      PROVE  SpeechInv'
  <2>1. p \in SpeechPhases /\ (p \in Asked => call.phase \in Asked) /\ call.chunks # << >>
    BY <1>3, KnownPhases, InPhase DEF Asked
  <2> QED BY <1>3, <2>1, StepGood
<1>4. CASE ResolveWithDeadline /\ ~Fail(Transport("Unavailable"))
  BY <1>3, <1>4, PhaseKinds DEF ResolveWithDeadline, Connecting
<1>5. CASE ConnectAddresses /\ ~Fail(Transport("Unavailable"))
  BY <1>3, <1>5, PhaseKinds DEF ConnectAddresses, Connecting
<1>6. CASE EstablishProxyTunnel /\ ~Fail(Transport("Unavailable"))
  BY <1>3, <1>6, PhaseKinds DEF EstablishProxyTunnel, Connecting
<1>7. CASE StartTls /\ ~Fail(Transport("Unavailable"))
  BY <1>3, <1>7, PhaseKinds DEF StartTls, Connecting
<1>8. CASE PrepareAudio /\ ~Fail(Transport("Unavailable"))
  BY <1>3, <1>8, PhaseKinds DEF PrepareAudio
<1>9. CASE Send("update", "updated") /\ ~Fail(Retryable("Unavailable")) /\ ~Fail(Terminal("InvalidRequest"))
  BY <1>3, <1>9, PhaseKinds DEF Send
<1>10. CASE Send("append", "commit") /\ ~Fail(Retryable("Unavailable")) /\ ~Fail(Terminal("InvalidRequest"))
  BY <1>3, <1>10, PhaseKinds DEF Send
<1> QED BY <1>1, <1>2, <1>4, <1>5, <1>6, <1>7, <1>8, <1>9, <1>10

LEMMA UpgradeGood ==
  ASSUME SpeechInv, Upgrade
  PROVE  SpeechInv'
<1>1. call.phase = "upgrade" /\ UNCHANGED sent
  BY DEF Upgrade
<1>2. CASE call' = [call EXCEPT !.phase = "created"] /\ UNCHANGED session
  BY <1>1, <1>2, PhaseKinds, KnownPhases, InPhase, StepGood DEF Asked
<1>3. CASE ~(call' = [call EXCEPT !.phase = "created"] /\ UNCHANGED session)
  <2>1. \E f : Verdict(f) /\ f # Fine /\ Fail(f)
    <3>1. PICK reply \in Replies :
            \/ AuthorizeTtsWebsocket(reply) # Fine /\ Fail(AuthorizeTtsWebsocket(reply))
            \/ AuthorizeWebsocket(reply) # Fine /\ Fail(AuthorizeWebsocket(reply))
      BY <1>3 DEF Upgrade, Received
    <3>2. Verdict(AuthorizeTtsWebsocket(reply)) /\ Verdict(AuthorizeWebsocket(reply))
      BY Verdicts
    <3> QED BY ONLY <3>1, <3>2
  <2> QED BY <1>1, <2>1, UnsentFails
<1> QED BY <1>2, <1>3

\* The request is written, or may have been.
LEMMA PostGood ==
  ASSUME SpeechInv, Post
  PROVE  SpeechInv'
<1>1. /\ call.phase = "post" /\ CallGood(call) /\ SentGood(call, sent) /\ Untried(call, session)
      /\ SessionGood(session) /\ call.kind \in {"http", "asr"} /\ call.chunks # << >>
  BY PhaseKinds, InPhase DEF Post, SpeechInv, SpeechGood
<1>2. \/ call.kind = "http" /\ sent' = Append(sent, call.at)
      \/ call.kind = "asr" /\ sent' = sent
  BY <1>1 DEF Post, IsTts
<1>3. CASE call' = [call EXCEPT !.phase = "answer"] /\ UNCHANGED session
  <2>1. MovesTo(call, "answer", call.route, call') /\ call.route \in Routes
    BY <1>3, SameRoute DEF MovesTo
  <2>2. call.kind \in KindsAt("answer")
    BY <1>1 DEF KindsAt
  <2>3. "answer" \in SpeechPhases
    BY KnownPhases
  <2>4. /\ CallGood(call') /\ call'.kind = call.kind /\ call'.phase = "answer" /\ call'.at = call.at
        /\ call'.parts = call.parts /\ call' \in CallRecord
    BY ONLY <1>1, <2>1, <2>2, <2>3, CallMoves
  <2>5. SentGood(call', sent')
    <3>1. CASE call.kind = "http" /\ sent' = Append(sent, call.at)
      BY ONLY <1>1, <2>4, <3>1, SentGrows
    <3>2. CASE call.kind = "asr" /\ sent' = sent
      BY ONLY <1>1, <2>4, <3>2, SentStays DEF Spoken
    <3> QED BY <1>2, <3>1, <3>2
  <2>6. Untried(call', session') /\ SessionGood(session')
    BY <1>1, <1>3, <2>4 DEF Untried
  <2> QED BY <2>4, <2>5, <2>6 DEF SpeechInv, SpeechGood
<1>4. CASE ~(call' = [call EXCEPT !.phase = "answer"] /\ UNCHANGED session)
  <2>1. Fail(AmbiguousAfterCommit) \/ Fail(Terminal("Unavailable"))
    BY <1>4 DEF Post
  <2> QED BY <1>1, <1>2, <2>1, Refusals, FailGood
<1> QED BY <1>3, <1>4

LEMMA AnswerGood ==
  ASSUME SpeechInv, Answer
  PROVE  SpeechInv'
<1>1. call.phase = "answer" /\ UNCHANGED sent /\ call.kind \in {"http", "asr"}
  BY PhaseKinds DEF Answer
<1>2. CASE call.kind = "http" /\ call' = [call EXCEPT !.phase = "audio"] /\ UNCHANGED session
  BY <1>1, <1>2, PhaseKinds, KnownPhases, InPhase, StepGood DEF Asked
<1>3. CASE call.kind = "asr" /\ call' = [call EXCEPT !.phase = "over", !.result = "ok"] /\ UNCHANGED session
  BY <1>1, <1>3, OverGood DEF Spoken
<1>4. CASE \E f : Verdict(f) /\ f # Fine /\ Fail(f)
  BY <1>1, <1>4, UnsentFails
<1> QED
  <2>1. PICK reply \in Replies :
          \/ call.kind = "http" /\ Received(ReadBatchTtsResponse(reply),
                                            call' = [call EXCEPT !.phase = "audio"] /\ UNCHANGED session)
          \/ call.kind = "asr" /\ Received(ReadAsrResponse(reply),
                                           call' = [call EXCEPT !.phase = "over", !.result = "ok"] /\ UNCHANGED session)
    BY <1>1 DEF Answer, IsTts
  <2>2. Verdict(ReadBatchTtsResponse(reply)) /\ Verdict(ReadAsrResponse(reply))
    BY Verdicts
  <2> QED BY <1>2, <1>3, <1>4, <2>1, <2>2 DEF Received

LEMMA FetchGood ==
  ASSUME SpeechInv, Fetch
  PROVE  SpeechInv'
<1>1. call.phase = "fetch" /\ UNCHANGED sent /\ call.kind = "http"
  BY PhaseKinds DEF Fetch
<1>2. CASE ChunkDone(Part(<< >>))
  BY <1>1, <1>2, ChunkDoneGood
<1>3. CASE \E f : Verdict(f) /\ f # Fine /\ Fail(f)
  BY <1>1, <1>3, UnsentFails
<1> QED
  <2>1. PICK reply \in Replies : Received(GetBatchTtsAudio(reply), ChunkDone(Part(<< >>)))
    BY DEF Fetch
  <2>2. Verdict(GetBatchTtsAudio(reply))
    BY Verdicts
  <2> QED BY <1>2, <1>3, <2>1, <2>2 DEF Received

\* A frame that does not fit, or none: nothing is tried again once the text is submitted.
LEMMA FrameFails ==
  ASSUME SpeechInv, Reading, Fail(ProtocolFailure) \/ Fail(LinkFailure), UNCHANGED sent
  PROVE  SpeechInv'
<1>1. call.phase \notin {"start", "over"} /\ (call.phase = "response" => session.submitted)
  BY DEF Reading, SpeechInv, SpeechGood, Untried
<1>2. /\ ProtocolFailure.error \in Failures /\ ProtocolFailure.retryable = FALSE
      /\ LinkFailure.error \in Failures /\ LinkFailure.retryable \in BOOLEAN
      /\ session.submitted => LinkFailure.retryable = FALSE
  BY DEF ProtocolFailure, LinkFailure, Retryable, Terminal, AmbiguousAfterCommit, Failures
<1> QED BY <1>1, <1>2, FailGood

\* The session takes a frame, and the call stays where it is.
LEMMA SessionStepGood ==
  ASSUME SpeechInv, SessionGood(session'), session'.submitted = session.submitted, UNCHANGED <<call, sent>>
  PROVE  SpeechInv'
BY DEF SpeechInv, SpeechGood, Untried

LEMMA FramesKept ==
  ASSUME SpeechInv, NEW g \in Seq(Events), session' = [session EXCEPT !.fragmented = g]
  PROVE  SessionGood(session') /\ session'.submitted = session.submitted
<1>1. SessionGood(session) /\ TRUE \in BOOLEAN
  BY InPhase
<1>2. /\ session.submitted \in BOOLEAN
      /\ session' = [session EXCEPT !.fragmented = g, !.submitted = session.submitted]
  BY <1>1, SessionFields
<1>3. g \in Seq(Events)
  OBVIOUS
<1> QED BY ONLY <1>1, <1>2, <1>3, SessionMoves

LEMMA EventGood ==
  ASSUME SpeechInv, Reading, NEW e \in Events, OnEvent(e), UNCHANGED sent
  PROVE  SpeechInv'
<1>0. /\ call.phase \in {"created", "updated", "response"} /\ call.chunks # << >> /\ << >> \in Seq(Events)
      /\ SessionGood(session)
  BY InPhase DEF Reading
<1>1. CASE Fail(ProtocolFailure)
  BY <1>1, FrameFails
<1>2. CASE /\ call.phase \in {"created", "updated"} /\ session' = [session EXCEPT !.fragmented = << >>]
           /\ \/ call' = call
              \/ \E p \in {"update", "close", "append"} :
                   call' = [call EXCEPT !.phase = p] /\ call.kind \in KindsAt(p)
  <2>1. SessionGood(session') /\ session'.submitted = session.submitted
    BY <1>0, <1>2, FramesKept
  <2>2. CASE call' = call
    BY <2>1, <2>2, SessionStepGood
  <2>3. ASSUME NEW p \in {"update", "close", "append"}, call' = [call EXCEPT !.phase = p], call.kind \in KindsAt(p)
        PROVE  SpeechInv'
    <3>1. /\ SpeechInv /\ call.phase # "over" /\ call.chunks # << >> /\ p \in SpeechPhases
          /\ call.route \in Routes /\ call.kind \in KindsAt(p) /\ p \notin {"over", "response", "answer"}
          /\ p \notin Asked /\ call.phase # "response"
          /\ call' = [call EXCEPT !.phase = p, !.route = call.route] /\ sent' = sent
      BY <1>0, <1>2, <2>3, KnownPhases, SameRoute DEF Asked
    <3> QED BY ONLY <2>1, <3>1, MoveGood
  <2> QED BY <1>2, <2>2, <2>3
<1>3. CASE /\ call.phase = "response" /\ Fit(e) /\ Handled(e) /\ e.type # "response.done"
           /\ session' = Applied(e) /\ UNCHANGED call
  BY <1>0, <1>3, AppliedGood, SessionStepGood
<1>4. CASE /\ call.phase = "response" /\ Fit(e) /\ Handled(e) /\ e.type = "response.done"
           /\ ChunkDone(Part(Applied(e).heard))
  <2>1. WholeResponse(Applied(e).heard)
    BY <1>0, <1>4, DoneIsWhole
  <2> QED BY <1>4, <2>1, ChunkDoneGood
<1>5. /\ call.phase = "created" => call.kind \in {"ws", "verify"}
      /\ call.phase = "updated" => call.kind = "ws"
      /\ call.kind = "ws" => call.kind \in KindsAt("update") /\ call.kind \in KindsAt("append")
      /\ call.kind = "verify" => call.kind \in KindsAt("close")
  BY PhaseKinds DEF KindsAt
<1>6. CASE call.phase = "created"
  BY <1>1, <1>2, <1>5, <1>6 DEF OnEvent
<1>7. CASE call.phase = "updated"
  BY <1>1, <1>2, <1>5, <1>7 DEF OnEvent
<1>8. CASE call.phase = "response"
  BY <1>1, <1>3, <1>4, <1>8 DEF OnEvent
<1> QED BY <1>0, <1>6, <1>7, <1>8

LEMMA FrameGood ==
  ASSUME SpeechInv, TextFrame \/ FirstFragment \/ Continuation \/ ControlFrame
  PROVE  SpeechInv'
<1>1. SessionGood(session) /\ session.fragmented \in Seq(Events)
  BY InPhase DEF SessionGood, SessionRecord
<1>2. CASE TextFrame
  BY <1>2, EventGood, FrameFails DEF TextFrame
<1>3. CASE FirstFragment
  <2>1. PICK e \in Events : session' = [session EXCEPT !.fragmented = <<e>>]
    BY <1>3 DEF FirstFragment
  <2>2. <<e>> \in Seq(Events) /\ UNCHANGED <<call, sent>>
    BY <1>3 DEF FirstFragment
  <2> QED BY <2>1, <2>2, FramesKept, SessionStepGood
<1>4. CASE Continuation
  <2>1. session.fragmented # << >> => session.fragmented[1] \in Events
    BY <1>1
  <2> QED BY <1>4, <2>1, EventGood, FrameFails DEF Continuation
<1>5. CASE ControlFrame
  BY <1>5, FrameFails DEF ControlFrame
<1> QED BY <1>2, <1>3, <1>4, <1>5

\* The commit counts as sent whether its write succeeded or not.
LEMMA CommitGood ==
  ASSUME SpeechInv, SendCommit
  PROVE  SpeechInv'
<1>1. /\ call.phase = "commit" /\ CallGood(call) /\ SentGood(call, sent) /\ Untried(call, session)
      /\ SessionGood(session) /\ call.kind = "ws" /\ call.chunks # << >> /\ sent' = Append(sent, call.at)
  BY PhaseKinds, InPhase DEF SendCommit, SpeechInv, SpeechGood
<1>2. CASE call' = [call EXCEPT !.phase = "response"] /\ session' = [session EXCEPT !.submitted = TRUE]
  <2>1. MovesTo(call, "response", call.route, call') /\ call.route \in Routes
    BY <1>2, SameRoute DEF MovesTo
  <2>2. call.kind \in KindsAt("response")
    BY <1>1 DEF KindsAt
  <2>3. "response" \in SpeechPhases
    BY KnownPhases
  <2>4. /\ CallGood(call') /\ call'.kind = call.kind /\ call'.phase = "response" /\ call'.at = call.at
        /\ call'.parts = call.parts /\ call' \in CallRecord
    BY ONLY <1>1, <2>1, <2>2, <2>3, CallMoves
  <2>5. SentGood(call', sent')
    BY ONLY <1>1, <2>4, SentGrows
  <2>8. SessionGood(session') /\ session'.submitted = TRUE
    BY ONLY <1>1, <1>2, SessionCommits
  <2>9. Untried(call', session')
    BY <2>4, <2>8 DEF Untried
  <2> QED BY <2>4, <2>5, <2>8, <2>9 DEF SpeechInv, SpeechGood
<1>3. CASE Fail(AmbiguousAfterCommit)
  BY <1>1, <1>3, Refusals, FailGood
<1> QED BY <1>2, <1>3 DEF SendCommit

LEMMA CloseGood ==
  ASSUME SpeechInv, AwaitPeerClose
  PROVE  SpeechInv'
<1>1. call.phase = "close" /\ call.kind = "verify"
  BY PhaseKinds DEF AwaitPeerClose
<1>2. PICK x \in {"ok", "Unavailable", "Protocol"} : Over(x)
  BY DEF AwaitPeerClose
<1>3. x \in Failures \cup {"ok"} /\ ~Spoken(call.kind)
  BY <1>1 DEF Failures, Spoken
<1> QED BY <1>1, <1>2, <1>3, OverGood DEF Over

-----------------------------------------------------------------------------
(* The invariant of the specification.                                     *)

LEMMA SpeechInitGood ==
  ASSUME \A text \in Texts : SplitsWhole(text), SpeechInit
  PROVE  SpeechInv
<1>0. PICK kind \in Kinds, text \in Texts :
        \E chunks \in {SplitTtsText(text), <<text>>} :
          call = [kind |-> kind, text |-> text,
                  chunks |-> IF kind \in {"http", "ws"} THEN chunks ELSE <<text>>,
                  at |-> 1, attempt |-> 1, phase |-> "start", route |-> "none",
                  parts |-> << >>, result |-> "none"]
  BY DEF SpeechInit
<1>1. PICK chunks \in {SplitTtsText(text), <<text>>} :
        call = [kind |-> kind, text |-> text,
                chunks |-> IF kind \in {"http", "ws"} THEN chunks ELSE <<text>>,
                at |-> 1, attempt |-> 1, phase |-> "start", route |-> "none",
                parts |-> << >>, result |-> "none"]
  BY <1>0
<1>2. session = NewSession /\ sent = << >>
  BY DEF SpeechInit
<1>3. text \in Chunk /\ SplitTtsText(text) \in Seq(Chunk) /\ FlattenSeq(SplitTtsText(text)) = text
  BY SpeechConstants DEF SplitsWhole, Chunk
<1>4. <<text>> \in Seq(Chunk) /\ FlattenSeq(<<text>>) = text
  BY <1>3, FlattenOne
<1> PICK cs : cs = IF kind \in {"http", "ws"} THEN chunks ELSE <<text>>  OBVIOUS
<1>5. cs \in Seq(Chunk) /\ FlattenSeq(cs) = text
  BY <1>3, <1>4
<1> PICK c : c = call  OBVIOUS
<1>6. /\ c.kind = kind /\ c.text = text /\ c.chunks = cs /\ c.at = 1 /\ c.attempt = 1 /\ c.phase = "start"
      /\ c.route = "none" /\ c.parts = << >> /\ c.result = "none"
  BY <1>1
<1>7. c \in CallRecord
  <2>1. kind \in {"verify", "asr", "http", "ws"} /\ << >> \in Seq(SpokenPart) /\ "none" \in Routes
    BY SpeechConstants DEF Routes
  <2> QED BY <1>1, <1>5, <2>1, KnownPhases DEF CallRecord
<1>8. DOMAIN c.parts = {} /\ Len(c.parts) = 0 /\ Len(cs) \in Nat /\ (Len(cs) = 0 => cs = << >>)
  BY <1>5, <1>6
<1>9. c.kind \in KindsAt(c.phase)
  BY <1>6, <1>7 DEF KindsAt, CallRecord
<1>10. CallGood(c)
  BY <1>5, <1>6, <1>7, <1>8, <1>9 DEF CallGood
<1>11. SentGood(c, << >>)
  BY <1>6, <1>8 DEF SentGood, Asked
<1>12. Untried(c, NewSession) /\ SessionGood(NewSession)
  BY <1>6, NewSessionGood DEF Untried
<1> QED BY <1>2, <1>10, <1>11, <1>12 DEF SpeechInv, SpeechGood

LEMMA SpeechStepGood ==
  ASSUME SpeechInv, [SpeechNext]_speechVars
  PROVE  SpeechInv'
<1>1. CASE UNCHANGED speechVars
  BY <1>1 DEF speechVars, SpeechInv
<1>2. CASE SpeechNext
  BY <1>2, StartGood, ConnectionGood, UpgradeGood, PostGood, AnswerGood, FetchGood, FrameGood, CommitGood,
     CloseGood DEF SpeechNext
<1> QED BY <1>1, <1>2

\* What SpeechInv says of the audio of a call that succeeded.
LEMMA GoodSpeaks ==
  ASSUME SpeechInv
  PROVE  SpeaksTheText
<1>1. CallGood(call) /\ SentGood(call, sent)
  BY DEF SpeechInv, SpeechGood
<1>2. call.parts \in Seq(SpokenPart) /\ call.chunks \in Seq(Chunk) /\ sent \in Seq(Nat)
  BY <1>1 DEF CallGood, CallRecord, SentGood
<1>3. ASSUME call.result = "ok", IsTts
      PROVE  FlattenSeq([k \in DOMAIN call.parts |-> call.parts[k].chunk]) = call.text
  <2>1. Len(call.parts) = Len(call.chunks) /\ \A k \in DOMAIN call.parts : call.parts[k].chunk = call.chunks[k]
    BY <1>1, <1>3 DEF CallGood, IsTts, Spoken
  <2>2. DOMAIN call.parts = DOMAIN call.chunks
    BY <1>2, <2>1
  <2>3. call.chunks = [k \in DOMAIN call.chunks |-> call.chunks[k]]
    BY <1>2
  <2>4. [k \in DOMAIN call.parts |-> call.parts[k].chunk] = call.chunks
    BY <2>1, <2>2, <2>3
  <2> QED BY <1>1, <1>3, <2>4 DEF CallGood, IsTts, Spoken
<1>4. ASSUME call.result = "ok", IsTts, NEW k \in DOMAIN call.parts
      PROVE  /\ call.parts[k].route = call.parts[1].route
             /\ sent[call.parts[k].request] = k
             /\ \A j \in call.parts[k].request + 1..Len(sent) : sent[j] # k
             /\ call.parts[k].whole
  <2>1. call.parts[k].route = call.parts[1].route /\ call.parts[k].whole
    BY <1>1, <1>4 DEF CallGood, IsTts, Spoken
  <2> PICK q : q = call.parts[k].request  OBVIOUS
  <2>2. q \in DOMAIN sent /\ sent[q] = k /\ \A j \in DOMAIN sent : j > q => sent[j] > k
    BY <1>1 DEF SentGood
  <2>3. k \in Nat /\ q \in Nat /\ Len(sent) \in Nat /\ DOMAIN sent = 1..Len(sent) /\ \A j \in DOMAIN sent : sent[j] \in Nat
    BY <1>2, <2>2
  <2>4. \A j \in q + 1..Len(sent) : sent[j] # k
    BY ONLY <2>2, <2>3
  <2> QED BY <2>1, <2>2, <2>4
<1>5. call.kind = "ws" => IsInjective(sent)
  BY <1>1 DEF SentGood, IsInjective
<1> QED BY <1>3, <1>4, <1>5 DEF SpeaksTheText

\* A call keeps its parts and its requests in step, and the session hears one response
\* (dashscope.rs synthesize, run_tts_session).
THEOREM SpeechInvariant ==
  ASSUME \A text \in Texts : SplitsWhole(text)
  PROVE  SpeechSpec => []SpeechInv
<1>1. SpeechInit => SpeechInv
  BY SpeechInitGood
<1>2. SpeechInv /\ [SpeechNext]_speechVars => SpeechInv'
  BY SpeechStepGood
<1> QED BY <1>1, <1>2, PTL DEF SpeechSpec

\* The audio a call returns speaks its whole text, whatever the network and the service do,
\* for every text that its chunks make up (dashscope.rs synthesize_chunked,
\* combine_tts_audio, run_tts_session).
THEOREM SpeaksWhole ==
  ASSUME \A text \in Texts : SplitsWhole(text)
  PROVE  SpeechSpec => []SpeaksTheText
<1>1. SpeechInv => SpeaksTheText
  BY GoodSpeaks
<1>2. SpeechSpec => []SpeechInv
  BY SpeechInvariant
<1> QED BY <1>1, <1>2, PTL
=============================================================================
