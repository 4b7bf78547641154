---------------------------- MODULE CodexCatalog ----------------------------
(***************************************************************************)
(* The catalog of Codex tasks: codex_catalog.rs.  The Host and its command  *)
(* line read three files that Codex goes on writing: the global state (the  *)
(* pinned tasks), the session index (names), and an SQLite database in WAL  *)
(* mode, of which they copy the main file and the log without taking any    *)
(* SQLite lock.  The copies are hashed again afterwards, twice; the read is  *)
(* tried again when anything has moved.                                     *)
(*                                                                         *)
(* Codex is external: a commit appends pages to the log, a checkpoint copies *)
(* them to the main file one by one, a commit after a complete checkpoint   *)
(* may start the log again from its beginning, under a new salt, and the    *)
(* last connection to close removes it.  The shared-memory file comes and   *)
(* goes with the log.                                                       *)
(***************************************************************************)
EXTENDS Naturals, Sequences, FiniteSets, FiniteSetsExt, SequencesExt, Functions

CONSTANTS Readers,        \* threads and processes that read the catalog
          Pages,          \* the number of pages of the main file
          Threads,        \* external: task -> its id, its page, and its row in every version of it
          GlobalStates,   \* external: what Codex writes to its global state
          IndexLines,     \* external: what Codex appends to its session index
          MaxVersions,    \* bound: commits, the first state included
          MaxOpens,       \* bound: how often Codex creates the log
          MaxLogFrames,   \* MAX_DATABASE_WAL_BYTES
          MaxIndexLines,  \* MAX_SESSION_INDEX_LINES
          MaxPinnedCandidates, MaxPinnedTasks, MaxRecentCandidates, MaxRecentTasks,
          CatalogAttempts,  \* CATALOG_READ_ATTEMPTS
          MaxReads,         \* bound: reads of the catalog
          MaxUpsets         \* bound: failing calls, killed readers, rewritten state files

ASSUME CatalogConstants ==
  /\ Pages \in Nat \ {0} /\ MaxVersions \in Nat \ {0} /\ CatalogAttempts \in Nat \ {0}
  /\ {MaxOpens, MaxLogFrames, MaxIndexLines, MaxReads, MaxUpsets} \subseteq Nat
  /\ {MaxPinnedCandidates, MaxPinnedTasks, MaxRecentCandidates, MaxRecentTasks} \subseteq Nat
  /\ 0 \notin Readers

VARIABLES main,         \* page -> version, in state_5.sqlite
          log,          \* state_5.sqlite-wal: its identity (0: missing), salt and frames
          opens,        \* logs created so far
          history,      \* sequence of the states of the database
          globalState, sessionIndex,
          catalogLock,  \* the reader that holds the snapshot root, or 0
          snapshots,    \* the readers whose snapshot directories exist
          readers,
          reads, upsets

codexVars == <<main, log, opens, history, globalState, sessionIndex>>
catalogVars == <<codexVars, catalogLock, snapshots, readers, reads, upsets>>

NoLog == [id |-> 0, salt |-> 0, frames |-> << >>]
Frame(salt, page, version, last) == [salt |-> salt, page |-> page, version |-> version, last |-> last]

\* external: how SQLite reads a log, up to the last commit under the salt of its header.
Valid(l) ==
  LET same == {n \in 0..Len(l.frames) : \A k \in 1..n : l.frames[k].salt = l.salt}
      ends == {n \in same : n = 0 \/ l.frames[n].last}
  IN SubSeq(l.frames, 1, Max(ends))

Database(m, l) ==
  [p \in 1..Pages |->
     LET of == {k \in DOMAIN Valid(l) : l.frames[k].page = p}
     IN IF of = {} THEN m[p] ELSE l.frames[Max(of)].version]

\* A reader that has nothing: what it reads and copies is added step by step.
NewReader ==
  [at |-> "idle", attempt |-> 0, since |-> 0, global |-> [pins |-> << >>, order |-> << >>],
   lines |-> << >>, fd |-> 0, next |-> 0, pass |-> 0, main |-> << >>, log |-> NoLog,
   tasks |-> << >>]

CatalogInit ==
  /\ main = [p \in 1..Pages |-> 1] /\ log = NoLog /\ opens = 0
  /\ history = <<main>>
  /\ globalState \in GlobalStates /\ sessionIndex = << >>
  /\ catalogLock = 0 /\ snapshots = {}
  /\ readers = [r \in Readers |-> NewReader] /\ reads = 0 /\ upsets = 0

-----------------------------------------------------------------------------
(* Codex (external).                                                       *)

CodexOnly == UNCHANGED <<catalogLock, snapshots, readers, reads, upsets>>

CodexOpens ==
  /\ log = NoLog /\ opens < MaxOpens
  /\ opens' = opens + 1 /\ log' = [NoLog EXCEPT !.id = opens + 1]
  /\ UNCHANGED <<main, history, globalState, sessionIndex>> /\ CodexOnly

Checkpointed == main = Database(main, log)

\* What a transaction writes: some of the pages, in their order.
Transactions ==
  {s \in UNION {[1..n -> 1..Pages] : n \in 1..Pages} : \A j, k \in DOMAIN s : j < k => s[j] < s[k]}

\* The log with the frames of a transaction behind the first "at" ones; what was there before
\* goes on behind them.
Logged(l, salt, at, pages) ==
  LET end == at + Len(pages)
      new(k) == Frame(salt, pages[k - at], Len(history) + 1, k = end)
  IN [l EXCEPT !.salt = salt,
               !.frames = [k \in DOMAIN @ \cup 1..end |-> IF k \in (at + 1)..end THEN new(k) ELSE @[k]]]

\* The frames of a transaction go behind those that count, or over the first ones.
CodexCommits(pages) ==
  /\ log # NoLog /\ Len(history) < MaxVersions
  /\ \/ log.salt > 0 /\ log' = Logged(log, log.salt, Len(Valid(log)), pages)
     \/ Checkpointed /\ log' = Logged(log, log.salt + 1, 0, pages)
  /\ history' = Append(history, Database(main, log'))
  /\ UNCHANGED <<main, opens, globalState, sessionIndex>> /\ CodexOnly

CodexCheckpoints(p) ==
  /\ main[p] # Database(main, log)[p]
  /\ main' = [main EXCEPT ![p] = Database(main, log)[p]]
  /\ UNCHANGED <<log, opens, history, globalState, sessionIndex>> /\ CodexOnly

CodexCloses ==
  /\ log # NoLog /\ Checkpointed
  /\ log' = NoLog
  /\ UNCHANGED <<main, opens, history, globalState, sessionIndex>> /\ CodexOnly

\* Pinning and naming, with a commit of the database or without one.
CodexRewrites ==
  /\ \/ globalState' \in GlobalStates \ {globalState} /\ UNCHANGED sessionIndex
     \/ /\ Len(sessionIndex) <= MaxIndexLines
        /\ \E line \in IndexLines : sessionIndex' = Append(sessionIndex, line)
        /\ UNCHANGED globalState
  /\ upsets < MaxUpsets /\ upsets' = upsets + 1
  /\ UNCHANGED <<main, log, opens, history, catalogLock, snapshots, readers, reads>>

-----------------------------------------------------------------------------
(* The list.                                                               *)

Distinct(s) == FoldLeft(LAMBDA acc, x : IF Contains(acc, x) THEN acc ELSE Append(acc, x), << >>, s)

\* Mutant of PinnedIds: in the order in which they were pinned.
PinnedIdsAsPinned(g) == Distinct(g.pins)

\* pinned_ids: in the order of the sidebar, then those it does not show.
PinnedIds(g) ==
  LET pinned == Distinct(g.pins)
      ordered == Distinct(SelectSeq(g.order, LAMBDA t : Contains(pinned, t)))
  IN ordered \o SelectSeq(pinned, LAMBDA t : ~Contains(ordered, t))

ValidGlobal(g) == ~Contains(g.pins, "invalid") /\ ~Contains(g.order, "invalid")

\* read_session_index: of several lines for a task the last one counts.
IndexName(lines, t) ==
  LET of == {k \in DOMAIN lines : lines[k].task = t}
  IN IF of = {} THEN "blank" ELSE lines[Max(of)].name

DatabaseRow(t, db) == Threads[t].rows[db[Threads[t].page]]

\* BOUNDED_THREAD_PREDICATE, then what validate_database_row makes of a row.
Selected(t, db) == DatabaseRow(t, db).there /\ ~DatabaseRow(t, db).archived
IsUserOwnedThread(row) == row.role = "none" /\ row.source = "user"
ValidateRolloutPath(row) == row.rollout = "file"
ValidateDatabaseRow(t, db) ==
  Selected(t, db) /\ IsUserOwnedThread(DatabaseRow(t, db)) /\ ValidateRolloutPath(DatabaseRow(t, db))
UnsafeRow(t, db) == IsUserOwnedThread(DatabaseRow(t, db)) /\ DatabaseRow(t, db).rollout = "unsafe"

\* The candidates: the pinned ids, and the rows with the latest recency.
PinnedCandidates(g, db) ==
  SelectSeq(SubSeq(PinnedIds(g), 1, Min({MaxPinnedCandidates, Len(PinnedIds(g))})),
            LAMBDA t : t \in DOMAIN Threads /\ Selected(t, db))

First(n, s) == SubSeq(s, 1, Min({n, Len(s)}))

RecentCandidates(db) ==
  LET later(a, b) == \/ DatabaseRow(a, db).recency > DatabaseRow(b, db).recency
                     \/ DatabaseRow(a, db).recency = DatabaseRow(b, db).recency /\ Threads[a].id > Threads[b].id
      dated == {t \in DOMAIN Threads : Selected(t, db) /\ DatabaseRow(t, db).recency > 0}
  IN First(MaxRecentCandidates, SetToSortSeq(dated, later))

\* build_task: the first name that is not blank, unless it is one of Codex's own.
TaskName(lines, t, db) ==
  LET names == <<IndexName(lines, t), DatabaseRow(t, db).name, DatabaseRow(t, db).title, "directory">>
  IN names[Min({k \in DOMAIN names : names[k] # "blank"})]
BuildTask(lines, t, db) == ValidateDatabaseRow(t, db) /\ TaskName(lines, t, db) # "internal"

CodexTask(lines, t, db, pinned) == [task |-> t, name |-> TaskName(lines, t, db), pinned |-> pinned]

\* Mutant of ListOnce: a pinned task is listed among the recent ones too.
ListTwice(g, lines, db) ==
  LET pins == First(MaxPinnedTasks, SelectSeq(PinnedCandidates(g, db), LAMBDA t : BuildTask(lines, t, db)))
      recent == First(MaxRecentTasks, SelectSeq(RecentCandidates(db), LAMBDA t : BuildTask(lines, t, db)))
  IN [k \in 1..(Len(pins) + Len(recent)) |-> CodexTask(lines, (pins \o recent)[k], db, k <= Len(pins))]

\* The end of list_tasks_once.
ListOnce(g, lines, db) ==
  LET pins == First(MaxPinnedTasks, SelectSeq(PinnedCandidates(g, db), LAMBDA t : BuildTask(lines, t, db)))
      recent == First(MaxRecentTasks, SelectSeq(RecentCandidates(db),
                      LAMBDA t : ~Contains(pins, t) /\ BuildTask(lines, t, db)))
  IN [k \in 1..(Len(pins) + Len(recent)) |-> CodexTask(lines, (pins \o recent)[k], db, k <= Len(pins))]

-----------------------------------------------------------------------------
(* A reader.                                                               *)

At(r, step) == readers[r].at = step
Move(r, to) == readers' = [readers EXCEPT ![r] = to]
Keep == UNCHANGED <<codexVars, reads, upsets>>
Holding == {"clean", "copy main", "copy wal", "main", "wal", "query"}

\* A DatabaseSnapshot is dropped with its directory; before there is one, the directory
\* is left to the next reader.
Dropped(r) == IF readers[r].at \in {"main", "wal", "query"} THEN snapshots \ {r} ELSE snapshots

\* retry_catalog_read.
Retry(r, terminal) ==
  /\ Move(r, IF terminal \/ readers[r].attempt = CatalogAttempts
             THEN [NewReader EXCEPT !.at = "failed"]
             ELSE [NewReader EXCEPT !.at = "global", !.attempt = readers[r].attempt + 1,
                                 !.since = Len(history)])
  /\ snapshots' = Dropped(r)
  /\ catalogLock' = IF catalogLock = r THEN 0 ELSE catalogLock

IndexTooLarge(r) == Retry(r, TRUE)
Changes(r) == Retry(r, FALSE)

\* list_tasks
ListTasks(r) ==
  /\ At(r, "idle") /\ reads < MaxReads /\ reads' = reads + 1
  /\ Move(r, [NewReader EXCEPT !.at = "global", !.attempt = 1, !.since = Len(history)])
  /\ UNCHANGED <<catalogLock, snapshots, upsets>> /\ UNCHANGED codexVars

ReadGlobalState(r) ==
  /\ At(r, "global")
  /\ Move(r, [readers[r] EXCEPT !.at = "index", !.global = globalState])
  /\ UNCHANGED <<catalogLock, snapshots>> /\ Keep

\* The pinned ids are looked at once the index has been read.
ReadSessionIndex(r) ==
  /\ At(r, "index") /\ Keep
  /\ IF Len(sessionIndex) > MaxIndexLines \/ Len(readers[r].global.pins) > MaxPinnedCandidates
     THEN IndexTooLarge(r)
     ELSE IF ~ValidGlobal(readers[r].global) THEN Changes(r)
     ELSE /\ Move(r, [readers[r] EXCEPT !.at = "lock", !.lines = sessionIndex])
          /\ UNCHANGED <<catalogLock, snapshots>>

\* ManagedSnapshotRoot::acquire: the mutex of the process and the lock of the file.
Acquire(r) ==
  /\ At(r, "lock") /\ catalogLock = 0
  /\ catalogLock' = r /\ Move(r, [readers[r] EXCEPT !.at = "clean"])
  /\ UNCHANGED snapshots /\ Keep

\* reconcile: directories that killed or failed readers left behind.
Reconcile(r) ==
  /\ At(r, "clean")
  /\ \E d \in snapshots : snapshots' = snapshots \ {d}
  /\ UNCHANGED <<catalogLock, readers>> /\ Keep

\* Mutant of Reconciled: what others left behind stays.
NeverReconciled == TRUE
Reconciled == snapshots = {}

\* DatabaseFileGuards::open, and the directory of the snapshot.
OpenDatabase(r) ==
  /\ At(r, "clean") /\ Reconciled /\ Keep
  /\ IF Len(log.frames) > MaxLogFrames
     THEN IndexTooLarge(r)
     ELSE /\ snapshots' = snapshots \cup {r}
          /\ Move(r, [readers[r] EXCEPT !.at = "copy main", !.fd = log.id, !.next = 1, !.pass = 1])
          /\ UNCHANGED catalogLock

Copying(r, to) == Move(r, to) /\ UNCHANGED <<catalogLock, snapshots>>

\* copy_to, of the main file.
CopyMain(r) ==
  LET copy == Append(readers[r].main, main[readers[r].next])
      done == readers[r].next = Pages
  IN
  /\ At(r, "copy main") /\ Keep
  /\ Copying(r, [readers[r] EXCEPT !.main = copy, !.next = IF done THEN 0 ELSE @ + 1,
                                   !.at = IF done THEN "copy wal" ELSE @])

\* The log as the path shows it is the one that was opened; a reader of a removed one
\* finds out at the latest when it verifies.
SameLog(r) == log.id = readers[r].fd

\* verify and hash_guarded_file: a log that has outgrown the limit since it was opened.
Outgrown(r) == readers[r].fd # 0 /\ Len(log.frames) > MaxLogFrames

\* copy_to, of the log: its header, then its frames.
CopyLog(r) ==
  LET me == readers[r]
      at == me.next
      done == me.fd = 0 \/ at > Len(log.frames)
      header == [me.log EXCEPT !.id = log.id, !.salt = log.salt]
      longer == [me.log EXCEPT !.frames = Append(me.log.frames, log.frames[at])]
  IN
  /\ At(r, "copy wal") /\ Keep
  /\ IF ~SameLog(r) THEN Changes(r)
     ELSE IF Outgrown(r) THEN IndexTooLarge(r)
     ELSE IF done THEN Copying(r, [me EXCEPT !.at = "main", !.next = 1])
     ELSE Copying(r, [me EXCEPT !.next = at + 1, !.log = IF at = 0 THEN header ELSE longer])

\* Mutant of VerifyMain: the main file is not hashed again.
VerifyNothing(r) ==
  /\ At(r, "main") /\ Keep
  /\ Copying(r, [readers[r] EXCEPT !.at = "wal", !.next = 0])

\* verify_digest, of the main file.
VerifyMain(r) ==
  LET at == readers[r].next
  IN
  /\ At(r, "main") /\ Keep
  /\ IF main[at] # readers[r].main[at] THEN Changes(r)
     ELSE Copying(r, [readers[r] EXCEPT !.at = IF at = Pages THEN "wal" ELSE @,
                                        !.next = IF at = Pages THEN 0 ELSE @ + 1])

\* verify_digest, of the log, and the identity of the shared-memory file; the second pass
\* ends the read, and drops the snapshot and the lock.
VerifyLog(r) ==
  LET me == readers[r]
      at == me.next
      copied == me.log.frames
      same == IF me.fd = 0 THEN TRUE
              ELSE IF at = 0 THEN log.salt = me.log.salt
              ELSE at <= Len(copied) /\ log.frames[at] = copied[at]
      done == me.fd = 0 \/ (at > Len(log.frames) /\ at > Len(copied))
  IN
  /\ At(r, "wal") /\ Keep
  /\ IF ~SameLog(r) THEN Changes(r)
     ELSE IF Outgrown(r) THEN IndexTooLarge(r)
     ELSE IF ~done /\ ~same THEN Changes(r)
     ELSE IF ~done THEN Copying(r, [me EXCEPT !.next = @ + 1])
     ELSE IF me.pass = 1 THEN Copying(r, [me EXCEPT !.at = "query"])
     ELSE /\ Move(r, [me EXCEPT !.at = "listed"])
          /\ snapshots' \in {Dropped(r), snapshots}
          /\ catalogLock' = 0

\* The two queries, of the copy.
Query(r) ==
  LET me == readers[r]
      db == Database(me.main, me.log)
      looked == ToSet(PinnedCandidates(me.global, db)) \cup ToSet(RecentCandidates(db))
  IN
  /\ At(r, "query") /\ Keep
  /\ IF \E t \in looked : UnsafeRow(t, db) THEN Changes(r)
     ELSE Copying(r, [me EXCEPT !.at = "main", !.next = 1, !.pass = 2,
                                !.tasks = ListOnce(me.global, me.lines, db)])

\* The caller has the answer.
Return(r) ==
  /\ readers[r].at \in {"listed", "failed"}
  /\ Move(r, NewReader) /\ UNCHANGED <<catalogLock, snapshots>> /\ Keep

Upset == upsets < MaxUpsets /\ upsets' = upsets + 1 /\ UNCHANGED <<codexVars, reads>>

\* A call fails: a file that is replaced or half written while it is read, the time limit
\* of the queries, a full disk.
ReadFails(r) ==
  /\ readers[r].at \notin {"idle", "listed", "failed"} /\ Upset
  /\ Changes(r)

ReaderKilled(r) ==
  /\ readers[r].at \notin {"idle", "listed", "failed"} /\ Upset
  /\ Move(r, NewReader)
  /\ catalogLock' = IF catalogLock = r THEN 0 ELSE catalogLock
  /\ UNCHANGED snapshots

ReaderSteps(r) ==
  \/ ListTasks(r) \/ ReadGlobalState(r) \/ ReadSessionIndex(r) \/ Acquire(r) \/ Reconcile(r)
  \/ OpenDatabase(r) \/ CopyMain(r) \/ CopyLog(r) \/ VerifyMain(r) \/ VerifyLog(r) \/ Query(r)
  \/ Return(r) \/ ReadFails(r) \/ ReaderKilled(r)

CodexSteps ==
  \/ CodexOpens \/ CodexCloses \/ CodexRewrites
  \/ \E pages \in Transactions : CodexCommits(pages)
  \/ \E p \in 1..Pages : CodexCheckpoints(p)

CatalogNext == CodexSteps \/ \E r \in Readers : ReaderSteps(r)

CatalogSpec == CatalogInit /\ [][CatalogNext]_catalogVars

-----------------------------------------------------------------------------
\* The order of two pinned tasks: as the sidebar shows them; those it does not show come
\* after them, as they were pinned.
Above(g, a, b) ==
  LET first(s, t) == Min({k \in DOMAIN s : s[k] = t})
      shown(t) == Contains(g.order, t)
  IN \/ shown(a) /\ ~shown(b)
     \/ shown(a) /\ shown(b) /\ first(g.order, a) < first(g.order, b)
     \/ ~shown(a) /\ ~shown(b) /\ first(g.pins, a) < first(g.pins, b)

\* What a list may be, of the pins and names that were read and of one state of the database:
\* tasks of the user that are not archived, each of them once; the pinned ones first, in
\* their order, and none left out before the limit or for one below it; then the recent ones,
\* the latest first, and none passed over for an older one.
IsList(s, g, lines, db) ==
  LET listed == {s[k].task : k \in DOMAIN s}
      pins == {k \in DOMAIN s : s[k].pinned}
      recency(t) == DatabaseRow(t, db).recency
      missing == {t \in DOMAIN Threads : BuildTask(lines, t, db)} \ listed
      unpinned == missing \cup {s[k].task : k \in DOMAIN s \ pins}
  IN
  /\ IsInjective([k \in DOMAIN s |-> s[k].task])
  /\ \A t \in listed : BuildTask(lines, t, db)
  /\ pins = 1..Cardinality(pins) /\ Cardinality(pins) <= MaxPinnedTasks
  /\ \A k \in pins : Contains(g.pins, s[k].task)
  /\ \A j, k \in pins : j < k => Above(g, s[j].task, s[k].task)
  /\ \A t \in unpinned : Contains(g.pins, t) =>
       /\ Cardinality(pins) = MaxPinnedTasks
       /\ \A k \in pins : Above(g, s[k].task, t)
  /\ \A j, k \in DOMAIN s \ pins : j < k => recency(s[j].task) >= recency(s[k].task)
  /\ \A k \in DOMAIN s \ pins, t \in missing : recency(t) <= recency(s[k].task)

\* The list that a reader returns is such a list of the database it copied
\* (codex_catalog.rs list_tasks_once, pinned_ids, build_task).
ListIsRight ==
  \A r \in Readers : At(r, "listed") =>
    IsList(readers[r].tasks, readers[r].global, readers[r].lines,
           Database(readers[r].main, readers[r].log))

\* A catalog that was read while Codex went on writing is made of one state that the
\* database was in since the read began, never of a mixture of two; and while a reader has its
\* private copy of the database there is no other, whatever failed or was killed before
\* (codex_catalog.rs list_tasks_once, read_database_with_budget, verify_snapshot, acquire).
CatalogIsOneMoment ==
  \A r \in Readers :
    /\ At(r, "listed") =>
         \E k \in readers[r].since..Len(history) :
           /\ Database(readers[r].main, readers[r].log) = history[k]
           /\ readers[r].tasks = ListOnce(readers[r].global, readers[r].lines, history[k])
    /\ readers[r].at \in Holding \ {"clean"} => snapshots = {r} /\ catalogLock = r
=============================================================================
