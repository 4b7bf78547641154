# Formal models of the Codex voice keyboard

TLA+ specifications of the parts of this repository in which several actors,
failures or restarts meet: the Host's summary mailbox and prompt queue, the
observer of Codex's rollout files, the services that make a summary (Codex runs,
speech, cache), the catalog of Codex tasks, the Host's socket and its deployment,
the playback and voice streams between Host and keyboard, and the keyboard's sound
bundles in flash. TLC checks small instances of all of them; TLAPS proves, for every
instance, the safety of the summary ledger and pipeline, of Codex runs, speech calls and
the cache on disk, the prompt queue, the playback and voice streams, the sound bundles, the
Host's socket and deployment and the catalog.

## 1. The system

A keyboard (ESP32-S3, C++, `src/firmware`) has four slots, each bound to a Codex
task. S1–S4 record speech for their task, S5–S8 play what the task last
accomplished. A Host service (Rust, `src/app/host`) stands between the keyboard
and Codex; a Tauri desktop application (`src/app/desktop`) shows its status.

A recording goes: microphone → EIAU/EIAE datagrams → capture assembler → speech
recognition → durable prompt FIFO of the task → `codex exec resume`. A summary
comes back: rollout file → completion ledger → summary worker (language model,
then speech synthesis) → encrypted cache and summary ledger → unread light → play
key → EIPR/EIPB/EIPD/EIPA/EIPF/EIPK datagrams → speaker → heard → cache cleanup.

### Inventory

| Component | State | Operations | Shared with |
|---|---|---|---|
| Summary ledger (`store.rs`) | bindings, completion ledger, summary rows, playback leases, all in SQLite | bind, record a completion, claim, resume, abandon, publish, acquire, cancel, finish, recover at start | every Host thread, one transaction each |
| Summary worker (`summary_worker.rs`, `summary_orchestrator.rs`) | the claim in hand, the audio being made | take work, recover a cached object, generate, synthesise, store, publish | ledger, cache (under a gate) |
| Summary cache (`cache.rs`, `tts_cache.rs`) | key and marker, a directory of encrypted objects per summary, the gate | open, publish or verify, read back, recover, reconcile with the ledger | worker and daemon |
| Codex runs (`spark_runner.rs`, `windows_spark_runner.rs`) | run directories with their locks, supervisors, children | create, sweep, start, supervise, drive, read the answer, clean up | other Host processes, Codex children |
| Speech service (`dashscope.rs`) | the attempt, its route, the state of a session | verify, transcribe, synthesise over HTTP or a WebSocket, retry | worker, ASR thread |
| Daemon playback handler (`health.rs`, `lan_playback.rs`) | map of active playbacks | request, start, cancel, finish, clean up | ledger, cache, ingress thread (two channels) |
| Ingress thread (`lan_voice.rs`) | one outgoing transfer, request floors, open captures, retired sessions | each datagram, each timer, each command | daemon, ASR thread, keyboard |
| Prompt queue (`prompt_queue.rs`, `codex_runner.rs`, jobs table) | jobs, worker threads, result channel | enqueue, tick (drain, claim), report, recover, shut down | daemon, Codex children |
| Rollout observer (`rollout_observer.rs`) | cursors into rollout files, a scan or a verification under way | poll, scan, verify, commit a completion with its cursor | ledger, Codex, which writes the files |
| Codex catalog (`codex_catalog.rs`) | lock and directory of a snapshot | copy, hash again, query, select, clean up | Codex, which writes all three files |
| Host socket (`health.rs`) | the published socket, client threads, control channel | retire, publish, answer, hand to the main loop, remove | desktop, command line, deployment |
| Deployment (`launch_agent.rs`) | executable, property list, state of the service | deploy, wait for health, roll back, remove | launchd, Host socket |
| Keyboard transport (`codex_lan_playback.cpp`) | phase, identity, received offset, retries, deferred request | request, preempt, handle each datagram, poll | slot state, speaker, network |
| Slot state (`codex_slot_state.cpp`) | pending press, recording, playing slot | press, release, begin, data, finish, clear, route change | main loop, transport |
| Sound asset store (`sound_asset_store.cpp`) | two flash banks, selection and open transaction in RAM, read leases | begin, resume, recover, write, commit, abort, query, acquire, release | session and runtime, readers |
| Sound assets service (session, runtime, flash runner, Wi-Fi supervisor) | session, queue of flash actions, network state | protocol requests, completions, pauses | store, network task |
| Audio arbitration (`audio_io_arbiter`, `audio_session`, `keyboard_audio`, `speaker_output`, power leases) | owner of the codec, tasks, buffers | acquire, preempt, release, stream | main loop, transport |
| HID input path (`ble_hid`, `usb_hid`, `hid_report_queue`, `ble_input_scheduler`, `transport_routing`, `held_keyboard_state`) | queues of reports, held keys, chosen transport | key events, sent and failed reports, link changes | BLE and USB stacks |
| Configuration, keys, encoder, power, indicators, diagnostics | small sequential state | parse, debounce, update | main loop |
| Credentials, paths, provisioning, command line, desktop | none that others rely on | external calls | — |

`PROJECT.json` lists every component with its files and what is modelled of it.

### What is hard here

The hazards in `PROJECT.json` are the reason for the properties. In short:

- A claim reads the unread summary, and the publication that extends it happens
  minutes later; in between it can be played, cancelled, heard, or the process
  can end.
- Two threads of the Host and two tasks of the keyboard, joined by channels and by
  UDP, must agree on who plays what, while any datagram is lost, repeated or late.
- "Heard" deletes audio: it must never be concluded from anything but a speaker
  that played to the end.
- Codex works on a prompt while the Host may die: the prompt must be neither lost
  nor overtaken by later ones, nor submitted twice without an interruption.
- Rollout files and the task database belong to Codex, which goes on writing, cuts
  and replaces them while the Host reads without a lock: what is read must have been
  there, all of it, at one moment.
- A request to the speech service costs money once it is written, and an answer that
  does not come leaves open whether it was accepted.
- Codex children, run directories and cache objects outlive the process that made
  them; the next one, or another one at the same time, has to tell what is in use.
- A caller of the socket gives up at a deadline, while its request still waits for
  the main loop.
- A flash operation may fail after doing all or part of its work, and the power may
  go at any step; a bundle once confirmed has to survive everything after.

## 2. Modules

| Module | Models | Extends |
|---|---|---|
| `Mailbox` | abstract promise: a completion is pending, then unread, then heard | |
| `SummaryLedger` | summary tables of `store.rs`, one action per transaction, arbitrary callers | |
| `SummaryLedgerProofs` | type correctness, inductive invariant, invariants, heard is final; the ledger implements the mailbox | `SummaryLedger` |
| `SummaryPipeline` | worker, cache, daemon and crashes around the ledger | `SummaryLedger` |
| `SummaryPipelineProofs` | its invariants, what may take a summary out of the mailbox; the Host implements the ledger and the mailbox | `SummaryPipeline`, `SummaryLedgerProofs` |
| `PromptQueue` | jobs table, scheduler tick, worker threads, children | |
| `PromptQueueProofs` | its invariants | `PromptQueue` |
| `LanWire` | datagrams of a playback and the network | |
| `CodexSlotState` | slot state of the keyboard, as operators on a record | `LanWire` |
| `LanDevice` | keyboard transport and main loop | `CodexSlotState` |
| `LanHost` | ingress thread and daemon handler | `LanWire` |
| `LanPlayback` | both ends composed | `LanDevice`, `LanHost` |
| `LanPlaybackProofs` | its invariants | `LanPlayback` |
| `VoiceCapture` | streaming loop, capture assembler, ASR thread, hand-over to the queue | |
| `VoiceCaptureProofs` | its invariants | `VoiceCapture` |
| `SoundAssetStore` | the two flash banks and the store's RAM | |
| `SoundAssetStoreProofs` | its invariants | `SoundAssetStore` |
| `TurnPack` | what a turn is reduced to (`TurnBuilder`), as operators on a record | |
| `RolloutObserver` | polls, scans, verification, cursor and commit over a changing file | `TurnPack` |
| `RecordParser` | the streaming JSON parser and, as reference, what serde reads | |
| `TextFilter` | string decoding and shortening, with references | |
| `SparkRun` | Codex runs of several Host processes with supervisors and sweeps | |
| `SpeechCall` | one call of the speech service, from request to audio | |
| `CacheFiles` | the cache on disk, step by step | |
| `GenerationProofs` | the invariants of the cache, of the runs and of the speech call | `CacheFiles`, `SparkRun`, `SpeechCall` |
| `CodexCatalog` | the lock-free read of Codex's files | |
| `HostSocket` | socket, client threads, control channel, callers | |
| `LaunchAgent` | deployment of the Host and its roll-back | `HostSocket` |
| `HostProcessProofs` | the invariants of the socket, of the deployment and of the catalog | `LaunchAgent`, `CodexCatalog` |

`MC*` modules instantiate them for TLC. The definitions carry the source's names;
`map` in `PROJECT.json` gives the lines of each.

**SummaryLedger.** `rows[t][g]` is row *g* of task *t*; `summarized[t][n]` is
`summarized_generation` of completion *n*. Every store call is an IMMEDIATE
transaction, hence one atomic action. Nothing is assumed about callers: `issued`
and `granted` remember every claim and lease handed out, and any of them may come
back, however stale. `Restart` is `StateStore::open` after the process ended at any
point. Column redundancies that a CHECK enforces (claim id, cache object) are not
fields.

**SummaryPipeline.** The real callers. `worker.pc` steps through `execute_claim`
in its order: take work, try the cached object, load the previous summary,
generate, begin the attempt, synthesise, store, commit, recheck. The cache gate is
held between the rename of the object and the ledger transaction, so `GateFree`
guards the daemon's reads and cleanup. The daemon handles one playback event in
steps (cancel the other, acquire, start, reconcile), because the worker runs
between them. The transport is external here: it ends every playback, and reports
"finished" only for audio the keyboard drained; `LanPlayback` shows why.

**PromptQueue.** A tick is split at its transactions. A result can arrive, and the
process can end, between any two. `submitted` counts how often a prompt reached a
child. Children end with the Host (job object on Windows, parent-death signal and
process-group kill elsewhere): a child that survives its Host is excluded.

**LanDevice, LanHost.** One action per datagram handler, per timer and per key
event, with the sends the handler makes; audio is counted in chunks. `net` is the
set of datagrams ever sent and receiving does not remove from it: loss, repetition
and reordering come with it. The speaker is external: it ends with success only
after the last chunk. `status` 2 (refused begin) never occurs between these two
ends and is left out. The window of `WindowEnd` is `PLAYBACK_SEND_WINDOW_CHUNKS`.

While the Host's socket refuses to send (`mute`), `accept_ack` gives the transfer up,
but `tick` neither counts a retry nor gives up (`lan_voice.rs:1079-1110`): a begin or a
window that is due stays due, and its lease stays with it, until the socket sends again,
a cancellation or a new press comes. `PlaybacksEnd` says so (`HeldBySocket`) instead of
assuming that sends recover.

The keyboard's connection generation starts at `esp_random() & 0xFFFFF` with every boot
and wraps (`keyboard_audio.cpp:302`, `:1701`), so a route lifetime is a position in `lives`
and its generation, which is all the wire carries, may recur. Within a boot that does no
harm, because the request counter goes on; a reboot starts the counter over, and if its
random draw hits a generation for which the Host keeps a floor, the first presses are
taken for repetitions. This is a chance of about one in a million per remembered
generation, and the one exception of `FloorBehindKeyboard` (`DrawnAgain`).

**VoiceCapture.** A frame is its sequence number, so that a capture can be compared
with the recording. Datagrams that fail authentication are dropped before the
model. Retired sessions are remembered up to `MaxRetired` (128 in the code): the
model has fewer sessions than places, as the code has within the lifetime of a
datagram. When the keyboard has to open a new socket in mid-stream its source port
changes and the Host refuses the rest of the capture; the model has this, and the
recording is lost but closed.

**SoundAssetStore.** A bank is header, parts (manifest and blocks) and commit
record; a region is erased, torn, or what was written. `op` is the store call under
way, one action per flash step; `StepFails` and `PowerLoss` leave any state in
`Cuts`, the whole of the step included, because the code's comments rely on a
backend that may finish and still report an error. The session in front of the
store imposes no order, so the client may make any call at any time.

**RolloutObserver.** A file is a sequence of pieces, the amount one read returns,
each marked with the version of the file it was written in; a record has one or more
of them. A poll is split wherever it reads after it checked: open, checks of the pending
scan, checks of the cursor, anchors of the new scan, each piece, check before the
verification, each piece of the verification, check, commit, anchors after it, anchor of
a parked scan. Codex can append, cut, overwrite or replace the file between any two.
Most of these changes meet a later check. Three windows have none, and `raced` remembers
when one of them met a changed file:

- `commit`: `commit_verified_completion` takes the anchor of the new cursor after the
  verification has read its last byte;
- `trust`: `fresh_scan` checks boundary and anchor (`rollout_observer.rs:742-747`) and
  reads the anchors of the scan afterwards (`:769-779`); the same after a commit;
- `park`: the anchor of a scan that is kept is read after its pieces, and
  `validate_trusted_range` compares only the ends of what was read: a scan may be kept
  whose pieces are no longer in the file.

A change in the first two gives a cursor or a scan that agrees with a file it was not read
from, so `NothingSkipped` excludes them (the test at `rollout_observer.rs:2553` rewrites the
file before the verification, the one at `:2523` between two polls). A change in any of
the three may delay a turn until the file changes again, so `AnswersGetCommitted` excludes
them too. Changes everywhere else, inside a poll or between polls, are in both.

A line that does not parse, or a turn whose pack exceeds `MAX_SERIALIZED_TURN_PACK_BYTES`
(`TurnPackTooLarge`, `:711`), fails the poll. The next poll starts again from the cursor
and fails at the same place, for ever: later turns of that file are not committed.
`AnswersGetCommitted` claims nothing of them; it says that the turns before are committed
all the same (`ReadableTurns`).

**RecordParser, TextFilter.** Pure operators. A line is a sequence of tokens; a text
is a sequence of byte classes or of characters with widths. `StreamedLikeSerde` says that
the streaming parser accepts a line exactly when it is a JSON object within the limits
(nesting, keys and small fields of 256 bytes, atoms of 64 bytes) and that the observer
then finds what serde would have given it, with one exception that the property spells
out (`StreamedParts`): of a message's `content` the streamed line has the objects among
the elements, up to `MAX_STREAM_CONTENT_PARTS`, and no content at all when there is none,
so that an empty array is refused (`rollout_observer.rs:1243`, `:993`) where serde accepts it.

A streamed text is captured character by character, in a head and a tail, and shortened
once more by `push_message`. `TextsKept` says what is kept of texts of mixed widths: the
text, or its ends with the marker between them; in a captured text some narrow characters
may have moved before the wide one they followed. That this happens to texts that need no
shortening is the finding `streamed_text`. `push_message` redacts between the two
shortenings, so redaction sees what the capture kept; the redaction itself is a set of
patterns and is not modelled.

**SparkRun.** A run is a record of its directory, lock, supervisor, child and stage
in its Host; Hosts and supervisors die at any step. Killing a process group is one
step. Excluded: a supervisor and its Host dying within the same 10 ms poll, and on
Windows a Host that dies between the start of the child and `JobObject::attach`
(`windows_spark_runner.rs:160`), which leaves the child running. The limit of 64
directories per sweep is not reached. The sandbox profile, the command line flags and
`verify_spark_prompt_isolation` are not modelled.

**SpeechCall.** Every answer in `Replies` may come to every request, and every event
in `Events` to every session. Texts are sequences of letters, full stops and
newlines, enough to tell where they are cut. `sent` lists the requests that may have
been billed. The summary worker uses the HTTP form without chunks; the WebSocket form
is reached only with a test target, and is modelled because it is the form whose
events have an order. A request that is too large to be sent ends in `InvalidRequest`. The closing handshake is left out.

**CacheFiles.** A directory entry is in the page cache at once and on disk after
`sync_directory` (that of macOS and Linux); a power loss leaves any subset of what was
not synced. `adopted` marks a generation that was referenced although a directory that
names it was not synced: `publish_or_verify_with` accepts an object that a former
attempt left, and only the content is verified; and `publish_observed` syncs the root
only for a task directory that it made itself, so that what a failed attempt made stays
unsynced. `ReferencedIsWhole` excludes these generations, until a later sync settles
them. The key marker shares the exception: if the process is killed between the rename
of the marker and its sync, and the first publication then fails before it syncs the
root, the next one commits a reference while neither the marker nor the task directory
is sure to be on the disk.
Encryption is abstracted to objects that are whole or not. `RetireOrphan` takes the rename
or removal of an orphan and the sync of its parent (`cache.rs:722-730`) as one step: an
orphan is unreferenced, so what a power loss between the two leaves is one more orphan.

**CodexCatalog.** SQLite's log is modelled from its format: commits append frames,
checkpoints copy pages one at a time, the log restarts under a new salt. Versions of a
page never repeat, commits append in one step. `history` holds the committed states of
the database; project labels are left out. A log that outgrows its limit while it is copied
or verified ends the read (`Outgrown`). Two properties share the question whether a
list is right: `CatalogIsOneMoment` says that what was copied is one state of the database
and that the list is the one the code makes of it, `ListIsRight` that this list is as it
should be: the pins first, as the sidebar orders them (`Above`), none crowded out by one
below it, then the most recent tasks, each once. Its reference is written from what a list
may be, not from how the code sorts.

**HostSocket, LaunchAgent.** Unix only. `binds` remembers which call bound the slot, so
that what a caller was told can be compared with what was done. The branches for a
socket whose identity changed under its owner are unreachable, because the store's
lock keeps a second Host from starting. A Host that ends takes with it what its client
threads had not written and what waits in its channel; a thread that outlives the main
loop gets no answer from it. Temporary names a dead Host leaves are not
tracked. One deployment at a time (the management lock); launchd unloads at once when
asked; calls of `launchctl` that fail during a removal are left out. A Host may end by
itself while the service is loaded, and launchd then starts another.

Three assumptions: the identity of a socket (`dev`, `ino`) is not given to a later one while
a caller still compares it (`health.rs:1395`), which some file systems do not promise;
`wait_stopped` (`launch_agent.rs:267-277`) returns when the service is unloaded and the
socket has been absent for 250 ms, and the model takes it that a Host that is still
starting publishes its socket within that time; `wait_healthy` returns at the first answer
of the wanted version (`:329-337`) and needs no assumption.

A bind is made before the dashboard of its answer is built. `ToldIsDone` is about the
answers given before or in place of the binding (`Refusals`); of the two that come after it
(`catalog_failed`, `state_failed`) the finding `bind_rejected` shows that they do not mean
what they say.

`MCHostServices` and `MCProgress` extend several modules that share no state: `part`
chooses one and only its variables change. `MCHostServices` checks safety, `MCProgress`
what has to come to an end. In `MCHostServices` the ledger has arbitrary callers, in
`MCSummaryPipeline` the real ones; `SummaryPipeline` has the order in which run, speech and cache are used and
what a failure of one does to the claim.

## 3. Runs

| Run | Instance | Shows |
|---|---|---|
| `pipeline` | 1 task, 3 completions and generations, 2 faults, 2 restarts, 1 unreadable object, 2 playbacks | audio of every unread summary is in the cache and tells exactly what it covers; heard means told; a summary leaves the mailbox only when heard or replaced; leases end |
| `progress`: summaries | 2 completions, 1 fault, 1 restart, nothing heard | every completion is summarised |
| `progress`: runs | 2 Hosts, 2 runs, 2 deaths, 3 platforms | runs keep apart and children end |
| `progress`: captures | 2 recordings of up to 3 frames, 1 place, 2 sockets | captures close |
| `pipeline_stuck` | 2 completions, 1 playback, no faults | the first finding below |
| `queue` | 2 tasks and slots, 3 prompts, 2 process ends, at most 2 pending and 2 running | FIFO per task, one child per task, no repetition without interruption, every prompt settles |
| `playback` | 2 slots, 1 chunk, 2 presses, 1 recording, 2 route lifetimes; or no recording, 1 press per boot, 3 route lifetimes over 2 generations and 1 keyboard fault (`Sparing`) | the ends agree, a recording silences playback, no collision of the Host's threads, nothing plays over a foreign route; the Host's floors stay behind the keyboard's count over changes of route, recurring generations and a reboot |
| `playback_faults` | 1 slot, 3 chunks, window 2, 1 keyboard fault, 2 Host faults (a refusing socket among them) | only drained audio is heard, leases end unless the Host's socket holds them, the keyboard comes to rest |
| `sound_store` | 3 generations, a good and a malformed bundle, 2 blocks, 1 reader, 3 mishaps | confirmed bundles survive, readers keep their bank, the RAM selection is never stale, the store never wedges |
| `rollout` | 2 scripts of two turns, one of them too large, with 1 restart or rebinding; 2 scripts with tools, messages, a failed turn and a line that does not parse; lines of 1 or 2 pieces with `MaxLine` 1, `Budget` 3, 1 change of the file | no answered turn is skipped; every answered turn before the first unreadable line is committed; a committed turn was in the file as a whole |
| `rollout`: lines and texts | token lines of up to 6 tokens; documents with repeated, nested, empty and over-long fields; texts of up to 6 characters of 1 to 3 bytes | the streaming parser accepts and reads what it should; texts keep their ends |
| `streamed_text` | as `rollout` | the third finding below |
| `host_services`: ledger | 1 task, 2 slots, 3 completions, 3 generations, 2 leases, claims of at most 2 | no completion lost or covered twice, no unique index hit, leases and claims consistent, heard is final, the mailbox is implemented |
| `host_services`: speech, cache | texts of up to 6 characters, 3 attempts; 2 generations, 3 directories, 2 mishaps | the audio is the whole text and nothing else; what the ledger refers to stays whole |
| `host_services`: capture | 2 recordings of up to 5 frames, gap limit 1, 1 place, 2 sockets | time axis, length, one hand-over |
| `host_services`: catalog | 4 tasks, lists of 2 pinned and 2 recent ones, 2 pages, 3 versions, 2 logs, 2 readers | a catalog is one state of the database and its list is right |
| `host_services`: socket, deployment | 1 Host process, 2 callers, 1 place in the channel, 2 breaks; 2 deployments | what a caller is told is what was done; what a deployment reports is what is installed and runs |
| `tts_billing` | the HTTP form alone | the second finding below |
| `bind_rejected` | the socket alone | the fourth finding below |

Why these bounds are enough to be interesting: three generations let a summary be
superseded while the one before is being played, and a bank be reclaimed after two
commits; two restarts cover a crash in the recovery of a crash; a window of two
with three chunks has a full, a partial and a last window; one place for two
captures makes the limit bind; three mishaps reach "block arrived unnoticed, marker
arrived unnoticed, power lost while the block is repeated", which
`LeasesReadable` depends on (`PayloadVerified`). A line of two pieces with `MaxLine` 1
is streamed, and a turn longer than `Budget` is verified over several polls; one change
falls between any two of them. Two mishaps kill a publication and lose power while the
next one adopts what it left (the lost marker takes a third, which the theorem
covers); lists of two with three candidates have an order and a task that is left out;
three route lifetimes have a press before a reboot, and after it one on a new and one on
a recurring generation; two callers and one place in the channel make a request
wait behind another until its deadline.

Deadlock is not checked in these runs: the bounded inputs (presses, recordings,
completions, failures) run out, and the system then rests.

### Fairness

- `PromptQueue`: the daemon's loop ticks, and every child ends (the runner's
  deadline kills one that does not).
- `SummaryPipeline`: worker and daemon threads are scheduled; the worker's scan
  goes round the tasks, so strong fairness per task; the transport ends every
  playback it started (retries and the finish deadline are finite, shown by
  `PlaybacksEnd`).
- `LanPlayback`: both loops turn, queued events and commands are handled, a speaker
  told to stop stops. Nothing about the network, the keys or the user, nor that a socket
  that refuses to send ever sends again.
- `VoiceCapture`: timers fire, queues are emptied. Nothing about the network.
- `RolloutObserver`: the observer thread polls again and again. Nothing about Codex.
- `SparkRun`: every step of a run whose Host lives is taken (the deadline ends a run
  that Codex does not end), and supervisors and the kernel do their part when it does
  not live. Nothing in `host_services` needs fairness.
- `SoundAssetStore`: a call that began goes on, readers release. The client is not
  part of this repository's firmware: `StoreNeverWedges` is about one that
  persists.

### Findings

`pipeline_stuck`: `execute_claim` returns the `SummaryClaimChanged` of
`publish_summary` without abandoning its claim (`summary_orchestrator.rs:292`). If
the previous unread summary is heard while the next is being generated, the
publication is refused and the row stays `generating`; every later run answers
`SummaryBusy`, and after a restart the interrupted claim cannot be loaded. The task
gets no summaries until `summary-abandon-slot` is run by hand. No completion is
lost (`NoCompletionLost` holds), but none is told. `progress` therefore
checks progress for behaviours in which nothing is heard meanwhile.

`tts_billing`: `synthesize_http_once` prepares the TLS configuration and the proxy for
the download after the POST was answered, and maps a failure of this preparation to a
retryable error (`dashscope.rs:694`). `synthesize` then submits the same text again,
although the comments at `dashscope.rs:853` and `:1436` and the error text at `:495` say
that a submitted request must not be repeated. `SpeaksTheText` holds all the same: the
audio that is used belongs to the last submission. Over the WebSocket no text is
submitted twice.

`streamed_text`: `BoundedCapture::push` (`rollout_observer.rs:1401`) puts a character into the
head of a captured text whenever it fits there, also after a wider one did not fit and went
to the tail. In a line that is streamed, a text with wide and narrow characters around the
end of the head (about 4 KiB) is stored with the narrow one first, even if it needs no shortening; in a
line that is parsed it is stored as it is. The test at `:2797` says that a streamed text is
the text that was written.

`bind_rejected`: `process_control_request` commits the binding and then builds the dashboard
for the answer (`health.rs:724`). If the catalog or the store fails there, the caller gets
`HealthError::Rejected` ("Host rejected the request", `health.rs:93`), which the desktop shows
as `binding_rejected` (`src-tauri/src/main.rs:116`): the slot is bound all the same, and a
second attempt with the same generation is stale.

Observed while modelling, without a property:

- A task whose directory is `/` gets an empty project label
  (`codex_catalog.rs:541`), and `validate_dashboard` (`health.rs:1046`) rejects the
  whole dashboard because of it.
- A Host that was killed leaves its socket, and `wait_stopped` waits for the socket to
  go (`launch_agent.rs:263`, `:423`): the deployment times out, and the roll-back fails
  in the same way with the service unloaded. An `UnsafeSocket` seen during the restart
  ends `wait_healthy` at once (`launch_agent.rs:350`).
- The cache is reconciled only after a playback that finished (`health.rs:518`), and one
  reference without its directory makes every later reconciliation fail.

Two places where the documents and the code differ, and the models follow the code:
`docs/协议草案.md:35-36` describes stop-and-wait, the Host sends a window of chunks
(`lan_voice.rs:1000`); `docs/协议草案.md:20-21` and `docs/总体方案.md:55` say that
recordings with missing frames are not transcribed, the assembler fills short gaps
with silence (`lan_voice.rs:1209`).

## 4. Proofs

Every theorem holds for all values of the constants that satisfy the named assumptions
of the modules; these say only that limits are numbers, that a limit the code fixes
above zero is above zero, and that sentinels ("no task", "no request", "erased") are
none of the values they stand beside. The runs' constants satisfy them, and TLC
evaluates them in every run.

| Proofs | Assumptions | Theorems about checked properties |
|---|---|---|
| `SummaryLedgerProofs` | `LedgerConstants` | `IndexesNeverFire`, `NoCompletionLost`, `WorkInHandConsistent`, `HeardIsFinal`, `ImplementsMailbox` |
| `SummaryPipelineProofs` | `LedgerConstants` | `RetainedIsCached`, `AudioTellsCoverage`, `HeardWasTold`, `UnreadLeavesOnlyWhenHeardOrReplaced`, `ImplementsMailbox` |
| `GenerationProofs` | `SparkConstants`, `SpeechConstants` (and `SplitsWhole`, below) | `ReferencedIsWhole`, `RunsKeepApart`, `SpeaksTheText` |
| `HostProcessProofs` | `SocketConstants`, `DeployConstants`, `CatalogConstants` | `ToldIsDone`, `DeployIsWhole`, `CatalogIsOneMoment` |
| `PromptQueueProofs` | `QueueConstants` | `ChildrenAgree`, `FifoPerTask`, `SubmittedOncePerRecovery` |
| `LanPlaybackProofs` | `TotalAssumption`, `LanWireSentinels`, `NoCaptureAssumption`, `PrebufferAssumption`, `DeviceBounds`, `WindowAssumption`, `HostBounds`, `NoTransferAssumption` | `EndsAgree`, `RecordingSilencesPlayback`, `HeardWasDrained`, `FloorBehindKeyboard` |
| `VoiceCaptureProofs` | `CaptureAssumption` (and `RemembersAll`, below) | `TimeAxisKept`, `CompletedWasEnded` |
| `SoundAssetStoreProofs` | `SoundStoreAssumption`, `SoundStoreSentinels` | `ToldIsDurable`, `LeasesReadable`, `SelectionHonest` |

Each module has the same plan: an inductive invariant, one lemma per action or group of
actions that it is kept, one theorem `Spec => []Inv`, and the properties from it. TLC
checked every inductive invariant on the instances of section 3 before it was proved.

**SummaryLedger.** `IInv` is `TypeInv`, `TaskInv` of each task and `LeaseInv`. None of
the checked invariants is inductive alone. That the current unread row is unique needs
that a publication's precondition names *the* current row; that nothing is lost needs
that what an open claim covers is still pending and that superseded rows own nothing;
that a superseded row may stay `leased` is why leases need an invariant of their own:
each names a row in state `leased` and every leased row is named. Claims cover an
initial segment of the pending completions, which the refinement needs.
`HeardStaysHeard` is an action property, step by step from `IInv`. `Refinement` is
`Spec => Box!Spec` under `MailboxStatus`: recording a completion is `Arrive`, publishing
is `Publish`, finishing is `Hear` if the row is still the current one and a stutter if it
was superseded during its playback, everything else stutters. (`TypeOK` is
checked as a part of `IndexesNeverFire`; `UnreadCovers` and the two parts of `WorkInHand` have no
runs of their own.) The proofs share `Calm`, a
change of one row that disturbs no invariant of its task, and `FrameTaskInv`, tasks whose
rows and completions do not change.

**SummaryPipeline.** Every step of the Host is a step of the ledger or leaves it alone,
so `IInv` comes for free and `PipelineInv` adds the Host. `ObjectsTell` is its core: an
object in the cache tells what its row covers or, before it is published, what it *will*
cover, which is what a later attempt that finds the object relies on. This needs
`Extending` (the row that a claim extends keeps its coverage while the claim is open) and
`DocumentTells` (what is in the worker's hands, by its place). `HeardWasTold` needs
`Playing`: what a lease was given to the keyboard with is what hearing it will mark, even
if the row is replaced meanwhile. Steps of the ledger that neither publish nor open a
claim are treated once (`MildStep`). `PipelineImplementsLedger` states the first sentence as
a refinement: the variables of the ledger are those of the pipeline, and every step of the
threads, every crash and every clean-up is a step of `SummaryLedger` or a stutter. With
`Refinement` the Host implements the mailbox (`PipelineRefinement`).

**CacheFiles.** `CacheInv` says of every entry what a power loss may leave: a directory
that may turn up under its final name has all three objects on the disk (`SoundDir`), a
task directory that is synced has the marker synced with it (`MarkerSound`), and a
reference outside the exception is `Settled`, that is, has one entry on the disk at every
level, which is what a power loss cannot change. `WorkerAt` and `DaemonAt` say what the
two callers hold: the directory under construction is temporary until its objects are
synced, and what the clean-up lists is temporary or unreferenced, which stays so because
references are added only under the gate. The attempt to prove an earlier form of
`ReferencedIsWhole`, in which the marker had no exception, failed in the step of the
power loss; with three mishaps TLC shows the behaviour described in section 2.

**SparkRun.** `RunsKeepApart` is about children; `SparkInv` is about locks. `Holds` says by
which process the lock of a run is held on each platform after its Host was lost: its
supervisor on macOS, the child that inherited it on Linux, nobody on Windows, where the job
object ends the child with the Host. `RunSound` then says that a child lives only under a
held lock and in a directory that is still owned, and no two runs of one task hold it. A
step shows that the runs it changes go on (`GoesOn`): they are sound and took no lock.

**SpeechCall.** `CallGood` has one part for each chunk before the one at hand, `SentGood`
that each part is of the last request for its chunk (over the WebSocket, of the only one),
and `SessionGood` that what a session has heard is the beginning of one response
(`EventAt` gives each place its event), so that audio is complete when `response.done` is
accepted. `SpeaksWhole` has the hypothesis `SplitsWhole` for the texts of the constant
`Texts`: that `split_tts_text` loses and adds nothing. This is induction over data and out
of the prover's reach; `MCHostServices` evaluates it for every text of up to seven letters,
full stops and newlines (`MCSplits`), with chunks of at most four.

**HostSocket, LaunchAgent.** `SocketInv` orders sockets by when they were bound: the newest
belongs to the process that holds the lock, and a call sees them in order (`Looks`), so
that a connection made between two equal looks at the path is to the Host of both.
`Answers` follows the request of a call: it is in the queue or made, never both, only after
it was sent, and not after it was refused. Two steps of an earlier model did not keep it,
and the source decided: a reply that was not written is lost with its process, and a thread
whose main loop has ended refuses what it cannot forward. `DeploySound` says what is
installed and loaded at each stage of a deployment and of its roll-back, and from the health
check on every process that serves is of the installed version (`AllCurrent`): this is what
the wait for the old Host's socket to go is for.

**CodexCatalog.** Nothing a reader sees while it copies is a state of the database; the
proof is that verification finds one. `DatabaseGood` says that the main file and the frames
that count make the last state, and that pages and versions only grow. When the last frame
was copied the database had a state that the reader cannot know; `Moment` keeps it as a
witness between what was copied and what is on the disk now: copies are no newer than it,
and the files are no older (`Later` for logs, in which frames are written over but only with
later versions). A page or frame that is read again and is equal is then equal to the
witness too, and once all were compared the copies are this state (`Exact`). `LockGood` is
about the private copy: who is past the clean-up holds the lock and has the only snapshot.

**PromptQueue.** `FifoPerTask` and `SubmittedOncePerRecovery` are part of `QueueInv`, and
rest on `Attended` (worker threads and running rows are the same, so a second claim of a
task finds its row running), `Delivered` (a result in the channel is the only one of a
worker still in the map, so draining it settles the right row) and `Counted` (how often
a prompt reached Codex, by where it is).

**LanPlayback.** `LanInv` has a part for each actor. `NetTrue` says of every datagram ever
sent what it still proves on arrival: an acknowledgement is of no more than the keyboard
now holds, because a playback is begun once and its request never waits again
(`DeviceKnows`, `RequestOf(m.id) # slots.pending`); an EIPF is of audio that was drained.
`Known` bounds the request numbers of every route lifetime of this boot by the keyboard's
count, and `RoutesTold` says that the present route is one of this boot; together they give
`FloorBehindKeyboard` across reboots and recurring generations. `ThreadsAgree` is about the two channels between
the daemon and the ingress thread and is what `StartFindsRoom` needs: between any
playback that is live in the ingress thread, now or after the commands before, and a
later start there is its cancellation (`CancelledBefore`); the daemon can promise this
because what it has not cancelled it still has as active (`CancelledOrActive`), although
it may hear late, or never, that it ended. Steps of the keyboard need only show
`DeviceInv'` and `DeviceMoves`, and `DeviceMovesOn` carries the rest; steps of the Host
are grouped by the queue they touch (`ThreadStill`, `PoppedAgrees`, `DaemonAgrees`).

**VoiceCapture.** `TimeAxisKept` is inductive with `Growing`: a capture in progress ends
with a frame that arrived, so that filling the next gap does not lengthen a hole.
`CompletedWasEnded` includes that nothing is handed on twice, and this holds only while
`retired` remembers every session whose datagrams may still arrive. The code keeps 128
of them; a 129th recording within the lifetime of a datagram would forget the first.
`HandedOnOnce` therefore has the hypothesis `RemembersAll` (no more sessions than
places), which the instance of the run satisfies; `TimeAxis` does without it.

**SoundAssetStore.** `ToldIsDurable` is about what a scan would find, so `StoreInv` says
what every bank may hold at every step of an operation: a commit record is only in a
bank whose payload is whole (`BanksSound`), two committed bundles are of consecutive
generations (`Successive`), and the bank that is not being written holds what the update
replaces (`Targeted`). An operation that failed may have done its work; `Staged` and
`StepReady` say what a repetition may then overwrite. `SelectionKept` ties the snapshot
in RAM to the flash outside the bank under work.

Only model-checked:

- the liveness properties, which need fairness and ENABLED;
- `StreamedLikeSerde`, whose reference is a RECURSIVE operator, and `TextsKept`, whose
  operators are folds over the characters of a text;
- `PacksAreWhole` and `NothingSkipped`: a turn is what a fold over the records of the file
  makes of it, and that the fold over a scan in pieces is the fold over the whole is
  induction over the file;
- `ListIsRight`, which is about filtered and sorted sequences of tasks, and `SplitsWhole`:
  induction over data again.

The four violations are counterexamples and need no proof.

## 5. Not modelled

Cryptography, encodings and audio samples (a datagram, an object or a bundle that
authenticates is what its sender wrote); what the language and speech services say;
SQLite itself (the Host's transactions are atomic and durable; Codex's log is modelled
only as the catalog meets it); the sandbox of the Codex child; the Windows endpoint of
the Host, credentials, provisioning and path checks; `validate_dashboard`; the desktop
application; the redaction of turn texts; the sound assets service in front of the store; the HID input path; audio
arbitration behind the speaker; configuration, power and indicators.

## 6. Plan

In order:

1. `SoundAssetsService`: session, runtime and flash runner around
   `SoundAssetStore`: requests and completions in flight, pauses for audio,
   disconnects in the middle of an action, the Wi-Fi supervisor.
2. `HidInput`: report queues, BLE scheduler, held keys and transport routing; no key
   stays down, reports keep their order across a change of transport.
3. `AudioArbitration`: codec ownership, power leases, recording and playback tasks,
   which replaces the external speaker of `LanDevice`.
4. Configuration receiver; power policy.
