-------------------------- MODULE SoundAssetStore --------------------------
(***************************************************************************)
(* The keyboard's sound bundles in flash (sound_asset_store.cpp): two      *)
(* banks, one of them active, an update staged in the other and made       *)
(* active by writing its commit marker last.                               *)
(*                                                                         *)
(* A region of a bank is erased, torn by an interrupted erase or write, or *)
(* holds what was written.  Digests and CRCs tell contents apart, so a     *)
(* region written for a bundle is that bundle.  Erases and writes are      *)
(* steps of their own: each may fail with any part of it done, and the     *)
(* power may go at any of them.  One owner calls the store, so an          *)
(* operation that has begun is not interleaved with another.               *)
(***************************************************************************)
EXTENDS Integers, FiniteSets

CONSTANTS Bundle,
          Malformed,      \* bundles whose manifest does not validate
          Blocks,         \* payload blocks of a bundle
          MaxGeneration,  \* the last value of the generation counter
          MaxLeases,      \* kSoundMaximumReadLeases
          Erased, Torn,
          None, Split, Blank, Unscanned,
          MaxMishaps      \* bound: failures, power losses, abandoned updates

ASSUME SoundStoreAssumption ==
  /\ Malformed \subseteq Bundle
  /\ Blocks \in Nat
  /\ MaxGeneration \in Nat \ {0}
  /\ MaxMishaps \in Nat

VARIABLES flash,     \* bank -> [header, part, commit]
          scanned,   \* sel comes from a strict scan
          sel,       \* bank -> the plan committed there, or None
          read,      \* what reads are served from
          update,    \* the transaction in RAM
          leases,    \* read leases
          op,        \* the operation under way and its next flash step
          told,      \* the last plan a client was told is active (history)
          mishaps

selection == <<scanned, sel, read>>
vars == <<flash, selection, update, leases, op, told, mishaps>>

Bank == {"A", "B"}
Other(b) == IF b = "A" THEN "B" ELSE "A"

\* The manifest is part 0, the payload blocks follow it.
Part == 0..Blocks

\* SoundBundlePlan: what to store, and the generation and bundle it replaces.
\* The transaction id is derived from it, so a plan stands for both.
Plan == {p \in [base : 0..(MaxGeneration - 1), baseBundle : Bundle \cup {None},
                bundle : Bundle] :
           (p.base = 0) <=> (p.baseBundle = None)}

Gen(p) == p.base + 1

\* A commit record is written in stages: 1 the body is incomplete, 2 it lacks
\* its marker, 3 complete.
Complete == 3
Record == [plan : Plan, stage : 1..Complete]

\* A bank and the plan committed there.
Chosen == [bank : Bank, plan : Plan]

\* What stands for "no value" is not a value.
ASSUME SoundStoreSentinels ==
  /\ None \notin Bundle \cup Plan \cup [bank : Bank, plan : Plan, done : SUBSET Part]
  /\ {Erased, Torn} \cap (Bundle \cup Plan \cup Record) = {}
  /\ {None, Split, Blank, Unscanned} \cap Chosen = {}
  /\ None \notin {Split, Blank, Unscanned}

BlankBank == [header |-> Erased, part |-> [i \in Part |-> Erased], commit |-> Erased]

NoBanks == [b \in Bank |-> None]
NoLeases == [l \in 1..MaxLeases |-> None]
Idle == [step |-> "idle"]

Init ==
  /\ flash = [b \in Bank |-> BlankBank]
  /\ scanned = FALSE
  /\ sel = NoBanks
  /\ read = Unscanned
  /\ update = None
  /\ leases = NoLeases
  /\ op = Idle
  /\ told = None
  /\ mishaps = 0

-----------------------------------------------------------------------------
(* What the banks say.                                                     *)

\* decode_commit
Decoded(k) ==
  IF k.commit \notin {Erased, Torn} /\ k.commit.stage = Complete
  THEN k.commit.plan ELSE None

\* validate_sound_bank_read_candidate
Authentic(k) == Decoded(k) # None /\ k.part[0] = Decoded(k).bundle

\* validate_sound_bank
Committed(k) ==
  IF /\ Authentic(k)
     /\ \A i \in Part : k.part[i] = Decoded(k).bundle
     /\ Decoded(k).bundle \notin Malformed
  THEN Decoded(k) ELSE None

Strict == [b \in Bank |-> Committed(flash[b])]

At(b, p) == [bank |-> b, plan |-> p]

\* select_sound_banks
Select(s) ==
  LET a == s["A"]
      b == s["B"]
  IN  IF a = None /\ b = None THEN None
      ELSE IF b = None THEN At("A", a)
      ELSE IF a = None THEN At("B", b)
      ELSE IF Gen(a) = Gen(b) + 1 THEN At("A", a)
      ELSE IF Gen(b) = Gen(a) + 1 THEN At("B", b)
      ELSE IF Gen(a) = Gen(b) /\ a.bundle = b.bundle THEN At("A", a)
      ELSE Split

IsActive(r) == r \notin {None, Split, Blank, Unscanned}

NothingWritten == \A b \in Bank : flash[b].commit = Erased

\* read_selection_disposition
Readable(s) == IF Select(s) = None /\ NothingWritten THEN Blank ELSE Select(s)

\* scan_committed_content: commit records first, then only the manifest of the
\* one they prefer.
QuickRead ==
  LET decoded == [b \in Bank |-> Decoded(flash[b])]
      authentic == [b \in Bank |-> IF Authentic(flash[b]) THEN decoded[b] ELSE None]
      preferred == Select(decoded)
  IN  IF NothingWritten THEN Blank
      ELSE IF IsActive(preferred) /\ authentic[preferred.bank] # None THEN preferred
      ELSE Select(authentic)

\* The selection an operation works from: it scans if nothing is known.
Known == IF scanned THEN sel ELSE Strict

Learn ==
  /\ scanned' = TRUE
  /\ sel' = Known
  /\ read' = IF scanned THEN read ELSE Readable(Strict)

\* After a failure that may have changed the flash, nothing is known.
Forget ==
  /\ scanned' = FALSE
  /\ sel' = NoBanks
  /\ read' = Unscanned

\* target_is_pinned
Pinned(b) == \E l \in DOMAIN leases : leases[l] # None /\ leases[l].bank = b

\* Mutant of Target: an update goes where the active bundle is.
TargetActive(s) == IF s = None THEN "A" ELSE s.bank

\* The bank an update of the active bundle s goes to.
Target(s) == IF s = None THEN "A" ELSE Other(s.bank)

\* The plan replaces what is active now.
Based(p, s) ==
  IF s = None THEN p.base = 0
  ELSE p.base = Gen(s.plan) /\ p.baseBundle = s.plan.bundle

\* What BEGIN, RESUME and RECOVER check before they look at the staged header.
Applicable(p, b) ==
  LET s == Select(Known)
  IN  /\ op = Idle
      /\ update = None
      /\ s # Split
      /\ Based(p, s)
      /\ b = Target(s)
      /\ ~Pinned(b)

\* load_staging_header: progress is what the flash holds.
Loaded(b, p) ==
  [bank |-> b, plan |-> p, done |-> {i \in Part : flash[b].part[i] = p.bundle}]

-----------------------------------------------------------------------------
(* The calls of a client.  A refused call changes nothing beyond Learn.    *)

Do(step, b, p) == op' = [step |-> step, bank |-> b, plan |-> p]

\* scan, by itself or before a call that is then refused
Scan ==
  /\ op = Idle /\ update = None /\ ~scanned
  /\ Learn
  /\ UNCHANGED <<flash, update, leases, op, told, mishaps>>

\* Mutant of Reclaimable: the staging of a past generation is respected.
ReclaimableUnlessStaged(b) == Known[b] # None \/ flash[b].header = Erased

\* The staging of b can no longer become current: there is none, or it is of a
\* generation that has passed, or the bank holds an older bundle.
Reclaimable(b) ==
  LET s == Select(Known)
      h == flash[b].header
  IN  \/ Known[b] # None
      \/ h = Erased
      \/ h \notin {Erased, Torn} /\ s # None /\ Gen(h) <= Gen(s.plan)

\* begin_or_resume_update that goes on to begin_new_update
Begin(p, b) ==
  /\ Applicable(p, b)
  /\ Reclaimable(b)
  /\ Do("eraseCommit", b, p)
  /\ Learn
  /\ UNCHANGED <<flash, update, leases, told, mishaps>>

\* resume_update, or begin_or_resume_update that finds its own plan staged; of
\* the banks resume_update tries only the target can hold a plan with this base
Resume(p, b) ==
  /\ Applicable(p, b)
  /\ Known[b] = None
  /\ flash[b].header = p
  /\ update' = Loaded(b, p)
  /\ Learn
  /\ UNCHANGED <<flash, leases, op, told, mishaps>>

\* discard_invalid_staging
Discard(p, b) ==
  /\ Applicable(p, b)
  /\ Known[b] = None
  /\ flash[b].header = Torn
  /\ Do("eraseBank", b, p)
  /\ Learn
  /\ UNCHANGED <<flash, update, leases, told, mishaps>>

WritePart(i) ==
  /\ op = Idle /\ update # None
  /\ i \notin update.done
  /\ op' = [step |-> "erasePart", bank |-> update.bank, plan |-> update.plan, part |-> i]
  /\ UNCHANGED <<flash, selection, update, leases, told, mishaps>>

WriteManifest == WritePart(0)
WritePayloadBlock(i) == WritePart(i)

Arrived(i) == flash[update.bank].part[i] = update.plan.bundle

\* Mutant of PayloadVerified: the flags are left as they were.
PayloadTrusted == update.done

\* verify_all_payload_blocks sets the flag of every block it finds.
PayloadVerified == update.done \cup (Part \ {0})

\* commit_update that passes its checks, the manifest's among them
Commit ==
  /\ op = Idle /\ update # None
  /\ \A i \in Part : Arrived(i)
  /\ update' = [update EXCEPT !.done = PayloadVerified]
  /\ IF update.plan.bundle \in Malformed THEN UNCHANGED op
     ELSE Do("writeBody", update.bank, update.plan)
  /\ UNCHANGED <<flash, selection, leases, told, mishaps>>

\* commit_update that finds a block missing
CommitTooEarly ==
  /\ op = Idle /\ update # None
  /\ Arrived(0)
  /\ \E i \in Part \ {0} :
       /\ ~Arrived(i)
       /\ \A j \in 1..(i - 1) : Arrived(j)
       /\ update' = [update EXCEPT !.done = (@ \cup 1..(i - 1)) \ {i}]
  /\ UNCHANGED <<flash, selection, leases, op, told, mishaps>>

\* refresh_selection_after_commit succeeds: the update is the active bundle.
NowActive == Select(Strict) = At(update.bank, update.plan)

\* abort_update: past the marker there is no way back.
AbortCommitted ==
  /\ op = Idle /\ update # None
  /\ NowActive
  /\ scanned' = TRUE /\ sel' = Strict /\ read' = Select(Strict)
  /\ update' = None
  /\ UNCHANGED <<flash, leases, op, told, mishaps>>

\* Mutant of Abort: the marker is not looked for.
AbortBlindly ==
  /\ op = Idle /\ update # None
  /\ IF update.plan.bundle \in Malformed THEN UNCHANGED mishaps
     ELSE mishaps < MaxMishaps /\ mishaps' = mishaps + 1
  /\ Do("eraseHeader", update.bank, update.plan)
  /\ UNCHANGED <<flash, selection, update, leases, told>>

Abort ==
  /\ op = Idle /\ update # None
  /\ Committed(flash[update.bank]) = None
  /\ IF update.plan.bundle \in Malformed THEN UNCHANGED mishaps
     ELSE mishaps < MaxMishaps /\ mishaps' = mishaps + 1
  /\ Do("eraseHeader", update.bank, update.plan)
  /\ UNCHANGED <<flash, selection, update, leases, told>>

\* query_current_active always looks at the flash.
QueryCurrentActive ==
  /\ op = Idle
  /\ LET s == Select(Strict)
     IN  /\ IF s = Split THEN Forget
            ELSE scanned' = TRUE /\ sel' = Strict /\ read' = Readable(Strict)
         /\ update' = IF update # None /\ s = At(update.bank, update.plan)
                      THEN None ELSE update
         /\ told' = IF IsActive(s) THEN s.plan ELSE told
  /\ UNCHANGED <<flash, leases, op, mishaps>>

\* acquire_active_read, with scan_committed_content if nothing is known.
Acquire(l) ==
  /\ op = Idle
  /\ leases[l] = None
  /\ read = Unscanned => update = None
  /\ LET r == IF read = Unscanned THEN QuickRead ELSE read
     IN  /\ read' = r
         /\ leases' = IF IsActive(r) THEN [leases EXCEPT ![l] = r] ELSE leases
  /\ UNCHANGED <<flash, scanned, sel, update, op, told, mishaps>>

\* release_read
Release(l) ==
  /\ op = Idle
  /\ leases[l] # None
  /\ leases' = [leases EXCEPT ![l] = None]
  /\ UNCHANGED <<flash, selection, update, op, told, mishaps>>

-----------------------------------------------------------------------------
(* The flash steps of an operation.                                        *)

\* A region written or erased, cut short or not.
Cut(old, new) == {old, Torn, new}

\* The regions of a bank in the order a sweep erases them.
Regions == 0..(Blocks + 2)
Region(k, n) == IF n = 0 THEN k.header ELSE IF n = Blocks + 2 THEN k.commit ELSE k.part[n - 1]
FromRegions(f) ==
  [header |-> f[0], part |-> [i \in Part |-> f[i + 1]], commit |-> f[Blocks + 2]]

\* Banks an erase of regions 0..last may leave: swept up to n, n itself torn.
Swept(k, last) ==
  {FromRegions([n \in Regions |->
      IF n > last \/ n > at THEN Region(k, n) ELSE IF n = at THEN c ELSE Erased]) :
     at \in 0..last, c \in {Torn, Erased}}

\* Programming a commit record can only add to what is there.
Program(c, p, stage) ==
  IF c = Erased THEN [plan |-> p, stage |-> stage]
  ELSE IF c = Torn \/ c.plan # p THEN Torn
  ELSE [c EXCEPT !.stage = IF @ > stage THEN @ ELSE stage]

\* What the bank may look like when the step under way is cut short.
Cuts ==
  LET k == flash[op.bank]
  IN  {k} \cup
      CASE op.step = "eraseCommit" -> {[k EXCEPT !.commit = c] : c \in Cut(k.commit, Erased)}
        [] op.step = "eraseRest" -> Swept(k, Blocks + 1)
        [] op.step = "eraseBank" -> Swept(k, Blocks + 2)
        [] op.step = "writeHeader" -> {[k EXCEPT !.header = h] : h \in Cut(k.header, op.plan)}
        [] op.step = "eraseHeader" -> {[k EXCEPT !.header = h] : h \in Cut(k.header, Erased)}
        [] op.step = "erasePart" -> {[k EXCEPT !.part[op.part] = c] : c \in Cut(k.part[op.part], Erased)}
        [] op.step = "writePart" -> {[k EXCEPT !.part[op.part] = c] : c \in Cut(k.part[op.part], op.plan.bundle)}
        [] op.step = "writeBody" -> {[k EXCEPT !.commit = Program(@, op.plan, n)] : n \in 1..2}
        [] op.step = "writeMarker" -> {[k EXCEPT !.commit = Program(@, op.plan, Complete)]}

Flashed(k) == flash' = [flash EXCEPT ![op.bank] = k]

Then(step) == op' = [op EXCEPT !.step = step]

EraseCommit ==
  /\ op.step = "eraseCommit"
  /\ Flashed([flash[op.bank] EXCEPT !.commit = Erased])
  /\ sel' = [sel EXCEPT ![op.bank] = None]
  /\ Then("eraseRest")
  /\ UNCHANGED <<scanned, read, update, leases, told, mishaps>>

\* the erase of the rest and its verification
EraseRest ==
  /\ op.step = "eraseRest"
  /\ Flashed([BlankBank EXCEPT !.commit = flash[op.bank].commit])
  /\ Then("writeHeader")
  /\ UNCHANGED <<selection, update, leases, told, mishaps>>

WriteHeader ==
  /\ op.step = "writeHeader"
  /\ Flashed([flash[op.bank] EXCEPT !.header = op.plan])
  /\ update' = [bank |-> op.bank, plan |-> op.plan, done |-> {}]
  /\ op' = Idle
  /\ UNCHANGED <<selection, leases, told, mishaps>>

EraseBank ==
  /\ op.step = "eraseBank"
  /\ Flashed(BlankBank)
  /\ scanned' = TRUE
  /\ sel' = [sel EXCEPT ![op.bank] = None]
  /\ read' = Unscanned
  /\ op' = Idle
  /\ UNCHANGED <<update, leases, told, mishaps>>

EraseHeader ==
  /\ op.step = "eraseHeader"
  /\ Flashed([flash[op.bank] EXCEPT !.header = Erased])
  /\ update' = None
  /\ op' = Idle
  /\ UNCHANGED <<selection, leases, told, mishaps>>

ErasePart ==
  /\ op.step = "erasePart"
  /\ Flashed([flash[op.bank] EXCEPT !.part[op.part] = Erased])
  /\ Then("writePart")
  /\ UNCHANGED <<selection, update, leases, told, mishaps>>

\* Mutant of FinishPart: the flag of the next block is set.
FinishNextPart ==
  /\ op.step = "writePart"
  /\ Flashed([flash[op.bank] EXCEPT !.part[op.part] = op.plan.bundle])
  /\ update' = [update EXCEPT !.done = @ \cup {op.part + 1}]
  /\ op' = Idle
  /\ UNCHANGED <<selection, leases, told, mishaps>>

FinishPart ==
  /\ op.step = "writePart"
  /\ Flashed([flash[op.bank] EXCEPT !.part[op.part] = op.plan.bundle])
  /\ update' = [update EXCEPT !.done = @ \cup {op.part}]
  /\ op' = Idle
  /\ UNCHANGED <<selection, leases, told, mishaps>>

WriteBody ==
  /\ op.step = "writeBody"
  /\ Flashed([flash[op.bank] EXCEPT !.commit = Program(@, op.plan, 2)])
  /\ Then("writeMarker")
  /\ UNCHANGED <<selection, update, leases, told, mishaps>>

\* The marker, its validation and refresh_selection_after_commit; a selection
\* that does not prefer the new bank leaves the transaction in RAM.
WriteMarker ==
  /\ op.step = "writeMarker"
  /\ Flashed([flash[op.bank] EXCEPT !.commit = Program(@, op.plan, Complete)])
  /\ IF Select(Strict)' = At(op.bank, op.plan)
     THEN /\ scanned' = TRUE /\ sel' = Strict' /\ read' = Select(Strict)'
          /\ update' = None
          /\ told' = op.plan
     ELSE UNCHANGED <<selection, update, told>>
  /\ op' = Idle
  /\ UNCHANGED <<leases, mishaps>>

Step ==
  \/ EraseCommit \/ EraseRest \/ WriteHeader \/ EraseBank \/ EraseHeader
  \/ ErasePart \/ FinishPart \/ WriteBody \/ WriteMarker

-----------------------------------------------------------------------------
(* Failures.                                                               *)

Mishap == mishaps < MaxMishaps /\ mishaps' = mishaps + 1

\* The storage reports an error, whatever it has done by then.
StepFails ==
  /\ op # Idle
  /\ Mishap
  /\ \E k \in Cuts : Flashed(k)
  /\ IF op.step \in {"eraseCommit", "eraseBank"} THEN Forget ELSE UNCHANGED selection
  /\ op' = Idle
  /\ UNCHANGED <<update, leases, told>>

\* A read error of scan or query_current_active.
ScanFails ==
  /\ op = Idle
  /\ Mishap
  /\ Forget
  /\ UNCHANGED <<flash, update, leases, op, told>>

\* The keyboard loses power at any moment.
PowerLoss ==
  /\ Mishap
  /\ IF op = Idle THEN UNCHANGED flash ELSE \E k \in Cuts : Flashed(k)
  /\ Forget
  /\ update' = None
  /\ leases' = NoLeases
  /\ op' = Idle
  /\ UNCHANGED told

-----------------------------------------------------------------------------
Next ==
  \/ Scan
  \/ \E p \in Plan, b \in Bank : Begin(p, b)
  \/ \E p \in Plan, b \in Bank : Resume(p, b)
  \/ \E p \in Plan, b \in Bank : Discard(p, b)
  \/ WriteManifest
  \/ \E i \in Part \ {0} : WritePayloadBlock(i)
  \/ Commit \/ CommitTooEarly \/ Abort \/ AbortCommitted
  \/ QueryCurrentActive
  \/ \E l \in DOMAIN leases : Acquire(l)
  \/ \E l \in DOMAIN leases : Release(l)
  \/ Step
  \/ StepFails \/ ScanFails \/ PowerLoss

Spec == Init /\ [][Next]_vars

Wanted == {p \in Plan : p.bundle \notin Malformed}

\* A client at work: it takes up or clears what is staged, writes, commits, and
\* aborts what cannot be committed.
Pursue ==
  \/ \E p \in Plan, b \in Bank : Resume(p, b) \/ Discard(p, b)
  \/ \E i \in Part : WritePart(i)
  \/ Commit /\ op' # Idle
  \/ Abort /\ update.plan.bundle \in Malformed

\* The store finishes what it was called for and readers release their leases.
\* The client is outside: one that persists is assumed, never its order of
\* calls.
FairSpec ==
  /\ Spec
  /\ WF_vars(Step)
  /\ \A l \in 1..MaxLeases : SF_vars(Release(l))
  /\ SF_vars(\E p \in Wanted, b \in Bank : Begin(p, b))
  /\ SF_vars(Pursue)

-----------------------------------------------------------------------------
(* Properties.                                                             *)

\* Flash contents and RAM have their types.
TypeOK ==
  /\ flash \in [Bank -> [header : Plan \cup {Erased, Torn},
                         part : [Part -> Bundle \cup {Erased, Torn}],
                         commit : Record \cup {Erased, Torn}]]
  /\ scanned \in BOOLEAN
  /\ sel \in [Bank -> Plan \cup {None}]
  /\ read \in Chosen \cup {None, Split, Blank, Unscanned}
  /\ update \in [bank : Bank, plan : Plan, done : SUBSET Part] \cup {None}
  /\ leases \in [1..MaxLeases -> Chosen \cup {None}]
  /\ told \in Plan \cup {None}
  /\ mishaps \in 0..MaxMishaps

\* Once a client was told that a bundle is active, the flash by itself yields
\* that bundle or a later one, at every moment of every later update, power
\* loss and failed erase included; the banks never disagree (SplitBrain).
ToldIsDurable ==
  LET s == Select(Strict)
  IN  /\ s # Split
      /\ told # None => /\ s # None
                        /\ Gen(s.plan) >= Gen(told)
                        /\ Gen(s.plan) = Gen(told) => s.plan = told

\* What is being read stays whole: the bank of a lease holds its bundle until
\* the lease is released, although the quick scan that chose it did not look
\* at the payload.
LeasesReadable ==
  \A l \in DOMAIN leases :
    leases[l] # None => Committed(flash[leases[l].bank]) = leases[l].plan

\* The store never works from a stale snapshot: what it takes for committed is,
\* whatever erase failed since, and between two operations and transactions it
\* misses nothing either, so that a bundle whose marker was written is not
\* taken for free space (and flash and RAM have their types).
SelectionHonest ==
  /\ TypeOK
  /\ scanned =>
    /\ \A b \in Bank : sel[b] # None => Committed(flash[b]) = sel[b]
    /\ op = Idle /\ update = None => sel = Strict

\* No sequence of calls and failures wedges the store: a client that persists
\* gets its bundles in until the generations are used up.
StoreNeverWedges ==
  <>(\E b \in Bank :
       Committed(flash[b]) # None /\ Gen(Committed(flash[b])) = MaxGeneration)
=============================================================================
