------------------------ MODULE SummaryPipelineProofs ------------------------
(***************************************************************************)
(* Proofs about SummaryPipeline, for any number of tasks, slots,           *)
(* completions, generations, leases, faults and restarts.  The ledger      *)
(* keeps its own invariant IInv (SummaryLedgerProofs), because every step  *)
(* of the Host is a step of the ledger or leaves it alone.                 *)
(***************************************************************************)
EXTENDS SummaryPipeline, SummaryLedgerProofs

-----------------------------------------------------------------------------
(* The inductive invariant.                                                *)

Completions == SUBSET (1..MaxCompletions)
WorkerPc == {"idle", "claimed", "load", "generate", "attempt", "synthesize", "store",
             "commit", "recheck"}

HostTyped ==
  /\ worker \in [pc : WorkerPc, claim : Claim \cup {NoClaim}, tells : Completions]
  /\ cache \subseteq [task : Task, gen : 1..MaxGenerations, tells : Completions]
  /\ daemon \in [pc : {"idle", "begin", "load", "clean"}, slot : Slot \cup {NoSlot},
                 lease : Lease \cup {NoLease}]
  /\ active \subseteq [lease : Lease, heard : BOOLEAN, tells : Completions]
  /\ played \subseteq Lease
  /\ told \in [Task -> Completions]

\* A row whose coverage is final: published and not superseded.
Settled(t, g) == rows[t][g].state \in Unread \cup {"heard"} /\ rows[t][g].by = 0

\* A row that has been published.
Published(t, g) == rows[t][g].state \in Unread \cup {"heard", "superseded"}

\* What the row g being claimed extends, and what its audio is to tell.
Extended(t, p) == IF p = 0 THEN {} ELSE Coverage(t, p)
ToTell(t, g) == rows[t][g].covers \cup Extended(t, rows[t][g].prev)

\* An object in the cache is of a row, and tells what that row covers or, until the
\* row is published, what it will cover.
ObjectsTell ==
  \A o \in cache :
    /\ o.gen \in DOMAIN rows[o.task]
    /\ Settled(o.task, o.gen) => o.tells = Coverage(o.task, o.gen)
    /\ rows[o.task][o.gen].state \in Active => o.tells = ToTell(o.task, o.gen)

\* The row a claim extends stays settled while the claim is open.
Extending ==
  \A t \in Task : \A g \in InState(t, Active) : rows[t][g].prev # 0 =>
    rows[t][g].prev \in DOMAIN rows[t] /\ Settled(t, rows[t][g].prev)

\* The worker holds the claim of a row that is being generated.
ClaimHeld ==
  LET c == worker.claim
  IN  worker.pc # "idle" =>
        /\ c \in Claim /\ c.gen \in DOMAIN rows[c.task]
        /\ rows[c.task][c.gen].state = "generating"
        /\ rows[c.task][c.gen].prev = c.prev /\ rows[c.task][c.gen].covers = c.covers

\* What the document it is making tells, and, under the gate, its object.
DocumentTells ==
  LET c == worker.claim
  IN  /\ worker.pc \in {"claimed", "load"} => worker.tells = {}
      /\ worker.pc = "generate" => worker.tells = Extended(c.task, c.prev)
      /\ worker.pc \in {"attempt", "synthesize", "store", "commit", "recheck"} =>
           worker.tells = ToTell(c.task, c.gen)
      /\ worker.pc = "commit" => Cached(c.task, c.gen) # {}

\* The row of a lease in use was published, and the lease has been drawn.
InUse(l) == /\ l.gen \in DOMAIN rows[l.task] /\ Published(l.task, l.gen)
            /\ l.id <= leaseCount

\* The lease a playback is being started with is not one of an earlier playback.
Starting ==
  /\ daemon.pc = "begin" => daemon.slot \in Slot
  /\ daemon.pc = "load" =>
       /\ daemon.lease \in Lease /\ InUse(daemon.lease)
       /\ daemon.lease \notin played /\ active = {}

\* There is one playback; its audio tells what hearing it will mark, and what was
\* drained of it has been told.
Playing ==
  /\ \A a, b \in active : a = b
  /\ \A a \in active :
       /\ InUse(a.lease)
       /\ Settled(a.lease.task, a.lease.gen) => a.tells = Coverage(a.lease.task, a.lease.gen)
       /\ a.lease \in played => a.tells \subseteq told[a.lease.task]

PlayedDrawn == \A l \in played : l.id <= leaseCount

PipelineInv ==
  /\ IInv /\ HostTyped /\ ObjectsTell /\ Extending /\ ClaimHeld /\ DocumentTells
  /\ Starting /\ Playing /\ PlayedDrawn /\ RetainedIsCached /\ HeardWasTold
-----------------------------------------------------------------------------
(* Steps of the ledger that publish nothing and open no claim.             *)

\* What such a step may make of a row: it opens and publishes nothing, and what
\* was published or settled stays so.
Mild(r, q) ==
  /\ q.covers = r.covers /\ q.by = r.by /\ q.prev = r.prev
  /\ q.state \in Active => r.state \in Active
  /\ q.state \in Unread => r.state \in Unread
  /\ q.state = "heard" => r.state \in Unread \cup {"heard"}
  /\ r.state \in Unread \cup {"heard"} /\ r.by = 0 => q.state \in Unread \cup {"heard"}
  /\ r.state \in Unread \cup {"heard", "superseded"} =>
       q.state \in Unread \cup {"heard", "superseded"}

MildStep ==
  \A t \in Task :
    /\ DOMAIN rows'[t] = DOMAIN rows[t]
    /\ \A g \in DOMAIN rows[t] : Mild(rows[t][g], rows'[t][g])
    /\ \A g \in 1..MaxGenerations : Coverage(t, g)' = Coverage(t, g)

\* Nothing becomes heard by the step.
NoneHeard ==
  \A t \in Task : \A g \in DOMAIN rows[t] :
    rows'[t][g].state = "heard" => rows[t][g].state = "heard"

\* The step leaves the claims alone.
ClaimsStay ==
  \A t \in Task : \A g \in DOMAIN rows[t] :
    rows[t][g].state = "generating" => rows'[t][g].state = "generating"

LEMMA MildRow ==
  ASSUME NEW r \in Row
  PROVE  /\ Mild(r, r)
         /\ r.state = "leased" => /\ Mild(r, Released(r)) /\ Released(r).state # "heard"
                                  /\ Mild(r, [r EXCEPT !.state = "heard"])
         /\ r.state = "unheard" => Mild(r, [r EXCEPT !.state = "leased"])
         /\ r.state \in Active =>
              /\ Mild(r, [r EXCEPT !.state = "generating"])
              /\ Mild(r, [r EXCEPT !.state = "abandoned", !.tts = FALSE])
              /\ Mild(r, [r EXCEPT !.tts = TRUE])
         /\ Mild(r, RecoveredRow(r))
         /\ RecoveredRow(r).state = "heard" => r.state = "heard"
  BY DEF Mild, Released, RecoveredRow, Row, RowState, Active, Unread

\* No row changes.
LEMMA RowsRest ==
  ASSUME IInv, rows' = rows, summarized' = summarized
  PROVE  MildStep /\ NoneHeard /\ ClaimsStay
  <1>1. \A t \in Task : \A g \in DOMAIN rows[t] : Mild(rows[t][g], rows[t][g])
    BY Shape, MildRow DEF IInv
  <1> QED BY <1>1 DEF MildStep, NoneHeard, ClaimsStay, Coverage

\* One row changes.
LEMMA OneRowMild ==
  ASSUME IInv, NEW t \in Task, NEW g \in DOMAIN rows[t], NEW r \in Row,
         rows' = WithRow(t, g, r), summarized' = summarized, Mild(rows[t][g], r)
  PROVE  /\ MildStep
         /\ (r.state = "heard" => rows[t][g].state = "heard") => NoneHeard
         /\ (rows[t][g].state = "generating" => r.state = "generating") => ClaimsStay
  <1>1. /\ \A u \in Task : DOMAIN rows'[u] = DOMAIN rows[u]
        /\ \A u \in Task : u # t => rows'[u] = rows[u]
        /\ rows'[t][g] = r
        /\ \A h \in DOMAIN rows[t] : h # g => rows'[t][h] = rows[t][h]
    BY WithRowShape DEF IInv
  <1>2. \A u \in Task : \A h \in DOMAIN rows[u] :
          \/ rows'[u][h] = rows[u][h]
          \/ u = t /\ h = g /\ rows'[u][h] = r
    BY <1>1
  <1>3. \A u \in Task : \A h \in DOMAIN rows[u] : Mild(rows[u][h], rows[u][h])
    BY Shape, MildRow DEF IInv
  <1>4. \A u \in Task : \A h \in DOMAIN rows[u] : Mild(rows[u][h], rows'[u][h])
    BY <1>2, <1>3
  <1>5. MildStep
    BY <1>1, <1>4 DEF MildStep, Coverage
  <1> QED BY <1>2, <1>5 DEF NoneHeard, ClaimsStay

\* A completion is recorded, pending.
LEMMA ObserveMild ==
  ASSUME IInv, NEW t \in Task, CommitCompletion(t)
  PROVE  MildStep /\ NoneHeard /\ ClaimsStay
  <1>1. /\ rows' = rows /\ summarized' = [summarized EXCEPT ![t] = Append(@, 0)]
        /\ summarized \in [Task -> Seq(0..MaxGenerations)]
    BY DEF CommitCompletion, IInv, TypeInv, TypeOK
  <1>2. ASSUME NEW u \in Task, NEW g \in 1..MaxGenerations
        PROVE  Coverage(u, g)' = Coverage(u, g)
    <2>1. CASE u # t
      BY <1>1, <2>1 DEF Coverage
    <2>2. CASE u = t
      <3> DEFINE s == summarized[t]
                 k == Len(s)
      <3>1. s \in Seq(0..MaxGenerations) /\ k \in Nat /\ DOMAIN s = 1..k
        BY Shape DEF IInv
      <3>2. 0 \in 0..MaxGenerations
        BY LedgerConstants
      <3>3. /\ Append(s, 0) \in Seq(0..MaxGenerations) /\ Len(Append(s, 0)) = k + 1
            /\ \A i \in 1..k : Append(s, 0)[i] = s[i]
            /\ Append(s, 0)[k + 1] = 0
        BY <3>1, <3>2, AppendProperties
      <3>4. summarized'[t] = Append(s, 0) /\ DOMAIN summarized'[t] = 1..(k + 1)
        BY <1>1, <3>3, LenProperties
      <3> HIDE DEF s, k
      <3>5. \A i \in 1..(k + 1) : summarized'[t][i] = g <=> i \in 1..k /\ s[i] = g
        BY <3>1, <3>3, <3>4
      <3>6. {n \in 1..(k + 1) : summarized'[t][n] = g} = {n \in 1..k : s[n] = g}
        BY <3>1, <3>5
      <3> QED BY <2>2, <3>1, <3>4, <3>6 DEF Coverage, s
    <2> QED BY <2>1, <2>2
  <1>3. \A u \in Task : \A g \in DOMAIN rows[u] : Mild(rows[u][g], rows[u][g])
    BY Shape, MildRow DEF IInv
  <1> QED BY <1>1, <1>2, <1>3 DEF MildStep, NoneHeard, ClaimsStay

\* A claim is taken up again, given up, or marked as being spoken.
LEMMA ClaimMild ==
  ASSUME IInv, NEW t \in Task, NEW g \in InState(t, Active), summarized' = summarized,
         NEW r, r \in {[rows[t][g] EXCEPT !.state = "generating"],
                       [rows[t][g] EXCEPT !.state = "abandoned", !.tts = FALSE],
                       [rows[t][g] EXCEPT !.tts = TRUE]},
         rows' = WithRow(t, g, r)
  PROVE  /\ MildStep /\ NoneHeard /\ rows'[t][g] = r /\ DOMAIN rows'[t] = DOMAIN rows[t]
         /\ r.covers = rows[t][g].covers /\ r.prev = rows[t][g].prev
         /\ r = [rows[t][g] EXCEPT !.state = "generating"] => r.state = "generating"
         /\ r = [rows[t][g] EXCEPT !.tts = TRUE] => r.state = rows[t][g].state
         /\ r.state # "heard"
  <1>1. g \in DOMAIN rows[t] /\ rows[t][g] \in Row /\ rows[t][g].state \in Active
    BY Shape DEF IInv, InState
  <1>2. /\ r \in Row /\ Mild(rows[t][g], r)
        /\ r.state \in {"generating", "abandoned", rows[t][g].state}
        /\ r.covers = rows[t][g].covers /\ r.prev = rows[t][g].prev
        /\ r = [rows[t][g] EXCEPT !.state = "generating"] => r.state = "generating"
        /\ r = [rows[t][g] EXCEPT !.tts = TRUE] => r.state = rows[t][g].state
    <2>1. {"generating", "abandoned"} \subseteq RowState
      BY DEF RowState, Active
    <2>2. r \in Row
      BY <1>1, <2>1, RowFields, ZenonT(60)
    <2>3. Mild(rows[t][g], r)
      BY <1>1, MildRow
    <2>4. /\ r.state \in {"generating", "abandoned", rows[t][g].state}
          /\ r.covers = rows[t][g].covers /\ r.prev = rows[t][g].prev
          /\ r = [rows[t][g] EXCEPT !.state = "generating"] => r.state = "generating"
          /\ r = [rows[t][g] EXCEPT !.tts = TRUE] => r.state = rows[t][g].state
      BY <1>1 DEF Row
    <2> QED BY <2>2, <2>3, <2>4
  <1>3. r.state # "heard"
    BY <1>1, <1>2 DEF Active
  <1>4. rows'[t][g] = r /\ DOMAIN rows'[t] = DOMAIN rows[t]
    BY <1>1, <1>2, WithRowShape DEF IInv
  <1> QED BY <1>1, <1>2, <1>3, <1>4, OneRowMild

\* A lease ends without being heard.
LEMMA CancelMild ==
  ASSUME IInv, NEW l, CancelSummaryPlayback(l)
  PROVE  MildStep /\ NoneHeard /\ ClaimsStay /\ UNCHANGED leaseCount
  <1>1. /\ l \in leases /\ rows' = WithRow(l.task, l.gen, Released(rows[l.task][l.gen]))
        /\ UNCHANGED <<summarized, leaseCount>>
    BY DEF CancelSummaryPlayback
  <1>2. l.task \in Task /\ l.gen \in DOMAIN rows[l.task] /\ rows[l.task][l.gen].state = "leased"
    BY <1>1 DEF IInv, TypeInv, TypeOK, Lease, LeaseInv
  <1>3. rows[l.task][l.gen] \in Row
    BY <1>2, Shape DEF IInv
  <1>4. /\ Released(rows[l.task][l.gen]) \in Row
        /\ Mild(rows[l.task][l.gen], Released(rows[l.task][l.gen]))
        /\ Released(rows[l.task][l.gen]).state # "heard"
    BY <1>2, <1>3, RowFields, MildRow
  <1> QED BY <1>1, <1>2, <1>4, OneRowMild

\* A restart, with or without abandoning the claim of a slot.
LEMMA RestartMild ==
  ASSUME IInv, Restart \/ \E s \in Slot : AbandonSlotSummary(s)
  PROVE  MildStep /\ NoneHeard /\ UNCHANGED leaseCount
  <1>1. UNCHANGED <<summarized, leaseCount>>
    BY DEF Restart, AbandonSlotSummary
  <1>2. \A u \in Task : /\ DOMAIN RecoveredRows[u] = DOMAIN rows[u]
                        /\ \A h \in DOMAIN rows[u] :
                             /\ RecoveredRows[u][h] = RecoveredRow(rows[u][h])
                             /\ rows[u][h] \in Row
    BY RecoveredShape, Shape DEF IInv
  <1>3. CASE Restart
    <2>1. rows' = RecoveredRows
      BY <1>3 DEF Restart
    <2>2. ASSUME NEW u \in Task, NEW h \in DOMAIN rows[u]
          PROVE  /\ Mild(rows[u][h], rows'[u][h])
                 /\ rows'[u][h].state = "heard" => rows[u][h].state = "heard"
      <3>1. rows'[u][h] = RecoveredRow(rows[u][h]) /\ rows[u][h] \in Row
        BY <1>2, <2>1
      <3> QED BY <3>1, MildRow
    <2> QED BY <1>1, <1>2, <2>1, <2>2 DEF MildStep, NoneHeard, Coverage
  <1>4. ASSUME NEW s \in Slot, AbandonSlotSummary(s)
        PROVE  MildStep /\ NoneHeard
    <2> DEFINE t == binding[s].task
    <2>1. t \in Task
      BY <1>4 DEF AbandonSlotSummary
    <2>2. PICK g \in InState(t, Active) :
            rows' = [RecoveredRows EXCEPT ![t][g] =
                       [rows[t][g] EXCEPT !.state = "abandoned", !.tts = FALSE]]
      BY <1>4 DEF AbandonSlotSummary
    <2> DEFINE r == [rows[t][g] EXCEPT !.state = "abandoned", !.tts = FALSE]
    <2>3. g \in DOMAIN rows[t] /\ rows[t][g] \in Row /\ rows[t][g].state \in Active
      BY <1>2, <2>1 DEF InState
    <2>4. Mild(rows[t][g], r) /\ r.state # "heard"
      BY <2>3, MildRow DEF Row
    <2>5. RecoveredRows \in [Task -> Seq(Row)]
      BY RecoveredShape DEF IInv
    <2> HIDE DEF t, r
    <2>6. \A u \in Task : /\ DOMAIN rows'[u] = DOMAIN rows[u]
                          /\ \A h \in DOMAIN rows[u] : rows'[u][h] =
                               IF u = t /\ h = g THEN r ELSE RecoveredRow(rows[u][h])
      BY <1>2, <2>1, <2>2, <2>3, <2>5 DEF r
    <2>7. \A u \in Task : \A h \in DOMAIN rows[u] :
            /\ Mild(rows[u][h], rows'[u][h])
            /\ rows'[u][h].state = "heard" => rows[u][h].state = "heard"
      BY <1>2, <2>4, <2>6, MildRow, ZenonT(60)
    <2> QED BY <1>1, <2>6, <2>7 DEF MildStep, NoneHeard, Coverage
  <1> QED BY <1>1, <1>3, <1>4
\* A summary is leased for playback.
LEMMA AcquireMild ==
  ASSUME IInv, NEW s \in Slot, AcquireSummaryPlayback(s)
  PROVE  /\ MildStep /\ NoneHeard /\ ClaimsStay /\ leaseCount' = leaseCount + 1
         /\ LET t == binding[s].task
                l == [id |-> leaseCount + 1, task |-> t, gen |-> Current(t), slot |-> s]
            IN  /\ t \in Task /\ l \in Lease /\ granted' = granted \cup {l}
                /\ Current(t) \in DOMAIN rows[t] /\ rows'[t][Current(t)].state = "leased"
                /\ DOMAIN rows'[t] = DOMAIN rows[t]
  <1> DEFINE t == binding[s].task
             g == Current(t)
             r == [rows[t][g] EXCEPT !.state = "leased"]
             l == [id |-> leaseCount + 1, task |-> t, gen |-> g, slot |-> s]
  <1>1. /\ t \in Task /\ g # 0 /\ rows[t][g].state = "unheard" /\ leaseCount < MaxLeases
        /\ rows' = WithRow(t, g, r) /\ summarized' = summarized
        /\ granted' = granted \cup {l} /\ leaseCount' = leaseCount + 1
    BY DEF AcquireSummaryPlayback, Playable
  <1>2. g \in CurrentUnread(t)
    BY <1>1, CurrentRow DEF IInv
  <1>3. g \in DOMAIN rows[t] /\ g \in 1..MaxGenerations /\ rows[t][g] \in Row
    BY <1>1, <1>2, Shape DEF IInv, CurrentUnread, InState
  <1>4. r \in Row /\ r.state = "leased"
    BY <1>3, RowFields DEF RowState, Row, Unread
  <1>5. Mild(rows[t][g], r)
    BY <1>1, <1>3, MildRow
  <1>6. leaseCount + 1 \in 1..MaxLeases
    BY <1>1, LedgerConstants DEF IInv, TypeInv, TypeOK
  <1>7. l \in Lease
    BY <1>1, <1>3, <1>6 DEF Lease
  <1> HIDE DEF r, g, t
  <1>8. rows'[t][g] = r /\ DOMAIN rows'[t] = DOMAIN rows[t]
    BY <1>1, <1>3, <1>4, WithRowShape DEF IInv
  <1>9. MildStep /\ NoneHeard /\ ClaimsStay
    BY <1>1, <1>3, <1>4, <1>5, OneRowMild
  <1> QED BY <1>1, <1>3, <1>4, <1>7, <1>8, <1>9 DEF t, g

\* A lease ends, heard: its row is the only one that becomes heard.
LEMMA FinishMild ==
  ASSUME IInv, NEW l, FinishSummaryPlayback(l)
  PROVE  /\ MildStep /\ ClaimsStay /\ UNCHANGED leaseCount
         /\ l.task \in Task /\ l.gen \in DOMAIN rows[l.task]
         /\ rows[l.task][l.gen].state = "leased" /\ rows'[l.task][l.gen].state = "heard"
         /\ \A u \in Task : \A h \in DOMAIN rows[u] :
              rows'[u][h].state = "heard" =>
                rows[u][h].state = "heard" \/ (u = l.task /\ h = l.gen)
  <1> DEFINE t == l.task
             g == l.gen
             r == [rows[t][g] EXCEPT !.state = "heard"]
  <1>1. /\ l \in leases /\ rows' = WithRow(t, g, r) /\ rows[t][g].state = "leased"
        /\ UNCHANGED <<summarized, leaseCount>>
    BY DEF FinishSummaryPlayback
  <1>2. t \in Task /\ g \in DOMAIN rows[t]
    BY <1>1 DEF IInv, TypeInv, TypeOK, Lease, LeaseInv
  <1>3. rows[t][g] \in Row
    BY <1>2, Shape DEF IInv
  <1>4. r \in Row /\ r.state = "heard"
    BY <1>3, RowFields DEF RowState, Row
  <1>5. Mild(rows[t][g], r)
    BY <1>1, <1>3, MildRow
  <1> HIDE DEF r
  <1>6. MildStep /\ ClaimsStay
    BY <1>1, <1>2, <1>4, <1>5, OneRowMild
  <1>7. /\ \A u \in Task : u # t => rows'[u] = rows[u]
        /\ rows'[t][g] = r
        /\ \A h \in DOMAIN rows[t] : h # g => rows'[t][h] = rows[t][h]
    BY <1>1, <1>2, <1>4, WithRowShape DEF IInv
  <1> QED BY <1>1, <1>2, <1>4, <1>6, <1>7

-----------------------------------------------------------------------------
(* What each part of the invariant needs of a mild step.                   *)

LEMMA MildFacts ==
  ASSUME IInv, MildStep, NEW t \in Task, NEW g \in DOMAIN rows[t]
  PROVE  /\ g \in DOMAIN rows'[t] /\ g \in 1..MaxGenerations
         /\ rows'[t][g].prev = rows[t][g].prev /\ rows'[t][g].covers = rows[t][g].covers
         /\ rows'[t][g].by = rows[t][g].by
         /\ Settled(t, g)' <=> Settled(t, g)
         /\ Published(t, g) => Published(t, g)'
         /\ rows'[t][g].state \in Active => rows[t][g].state \in Active
         /\ rows'[t][g].state \in Unread => rows[t][g].state \in Unread
         /\ Coverage(t, g)' = Coverage(t, g)
         /\ Extended(t, rows[t][g].prev)' = Extended(t, rows[t][g].prev)
         /\ ToTell(t, g)' = ToTell(t, g)
  <1>1. /\ g \in 1..MaxGenerations /\ rows[t][g] \in Row
    BY Shape DEF IInv
  <1>2. Mild(rows[t][g], rows'[t][g]) /\ DOMAIN rows'[t] = DOMAIN rows[t]
    BY DEF MildStep
  <1>3. \A h \in 1..MaxGenerations : Coverage(t, h)' = Coverage(t, h)
    BY DEF MildStep
  <1>4. rows[t][g].prev \in 0..MaxGenerations
    BY <1>1 DEF Row
  <1>5. ASSUME NEW p \in 0..MaxGenerations PROVE Extended(t, p)' = Extended(t, p)
    <2>1. p = 0 \/ p \in 1..MaxGenerations
      BY LedgerConstants
    <2> QED BY <1>3, <2>1 DEF Extended
  <1>6. /\ rows'[t][g].prev = rows[t][g].prev /\ rows'[t][g].covers = rows[t][g].covers
        /\ rows'[t][g].by = rows[t][g].by
    BY <1>2 DEF Mild
  <1>7. Extended(t, rows[t][g].prev)' = Extended(t, rows[t][g].prev)
    BY <1>4, <1>5, <1>6 DEF Extended
  <1>8. ToTell(t, g)' = ToTell(t, g)
    BY <1>6, <1>7 DEF ToTell, Extended
  <1>9. /\ Settled(t, g)' <=> Settled(t, g)
        /\ Published(t, g) => Published(t, g)'
        /\ rows'[t][g].state \in Active => rows[t][g].state \in Active
        /\ rows'[t][g].state \in Unread => rows[t][g].state \in Unread
    BY <1>2 DEF Mild, Settled, Published
  <1> QED BY <1>1, <1>2, <1>3, <1>6, <1>7, <1>8, <1>9

LEMMA ObjectsFrame ==
  ASSUME PipelineInv, MildStep, cache' \subseteq cache
  PROVE  ObjectsTell' /\ Extending'
  <1>1. IInv /\ ObjectsTell /\ Extending /\ \A o \in cache : o.task \in Task
    BY DEF PipelineInv, HostTyped
  <1>2. ASSUME NEW o \in cache'
        PROVE  /\ o.gen \in DOMAIN rows'[o.task]
               /\ Settled(o.task, o.gen)' => o.tells = Coverage(o.task, o.gen)'
               /\ rows'[o.task][o.gen].state \in Active => o.tells = ToTell(o.task, o.gen)'
    <2>1. o \in cache /\ o.task \in Task /\ o.gen \in DOMAIN rows[o.task]
      BY <1>1 DEF ObjectsTell
    <2>2. /\ Settled(o.task, o.gen) => o.tells = Coverage(o.task, o.gen)
          /\ rows[o.task][o.gen].state \in Active => o.tells = ToTell(o.task, o.gen)
      BY <1>1, <2>1 DEF ObjectsTell
    <2> QED BY <1>1, <2>1, <2>2, MildFacts
  <1>3. ASSUME NEW t \in Task, NEW g \in InState(t, Active)', rows'[t][g].prev # 0
        PROVE  (rows[t][g].prev \in DOMAIN rows[t] /\ Settled(t, rows[t][g].prev))'
    <2>1. g \in DOMAIN rows[t]
      BY DEF InState, MildStep
    <2>2. g \in InState(t, Active) /\ rows'[t][g].prev = rows[t][g].prev
      BY <1>1, <2>1, MildFacts DEF InState
    <2>3. PICK p : p = rows[t][g].prev
      OBVIOUS
    <2>4. p \in DOMAIN rows[t] /\ Settled(t, p)
      BY <1>1, <1>3, <2>2, <2>3 DEF Extending
    <2>5. p \in DOMAIN rows'[t] /\ Settled(t, p)'
      BY <1>1, <2>4, MildFacts
    <2> QED BY <2>2, <2>3, <2>5 DEF Settled
  <1> QED BY <1>2, <1>3 DEF ObjectsTell, Extending

LEMMA ClaimFrame ==
  ASSUME PipelineInv, MildStep, ClaimsStay, worker' = worker, cache \subseteq cache'
  PROVE  ClaimHeld' /\ DocumentTells'
  <1> DEFINE c == worker.claim
  <1>1. IInv /\ ClaimHeld /\ DocumentTells
    BY DEF PipelineInv
  <1>2. CASE worker.pc = "idle"
    BY <1>2 DEF ClaimHeld, DocumentTells
  <1>3. CASE worker.pc # "idle"
    <2>1. /\ c \in Claim /\ c.task \in Task /\ c.gen \in DOMAIN rows[c.task]
          /\ rows[c.task][c.gen].state = "generating"
          /\ rows[c.task][c.gen].prev = c.prev /\ rows[c.task][c.gen].covers = c.covers
      BY <1>1, <1>3 DEF ClaimHeld, Claim
    <2>2. rows'[c.task][c.gen].state = "generating"
      BY <2>1 DEF ClaimsStay
    <2>3. /\ c.gen \in DOMAIN rows'[c.task]
          /\ rows'[c.task][c.gen].prev = c.prev /\ rows'[c.task][c.gen].covers = c.covers
          /\ Extended(c.task, rows[c.task][c.gen].prev)' = Extended(c.task, rows[c.task][c.gen].prev)
          /\ ToTell(c.task, c.gen)' = ToTell(c.task, c.gen)
      BY <1>1, <2>1, MildFacts
    <2>4. Extended(c.task, c.prev)' = Extended(c.task, c.prev)
      BY <2>1, <2>3 DEF Extended
    <2>5. Cached(c.task, c.gen) \subseteq Cached(c.task, c.gen)'
      BY DEF Cached
    <2>6. ClaimHeld'
      BY <2>1, <2>2, <2>3 DEF ClaimHeld
    <2>7. DocumentTells'
      BY <1>1, <2>3, <2>4, <2>5 DEF DocumentTells, ToTell, Extended, Cached
    <2> QED BY <2>6, <2>7
  <1> QED BY <1>2, <1>3

LEMMA RetainedFrame ==
  ASSUME PipelineInv, MildStep, cache \subseteq cache'
  PROVE  RetainedIsCached'
  <1> SUFFICES ASSUME NEW t \in Task, NEW g \in InState(t, Unread)' PROVE Cached(t, g)' # {}
    BY DEF RetainedIsCached
  <1>1. g \in InState(t, Unread)
    BY MildFacts DEF InState, MildStep, PipelineInv
  <1>2. Cached(t, g) # {}
    BY <1>1 DEF PipelineInv, RetainedIsCached
  <1> QED BY <1>2 DEF Cached

LEMMA HeardFrame ==
  ASSUME PipelineInv, MildStep, NoneHeard, \A t \in Task : told[t] \subseteq told'[t]
  PROVE  HeardWasTold'
  <1> SUFFICES ASSUME NEW t \in Task, NEW g \in InState(t, {"heard"})'
               PROVE  Coverage(t, g)' \subseteq told'[t]
    BY DEF HeardWasTold
  <1>1. g \in InState(t, {"heard"}) /\ g \in DOMAIN rows[t]
    BY DEF InState, MildStep, NoneHeard
  <1>2. Coverage(t, g) \subseteq told[t]
    BY <1>1 DEF PipelineInv, HeardWasTold
  <1>3. Coverage(t, g)' = Coverage(t, g)
    BY <1>1, MildFacts DEF PipelineInv
  <1> QED BY <1>2, <1>3

LEMMA LeaseFrame ==
  ASSUME PipelineInv, MildStep, leaseCount' \in Nat, leaseCount' >= leaseCount,
         NEW l \in Lease, InUse(l)
  PROVE  InUse(l)'
  <1>1. /\ l.task \in Task /\ l.id \in Nat /\ l.gen \in DOMAIN rows[l.task]
        /\ Published(l.task, l.gen) /\ l.id <= leaseCount
    BY DEF Lease, InUse
  <1>2. leaseCount \in Nat
    BY DEF PipelineInv, IInv, TypeInv, TypeOK
  <1>3. l.gen \in DOMAIN rows'[l.task] /\ Published(l.task, l.gen)'
    BY <1>1, MildFacts DEF PipelineInv
  <1> QED BY <1>1, <1>2, <1>3 DEF InUse

LEMMA PlayingFrame ==
  ASSUME PipelineInv, MildStep, leaseCount' \in Nat, leaseCount' >= leaseCount,
         active' \subseteq active, UNCHANGED <<played, told>>
  PROVE  Playing' /\ PlayedDrawn'
  <1>1. Playing /\ PlayedDrawn /\ IInv /\ \A a \in active : a.lease \in Lease
    BY DEF PipelineInv, HostTyped
  <1>2. ASSUME NEW a \in active'
        PROVE  /\ InUse(a.lease)'
               /\ Settled(a.lease.task, a.lease.gen)' =>
                    a.tells = Coverage(a.lease.task, a.lease.gen)'
               /\ a.lease \in played' => a.tells \subseteq told'[a.lease.task]
    <2>1. /\ a \in active /\ InUse(a.lease) /\ a.lease \in Lease
          /\ Settled(a.lease.task, a.lease.gen) => a.tells = Coverage(a.lease.task, a.lease.gen)
          /\ a.lease \in played => a.tells \subseteq told[a.lease.task]
      BY <1>1 DEF Playing
    <2>2. a.lease.task \in Task /\ a.lease.gen \in DOMAIN rows[a.lease.task]
      BY <2>1 DEF InUse, Lease
    <2>3. /\ Settled(a.lease.task, a.lease.gen)' <=> Settled(a.lease.task, a.lease.gen)
          /\ Coverage(a.lease.task, a.lease.gen)' = Coverage(a.lease.task, a.lease.gen)
      BY <1>1, <2>2, MildFacts
    <2> QED BY <2>1, <2>3, LeaseFrame
  <1>3. \A a, b \in active' : a = b
    BY <1>1 DEF Playing
  <1>4. PlayedDrawn'
    <2>1. leaseCount \in Nat /\ \A l \in played : l.id \in Nat
      BY <1>1 DEF PipelineInv, IInv, TypeInv, TypeOK, HostTyped, Lease
    <2> QED BY <1>1, <2>1 DEF PlayedDrawn
  <1> QED BY <1>2, <1>3, <1>4 DEF Playing

LEMMA StartingFrame ==
  ASSUME PipelineInv, MildStep, leaseCount' \in Nat, leaseCount' >= leaseCount,
         daemon' = daemon \/ daemon'.pc \notin {"begin", "load"},
         active' \subseteq active, UNCHANGED played
  PROVE  Starting'
  <1>0. daemon'.pc = "begin" => daemon'.slot \in Slot
    BY DEF PipelineInv, Starting
  <1> SUFFICES ASSUME daemon'.pc = "load" PROVE Starting'
    BY <1>0 DEF Starting
  <1>1. /\ daemon' = daemon /\ daemon.lease \in Lease /\ InUse(daemon.lease)
        /\ daemon.lease \notin played /\ active = {}
    BY DEF PipelineInv, Starting
  <1>2. InUse(daemon.lease)'
    BY <1>1, LeaseFrame
  <1> QED BY <1>1, <1>2 DEF Starting, InUse, Published

\* The worker makes a step, and the ledger a mild one.
LEMMA WorkerFrame ==
  ASSUME PipelineInv, IInv', MildStep, NoneHeard, UNCHANGED leaseCount,
         UNCHANGED <<cache, daemon, active, played, told>>,
         worker' \in [pc : WorkerPc, claim : Claim \cup {NoClaim}, tells : Completions],
         ClaimHeld', DocumentTells'
  PROVE  PipelineInv'
  <1>1. leaseCount' \in Nat /\ leaseCount' >= leaseCount
    BY DEF PipelineInv, IInv, TypeInv, TypeOK
  <1>2. HostTyped'
    BY DEF PipelineInv, HostTyped
  <1>3. ObjectsTell' /\ Extending' /\ RetainedIsCached' /\ HeardWasTold'
    BY ObjectsFrame, RetainedFrame, HeardFrame
  <1>4. Playing' /\ PlayedDrawn' /\ Starting'
    BY <1>1, PlayingFrame, StartingFrame
  <1> QED BY <1>2, <1>3, <1>4 DEF PipelineInv

\* The daemon makes a step, and the ledger a mild one that leaves the claims alone.
LEMMA DaemonFrame ==
  ASSUME PipelineInv, IInv', MildStep, NoneHeard, ClaimsStay,
         UNCHANGED <<worker, cache, played, told>>,
         daemon' \in [pc : {"idle", "begin", "load", "clean"}, slot : Slot \cup {NoSlot},
                      lease : Lease \cup {NoLease}],
         active' \subseteq [lease : Lease, heard : BOOLEAN, tells : Completions],
         Starting', Playing', PlayedDrawn'
  PROVE  PipelineInv'
  <1>1. HostTyped'
    BY DEF PipelineInv, HostTyped
  <1>2. ObjectsTell' /\ Extending' /\ RetainedIsCached' /\ HeardWasTold'
    BY ObjectsFrame, RetainedFrame, HeardFrame
  <1>3. ClaimHeld' /\ DocumentTells'
    BY ClaimFrame
  <1> QED BY <1>1, <1>2, <1>3 DEF PipelineInv
-----------------------------------------------------------------------------
(* Every step of the Host is a step of the ledger or leaves it alone.      *)

LEMMA LedgerStep == PipelineInv /\ [PipelineNext]_allVars => [Next]_vars
  <1> SUFFICES ASSUME PipelineInv, [PipelineNext]_allVars PROVE [Next]_vars
    OBVIOUS
  <1>1. ASSUME NEW s \in Slot, NEW t \in Task, Bind(s, t) PROVE [Next]_vars
    BY <1>1 DEF Bind, Next
  <1>2. ASSUME NEW t \in Task, Observe(t) PROVE [Next]_vars
    BY <1>2 DEF Observe, Next
  <1>3. ASSUME NEW t \in Task, TakeWork(t) PROVE [Next]_vars
    BY <1>3 DEF TakeWork, Next
  <1>4. GiveUp => [Next]_vars
    BY DEF GiveUp, AbandonSummaryClaim, Next
  <1>5. PublishSummary(worker.claim) => [Next]_vars
    BY DEF PublishSummary, Next
  <1>6. BeginSummaryTtsAttempt(worker.claim) => [Next]_vars
    BY DEF BeginSummaryTtsAttempt, Next
  <1>7. UNCHANGED ledgerVars => [Next]_vars
    BY DEF ledgerVars
  <1>8. WorkerStep \/ WorkerFails \/ RecoverCacheFails \/ CacheReportsError => [Next]_vars
    BY <1>3, <1>4, <1>5, <1>6, <1>7
       DEF WorkerStep, WorkerFails, RecoverCacheFails, CacheReportsError, RecoverCache,
           CheckAttempt, LoadPrevious, Generate, BeginTts, Synthesize, StoreObject,
           CommitObject, RecheckCache
  <1>9. ASSUME NEW l, CancelSummaryPlayback(l) \/ FinishSummaryPlayback(l) PROVE [Next]_vars
    BY <1>9 DEF CancelSummaryPlayback, FinishSummaryPlayback, Next
  <1>10. ASSUME NEW a, EndActive(a) PROVE [Next]_vars
    BY <1>7, <1>9, <1>10 DEF EndActive
  <1>11. Acquire => [Next]_vars
    <2> SUFFICES ASSUME Acquire PROVE [Next]_vars
      OBVIOUS
    <2>1. daemon.slot \in Slot
      BY DEF Acquire, PipelineInv, Starting
    <2> QED BY <1>7, <2>1 DEF Acquire, Next
  <1>12. DaemonStep \/ StartPlaybackFails \/ ReconcileDeferred => [Next]_vars
    BY <1>7, <1>9, <1>10, <1>11
       DEF DaemonStep, CancelOther, StartPlayback, Reconcile, StartPlaybackFails,
           ReconcileDeferred
  <1>13. ASSUME NEW s \in Slot, Request(s) PROVE [Next]_vars
    BY <1>7, <1>13 DEF Request
  <1>14. ASSUME NEW a, KeyboardDrains(a) \/ Finished(a) \/ Cancelled(a) PROVE [Next]_vars
    BY <1>7, <1>9, <1>10, <1>14 DEF KeyboardDrains, Finished, Cancelled
  <1>15. HostRestart => [Next]_vars
    BY DEF HostRestart, Next
  <1>16. UNCHANGED allVars => [Next]_vars
    BY <1>7 DEF allVars
  <1> QED
    BY <1>1, <1>2, <1>8, <1>12, <1>13, <1>14, <1>15, <1>16 DEF PipelineNext

LEMMA InitPipeline == PipelineInit => PipelineInv
  <1> SUFFICES ASSUME PipelineInit PROVE PipelineInv
    OBVIOUS
  <1>1. IInv
    BY InitInvariant DEF PipelineInit
  <1>2. HostTyped
    BY DEF PipelineInit, HostTyped, Idle, DaemonIdle, WorkerPc, Completions
  <1>3. \A S : \A t \in Task : InState(t, S) = {}
    BY DEF PipelineInit, Init, InState
  <1>4. ObjectsTell /\ Extending /\ RetainedIsCached /\ HeardWasTold
    BY <1>3 DEF PipelineInit, ObjectsTell, Extending, RetainedIsCached, HeardWasTold
  <1>5. ClaimHeld /\ DocumentTells /\ Starting
    BY DEF PipelineInit, ClaimHeld, DocumentTells, Starting, Idle, DaemonIdle
  <1>6. Playing /\ PlayedDrawn
    BY DEF PipelineInit, Playing, PlayedDrawn
  <1> QED BY <1>1, <1>2, <1>4, <1>5, <1>6 DEF PipelineInv

-----------------------------------------------------------------------------
(* The worker.                                                             *)

\* A run ends.
LEMMA WorkerEnds ==
  ASSUME PipelineInv, IInv', MildStep, NoneHeard, UNCHANGED leaseCount,
         UNCHANGED <<cache, daemon, active, played, told>>, worker' = Idle
  PROVE  PipelineInv'
  <1>1. worker' \in [pc : WorkerPc, claim : Claim \cup {NoClaim}, tells : Completions]
    BY DEF Idle, WorkerPc, Completions
  <1>2. ClaimHeld' /\ DocumentTells'
    BY DEF Idle, ClaimHeld, DocumentTells
  <1> QED BY <1>1, <1>2, WorkerFrame

\* self.abandon.
LEMMA GiveUpKeeps ==
  ASSUME PipelineInv, IInv', worker.pc # "idle", GiveUp,
         UNCHANGED <<cache, daemon, active, played, told>>
  PROVE  PipelineInv' /\ MildStep /\ NoneHeard
  <1>1. PICK c \in Claim : c = worker.claim
    BY DEF PipelineInv, ClaimHeld
  <1>2. AbandonSummaryClaim(c) /\ worker' = Idle
    BY <1>1 DEF GiveUp
  <1>3. c.task \in Task /\ c.gen \in InState(c.task, Active)
    BY <1>2 DEF AbandonSummaryClaim, Holds, InState, Claim
  <1>4. /\ rows' = WithRow(c.task, c.gen, [rows[c.task][c.gen] EXCEPT
                                           !.state = "abandoned", !.tts = FALSE])
        /\ UNCHANGED <<summarized, leaseCount>>
    BY <1>2 DEF AbandonSummaryClaim
  <1>5. IInv
    BY DEF PipelineInv
  <1>6. MildStep /\ NoneHeard
    BY <1>3, <1>4, <1>5, ClaimMild
  <1> QED BY <1>2, <1>4, <1>6, WorkerEnds

\* The run goes on with what it has made so far.
LEMMA WorkerGoesOn ==
  ASSUME PipelineInv, IInv', UNCHANGED ledgerVars,
         UNCHANGED <<cache, daemon, active, played, told>>,
         worker.pc # "idle", NEW c, c = worker.claim,
         NEW p \in WorkerPc \ {"idle", "commit"}, NEW T \in Completions,
         worker' = [pc |-> p, claim |-> c, tells |-> T],
         p \in {"claimed", "load"} => T = {},
         p = "generate" => T = Extended(c.task, c.prev),
         p \in {"attempt", "synthesize", "store", "recheck"} => T = ToTell(c.task, c.gen)
  PROVE  PipelineInv'
  <1>1. UNCHANGED <<rows, summarized, leaseCount>>
    BY DEF ledgerVars, vars
  <1>2. MildStep /\ NoneHeard
    BY <1>1, RowsRest DEF PipelineInv
  <1>3. /\ c \in Claim /\ c.gen \in DOMAIN rows[c.task]
        /\ rows[c.task][c.gen].state = "generating"
        /\ rows[c.task][c.gen].prev = c.prev /\ rows[c.task][c.gen].covers = c.covers
    BY DEF PipelineInv, ClaimHeld
  <1>4. ClaimHeld'
    BY <1>1, <1>3 DEF ClaimHeld
  <1>5. /\ Extended(c.task, c.prev)' = Extended(c.task, c.prev)
        /\ ToTell(c.task, c.gen)' = ToTell(c.task, c.gen)
    BY <1>1 DEF Extended, ToTell, Coverage
  <1>6. worker'.pc = p /\ worker'.claim = c /\ worker'.tells = T
    OBVIOUS
  <1>7. /\ p \in {"claimed", "load"} => T = {}
        /\ p = "generate" => T = Extended(c.task, c.prev)'
        /\ p \in {"attempt", "synthesize", "store", "commit", "recheck"} =>
             T = ToTell(c.task, c.gen)'
        /\ p # "commit"
    BY <1>5
  <1>8. DocumentTells'
    BY <1>6, <1>7 DEF DocumentTells, Extended, ToTell, Coverage
  <1>9. worker' \in [pc : WorkerPc, claim : Claim \cup {NoClaim}, tells : Completions]
    BY <1>3
  <1> QED BY <1>1, <1>2, <1>4, <1>8, <1>9, WorkerFrame
\* The steps of a run that leave ledger and cache alone, or give the claim up.
LEMMA WorkerMakes ==
  ASSUME PipelineInv, IInv',
         \/ CheckAttempt \/ LoadPrevious \/ Generate \/ Synthesize \/ WorkerFails
         \/ RecoverCacheFails \/ CacheReportsError
  PROVE  PipelineInv' /\ MildStep /\ NoneHeard
  <1>1. /\ IInv /\ HostTyped /\ ClaimHeld /\ DocumentTells /\ ObjectsTell /\ Extending
    BY DEF PipelineInv
  <1>2. UNCHANGED <<cache, daemon, active, played, told>>
    BY DEF CheckAttempt, LoadPrevious, Generate, Synthesize, WorkerFails,
           RecoverCacheFails, CacheReportsError
  <1>3. worker.pc # "idle"
    BY DEF CheckAttempt, LoadPrevious, Generate, Synthesize, WorkerFails,
           RecoverCacheFails, CacheReportsError
  <1>4. PICK c \in Claim : c = worker.claim
    BY <1>1, <1>3 DEF ClaimHeld
  <1>5. /\ c.task \in Task /\ c.gen \in DOMAIN rows[c.task] /\ c.covers \in Completions
        /\ rows[c.task][c.gen].state = "generating"
        /\ rows[c.task][c.gen].prev = c.prev /\ rows[c.task][c.gen].covers = c.covers
    BY <1>1, <1>3, <1>4 DEF ClaimHeld, Claim, Completions
  <1>6. /\ worker \in [pc : WorkerPc, claim : Claim \cup {NoClaim}, tells : Completions]
        /\ worker.tells \in Completions
    BY <1>1 DEF HostTyped
  <1>7. UNCHANGED ledgerVars => MildStep /\ NoneHeard /\ UNCHANGED leaseCount
    BY <1>1, RowsRest DEF ledgerVars, vars
  <1>8. CASE GiveUp
    BY <1>2, <1>3, <1>8, GiveUpKeeps
  <1>9. CASE UNCHANGED ledgerVars /\ worker' = Idle
    BY <1>2, <1>7, <1>9, WorkerEnds
  <1>10. CASE /\ UNCHANGED ledgerVars /\ worker.pc = "claimed"
              /\ worker' = [worker EXCEPT !.pc = "load"]
    <2>1. worker' = [pc |-> "load", claim |-> c, tells |-> {}] /\ {} \in Completions
      BY <1>1, <1>4, <1>6, <1>10 DEF DocumentTells, Completions
    <2>2. "load" \in WorkerPc \ {"idle", "commit"}
      BY DEF WorkerPc
    <2> QED BY <1>2, <1>3, <1>4, <1>7, <1>10, <2>1, <2>2, WorkerGoesOn
  <1>11. ASSUME UNCHANGED ledgerVars, worker.pc = "load", NEW T \in Completions,
                worker' = [worker EXCEPT !.pc = "generate", !.tells = T],
                T = Extended(c.task, c.prev)
         PROVE  PipelineInv'
    <2>1. worker' = [pc |-> "generate", claim |-> c, tells |-> T]
      BY <1>4, <1>6, <1>11
    <2>2. "generate" \in WorkerPc \ {"idle", "commit"}
      BY DEF WorkerPc
    <2> QED BY <1>2, <1>3, <1>4, <1>11, <2>1, <2>2, WorkerGoesOn, ZenonT(60)
  <1>12. CASE LoadPrevious
    <2>1. CASE c.prev = 0
      <3>1. /\ UNCHANGED ledgerVars /\ worker.pc = "load"
            /\ worker' = [worker EXCEPT !.pc = "generate"]
        BY <1>4, <1>12, <2>1 DEF LoadPrevious
      <3>2. worker.tells = {} /\ Extended(c.task, c.prev) = {}
        BY <1>1, <2>1, <3>1 DEF DocumentTells, Extended
      <3>3. worker' = [worker EXCEPT !.pc = "generate", !.tells = {}] /\ {} \in Completions
        BY <1>6, <3>1, <3>2
      <3> QED BY <1>7, <1>11, <3>1, <3>2, <3>3
    <2>2. CASE c.prev # 0 /\ Cached(c.task, c.prev) = {}
      BY <1>4, <1>8, <1>12, <2>2 DEF LoadPrevious
    <2>3. CASE c.prev # 0 /\ Cached(c.task, c.prev) # {}
      <3>1. PICK o \in Cached(c.task, c.prev) :
              worker' = [worker EXCEPT !.pc = "generate", !.tells = o.tells]
        BY <1>4, <1>12, <2>3 DEF LoadPrevious
      <3>2. UNCHANGED ledgerVars /\ worker.pc = "load"
        BY <1>4, <1>12, <2>3 DEF LoadPrevious
      <3>3. o \in cache /\ o.task = c.task /\ o.gen = c.prev /\ o.tells \in Completions
        BY <1>1 DEF Cached, HostTyped
      <3>4. Settled(c.task, c.prev)
        BY <1>1, <1>5, <2>3 DEF Extending, InState, Active
      <3>5. o.tells = Extended(c.task, c.prev)
        BY <1>1, <2>3, <3>3, <3>4 DEF ObjectsTell, Extended
      <3> QED BY <1>7, <1>11, <3>1, <3>2, <3>3, <3>5
    <2> QED BY <2>1, <2>2, <2>3
  <1>13. CASE Generate
    <2> DEFINE T == worker.tells \cup c.covers
    <2>1. /\ UNCHANGED ledgerVars /\ worker.pc = "generate"
          /\ worker' = [worker EXCEPT !.pc = "attempt", !.tells = T]
      BY <1>4, <1>13 DEF Generate
    <2>2. T \in Completions
      BY <1>5, <1>6 DEF Completions
    <2>3. T = ToTell(c.task, c.gen)
      BY <1>1, <1>4, <1>5, <2>1 DEF DocumentTells, ToTell
    <2> HIDE DEF T
    <2>4. worker' = [pc |-> "attempt", claim |-> c, tells |-> T]
      BY <1>4, <1>6, <2>1
    <2>5. "attempt" \in WorkerPc \ {"idle", "commit"}
      BY DEF WorkerPc
    <2> QED BY <1>2, <1>3, <1>4, <1>7, <2>1, <2>2, <2>3, <2>4, <2>5, WorkerGoesOn
  <1>14. ASSUME NEW p \in {"store", "recheck"}, UNCHANGED ledgerVars,
                worker.pc \in {"synthesize", "commit"}, worker' = [worker EXCEPT !.pc = p]
         PROVE  PipelineInv' /\ MildStep /\ NoneHeard
    <2>1. PICK T \in Completions : T = worker.tells
      BY <1>6
    <2>2. T = ToTell(c.task, c.gen)
      BY <1>1, <1>4, <1>14, <2>1 DEF DocumentTells
    <2>3. worker' = [pc |-> p, claim |-> c, tells |-> T]
      BY <1>4, <1>6, <1>14, <2>1
    <2>4. p \in WorkerPc \ {"idle", "commit"} /\ p \notin {"claimed", "load", "generate"}
      BY DEF WorkerPc
    <2> QED BY <1>2, <1>3, <1>4, <1>7, <1>14, <2>2, <2>3, <2>4, WorkerGoesOn
  <1>15. CASE CheckAttempt
    BY <1>8, <1>10, <1>15 DEF CheckAttempt
  <1>16. CASE Synthesize
    BY <1>14, <1>16 DEF Synthesize
  <1>17. CASE WorkerFails
    BY <1>8, <1>17 DEF WorkerFails
  <1>18. CASE RecoverCacheFails
    BY <1>9, <1>18 DEF RecoverCacheFails
  <1>19. CASE CacheReportsError
    BY <1>14, <1>19 DEF CacheReportsError
  <1> QED BY <1>12, <1>13, <1>15, <1>16, <1>17, <1>18, <1>19

\* begin_summary_tts_attempt.
LEMMA BeginTtsKeeps ==
  ASSUME PipelineInv, IInv', BeginTts
  PROVE  PipelineInv' /\ MildStep /\ NoneHeard
  <1>1. IInv /\ HostTyped /\ ClaimHeld /\ DocumentTells
    BY DEF PipelineInv
  <1>2. worker.pc = "attempt" /\ worker' = [worker EXCEPT !.pc = "synthesize"]
    BY DEF BeginTts
  <1>3. PICK c \in Claim : c = worker.claim
    BY <1>1, <1>2 DEF ClaimHeld
  <1>4. /\ c.task \in Task /\ c.gen \in DOMAIN rows[c.task]
        /\ rows[c.task][c.gen].state = "generating"
        /\ rows[c.task][c.gen].prev = c.prev /\ rows[c.task][c.gen].covers = c.covers
    BY <1>1, <1>2, <1>3 DEF ClaimHeld, Claim
  <1>5. /\ rows' = WithRow(c.task, c.gen, [rows[c.task][c.gen] EXCEPT !.tts = TRUE])
        /\ UNCHANGED <<summarized, leaseCount, cache, daemon, active, played, told>>
    BY <1>3 DEF BeginTts, BeginSummaryTtsAttempt
  <1>6. c.gen \in InState(c.task, Active)
    BY <1>4 DEF InState, Active
  <1>7. PICK r : r = [rows[c.task][c.gen] EXCEPT !.tts = TRUE]
    OBVIOUS
  <1>8. /\ MildStep /\ NoneHeard /\ rows'[c.task][c.gen] = r
        /\ DOMAIN rows'[c.task] = DOMAIN rows[c.task]
        /\ r.covers = rows[c.task][c.gen].covers /\ r.prev = rows[c.task][c.gen].prev
        /\ r.state = rows[c.task][c.gen].state
    <2>1. /\ r \in {[rows[c.task][c.gen] EXCEPT !.state = "generating"],
                    [rows[c.task][c.gen] EXCEPT !.state = "abandoned", !.tts = FALSE],
                    [rows[c.task][c.gen] EXCEPT !.tts = TRUE]}
          /\ rows' = WithRow(c.task, c.gen, r) /\ summarized' = summarized
      BY <1>5, <1>7
    <2>2. MildStep /\ NoneHeard
      BY <1>1, <1>4, <1>6, <2>1, ClaimMild
    <2>3. rows[c.task][c.gen] \in Row
      BY <1>1, <1>4, Shape DEF IInv
    <2>4. /\ r \in Row /\ r.state = rows[c.task][c.gen].state
          /\ r.covers = rows[c.task][c.gen].covers /\ r.prev = rows[c.task][c.gen].prev
      BY <1>7, <2>3 DEF Row
    <2>5. rows'[c.task][c.gen] = r /\ DOMAIN rows'[c.task] = DOMAIN rows[c.task]
      BY <1>1, <1>4, <2>1, <2>4, WithRowShape DEF IInv
    <2> QED BY <2>2, <2>4, <2>5
  <1>9. /\ worker'.pc = "synthesize" /\ worker'.claim = c /\ worker'.tells = worker.tells
        /\ worker' \in [pc : WorkerPc, claim : Claim \cup {NoClaim}, tells : Completions]
    BY <1>1, <1>2, <1>3 DEF HostTyped, WorkerPc
  <1>10. ClaimHeld'
    BY <1>4, <1>8, <1>9 DEF ClaimHeld
  <1>11. ToTell(c.task, c.gen)' = ToTell(c.task, c.gen)
    BY <1>1, <1>4, <1>8, MildFacts
  <1>12. worker.tells = ToTell(c.task, c.gen)
    BY <1>1, <1>2, <1>3 DEF DocumentTells
  <1>13. DocumentTells'
    BY <1>9, <1>11, <1>12 DEF DocumentTells, ToTell, Extended, Coverage
  <1> QED BY <1>5, <1>8, <1>9, <1>10, <1>13, WorkerFrame

\* publish_or_verify_with puts the object in place.
LEMMA StoreKeeps ==
  ASSUME PipelineInv, IInv', StoreObject
  PROVE  PipelineInv' /\ MildStep /\ NoneHeard
  <1>1. IInv /\ HostTyped /\ ClaimHeld /\ DocumentTells /\ ObjectsTell
    BY DEF PipelineInv
  <1>2. worker.pc = "store" /\ worker' = [worker EXCEPT !.pc = "commit"]
    BY DEF StoreObject
  <1>3. PICK c \in Claim : c = worker.claim
    BY <1>1, <1>2 DEF ClaimHeld
  <1>4. /\ c.task \in Task /\ c.gen \in DOMAIN rows[c.task] /\ c.gen \in 1..MaxGenerations
        /\ rows[c.task][c.gen].state = "generating"
        /\ rows[c.task][c.gen].prev = c.prev /\ rows[c.task][c.gen].covers = c.covers
    BY <1>1, <1>2, <1>3 DEF ClaimHeld, Claim
  <1>5. PICK o : o = [task |-> c.task, gen |-> c.gen, tells |-> worker.tells]
    OBVIOUS
  <1>6. /\ cache' = cache \cup {o}
        /\ UNCHANGED <<rows, summarized, leaseCount, daemon, active, played, told>>
    BY <1>3, <1>5 DEF StoreObject, ledgerVars, vars
  <1>7. MildStep /\ NoneHeard /\ leaseCount' \in Nat /\ leaseCount' >= leaseCount
    BY <1>1, <1>6, RowsRest DEF IInv, TypeInv, TypeOK
  <1>8. /\ worker'.pc = "commit" /\ worker'.claim = c /\ worker'.tells = worker.tells
        /\ worker' \in [pc : WorkerPc, claim : Claim \cup {NoClaim}, tells : Completions]
        /\ worker.tells \in Completions
    BY <1>1, <1>2, <1>3 DEF HostTyped, WorkerPc
  <1>9. /\ o.task = c.task /\ o.gen = c.gen /\ o.tells = worker.tells
        /\ o \in [task : Task, gen : 1..MaxGenerations, tells : Completions]
    BY <1>4, <1>5, <1>8
  <1>10. HostTyped'
    BY <1>1, <1>6, <1>8, <1>9 DEF HostTyped
  <1>11. worker.tells = ToTell(c.task, c.gen)
    BY <1>1, <1>2, <1>3 DEF DocumentTells
  <1>12. \A t, g : /\ Settled(t, g)' <=> Settled(t, g)
                   /\ Coverage(t, g)' = Coverage(t, g)
                   /\ ToTell(t, g)' = ToTell(t, g)
    BY <1>6 DEF Settled, Coverage, ToTell, Extended
  <1>13. ~Settled(c.task, c.gen)
    BY <1>4 DEF Settled, Unread
  <1>14. ObjectsTell'
    <2> SUFFICES ASSUME NEW q \in cache'
                 PROVE  /\ q.gen \in DOMAIN rows[q.task]
                        /\ Settled(q.task, q.gen) => q.tells = Coverage(q.task, q.gen)
                        /\ rows[q.task][q.gen].state \in Active => q.tells = ToTell(q.task, q.gen)
      BY <1>6, <1>12 DEF ObjectsTell
    <2>1. CASE q \in cache
      BY <1>1, <2>1 DEF ObjectsTell
    <2>2. CASE q = o
      BY <1>4, <1>9, <1>11, <1>13, <2>2
    <2> QED BY <1>6, <2>1, <2>2
  <1>15. Extending'
    BY <1>6, <1>12 DEF PipelineInv, Extending, InState, Settled
  <1>16. ClaimHeld'
    BY <1>4, <1>6, <1>8, <1>3 DEF ClaimHeld
  <1>17. o \in Cached(c.task, c.gen)'
    BY <1>6, <1>9 DEF Cached
  <1>18. DocumentTells'
    <2>1. /\ worker'.pc = "commit" /\ worker'.tells = ToTell(c.task, c.gen)'
          /\ Cached(c.task, c.gen)' # {}
      BY <1>8, <1>11, <1>12, <1>17
    <2> QED BY <1>8, <2>1 DEF DocumentTells, ToTell, Extended, Coverage, Cached
  <1>19. RetainedIsCached' /\ HeardWasTold'
    BY <1>6, <1>7, RetainedFrame, HeardFrame
  <1>20. Playing' /\ PlayedDrawn' /\ Starting'
    BY <1>6, <1>7, PlayingFrame, StartingFrame
  <1> QED BY <1>7, <1>10, <1>14, <1>15, <1>16, <1>18, <1>19, <1>20 DEF PipelineInv
\* resume_interrupted_summary hands the claim of the row to the worker.
LEMMA ResumeKeeps ==
  ASSUME PipelineInv, IInv', NEW t \in Task, ResumeInterruptedSummary(t), TakeWork(t)
  PROVE  PipelineInv' /\ MildStep /\ NoneHeard
  <1>1. IInv
    BY DEF PipelineInv
  <1>2. PICK g \in InState(t, {"interrupted"}) :
          /\ rows' = WithRow(t, g, [rows[t][g] EXCEPT !.state = "generating"])
          /\ issued' = issued \cup {ClaimValue(t, g, rows[t][g].prev, rows[t][g].covers)}
          /\ UNCHANGED <<summarized, leaseCount>>
    BY DEF ResumeInterruptedSummary
  <1>3. PICK c \in issued' \ issued : worker' = [pc |-> "claimed", claim |-> c, tells |-> {}]
    BY DEF TakeWork
  <1>4. /\ g \in InState(t, Active) /\ g \in DOMAIN rows[t] /\ g \in 1..MaxGenerations
        /\ rows[t][g] \in Row
    BY <1>1, Shape DEF IInv, InState, Active
  <1>5. rows[t][g].prev \in 0..MaxGenerations /\ rows[t][g].covers \in SUBSET (1..MaxCompletions)
    BY <1>4 DEF Row
  <1>6. /\ c \in Claim /\ c.task = t /\ c.gen = g
        /\ c.prev = rows[t][g].prev /\ c.covers = rows[t][g].covers
    <2>1. c = ClaimValue(t, g, rows[t][g].prev, rows[t][g].covers)
      BY <1>2, <1>3
    <2>2. c \in Claim
      BY <1>1, <1>4, <1>5, <2>1, ClaimTyped DEF IInv
    <2> QED BY <2>1, <2>2 DEF ClaimValue
  <1>7. PICK r : r = [rows[t][g] EXCEPT !.state = "generating"]
    OBVIOUS
  <1>8. MildStep /\ NoneHeard
    BY <1>1, <1>2, <1>4, ClaimMild
  <1>9. "generating" \in RowState
    BY DEF RowState, Active
  <1>10. /\ r \in Row /\ r.state = "generating"
         /\ r.covers = rows[t][g].covers /\ r.prev = rows[t][g].prev
    BY <1>4, <1>7, <1>9 DEF Row
  <1>11. rows'[t][g] = r /\ DOMAIN rows'[t] = DOMAIN rows[t]
    BY <1>1, <1>2, <1>4, <1>7, <1>10, WithRowShape DEF IInv
  <1>12. worker'.pc = "claimed" /\ worker'.claim = c /\ worker'.tells = {}
    BY <1>3
  <1>13. ClaimHeld' /\ DocumentTells'
    BY <1>4, <1>6, <1>10, <1>11, <1>12 DEF ClaimHeld, DocumentTells
  <1>14. worker' \in [pc : WorkerPc, claim : Claim \cup {NoClaim}, tells : Completions]
    BY <1>3, <1>6 DEF WorkerPc, Completions
  <1>15. UNCHANGED <<cache, daemon, active, played, told>>
    BY DEF TakeWork
  <1> QED BY <1>2, <1>8, <1>13, <1>14, <1>15, WorkerFrame

\* What opening a claim does to the rows.
LEMMA ClaimShape ==
  ASSUME IInv, NEW t \in Task, ClaimSummary(t)
  PROVE  \E S \in Completions : \E k \in 1..MaxGenerations :
           /\ issued' = issued \cup {ClaimValue(t, k, Current(t), S)}
           /\ k \notin DOMAIN rows[t] /\ DOMAIN rows'[t] = DOMAIN rows[t] \cup {k}
           /\ rows'[t][k] = [state |-> "generating", covers |-> S, prev |-> Current(t),
                             by |-> 0, tts |-> FALSE]
           /\ \A g \in DOMAIN rows[t] : rows'[t][g] = rows[t][g]
           /\ \A u \in Task : u # t => rows'[u] = rows[u]
  <1>1. PICK S \in OldestPending(t) :
          /\ rows' = [rows EXCEPT ![t] = Append(@,
               [state |-> "generating", covers |-> S, prev |-> Current(t),
                by |-> 0, tts |-> FALSE])]
          /\ issued' = issued \cup {ClaimValue(t, Len(rows[t]) + 1, Current(t), S)}
    BY DEF ClaimSummary
  <1> DEFINE row == [state |-> "generating", covers |-> S, prev |-> Current(t),
                     by |-> 0, tts |-> FALSE]
             k == Len(rows[t])
  <1>2. k \in Nat /\ DOMAIN rows[t] = 1..k /\ rows[t] \in Seq(Row)
    BY Shape DEF IInv
  <1>3. S \in Completions
    BY Shape DEF OldestPending, Pending, Coverage, IInv, Completions
  <1>4. row \in Row
    <2>1. Current(t) \in 0..MaxGenerations /\ 0 \in 0..MaxGenerations
      BY CurrentRow, LedgerConstants DEF IInv
    <2> QED BY <1>3, <2>1 DEF Row, RowState, Active, Completions
  <1>5. rows'[t] = Append(rows[t], row) /\ \A u \in Task : u # t => rows'[u] = rows[u]
    BY <1>1 DEF IInv, TypeInv, TypeOK
  <1>6. /\ Append(rows[t], row) \in Seq(Row)
        /\ Len(Append(rows[t], row)) = k + 1
        /\ \A i \in 1..k : Append(rows[t], row)[i] = rows[t][i]
        /\ Append(rows[t], row)[k + 1] = row
    BY <1>2, <1>4, AppendProperties
  <1>7. DOMAIN rows'[t] = 1..(k + 1)
    BY <1>5, <1>6, LenProperties
  <1>8. k < MaxGenerations
    BY DEF ClaimSummary
  <1> HIDE DEF row, k
  <1>9. k + 1 \in 1..MaxGenerations /\ k + 1 \notin 1..k /\ 1..(k + 1) = (1..k) \cup {k + 1}
    BY <1>2, <1>8, LedgerConstants
  <1>10. rows'[t][k + 1] = row /\ \A g \in DOMAIN rows[t] : rows'[t][g] = rows[t][g]
    BY <1>2, <1>5, <1>6
  <1>11. PICK j : j = k + 1
    OBVIOUS
  <1>12. /\ issued' = issued \cup {ClaimValue(t, j, Current(t), S)}
         /\ j \notin DOMAIN rows[t] /\ DOMAIN rows'[t] = DOMAIN rows[t] \cup {j}
         /\ rows'[t][j] = row
    BY <1>1, <1>2, <1>7, <1>9, <1>10, <1>11 DEF k
  <1> QED BY <1>3, <1>5, <1>9, <1>10, <1>11, <1>12 DEF row
\* claim_summary appends a row; the worker holds its claim.
LEMMA FreshClaimKeeps ==
  ASSUME PipelineInv, IInv', NEW t \in Task, ClaimSummary(t), TakeWork(t)
  PROVE  /\ PipelineInv'
         /\ \A u \in Task : \A g \in DOMAIN rows[u] :
              g \in DOMAIN rows'[u] /\ rows'[u][g] = rows[u][g]
  <1>1. /\ IInv /\ HostTyped /\ ObjectsTell /\ Extending /\ Starting /\ Playing
        /\ PlayedDrawn /\ RetainedIsCached /\ HeardWasTold
    BY DEF PipelineInv
  <1>2. PICK S \in Completions, k \in 1..MaxGenerations :
          /\ issued' = issued \cup {ClaimValue(t, k, Current(t), S)}
          /\ k \notin DOMAIN rows[t] /\ DOMAIN rows'[t] = DOMAIN rows[t] \cup {k}
          /\ rows'[t][k] = [state |-> "generating", covers |-> S, prev |-> Current(t),
                            by |-> 0, tts |-> FALSE]
          /\ \A g \in DOMAIN rows[t] : rows'[t][g] = rows[t][g]
          /\ \A u \in Task : u # t => rows'[u] = rows[u]
    BY <1>1, ClaimShape
  <1>3. /\ rows'[t][k].state = "generating" /\ rows'[t][k].covers = S
        /\ rows'[t][k].prev = Current(t)
    BY <1>2
  <1>4. /\ UNCHANGED <<summarized, leaseCount, cache, daemon, active, played, told>>
    BY DEF TakeWork, ClaimSummary
  <1>5. /\ \A u \in Task : \A g \in DOMAIN rows[u] :
             g \in DOMAIN rows'[u] /\ rows'[u][g] = rows[u][g]
        /\ \A u \in Task : \A g \in DOMAIN rows'[u] :
             g \in DOMAIN rows[u] \/ (u = t /\ g = k)
    BY <1>2
  <1>6. \A u, g : Coverage(u, g)' = Coverage(u, g) /\ Extended(u, g)' = Extended(u, g)
    BY <1>4 DEF Coverage, Extended
  <1>7. ASSUME NEW u \in Task, NEW g \in DOMAIN rows[u]
        PROVE  /\ Settled(u, g)' <=> Settled(u, g)
               /\ Published(u, g)' <=> Published(u, g)
               /\ ToTell(u, g)' = ToTell(u, g)
    <2>1. rows'[u][g] = rows[u][g]
      BY <1>5
    <2> QED BY <1>4, <2>1 DEF Settled, Published, ToTell, Extended, Coverage
  <1>8. PICK c \in issued' \ issued : worker' = [pc |-> "claimed", claim |-> c, tells |-> {}]
    BY DEF TakeWork
  <1>9. Current(t) \in 0..MaxGenerations /\ (Current(t) # 0 => Current(t) \in CurrentUnread(t))
    BY <1>1, CurrentRow DEF IInv
  <1>10. /\ c \in Claim /\ c.task = t /\ c.gen = k /\ c.prev = Current(t) /\ c.covers = S
    <2>1. c = ClaimValue(t, k, Current(t), S)
      BY <1>2, <1>8
    <2>2. c \in Claim
      BY <1>1, <1>9, <2>1, ClaimTyped DEF IInv, Completions
    <2> QED BY <2>1, <2>2 DEF ClaimValue
  <1>11. worker'.pc = "claimed" /\ worker'.claim = c /\ worker'.tells = {}
    BY <1>8
  <1>12. worker' \in [pc : WorkerPc, claim : Claim \cup {NoClaim}, tells : Completions]
    BY <1>8, <1>10 DEF WorkerPc, Completions
  <1>13. HostTyped'
    BY <1>1, <1>4, <1>12 DEF HostTyped
  <1>14. ClaimHeld' /\ DocumentTells'
    BY <1>2, <1>3, <1>10, <1>11 DEF ClaimHeld, DocumentTells
  <1>15. ObjectsTell'
    <2> SUFFICES ASSUME NEW o \in cache
                 PROVE  /\ o.gen \in DOMAIN rows'[o.task]
                        /\ Settled(o.task, o.gen)' => o.tells = Coverage(o.task, o.gen)'
                        /\ rows'[o.task][o.gen].state \in Active =>
                             o.tells = ToTell(o.task, o.gen)'
      BY <1>4 DEF ObjectsTell
    <2>1. o.task \in Task /\ o.gen \in DOMAIN rows[o.task]
      BY <1>1 DEF HostTyped, ObjectsTell
    <2>2. o.gen \in DOMAIN rows'[o.task] /\ rows'[o.task][o.gen] = rows[o.task][o.gen]
      BY <1>5, <2>1
    <2>3. /\ Settled(o.task, o.gen) => o.tells = Coverage(o.task, o.gen)
          /\ rows[o.task][o.gen].state \in Active => o.tells = ToTell(o.task, o.gen)
      BY <1>1 DEF ObjectsTell
    <2> QED BY <1>6, <1>7, <2>1, <2>2, <2>3
  <1>16. Extending'
    <2> SUFFICES ASSUME NEW u \in Task, NEW g \in InState(u, Active)', rows'[u][g].prev # 0
                 PROVE  (rows[u][g].prev \in DOMAIN rows[u] /\ Settled(u, rows[u][g].prev))'
      BY DEF Extending
    <2>1. PICK p : p = rows'[u][g].prev
      OBVIOUS
    <2>2. p \in DOMAIN rows[u] /\ Settled(u, p)
      <3>1. CASE u = t /\ g = k
        <4>1. p = Current(t) /\ p \in CurrentUnread(t)
          BY <1>3, <1>9, <2>1, <3>1
        <4> QED BY <3>1, <4>1 DEF CurrentUnread, InState, Settled
      <3>2. CASE g \in DOMAIN rows[u]
        <4>1. rows'[u][g] = rows[u][g] /\ g \in InState(u, Active)
          BY <1>5, <3>2 DEF InState
        <4> QED BY <1>1, <2>1, <4>1 DEF Extending
      <3> QED BY <1>5, <3>1, <3>2 DEF InState
    <2>3. p \in DOMAIN rows'[u] /\ Settled(u, p)'
      BY <1>5, <1>7, <2>2
    <2> QED BY <2>1, <2>3 DEF Settled
  <1>17. ASSUME NEW l \in Lease, InUse(l) PROVE InUse(l)'
    <2>1. l.task \in Task /\ l.gen \in DOMAIN rows[l.task] /\ Published(l.task, l.gen)
      BY <1>17 DEF Lease, InUse
    <2>2. l.gen \in DOMAIN rows'[l.task] /\ Published(l.task, l.gen)'
      BY <1>5, <1>7, <2>1
    <2> QED BY <1>4, <1>17, <2>2 DEF InUse
  <1>18. Starting'
    <2>1. CASE daemon.pc = "load"
      <3>1. PICK l \in Lease : l = daemon.lease /\ InUse(l)
        BY <1>1, <2>1 DEF Starting
      <3>2. InUse(l)'
        BY <1>17, <3>1
      <3> QED BY <1>1, <1>4, <2>1, <3>1, <3>2 DEF Starting, InUse, Published
    <2> QED BY <1>1, <1>4, <2>1 DEF Starting
  <1>19. Playing' /\ PlayedDrawn'
    <2>1. ASSUME NEW a \in active
          PROVE  /\ InUse(a.lease)'
                 /\ Settled(a.lease.task, a.lease.gen)' =>
                      a.tells = Coverage(a.lease.task, a.lease.gen)'
      <3>1. /\ a.lease \in Lease /\ InUse(a.lease)
            /\ Settled(a.lease.task, a.lease.gen) => a.tells = Coverage(a.lease.task, a.lease.gen)
        BY <1>1 DEF HostTyped, Playing
      <3>2. a.lease.task \in Task /\ a.lease.gen \in DOMAIN rows[a.lease.task]
        BY <3>1 DEF Lease, InUse
      <3> QED BY <1>6, <1>7, <1>17, <3>1, <3>2
    <2> QED BY <1>1, <1>4, <2>1 DEF Playing, PlayedDrawn
  <1>20. RetainedIsCached'
    <2> SUFFICES ASSUME NEW u \in Task, NEW g \in InState(u, Unread)' PROVE Cached(u, g) # {}
      BY <1>4 DEF RetainedIsCached, Cached
    <2>1. ~(u = t /\ g = k)
      BY <1>3 DEF InState, Unread
    <2>2. g \in DOMAIN rows[u] /\ rows'[u][g] = rows[u][g]
      BY <1>5, <2>1 DEF InState
    <2> QED BY <1>1, <2>2 DEF RetainedIsCached, InState
  <1>21. HeardWasTold'
    <2> SUFFICES ASSUME NEW u \in Task, NEW g \in InState(u, {"heard"})'
                 PROVE  Coverage(u, g) \subseteq told[u]
      BY <1>4, <1>6 DEF HeardWasTold
    <2>1. ~(u = t /\ g = k)
      BY <1>3 DEF InState
    <2>2. g \in DOMAIN rows[u] /\ rows'[u][g] = rows[u][g]
      BY <1>5, <2>1 DEF InState
    <2> QED BY <1>1, <2>2 DEF HeardWasTold, InState
  <1> QED BY <1>5, <1>13, <1>14, <1>15, <1>16, <1>18, <1>19, <1>20, <1>21 DEF PipelineInv
\* What a publication does to the coverage of the rows: the published row covers
\* what was claimed and what the row it replaces covered, every other row what it did.
LEMMA PublishCoverage ==
  ASSUME IInv, NEW c \in issued, PublishSummary(c)
  PROVE  /\ Coverage(c.task, c.gen)' = c.covers \cup Extended(c.task, c.prev)
         /\ \A h \in DOMAIN rows[c.task] :
              h # c.gen /\ h # c.prev => Coverage(c.task, h)' = Coverage(c.task, h)
  <1> DEFINE t == c.task
  <1>1. /\ t \in Task /\ c.gen \in DOMAIN rows[t] /\ c.gen # 0
        /\ c.gen \in InState(t, Active) /\ c.covers \subseteq Pending(t) /\ c.prev # c.gen
        /\ DOMAIN summarized'[t] = DOMAIN summarized[t]
    BY PublishShape
  <1>2. ASSUME NEW n \in DOMAIN summarized[t]
        PROVE  summarized'[t][n] =
                 IF n \in c.covers \/ (c.prev # 0 /\ summarized[t][n] = c.prev)
                 THEN c.gen ELSE summarized[t][n]
    BY PublishShape, ZenonT(60)
  <1>3. \A n \in DOMAIN summarized[t] : summarized[t][n] # c.gen
    BY <1>1 DEF IInv, TaskInv, InState, Active, Unread
  <1>4. \A n \in c.covers : n \in DOMAIN summarized[t] /\ summarized[t][n] = 0
    BY <1>1 DEF Pending, Coverage
  <1>5. Coverage(t, c.gen)' = c.covers \cup Extended(t, c.prev)
    <2>1. Coverage(t, c.gen)' = {n \in DOMAIN summarized[t] : summarized'[t][n] = c.gen}
      BY <1>1 DEF Coverage
    <2>2. Extended(t, c.prev) =
            {n \in DOMAIN summarized[t] : c.prev # 0 /\ summarized[t][n] = c.prev}
      BY DEF Extended, Coverage
    <2>3. \A n \in DOMAIN summarized[t] : summarized'[t][n] = c.gen <=>
            n \in c.covers \/ (c.prev # 0 /\ summarized[t][n] = c.prev)
      BY <1>2, <1>3
    <2> QED BY <1>4, <2>1, <2>2, <2>3
  <1>6. ASSUME NEW h \in DOMAIN rows[t], h # c.gen, h # c.prev
        PROVE  Coverage(t, h)' = Coverage(t, h)
    <2>1. h # 0
      BY <1>1, Shape, LedgerConstants DEF IInv
    <2>2. \A n \in DOMAIN summarized[t] : summarized'[t][n] = h <=> summarized[t][n] = h
      BY <1>2, <1>4, <1>6, <2>1
    <2> QED BY <1>1, <2>2 DEF Coverage
  <1> QED BY <1>5, <1>6

\* publish_summary of the claim in hand, its object in the cache.
LEMMA PublishPipeline ==
  ASSUME PipelineInv, IInv', NEW c \in issued, c = worker.claim, worker.pc # "idle",
         PublishSummary(c), Cached(c.task, c.gen) # {}, worker' = Idle,
         UNCHANGED <<cache, daemon, active, played, told>>
  PROVE  PipelineInv'
  <1>1. /\ IInv /\ HostTyped /\ ObjectsTell /\ Extending /\ ClaimHeld /\ Starting /\ Playing
        /\ PlayedDrawn /\ RetainedIsCached /\ HeardWasTold
    BY DEF PipelineInv
  <1>2. PICK t \in Task : t = c.task
    BY <1>1, PublishShape
  <1>3. PICK g \in DOMAIN rows[t] : g = c.gen
    BY <1>1, <1>2, PublishShape
  <1>4. /\ g \in InState(t, Active) /\ g # c.prev /\ g # 0
        /\ DOMAIN rows'[t] = DOMAIN rows[t]
        /\ rows'[t][g] = [rows[t][g] EXCEPT !.state = "unheard", !.tts = FALSE]
        /\ UNCHANGED leaseCount
    BY <1>1, <1>2, <1>3, PublishShape DEF PublishSummary
  <1>5. /\ rows[t][g].prev = c.prev /\ rows[t][g].covers = c.covers
        /\ rows[t][g].state = "generating" /\ rows[t][g] \in Row /\ rows[t][g].by = 0
    <2>1. /\ rows[t][g].prev = c.prev /\ rows[t][g].covers = c.covers
          /\ rows[t][g].state = "generating"
      BY <1>1, <1>2, <1>3 DEF ClaimHeld
    <2>2. rows[t][g] \in Row
      BY <1>1, Shape DEF IInv
    <2> QED BY <1>1, <1>4, <2>1, <2>2 DEF IInv, TaskInv
  <1>6. rows'[t][g].state = "unheard" /\ rows'[t][g].by = 0
    BY <1>4, <1>5 DEF Row
  <1>7. c.prev # 0 =>
          /\ c.prev \in DOMAIN rows[t] /\ rows[t][c.prev].state \in Unread
          /\ rows'[t][c.prev].by # 0
          /\ rows'[t][c.prev].state \in {"superseded", "leased"}
          /\ rows'[t][c.prev].state = "leased" => rows[t][c.prev].state = "leased"
    <2> SUFFICES ASSUME c.prev # 0
                 PROVE  /\ c.prev \in DOMAIN rows[t] /\ rows[t][c.prev].state \in Unread
                        /\ rows'[t][c.prev].by # 0
                        /\ rows'[t][c.prev].state \in {"superseded", "leased"}
                        /\ rows'[t][c.prev].state = "leased" =>
                             rows[t][c.prev].state = "leased"
      OBVIOUS
    <2>1. /\ CurrentUnread(t) = {c.prev}
          /\ rows'[t][c.prev] = Supersede(rows[t][c.prev], g)
      BY <1>1, <1>2, <1>3, PublishShape
    <2>2. c.prev \in DOMAIN rows[t] /\ rows[t][c.prev].state \in Unread
      BY <2>1 DEF CurrentUnread, InState
    <2>3. rows[t][c.prev] \in Row
      BY <1>1, <2>2, Shape DEF IInv
    <2> QED BY <1>4, <2>1, <2>2, <2>3 DEF Supersede, Row, Unread
  <1>8. \A h \in DOMAIN rows[t] : h # g /\ h # c.prev => rows'[t][h] = rows[t][h]
    BY <1>1, <1>2, <1>3, PublishShape, ZenonT(60)
  <1>9. \A u \in Task : u # t => rows'[u] = rows[u] /\ summarized'[u] = summarized[u]
    <2>1. \A u \in Task : u # c.task => rows'[u] = rows[u] /\ summarized'[u] = summarized[u]
      BY <1>1, PublishShape
    <2> QED BY <1>2, <2>1
  <1>10. /\ Coverage(t, g)' = ToTell(t, g)
         /\ \A h \in DOMAIN rows[t] :
              h # g /\ h # c.prev => Coverage(t, h)' = Coverage(t, h)
    BY <1>1, <1>2, <1>3, <1>5, PublishCoverage DEF ToTell
  <1>11. ASSUME NEW u \in Task, NEW h \in DOMAIN rows[u],
                ~(u = t /\ h = g), ~(u = t /\ h = c.prev)
         PROVE  /\ rows'[u][h] = rows[u][h] /\ Coverage(u, h)' = Coverage(u, h)
                /\ Settled(u, h)' <=> Settled(u, h)
    <2>1. rows'[u][h] = rows[u][h]
      BY <1>8, <1>9, <1>11
    <2>2. Coverage(u, h)' = Coverage(u, h)
      <3>1. CASE u = t
        BY <1>10, <1>11, <3>1
      <3>2. CASE u # t
        BY <1>9, <3>2 DEF Coverage
      <3> QED BY <3>1, <3>2
    <2> QED BY <2>1, <2>2 DEF Settled
  <1>12. \A u \in Task : DOMAIN rows'[u] = DOMAIN rows[u]
    BY <1>4, <1>9
  <1>13. ASSUME NEW h \in DOMAIN rows[t], h # g PROVE rows'[t][h].state \notin Active
    <2>1. h \notin InState(t, Active)
      BY <1>1, <1>4, <1>13 DEF IInv, TaskInv
    <2>2. CASE h = c.prev
      <3>1. h # 0
        BY <1>1, Shape, LedgerConstants DEF IInv
      <3> QED BY <1>7, <2>2, <3>1 DEF Active
    <2>3. CASE h # c.prev
      BY <1>8, <1>13, <2>1, <2>3 DEF InState
    <2> QED BY <2>2, <2>3
  <1>14. \A h \in DOMAIN rows[t] : h = c.prev => c.prev # 0
    BY <1>1, Shape, LedgerConstants DEF IInv
  <1>15. HostTyped'
    BY <1>1 DEF HostTyped, Idle, WorkerPc, Completions
  <1>16. ClaimHeld' /\ DocumentTells'
    BY DEF ClaimHeld, DocumentTells, Idle
  <1>17. ObjectsTell'
    <2> SUFFICES ASSUME NEW o \in cache
                 PROVE  /\ o.gen \in DOMAIN rows'[o.task]
                        /\ Settled(o.task, o.gen)' => o.tells = Coverage(o.task, o.gen)'
                        /\ rows'[o.task][o.gen].state \in Active =>
                             o.tells = ToTell(o.task, o.gen)'
      BY DEF ObjectsTell
    <2>1. /\ o.task \in Task /\ o.gen \in DOMAIN rows[o.task]
          /\ Settled(o.task, o.gen) => o.tells = Coverage(o.task, o.gen)
          /\ rows[o.task][o.gen].state \in Active => o.tells = ToTell(o.task, o.gen)
      BY <1>1 DEF HostTyped, ObjectsTell
    <2>2. CASE o.task = t /\ o.gen = g
      <3>1. o.tells = ToTell(t, g)
        BY <1>4, <2>1, <2>2 DEF InState
      <3>2. rows'[t][g].state \notin Active
        BY <1>6 DEF Active
      <3> QED BY <1>10, <1>12, <2>1, <2>2, <3>1, <3>2
    <2>3. CASE o.task = t /\ o.gen = c.prev
      <3>1. c.prev # 0 /\ rows'[t][c.prev].by # 0
        BY <1>7, <1>14, <2>1, <2>3
      <3>2. ~Settled(o.task, o.gen)'
        BY <2>3, <3>1 DEF Settled
      <3>3. rows'[t][o.gen].state \notin Active
        BY <1>4, <1>13, <2>1, <2>3
      <3> QED BY <1>12, <2>1, <2>3, <3>2, <3>3
    <2>4. CASE ~(o.task = t /\ o.gen = g) /\ ~(o.task = t /\ o.gen = c.prev)
      <3>1. /\ rows'[o.task][o.gen] = rows[o.task][o.gen]
            /\ Coverage(o.task, o.gen)' = Coverage(o.task, o.gen)
            /\ Settled(o.task, o.gen)' <=> Settled(o.task, o.gen)
        BY <1>11, <2>1, <2>4
      <3>2. rows'[o.task][o.gen].state \in Active => ToTell(o.task, o.gen)' = ToTell(o.task, o.gen)
        <4>1. CASE o.task = t
          BY <1>13, <2>1, <2>4, <4>1
        <4>2. CASE o.task # t
          <5>1. rows'[o.task] = rows[o.task] /\ summarized'[o.task] = summarized[o.task]
            BY <1>9, <2>1, <4>2
          <5> QED BY <5>1 DEF ToTell, Extended, Coverage
        <4> QED BY <4>1, <4>2
      <3> QED BY <1>12, <2>1, <3>1, <3>2
    <2> QED BY <2>2, <2>3, <2>4
  <1>18. Extending'
    <2> SUFFICES ASSUME NEW u \in Task, NEW h \in InState(u, Active)', rows'[u][h].prev # 0
                 PROVE  (rows[u][h].prev \in DOMAIN rows[u] /\ Settled(u, rows[u][h].prev))'
      BY DEF Extending
    <2>1. CASE u = t
      BY <1>6, <1>12, <1>13, <2>1 DEF InState, Active
    <2>2. CASE u # t
      <3>1. rows'[u] = rows[u]
        BY <1>9, <2>2
      <3> QED BY <1>1, <3>1 DEF Extending, InState, Settled
    <2> QED BY <2>1, <2>2
  <1>19. ASSUME NEW l \in Lease, InUse(l)
         PROVE  InUse(l)' /\ ~(l.task = t /\ l.gen = g)
    <2>1. /\ l.task \in Task /\ l.gen \in DOMAIN rows[l.task] /\ Published(l.task, l.gen)
          /\ l.id <= leaseCount
      BY <1>19 DEF Lease, InUse
    <2>2. ~(l.task = t /\ l.gen = g)
      BY <1>5, <2>1 DEF Published, Unread
    <2>3. Published(l.task, l.gen)'
      <3>1. CASE l.task = t /\ l.gen = c.prev
        BY <1>7, <1>14, <2>1, <3>1 DEF Published, Unread
      <3>2. CASE ~(l.task = t /\ l.gen = c.prev)
        BY <1>11, <2>1, <2>2, <3>2 DEF Published
      <3> QED BY <3>1, <3>2
    <2> QED BY <1>4, <1>12, <2>1, <2>2, <2>3 DEF InUse
  <1>20. Starting'
    <2>1. CASE daemon.pc = "load"
      <3>1. PICK l \in Lease : l = daemon.lease /\ InUse(l)
        BY <1>1, <2>1 DEF Starting
      <3>2. InUse(l)'
        BY <1>19, <3>1
      <3> QED BY <1>1, <2>1, <3>1, <3>2 DEF Starting, InUse, Published
    <2> QED BY <1>1, <2>1 DEF Starting
  <1>21. Playing' /\ PlayedDrawn'
    <2>1. ASSUME NEW a \in active
          PROVE  /\ InUse(a.lease)'
                 /\ Settled(a.lease.task, a.lease.gen)' =>
                      a.tells = Coverage(a.lease.task, a.lease.gen)'
      <3>1. /\ a.lease \in Lease /\ InUse(a.lease)
            /\ Settled(a.lease.task, a.lease.gen) => a.tells = Coverage(a.lease.task, a.lease.gen)
        BY <1>1 DEF HostTyped, Playing
      <3>2. a.lease.task \in Task /\ a.lease.gen \in DOMAIN rows[a.lease.task]
        BY <3>1 DEF Lease, InUse
      <3>3. InUse(a.lease)' /\ ~(a.lease.task = t /\ a.lease.gen = g)
        BY <1>19, <3>1
      <3>4. CASE a.lease.task = t /\ a.lease.gen = c.prev
        <4>1. ~Settled(a.lease.task, a.lease.gen)'
          BY <1>7, <1>14, <3>2, <3>4 DEF Settled
        <4> QED BY <3>3, <4>1
      <3>5. CASE ~(a.lease.task = t /\ a.lease.gen = c.prev)
        BY <1>11, <3>1, <3>2, <3>3, <3>5
      <3> QED BY <3>4, <3>5
    <2> QED BY <1>1, <1>4, <2>1 DEF Playing, PlayedDrawn
  <1>22. RetainedIsCached'
    <2> SUFFICES ASSUME NEW u \in Task, NEW h \in InState(u, Unread)' PROVE Cached(u, h) # {}
      BY DEF RetainedIsCached, Cached
    <2>1. h \in DOMAIN rows[u] /\ rows'[u][h].state \in Unread
      BY <1>12 DEF InState
    <2>2. CASE u = t /\ h = g
      BY <1>2, <1>3, <2>2
    <2>3. CASE ~(u = t /\ h = g)
      <3>1. rows[u][h].state \in Unread
        BY <1>7, <1>11, <1>14, <2>1, <2>3
      <3> QED BY <1>1, <2>1, <3>1 DEF RetainedIsCached, InState
    <2> QED BY <2>2, <2>3
  <1>23. HeardWasTold'
    <2> SUFFICES ASSUME NEW u \in Task, NEW h \in InState(u, {"heard"})'
                 PROVE  Coverage(u, h)' \subseteq told[u]
      BY DEF HeardWasTold
    <2>1. h \in DOMAIN rows[u] /\ rows'[u][h].state = "heard"
      BY <1>12 DEF InState
    <2>2. ~(u = t /\ h = g) /\ ~(u = t /\ h = c.prev)
      BY <1>6, <1>7, <1>14, <2>1
    <2>3. rows'[u][h] = rows[u][h] /\ Coverage(u, h)' = Coverage(u, h)
      BY <1>11, <2>1, <2>2
    <2> QED BY <1>1, <2>1, <2>3 DEF HeardWasTold, InState
  <1> QED BY <1>15, <1>16, <1>17, <1>18, <1>20, <1>21, <1>22, <1>23 DEF PipelineInv
\* A run ends by publishing its object, or without effect, or by giving up.
LEMMA PublishingKeeps ==
  ASSUME PipelineInv, IInv', RecoverCache \/ CommitObject \/ RecheckCache
  PROVE  /\ PipelineInv'
         /\ (MildStep /\ NoneHeard) \/ (\E c \in issued : PublishSummary(c))
  <1>1. IInv /\ ClaimHeld /\ DocumentTells
    BY DEF PipelineInv
  <1>2. /\ UNCHANGED <<cache, daemon, active, played, told>> /\ worker.pc # "idle"
        /\ worker' = Idle
    BY DEF RecoverCache, CommitObject, RecheckCache, GiveUp
  <1>3. PICK c : c = worker.claim
    OBVIOUS
  <1>4. Cached(c.task, c.gen) # {} \/ GiveUp
    BY <1>1, <1>3 DEF RecoverCache, CommitObject, RecheckCache, DocumentTells
  <1>5. CASE GiveUp
    BY <1>2, <1>5, GiveUpKeeps
  <1>6. CASE UNCHANGED ledgerVars
    <2>1. MildStep /\ NoneHeard /\ UNCHANGED leaseCount
      BY <1>1, <1>6, RowsRest DEF ledgerVars, vars
    <2> QED BY <1>2, <2>1, WorkerEnds
  <1>7. CASE PublishSummary(c) /\ ~GiveUp
    <2>1. c \in issued
      BY <1>7 DEF PublishSummary
    <2> QED BY <1>2, <1>3, <1>4, <1>7, <2>1, PublishPipeline
  <1> QED
    BY <1>3, <1>5, <1>6, <1>7 DEF RecoverCache, CommitObject, RecheckCache

-----------------------------------------------------------------------------
(* The daemon, the keyboard and the process.                               *)

\* The observer and the control connection.
LEMMA ObserverKeeps ==
  ASSUME PipelineInv, IInv', UNCHANGED hostVars,
         \/ \E s \in Slot, t \in Task : SetBinding(s, t)
         \/ \E t \in Task : CommitCompletion(t)
         \/ UNCHANGED vars
  PROVE  PipelineInv' /\ MildStep /\ NoneHeard
  <1>1. IInv /\ HostTyped
    BY DEF PipelineInv
  <1>2. MildStep /\ NoneHeard /\ ClaimsStay /\ UNCHANGED leaseCount
    <2>1. CASE \E t \in Task : CommitCompletion(t)
      BY <1>1, <2>1, ObserveMild DEF CommitCompletion
    <2>2. CASE UNCHANGED <<rows, summarized, leaseCount>>
      BY <1>1, <2>2, RowsRest
    <2> QED BY <2>1, <2>2 DEF SetBinding, vars
  <1>3. leaseCount' \in Nat /\ leaseCount' >= leaseCount
    BY <1>1, <1>2 DEF IInv, TypeInv, TypeOK
  <1>4. UNCHANGED <<worker, cache, daemon, active, played, told>>
    BY DEF hostVars
  <1>5. Starting' /\ Playing' /\ PlayedDrawn'
    BY <1>2, <1>3, <1>4, StartingFrame, PlayingFrame
  <1>6. /\ daemon' \in [pc : {"idle", "begin", "load", "clean"}, slot : Slot \cup {NoSlot},
                        lease : Lease \cup {NoLease}]
        /\ active' \subseteq [lease : Lease, heard : BOOLEAN, tells : Completions]
    BY <1>1, <1>4 DEF HostTyped
  <1> QED BY <1>2, <1>4, <1>5, <1>6, DaemonFrame

\* The daemon ends what it was doing, or is asked to play; the ledger may cancel.
LEMMA DaemonMoves ==
  ASSUME PipelineInv, IInv', UNCHANGED <<worker, cache, played, told>>,
         UNCHANGED ledgerVars \/ \E l : CancelSummaryPlayback(l),
         active' \subseteq active,
         \/ daemon' = daemon
         \/ daemon' = DaemonIdle
         \/ \E s \in Slot : daemon' = [pc |-> "begin", slot |-> s, lease |-> NoLease]
  PROVE  PipelineInv' /\ MildStep /\ NoneHeard
  <1>1. IInv /\ HostTyped /\ Starting
    BY DEF PipelineInv
  <1>2. MildStep /\ NoneHeard /\ ClaimsStay /\ UNCHANGED leaseCount
    <2>1. CASE UNCHANGED ledgerVars
      BY <1>1, <2>1, RowsRest DEF ledgerVars, vars
    <2>2. ASSUME NEW l, CancelSummaryPlayback(l)
          PROVE  MildStep /\ NoneHeard /\ ClaimsStay /\ UNCHANGED leaseCount
      BY <1>1, <2>2, CancelMild
    <2> QED BY <2>1, <2>2
  <1>3. leaseCount' \in Nat /\ leaseCount' >= leaseCount
    BY <1>1, <1>2 DEF IInv, TypeInv, TypeOK
  <1>4. Playing' /\ PlayedDrawn'
    BY <1>2, <1>3, PlayingFrame
  <1>5. Starting'
    <2>1. CASE daemon' = daemon \/ daemon' = DaemonIdle
      <3>1. daemon' = daemon \/ daemon'.pc \notin {"begin", "load"}
        BY <2>1 DEF DaemonIdle
      <3> QED BY <1>2, <1>3, <3>1, StartingFrame
    <2>2. CASE \E s \in Slot : daemon' = [pc |-> "begin", slot |-> s, lease |-> NoLease]
      BY <2>2 DEF Starting
    <2> QED BY <2>1, <2>2
  <1>6. /\ daemon' \in [pc : {"idle", "begin", "load", "clean"}, slot : Slot \cup {NoSlot},
                        lease : Lease \cup {NoLease}]
        /\ active' \subseteq [lease : Lease, heard : BOOLEAN, tells : Completions]
    BY <1>1 DEF HostTyped, DaemonIdle
  <1> QED BY <1>2, <1>4, <1>5, <1>6, DaemonFrame

\* acquire_summary_playback draws a lease that no playback has used.
LEMMA AcquirePipeline ==
  ASSUME PipelineInv, IInv', Acquire, Playable(daemon.slot)
  PROVE  PipelineInv' /\ MildStep /\ NoneHeard
  <1>1. IInv /\ HostTyped /\ Starting /\ PlayedDrawn
    BY DEF PipelineInv
  <1>2. /\ daemon.pc = "begin" /\ active = {} /\ AcquireSummaryPlayback(daemon.slot)
        /\ UNCHANGED <<worker, cache, active, played, told>>
    BY DEF Acquire
  <1>3. PICK s \in Slot : s = daemon.slot
    BY <1>1, <1>2 DEF Starting
  <1>4. PICK t : t = binding[s].task
    OBVIOUS
  <1>5. PICK g : g = Current(t)
    OBVIOUS
  <1>6. PICK l : l = [id |-> leaseCount + 1, task |-> t, gen |-> g, slot |-> s]
    OBVIOUS
  <1>7. /\ MildStep /\ NoneHeard /\ ClaimsStay /\ leaseCount' = leaseCount + 1
        /\ t \in Task /\ l \in Lease /\ granted' = granted \cup {l}
        /\ g \in DOMAIN rows[t] /\ rows'[t][g].state = "leased"
        /\ DOMAIN rows'[t] = DOMAIN rows[t]
    BY <1>1, <1>2, <1>3, <1>4, <1>5, <1>6, AcquireMild
  <1>8. leaseCount \in Nat /\ leaseCount' \in Nat /\ leaseCount' >= leaseCount
    BY <1>1, <1>7 DEF IInv, TypeInv, TypeOK
  <1>9. l.id = leaseCount + 1 /\ l.task = t /\ l.gen = g
    BY <1>6
  <1>10. daemon' = [daemon EXCEPT !.pc = "load", !.lease = l]
    BY <1>7 DEF Acquire
  <1>11. /\ daemon'.pc = "load" /\ daemon'.lease = l
         /\ daemon' \in [pc : {"idle", "begin", "load", "clean"}, slot : Slot \cup {NoSlot},
                         lease : Lease \cup {NoLease}]
    BY <1>1, <1>7, <1>10 DEF HostTyped
  <1>12. l \notin played
    BY <1>1, <1>8, <1>9 DEF PlayedDrawn
  <1>13. l.gen \in DOMAIN rows'[l.task] /\ Published(l.task, l.gen)' /\ l.id <= leaseCount'
    BY <1>7, <1>8, <1>9 DEF Published, Unread
  <1>14. Starting'
    BY <1>2, <1>7, <1>11, <1>12, <1>13 DEF Starting, InUse, Published
  <1>15. Playing' /\ PlayedDrawn'
    BY <1>2, <1>7, <1>8, PlayingFrame
  <1>16. active' \subseteq [lease : Lease, heard : BOOLEAN, tells : Completions]
    BY <1>1, <1>2 DEF HostTyped
  <1> QED BY <1>2, <1>7, <1>11, <1>14, <1>15, <1>16, DaemonFrame
\* The object of the leased row is read and handed to the transport.
LEMMA StartKeeps ==
  ASSUME PipelineInv, IInv', StartPlayback
  PROVE  PipelineInv' /\ MildStep /\ NoneHeard
  <1>1. IInv /\ HostTyped /\ ObjectsTell /\ Starting /\ PlayedDrawn
    BY DEF PipelineInv
  <1>2. /\ daemon.pc = "load" /\ daemon' = DaemonIdle
        /\ UNCHANGED <<rows, summarized, leaseCount, worker, cache, played, told>>
    BY DEF StartPlayback, ledgerVars, vars
  <1>3. PICK l \in Lease : l = daemon.lease /\ InUse(l) /\ l \notin played /\ active = {}
    BY <1>1, <1>2 DEF Starting
  <1>4. PICK o \in Cached(l.task, l.gen) :
          active' = {[lease |-> l, heard |-> FALSE, tells |-> o.tells]}
    BY <1>3 DEF StartPlayback
  <1>5. /\ o \in cache /\ o.task = l.task /\ o.gen = l.gen /\ o.tells \in Completions
        /\ Settled(l.task, l.gen) => o.tells = Coverage(l.task, l.gen)
    BY <1>1 DEF Cached, HostTyped, ObjectsTell
  <1>6. MildStep /\ NoneHeard /\ ClaimsStay
    BY <1>1, <1>2, RowsRest
  <1>7. Starting'
    BY <1>2 DEF Starting, DaemonIdle
  <1>8. /\ InUse(l)' /\ (Settled(l.task, l.gen)' <=> Settled(l.task, l.gen))
        /\ Coverage(l.task, l.gen)' = Coverage(l.task, l.gen)
    BY <1>2, <1>3 DEF InUse, Published, Settled, Coverage
  <1>9. \A a \in active' : a.lease = l /\ a.tells = o.tells
    BY <1>4
  <1>10. Playing'
    BY <1>2, <1>3, <1>4, <1>5, <1>8, <1>9 DEF Playing
  <1>11. PlayedDrawn'
    BY <1>1, <1>2 DEF PlayedDrawn
  <1>12. /\ active' \subseteq [lease : Lease, heard : BOOLEAN, tells : Completions]
         /\ daemon' \in [pc : {"idle", "begin", "load", "clean"}, slot : Slot \cup {NoSlot},
                         lease : Lease \cup {NoLease}]
    BY <1>2, <1>4, <1>5 DEF DaemonIdle
  <1> QED BY <1>2, <1>6, <1>7, <1>10, <1>11, <1>12, DaemonFrame

\* What the keyboard drains has been told.
LEMMA DrainsKeeps ==
  ASSUME PipelineInv, IInv', NEW a \in active, KeyboardDrains(a)
  PROVE  PipelineInv' /\ MildStep /\ NoneHeard
  <1>1. /\ IInv /\ HostTyped /\ Starting /\ Playing /\ PlayedDrawn
    BY DEF PipelineInv
  <1>2. /\ played' = played \cup {a.lease}
        /\ told' = [told EXCEPT ![a.lease.task] = @ \cup a.tells]
        /\ UNCHANGED <<rows, summarized, leaseCount, worker, cache, daemon, active>>
    BY DEF KeyboardDrains, ledgerVars, vars
  <1>3. /\ a.lease \in Lease /\ a.lease.task \in Task /\ a.tells \in Completions
        /\ InUse(a.lease)
    BY <1>1 DEF HostTyped, Lease, Playing
  <1>4. /\ told' \in [Task -> Completions]
        /\ \A t \in Task : told[t] \subseteq told'[t]
        /\ a.tells \subseteq told'[a.lease.task]
    BY <1>1, <1>2, <1>3 DEF HostTyped, Completions
  <1>5. MildStep /\ NoneHeard /\ ClaimsStay
    BY <1>1, <1>2, RowsRest
  <1>6. HostTyped'
    BY <1>1, <1>2, <1>3, <1>4 DEF HostTyped
  <1>7. ObjectsTell' /\ Extending' /\ RetainedIsCached' /\ HeardWasTold'
    BY <1>2, <1>4, <1>5, ObjectsFrame, RetainedFrame, HeardFrame
  <1>8. ClaimHeld' /\ DocumentTells'
    BY <1>2, <1>5, ClaimFrame
  <1>9. Starting'
    BY <1>1, <1>2 DEF Starting
  <1>10. PlayedDrawn'
    BY <1>1, <1>2, <1>3 DEF PlayedDrawn, InUse
  <1>11. Playing'
    <2>1. \A b \in active : b = a
      BY <1>1 DEF Playing
    <2>2. \A b \in active : /\ InUse(b.lease)'
                            /\ Settled(b.lease.task, b.lease.gen)' =>
                                 b.tells = Coverage(b.lease.task, b.lease.gen)'
      BY <1>1, <1>2 DEF Playing, InUse, Published, Settled, Coverage
    <2> QED BY <1>2, <1>4, <2>1, <2>2 DEF Playing
  <1> QED BY <1>5, <1>6, <1>7, <1>8, <1>9, <1>10, <1>11 DEF PipelineInv

\* finish_summary_playback marks as heard what the drained audio has told.
LEMMA FinishedKeeps ==
  ASSUME PipelineInv, IInv', NEW a \in active, Finished(a)
  PROVE  /\ PipelineInv' /\ MildStep
         /\ \A u \in Task : \A h \in DOMAIN rows[u] :
              rows'[u][h].state = "heard" =>
                rows[u][h].state = "heard" \/ \E l \in played : l.task = u /\ l.gen = h
  <1>1. /\ IInv /\ HostTyped /\ Starting /\ Playing /\ PlayedDrawn /\ HeardWasTold
    BY DEF PipelineInv
  <1>2. /\ a.lease \in played /\ UNCHANGED <<worker, cache, played, told>>
        /\ daemon' = [pc |-> "clean", slot |-> NoSlot, lease |-> a.lease]
    BY DEF Finished
  <1>3. PICK l \in Lease : l = a.lease
    BY <1>1 DEF HostTyped
  <1>4. /\ a \in [lease : Lease, heard : BOOLEAN, tells : Completions] /\ active = {a}
        /\ InUse(l) /\ l.task \in Task /\ l.gen \in DOMAIN rows[l.task]
        /\ Settled(l.task, l.gen) => a.tells = Coverage(l.task, l.gen)
        /\ a.tells \subseteq told[l.task]
    BY <1>1, <1>2, <1>3 DEF HostTyped, Playing, Lease, InUse
  <1>5. /\ daemon' \in [pc : {"idle", "begin", "load", "clean"}, slot : Slot \cup {NoSlot},
                        lease : Lease \cup {NoLease}]
        /\ Starting'
    BY <1>2, <1>3 DEF Starting
  <1>6. CASE a.heard
    <2>1. UNCHANGED <<rows, summarized, leaseCount, active>>
      BY <1>6 DEF Finished, ledgerVars, vars
    <2>2. MildStep /\ NoneHeard /\ ClaimsStay /\ leaseCount' \in Nat /\ leaseCount' >= leaseCount
      BY <1>1, <2>1, RowsRest DEF IInv, TypeInv, TypeOK
    <2>3. Playing' /\ PlayedDrawn'
      BY <1>2, <2>1, <2>2, PlayingFrame
    <2>4. active' \subseteq [lease : Lease, heard : BOOLEAN, tells : Completions]
      BY <1>1, <2>1 DEF HostTyped
    <2> QED BY <1>2, <1>5, <2>2, <2>3, <2>4, DaemonFrame DEF NoneHeard
  <1>7. CASE ~a.heard
    <2>1. PICK b : b = [a EXCEPT !.heard = TRUE]
      OBVIOUS
    <2>2. /\ b \in [lease : Lease, heard : BOOLEAN, tells : Completions]
          /\ b.lease = l /\ b.tells = a.tells
      BY <1>3, <1>4, <2>1
    <2>3. FinishSummaryPlayback(l) /\ active' = {b}
      BY <1>3, <1>4, <1>7, <2>1 DEF Finished
    <2>4. /\ MildStep /\ ClaimsStay /\ UNCHANGED leaseCount
          /\ rows[l.task][l.gen].state = "leased"
          /\ \A u \in Task : \A h \in DOMAIN rows[u] :
               rows'[u][h].state = "heard" =>
                 rows[u][h].state = "heard" \/ (u = l.task /\ h = l.gen)
      BY <1>1, <2>3, FinishMild
    <2>5. leaseCount' \in Nat /\ leaseCount' >= leaseCount
      BY <1>1, <2>4 DEF IInv, TypeInv, TypeOK
    <2>6. HostTyped'
      BY <1>1, <1>2, <1>5, <2>2, <2>3 DEF HostTyped
    <2>7. ObjectsTell' /\ Extending' /\ RetainedIsCached' /\ ClaimHeld' /\ DocumentTells'
      BY <1>2, <2>4, ObjectsFrame, RetainedFrame, ClaimFrame
    <2>8. Coverage(l.task, l.gen) \subseteq told[l.task]
      <3>1. CASE rows[l.task][l.gen].by = 0
        BY <1>4, <2>4, <3>1 DEF Settled, Unread
      <3>2. CASE rows[l.task][l.gen].by # 0
        <4>1. l.gen # 0
          BY <1>1, <1>4, Shape, LedgerConstants DEF IInv
        <4>2. Coverage(l.task, l.gen) = {}
          BY <1>1, <1>4, <3>2, <4>1 DEF IInv, TaskInv, Coverage
        <4> QED BY <4>2
      <3> QED BY <3>1, <3>2
    <2>9. HeardWasTold'
      <3> SUFFICES ASSUME NEW u \in Task, NEW h \in InState(u, {"heard"})'
                   PROVE  Coverage(u, h)' \subseteq told[u]
        BY <1>2 DEF HeardWasTold
      <3>1. h \in DOMAIN rows[u] /\ rows'[u][h].state = "heard"
        BY <2>4 DEF InState, MildStep
      <3>2. Coverage(u, h)' = Coverage(u, h)
        BY <1>1, <2>4, <3>1, MildFacts
      <3>3. CASE u = l.task /\ h = l.gen
        BY <2>8, <3>2, <3>3
      <3>4. CASE rows[u][h].state = "heard"
        BY <1>1, <3>1, <3>2, <3>4 DEF HeardWasTold, InState
      <3> QED BY <2>4, <3>1, <3>3, <3>4
    <2>10. PlayedDrawn'
      BY <1>1, <1>2, <2>4 DEF PlayedDrawn
    <2>11. InUse(l)'
      BY <1>4, <2>4, <2>5, LeaseFrame
    <2>12. Settled(l.task, l.gen)' => b.tells = Coverage(l.task, l.gen)'
      BY <1>1, <1>4, <2>2, <2>4, MildFacts
    <2>13. Playing'
      BY <1>2, <1>4, <2>2, <2>3, <2>11, <2>12 DEF Playing
    <2>14. \A u \in Task : \A h \in DOMAIN rows[u] :
             rows'[u][h].state = "heard" =>
               rows[u][h].state = "heard" \/ \E m \in played : m.task = u /\ m.gen = h
      BY <1>2, <1>3, <2>4
    <2> QED BY <1>5, <2>4, <2>6, <2>7, <2>9, <2>10, <2>13, <2>14 DEF PipelineInv
  <1> QED BY <1>6, <1>7

\* The cleanup removes only what the ledger does not retain, and not while an object
\* waits for its publication.
LEMMA CleanupKeeps ==
  ASSUME PipelineInv, IInv', Reconcile \/ ReconcileDeferred
  PROVE  PipelineInv' /\ MildStep /\ NoneHeard
  <1>1. /\ IInv /\ HostTyped /\ ClaimHeld /\ DocumentTells /\ RetainedIsCached
    BY DEF PipelineInv
  <1>2. /\ worker.pc # "commit" /\ daemon' = DaemonIdle /\ active' \subseteq active
        /\ cache' \subseteq cache
        /\ UNCHANGED <<rows, summarized, leaseCount, worker, played, told>>
    BY DEF Reconcile, ReconcileDeferred, GateFree, ledgerVars, vars
  <1>3. \A o \in cache : <<o.task, o.gen>> \in Retained => o \in cache'
    BY DEF Reconcile, ReconcileDeferred
  <1>4. MildStep /\ NoneHeard /\ ClaimsStay /\ leaseCount' \in Nat /\ leaseCount' >= leaseCount
    BY <1>1, <1>2, RowsRest DEF IInv, TypeInv, TypeOK
  <1>5. HostTyped'
    BY <1>1, <1>2 DEF HostTyped, DaemonIdle
  <1>6. ObjectsTell' /\ Extending' /\ HeardWasTold'
    BY <1>2, <1>4, ObjectsFrame, HeardFrame
  <1>7. daemon'.pc \notin {"begin", "load"}
    BY <1>2 DEF DaemonIdle
  <1>8. Starting' /\ Playing' /\ PlayedDrawn'
    BY <1>2, <1>4, <1>7, StartingFrame, PlayingFrame
  <1>9. ClaimHeld'
    BY <1>1, <1>2 DEF ClaimHeld
  <1>10. DocumentTells'
    BY <1>1, <1>2 DEF DocumentTells, ToTell, Extended, Coverage
  <1>11. RetainedIsCached'
    <2> SUFFICES ASSUME NEW t \in Task, NEW g \in InState(t, Unread) PROVE Cached(t, g)' # {}
      BY <1>2 DEF RetainedIsCached, InState
    <2>1. PICK o \in cache : o.task = t /\ o.gen = g
      BY <1>1 DEF RetainedIsCached, Cached
    <2>2. g \in 1..MaxGenerations
      BY <1>1, Shape DEF IInv, InState
    <2>3. <<t, g>> \in Retained
      BY <2>2 DEF Retained
    <2> QED BY <1>3, <2>1, <2>3 DEF Cached
  <1> QED BY <1>4, <1>5, <1>6, <1>8, <1>9, <1>10, <1>11 DEF PipelineInv

\* The process starts again with nothing in hand.
LEMMA HostRestartKeeps ==
  ASSUME PipelineInv, IInv', HostRestart
  PROVE  PipelineInv' /\ MildStep /\ NoneHeard
  <1>1. IInv /\ HostTyped
    BY DEF PipelineInv
  <1>2. /\ worker' = Idle /\ daemon' = DaemonIdle /\ active' = {}
        /\ UNCHANGED <<cache, played, told>>
    BY DEF HostRestart
  <1>3. MildStep /\ NoneHeard /\ UNCHANGED leaseCount
    BY <1>1, RestartMild DEF HostRestart
  <1>4. leaseCount' \in Nat /\ leaseCount' >= leaseCount
    BY <1>1, <1>3 DEF IInv, TypeInv, TypeOK
  <1>5. HostTyped'
    BY <1>1, <1>2 DEF HostTyped, Idle, DaemonIdle, WorkerPc, Completions
  <1>6. ObjectsTell' /\ Extending' /\ RetainedIsCached' /\ HeardWasTold'
    BY <1>2, <1>3, ObjectsFrame, RetainedFrame, HeardFrame
  <1>7. ClaimHeld' /\ DocumentTells' /\ Starting'
    BY <1>2 DEF ClaimHeld, DocumentTells, Starting, Idle, DaemonIdle
  <1>8. active' \subseteq active /\ played' = played /\ told' = told
    BY <1>2
  <1>9. Playing' /\ PlayedDrawn'
    BY <1>3, <1>4, <1>8, PlayingFrame
  <1> QED BY <1>3, <1>5, <1>6, <1>7, <1>9 DEF PipelineInv
-----------------------------------------------------------------------------
(* The invariant is inductive.                                             *)

\* What a step may do to the unread mailbox.
UnreadStep ==
  \A t \in Task : \A g \in CurrentUnread(t) :
    \/ g \in CurrentUnread(t)'
    \/ rows'[t][g].state = "heard" /\ \E l \in played : l.task = t /\ l.gen = g
    \/ rows'[t][g].by \in CurrentUnread(t)'

LEMMA MildUnread ==
  ASSUME MildStep,
         \A u \in Task : \A h \in DOMAIN rows[u] :
           rows'[u][h].state = "heard" =>
             rows[u][h].state = "heard" \/ \E l \in played : l.task = u /\ l.gen = h
  PROVE  UnreadStep
  <1> SUFFICES ASSUME NEW t \in Task, NEW g \in CurrentUnread(t)
               PROVE  \/ g \in CurrentUnread(t)'
                      \/ /\ rows'[t][g].state = "heard"
                         /\ \E l \in played : l.task = t /\ l.gen = g
    BY DEF UnreadStep
  <1>1. /\ g \in DOMAIN rows[t] /\ rows[t][g].state \in Unread /\ rows[t][g].by = 0
        /\ rows[t][g].state # "heard"
    BY DEF CurrentUnread, InState, Unread
  <1>2. g \in DOMAIN rows'[t] /\ Mild(rows[t][g], rows'[t][g])
    BY <1>1 DEF MildStep
  <1>3. rows'[t][g].by = 0 /\ rows'[t][g].state \in Unread \cup {"heard"}
    BY <1>1, <1>2 DEF Mild
  <1> QED BY <1>1, <1>2, <1>3 DEF CurrentUnread, InState

LEMMA PublishUnread ==
  ASSUME IInv, NEW c \in issued, PublishSummary(c)
  PROVE  UnreadStep
  <1>1. /\ c.task \in Task /\ c.gen \in DOMAIN rows[c.task] /\ c.gen \in InState(c.task, Active)
        /\ c.prev # 0 => CurrentUnread(c.task) = {c.prev}
        /\ c.prev = 0 => CurrentUnread(c.task) = {}
        /\ DOMAIN rows'[c.task] = DOMAIN rows[c.task]
        /\ rows'[c.task][c.gen] =
             [rows[c.task][c.gen] EXCEPT !.state = "unheard", !.tts = FALSE]
        /\ c.prev # 0 => rows'[c.task][c.prev] = Supersede(rows[c.task][c.prev], c.gen)
    BY PublishShape
  <1>2. \A u \in Task : u # c.task => rows'[u] = rows[u]
    BY PublishShape, ZenonT(60)
  <1>3. rows[c.task][c.gen] \in Row /\ rows[c.task][c.gen].by = 0
    BY <1>1, Shape DEF IInv, TaskInv
  <1>4. rows'[c.task][c.gen].state = "unheard" /\ rows'[c.task][c.gen].by = 0
    BY <1>1, <1>3 DEF Row
  <1>5. c.gen \in CurrentUnread(c.task)'
    BY <1>1, <1>4 DEF CurrentUnread, InState, Unread
  <1> SUFFICES ASSUME NEW t \in Task, NEW g \in CurrentUnread(t)
               PROVE  g \in CurrentUnread(t)' \/ rows'[t][g].by \in CurrentUnread(t)'
    BY DEF UnreadStep
  <1>6. CASE t # c.task
    BY <1>2, <1>6 DEF CurrentUnread, InState
  <1>7. CASE t = c.task
    <2>1. c.prev # 0 /\ g = c.prev
      BY <1>1, <1>7
    <2>2. rows[t][g] \in Row
      BY Shape DEF IInv, CurrentUnread, InState
    <2>3. rows'[t][g].by = c.gen
      BY <1>1, <1>7, <2>1, <2>2 DEF Supersede, Row
    <2> QED BY <1>5, <1>7, <2>3
  <1> QED BY <1>6, <1>7

\* Every step of the Host, of the keyboard and of the operator keeps the invariant.
LEMMA PipelineStep ==
  ASSUME PipelineInv, [PipelineNext]_allVars
  PROVE  PipelineInv' /\ UnreadStep
  <1>1. IInv /\ HostTyped
    BY DEF PipelineInv
  <1>2. IInv'
    BY <1>1, LedgerStep, NextInvariant
  <1>3. MildStep /\ NoneHeard => UnreadStep
    BY MildUnread DEF NoneHeard
  <1>4. CASE \/ \E s \in Slot, t \in Task : Bind(s, t)
             \/ \E t \in Task : Observe(t)
             \/ UNCHANGED allVars
    <2>1. UNCHANGED hostVars
      BY <1>4 DEF Bind, Observe, allVars
    <2>2. \/ \E s \in Slot, t \in Task : SetBinding(s, t)
          \/ \E t \in Task : CommitCompletion(t)
          \/ UNCHANGED vars
      BY <1>4 DEF Bind, Observe, allVars, ledgerVars
    <2> QED BY <1>2, <1>3, <2>1, <2>2, ObserverKeeps
  <1>5. ASSUME NEW t \in Task, TakeWork(t) PROVE PipelineInv' /\ UnreadStep
    <2>1. CASE ResumeInterruptedSummary(t)
      BY <1>2, <1>3, <1>5, <2>1, ResumeKeeps
    <2>2. CASE ClaimSummary(t)
      <3>1. /\ PipelineInv'
            /\ \A u \in Task : \A g \in DOMAIN rows[u] :
                 g \in DOMAIN rows'[u] /\ rows'[u][g] = rows[u][g]
        BY <1>2, <1>5, <2>2, FreshClaimKeeps
      <3>2. \A u \in Task : CurrentUnread(u) \subseteq CurrentUnread(u)'
        BY <3>1 DEF CurrentUnread, InState
      <3> QED BY <3>1, <3>2 DEF UnreadStep
    <2> QED BY <1>5, <2>1, <2>2 DEF TakeWork
  <1>6. CASE \/ CheckAttempt \/ LoadPrevious \/ Generate \/ Synthesize \/ WorkerFails
             \/ RecoverCacheFails \/ CacheReportsError
    BY <1>2, <1>3, <1>6, WorkerMakes
  <1>7. CASE BeginTts
    BY <1>2, <1>3, <1>7, BeginTtsKeeps
  <1>8. CASE StoreObject
    BY <1>2, <1>3, <1>8, StoreKeeps
  <1>9. CASE RecoverCache \/ CommitObject \/ RecheckCache
    BY <1>1, <1>2, <1>3, <1>9, PublishingKeeps, PublishUnread
  <1>10. ASSUME NEW a \in active, EndActive(a),
                UNCHANGED <<worker, cache, daemon, played, told>>
         PROVE  PipelineInv' /\ UnreadStep
    <2>1. /\ UNCHANGED ledgerVars \/ \E l : CancelSummaryPlayback(l)
          /\ active' \subseteq active
      BY <1>10 DEF EndActive
    <2> QED BY <1>2, <1>3, <1>10, <2>1, DaemonMoves
  <1>11. CASE CancelOther
    BY <1>10, <1>11 DEF CancelOther
  <1>12. CASE Acquire
    <2>1. CASE Playable(daemon.slot)
      BY <1>2, <1>3, <1>12, <2>1, AcquirePipeline
    <2>2. CASE ~Playable(daemon.slot)
      <3>1. /\ UNCHANGED ledgerVars /\ daemon' = DaemonIdle
            /\ UNCHANGED <<worker, cache, active, played, told>>
        BY <1>12, <2>2 DEF Acquire
      <3> QED BY <1>2, <1>3, <3>1, DaemonMoves
    <2> QED BY <2>1, <2>2
  <1>13. CASE StartPlayback
    BY <1>2, <1>3, <1>13, StartKeeps
  <1>14. CASE StartPlaybackFails
    <2>1. /\ \E l : CancelSummaryPlayback(l)
          /\ daemon' = DaemonIdle /\ UNCHANGED <<worker, cache, active, played, told>>
      BY <1>14 DEF StartPlaybackFails
    <2> QED BY <1>2, <1>3, <2>1, DaemonMoves
  <1>15. CASE Reconcile \/ ReconcileDeferred
    BY <1>2, <1>3, <1>15, CleanupKeeps
  <1>16. ASSUME NEW s \in Slot, Request(s) PROVE PipelineInv' /\ UnreadStep
    <2>1. /\ UNCHANGED ledgerVars /\ UNCHANGED <<worker, cache, active, played, told>>
          /\ daemon' = [pc |-> "begin", slot |-> s, lease |-> NoLease]
      BY <1>16 DEF Request
    <2> QED BY <1>2, <1>3, <2>1, DaemonMoves
  <1>17. ASSUME NEW a \in active, KeyboardDrains(a) PROVE PipelineInv' /\ UnreadStep
    BY <1>2, <1>3, <1>17, DrainsKeeps
  <1>18. ASSUME NEW a \in active, Finished(a) PROVE PipelineInv' /\ UnreadStep
    BY <1>2, <1>18, FinishedKeeps, MildUnread
  <1>19. ASSUME NEW a \in active, Cancelled(a) PROVE PipelineInv' /\ UnreadStep
    BY <1>10, <1>19 DEF Cancelled
  <1>20. CASE HostRestart
    BY <1>2, <1>3, <1>20, HostRestartKeeps
  <1> QED
    BY <1>4, <1>5, <1>6, <1>7, <1>8, <1>9, <1>11, <1>12, <1>13, <1>14, <1>15, <1>16,
       <1>17, <1>18, <1>19, <1>20 DEF PipelineNext, WorkerStep, DaemonStep

-----------------------------------------------------------------------------
(* The theorems.                                                           *)

\* The worker, the daemon and the cache keep the inductive invariant, whatever fails
\* or crashes in between (summary_worker.rs, summary_orchestrator.rs, health.rs).
THEOREM PipelineInvariance == PipelineSpec => []PipelineInv
  <1>1. PipelineInv /\ [PipelineNext]_allVars => PipelineInv'
    BY PipelineStep
  <1> QED BY <1>1, InitPipeline, PTL DEF PipelineSpec

\* An object the ledger refers to is in the cache: the gate publish_or_verify_with holds
\* keeps reconcile_with away from an object that is being published.
THEOREM ReferencesCached == PipelineSpec => []RetainedIsCached
  <1>1. PipelineInv => RetainedIsCached
    BY DEF PipelineInv
  <1> QED BY <1>1, PipelineInvariance, PTL

\* The audio of the current unread summary tells exactly what hearing it marks, however
\* often execute_claim was interrupted, retried or recovered from the cache.
THEOREM AudioComplete == PipelineSpec => []AudioTellsCoverage
  <1>1. PipelineInv => AudioTellsCoverage
    <2> SUFFICES ASSUME PipelineInv, NEW t \in Task, NEW g \in CurrentUnread(t),
                        NEW o \in Cached(t, g)
                 PROVE  o.tells = Coverage(t, g)
      BY DEF AudioTellsCoverage
    <2>1. Settled(t, g) /\ o \in cache /\ o.task = t /\ o.gen = g
      BY DEF CurrentUnread, InState, Settled, Cached
    <2> QED BY <2>1 DEF PipelineInv, ObjectsTell
  <1> QED BY <1>1, PipelineInvariance, PTL

\* finish_summary_playback marks a completion as heard only after the keyboard drained
\* audio that tells it.
THEOREM HeardAfterTold == PipelineSpec => []HeardWasTold
  <1>1. PipelineInv => HeardWasTold
    BY DEF PipelineInv
  <1> QED BY <1>1, PipelineInvariance, PTL

\* A summary leaves the unread mailbox by being heard or by being replaced: no crash,
\* cancellation, failed start or failed run takes it away.
THEOREM UnreadKept == PipelineSpec => UnreadLeavesOnlyWhenHeardOrReplaced
  <1>1. PipelineInv /\ [PipelineNext]_allVars => [UnreadStep]_allVars
    BY PipelineStep
  <1>2. PipelineSpec => [][UnreadStep]_allVars
    BY <1>1, PipelineInvariance, PTL DEF PipelineSpec
  <1> QED BY <1>2 DEF UnreadLeavesOnlyWhenHeardOrReplaced, UnreadStep

\* The Host is a user of the ledger: whatever fails, is retried or crashes between the steps
\* of its threads, the tables only go through what the store's operations allow, so that
\* every theorem about the ledger holds of the whole Host (summary_worker.rs,
\* summary_orchestrator.rs, health.rs over store.rs).
THEOREM PipelineImplementsLedger == PipelineSpec => Spec
  <1>1. PipelineInit => Init
    BY DEF PipelineInit
  <1>2. PipelineInv /\ [PipelineNext]_allVars => [Next]_vars
    BY LedgerStep
  <1> QED BY <1>1, <1>2, PipelineInvariance, PTL DEF PipelineSpec, Spec

\* The Host as a whole keeps the promise of the mailbox: each completion goes pending,
\* unread, heard, in order and once.
THEOREM PipelineRefinement == PipelineSpec => ImplementsMailbox
  BY PipelineImplementsLedger, Refinement, PTL
=============================================================================
