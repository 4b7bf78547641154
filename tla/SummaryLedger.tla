---------------------------- MODULE SummaryLedger ----------------------------
(***************************************************************************)
(* The summary side of the Host's SQLite store (app/host/src/store.rs):    *)
(* bindings, completion_ledger, summary_ledger, summary_tts_attempts and   *)
(* summary_playback_leases, with one action per store operation that       *)
(* changes them.  Every operation is one IMMEDIATE transaction, so one     *)
(* atomic step.                                                            *)
(*                                                                         *)
(* Callers are arbitrary: `issued` and `granted` hold every claim and every*)
(* lease this process has been handed, and any of them may be presented    *)
(* again, however stale.  SummaryPipeline is the Host that really calls.   *)
(*                                                                         *)
(* Data.  The n-th completion of a task is the number n.  A row's          *)
(* generation is its index.  request_id is unique per row, so a request is *)
(* the row it opened.  claim_id is set exactly in the states of Active and *)
(* cache_object exactly once published (the table's CHECK), so neither is a *)
(* field.  NULL generations are 0.                                         *)
(***************************************************************************)
EXTENDS Naturals, Sequences, FiniteSets

CONSTANTS Task,            \* Codex tasks
          Slot,            \* the four keyboard slots
          NoTask,          \* an unbound slot
          MaxPerClaim,     \* MAX_SUMMARY_COMPLETIONS_PER_CLAIM
          MaxCompletions,  \* bound: completions recorded for one task
          MaxGenerations,  \* bound: summary rows of one task
          MaxLeases,       \* bound: lease ids handed out
          MaxBindings      \* bound: binding generation of one slot

ASSUME LedgerConstants ==
  /\ NoTask \notin Task
  /\ MaxPerClaim \in Nat \ {0}
  /\ MaxCompletions \in Nat /\ MaxGenerations \in Nat
  /\ MaxLeases \in Nat /\ MaxBindings \in Nat

VARIABLES binding,     \* slot -> bound task and binding generation
          summarized,  \* completion_ledger: task -> sequence of summarized_generation
          rows,        \* summary_ledger: task -> sequence of rows
          leases,      \* summary_playback_leases
          leaseCount,  \* lease ids drawn so far (random and distinct in the code)
          issued,      \* SummaryClaim values held in memory
          granted      \* SummaryPlaybackLease values held in memory

vars == <<binding, summarized, rows, leases, leaseCount, issued, granted>>

-----------------------------------------------------------------------------
Active == {"generating", "interrupted"}
Unread == {"unheard", "leased"}
RowState == Active \cup Unread \cup {"abandoned", "heard", "superseded"}

\* One summary_ledger row: `by` is superseded_by, `tts` that a row of
\* summary_tts_attempts exists for it.
Row == [state : RowState, covers : SUBSET (1..MaxCompletions),
        prev : 0..MaxGenerations, by : 0..MaxGenerations, tts : BOOLEAN]

Claim == [task : Task, gen : 1..MaxGenerations, prev : 0..MaxGenerations,
          prevCount : Nat, covers : SUBSET (1..MaxCompletions)]

Lease == [id : 1..MaxLeases, task : Task, gen : 1..MaxGenerations, slot : Slot]

Coverage(t, g) == {n \in DOMAIN summarized[t] : summarized[t][n] = g}
Pending(t) == Coverage(t, 0)
InState(t, S) == {g \in DOMAIN rows[t] : rows[t][g].state \in S}

\* The row of the partial unique index summary_one_current_unread_per_task.
CurrentUnread(t) == {g \in InState(t, Unread) : rows[t][g].by = 0}

Current(t) == IF CurrentUnread(t) = {} THEN 0
              ELSE CHOOSE g \in CurrentUnread(t) : TRUE

\* query_current_unread answers InvalidSummaryState for an unread row that
\* covers nothing.
UnreadReadable(t) == \A g \in CurrentUnread(t) : Coverage(t, g) # {}

\* Mutant of OldestPending: completions are taken in any order.
AnyPending(t) ==
  {S \in SUBSET Pending(t) : S # {} /\ Cardinality(S) <= MaxPerClaim}

\* query_pending_summary_completions: the oldest pending ones, as many as the
\* count limit and the byte limit (abstracted to any cut) let through.
OldestPending(t) ==
  {S \in SUBSET Pending(t) :
     /\ S # {}
     /\ Cardinality(S) <= MaxPerClaim
     /\ \A n \in S, m \in Pending(t) : m < n => m \in S}

\* The claim value the store builds for row g, with the unread row p it extends.
ClaimValue(t, g, p, S) ==
  [task |-> t, gen |-> g, prev |-> p,
   prevCount |-> IF p = 0 THEN 0 ELSE Cardinality(Coverage(t, p)), covers |-> S]

\* load_summary_claim accepts row g: what it covers is still pending and the
\* unread row it extends is still the current one.
Loadable(t, g) ==
  LET row == rows[t][g]
  IN  /\ \A n \in row.covers : n \in Pending(t)
      /\ row.prev # 0 => UnreadReadable(t) /\ Current(t) = row.prev

\* The row a presented claim names is still claimed by its request.
Holds(c, S) == /\ c.gen \in DOMAIN rows[c.task]
               /\ rows[c.task][c.gen].state \in S

\* summary_ledger with row g of task t replaced.
WithRow(t, g, row) == [rows EXCEPT ![t][g] = row]

-----------------------------------------------------------------------------
Init ==
  /\ binding = [s \in Slot |-> [task |-> NoTask, gen |-> 0]]
  /\ summarized = [t \in Task |-> << >>]
  /\ rows = [t \in Task |-> << >>]
  /\ leases = {}
  /\ leaseCount = 0
  /\ issued = {}
  /\ granted = {}

\* set_binding, its compare-and-set on the generation succeeding.
SetBinding(s, t) ==
  /\ binding[s].gen < MaxBindings
  /\ binding' = [binding EXCEPT ![s] = [task |-> t, gen |-> @.gen + 1]]
  /\ UNCHANGED <<summarized, rows, leases, leaseCount, issued, granted>>

\* commit_rollout_completion_on inserting a completion; the binding it was
\* observed under must still be there.
CommitCompletion(t) ==
  /\ \E s \in Slot : binding[s].task = t
  /\ Len(summarized[t]) < MaxCompletions
  /\ summarized' = [summarized EXCEPT ![t] = Append(@, 0)]
  /\ UNCHANGED <<binding, rows, leases, leaseCount, issued, granted>>

-----------------------------------------------------------------------------
(* Claims.                                                                 *)

\* Mutant of ClaimSummary: the busy check is missing.
ClaimWhileBusy(t) ==
  /\ Len(rows[t]) < MaxGenerations
  /\ \E S \in OldestPending(t) :
       /\ rows' = [rows EXCEPT ![t] = Append(@,
            [state |-> "generating", covers |-> S, prev |-> Current(t),
             by |-> 0, tts |-> FALSE])]
       /\ issued' = issued \cup {ClaimValue(t, Len(rows[t]) + 1, Current(t), S)}
  /\ UNCHANGED <<binding, summarized, leases, leaseCount, granted>>

\* claim_summary with a request id seen for the first time.
ClaimSummary(t) ==
  /\ InState(t, Active) = {}                   \* otherwise SummaryBusy
  /\ UnreadReadable(t)
  /\ Len(rows[t]) < MaxGenerations
  /\ \E S \in OldestPending(t) :
       /\ rows' = [rows EXCEPT ![t] = Append(@,
            [state |-> "generating", covers |-> S, prev |-> Current(t),
             by |-> 0, tts |-> FALSE])]
       /\ issued' = issued \cup {ClaimValue(t, Len(rows[t]) + 1, Current(t), S)}
  /\ UNCHANGED <<binding, summarized, leases, leaseCount, granted>>

\* claim_summary with the request id that opened row g: an interrupted row is
\* taken up again, a generating one handed out again.
ReplayClaim(t, g) ==
  /\ g \in InState(t, Active)
  /\ Loadable(t, g)
  /\ rows' = WithRow(t, g, [rows[t][g] EXCEPT !.state = "generating"])
  /\ issued' = issued \cup {ClaimValue(t, g, rows[t][g].prev, rows[t][g].covers)}
  /\ UNCHANGED <<binding, summarized, leases, leaseCount, granted>>

ResumeInterruptedSummary(t) ==
  \E g \in InState(t, {"interrupted"}) :
    /\ Loadable(t, g)
    /\ rows' = WithRow(t, g, [rows[t][g] EXCEPT !.state = "generating"])
    /\ issued' = issued \cup {ClaimValue(t, g, rows[t][g].prev, rows[t][g].covers)}
    /\ UNCHANGED <<binding, summarized, leases, leaseCount, granted>>

AbandonSummaryClaim(c) ==
  /\ c \in issued
  /\ Holds(c, Active)
  /\ rows' = WithRow(c.task, c.gen, [rows[c.task][c.gen] EXCEPT
                                     !.state = "abandoned", !.tts = FALSE])
  /\ UNCHANGED <<binding, summarized, leases, leaseCount, issued, granted>>

BeginSummaryTtsAttempt(c) ==
  /\ c \in issued
  /\ Holds(c, Active)
  /\ rows' = WithRow(c.task, c.gen, [rows[c.task][c.gen] EXCEPT !.tts = TRUE])
  /\ UNCHANGED <<binding, summarized, leases, leaseCount, issued, granted>>

-----------------------------------------------------------------------------
(* publish_summary.                                                        *)

\* The unread summary the claim extends is unchanged, coverage count included;
\* a claim that extends none requires that there still is none.
PreviousUnchanged(c) ==
  /\ UnreadReadable(c.task)
  /\ Current(c.task) = c.prev
  /\ c.prev # 0 => Cardinality(Coverage(c.task, c.prev)) = c.prevCount

\* Mutant of Supersede: it writes a state the table's CHECK does not know.
SupersedeAsReplaced(row, g) ==
  [row EXCEPT !.state = IF @ = "unheard" THEN "replaced" ELSE @, !.by = g]

\* The superseded row: one that is being played keeps its lease.
Supersede(row, g) ==
  [row EXCEPT !.state = IF @ = "unheard" THEN "superseded" ELSE @, !.by = g]

\* Mutant of TakeOver: what the previous summary covered stays with it.
TakeOverNewOnly(c) ==
  [n \in DOMAIN summarized[c.task] |->
     IF n \in c.covers THEN c.gen ELSE summarized[c.task][n]]

\* completion_ledger after publication: the new generation takes over what the
\* previous unread one covered and covers what its claim lists.
TakeOver(c) ==
  [n \in DOMAIN summarized[c.task] |->
     IF n \in c.covers \/ (c.prev # 0 /\ summarized[c.task][n] = c.prev)
     THEN c.gen ELSE summarized[c.task][n]]

PublishedRows(c) ==
  [g \in DOMAIN rows[c.task] |->
     CASE g = c.gen -> [rows[c.task][g] EXCEPT !.state = "unheard", !.tts = FALSE]
       [] g = c.prev -> Supersede(rows[c.task][g], c.gen)
       [] OTHER -> rows[c.task][g]]

\* Every check publish_summary makes; otherwise it answers SummaryClaimChanged
\* and rolls back.
Publishable(c) ==
  /\ Holds(c, {"generating"})
  /\ rows[c.task][c.gen].prev = c.prev /\ rows[c.task][c.gen].covers = c.covers
  /\ PreviousUnchanged(c)
  /\ c.covers \subseteq Pending(c.task)

PublishSummary(c) ==
  /\ c \in issued
  /\ Publishable(c)
  /\ summarized' = [summarized EXCEPT ![c.task] = TakeOver(c)]
  /\ rows' = [rows EXCEPT ![c.task] = PublishedRows(c)]
  /\ UNCHANGED <<binding, leases, leaseCount, issued, granted>>

-----------------------------------------------------------------------------
(* Playback leases.                                                        *)

LeasedOn(t, g) == {l \in leases : l.task = t /\ l.gen = g}

\* acquire_summary_playback: the task bound to the slot has a current unread
\* row, nobody plays it (otherwise PlaybackBusy), and the fresh id is leased.
Playable(s) ==
  /\ binding[s].task \in Task
  /\ LET t == binding[s].task
     IN  /\ Current(t) # 0
         /\ LeasedOn(t, Current(t)) = {}
         /\ rows[t][Current(t)].state = "unheard"

AcquireSummaryPlayback(s) ==
  /\ Playable(s)
  /\ leaseCount < MaxLeases
  /\ LET t == binding[s].task
         g == Current(t)
         lease == [id |-> leaseCount + 1, task |-> t, gen |-> g, slot |-> s]
     IN  /\ rows' = WithRow(t, g, [rows[t][g] EXCEPT !.state = "leased"])
         /\ leases' = leases \cup {lease}
         /\ granted' = granted \cup {lease}
  /\ leaseCount' = leaseCount + 1
  /\ UNCHANGED <<binding, summarized, issued>>

\* Mutant of Released: the WHERE clause lets heard rows through.
ReleasedWithHeard(row) ==
  IF row.state \in {"leased", "heard"}
  THEN [row EXCEPT !.state = IF row.by = 0 THEN "unheard" ELSE "superseded"]
  ELSE row

\* Mutant of Released: a released summary is retired.
ReleasedAsSuperseded(row) ==
  IF row.state = "leased" THEN [row EXCEPT !.state = "superseded"] ELSE row

\* The state a row returns to when its lease ends without being heard.
Released(row) ==
  IF row.state = "leased"
  THEN [row EXCEPT !.state = IF row.by = 0 THEN "unheard" ELSE "superseded"]
  ELSE row

CancelSummaryPlayback(l) ==
  /\ l \in granted /\ l \in leases
  /\ leases' = leases \ {l}
  /\ rows' = WithRow(l.task, l.gen, Released(rows[l.task][l.gen]))
  /\ UNCHANGED <<binding, summarized, leaseCount, issued, granted>>

\* Mutant of FinishSummaryPlayback: whatever is unread now becomes heard.
FinishCurrentUnread(l) ==
  /\ l \in granted /\ l \in leases
  /\ Current(l.task) # 0
  /\ leases' = leases \ {l}
  /\ rows' = WithRow(l.task, Current(l.task),
                     [rows[l.task][Current(l.task)] EXCEPT !.state = "heard"])
  /\ UNCHANGED <<binding, summarized, leaseCount, issued, granted>>

\* finish_summary_playback: only the exact lease of a leased row.
FinishSummaryPlayback(l) ==
  /\ l \in granted /\ l \in leases
  /\ rows[l.task][l.gen].state = "leased"
  /\ leases' = leases \ {l}
  /\ rows' = WithRow(l.task, l.gen, [rows[l.task][l.gen] EXCEPT !.state = "heard"])
  /\ UNCHANGED <<binding, summarized, leaseCount, issued, granted>>

-----------------------------------------------------------------------------
(* Process start.                                                          *)

\* Mutant of RecoveredRow: interrupted playbacks stay leased.
RecoveredClaimsOnly(row) ==
  IF row.state = "generating" THEN [row EXCEPT !.state = "interrupted"] ELSE row

\* recover_interrupted_summaries and recover_interrupted_playback_leases on
\* one row.
RecoveredRow(row) ==
  IF row.state = "generating" THEN [row EXCEPT !.state = "interrupted"]
  ELSE Released(row)

RecoveredRows == [t \in Task |-> [g \in DOMAIN rows[t] |-> RecoveredRow(rows[t][g])]]

\* StateStore::open after the previous process ended, at any point: the lock
\* file admits one process, whose memory is empty.
Restart ==
  /\ rows' = RecoveredRows
  /\ leases' = {}
  /\ issued' = {}
  /\ granted' = {}
  /\ UNCHANGED <<binding, summarized, leaseCount>>

\* The command summary-abandon-slot: its own StateStore::open (so the Host has
\* stopped), then abandon_interrupted_summary_for_task on the bound task.
AbandonSlotSummary(s) ==
  /\ binding[s].task \in Task
  /\ LET t == binding[s].task
     IN  \E g \in InState(t, Active) :
           rows' = [RecoveredRows EXCEPT ![t][g] =
                      [rows[t][g] EXCEPT !.state = "abandoned", !.tts = FALSE]]
  /\ leases' = {}
  /\ issued' = {}
  /\ granted' = {}
  /\ UNCHANGED <<binding, summarized, leaseCount>>

-----------------------------------------------------------------------------
Next ==
  \/ \E s \in Slot, t \in Task : SetBinding(s, t)
  \/ \E t \in Task : CommitCompletion(t)
  \/ \E t \in Task : ClaimSummary(t)
  \/ \E t \in Task : \E g \in DOMAIN rows[t] : ReplayClaim(t, g)
  \/ \E t \in Task : ResumeInterruptedSummary(t)
  \/ \E c \in issued : AbandonSummaryClaim(c)
  \/ \E c \in issued : BeginSummaryTtsAttempt(c)
  \/ \E c \in issued : PublishSummary(c)
  \/ \E s \in Slot : AcquireSummaryPlayback(s)
  \/ \E l \in granted : CancelSummaryPlayback(l)
  \/ \E l \in granted : FinishSummaryPlayback(l)
  \/ \E s \in Slot : AbandonSlotSummary(s)
  \/ Restart

Spec == Init /\ [][Next]_vars

-----------------------------------------------------------------------------
(* Properties.                                                             *)

\* Every table and every value held in memory has its type.
TypeOK ==
  /\ binding \in [Slot -> [task : Task \cup {NoTask}, gen : 0..MaxBindings]]
  /\ summarized \in [Task -> Seq(0..MaxGenerations)]
  /\ rows \in [Task -> Seq(Row)]
  /\ leases \in SUBSET Lease
  /\ leaseCount \in 0..MaxLeases
  /\ issued \in SUBSET Claim
  /\ granted \in SUBSET Lease

\* No constraint of summary_ledger and summary_playback_leases is ever what stops a
\* transaction: columns keep the values their CHECKs allow, and of what the unique indexes and
\* keys allow once, active claims, current unread rows and leases of one row, a task never
\* has two.
IndexesNeverFire ==
  /\ TypeOK
  /\ \A t \in Task :
       /\ \A g, h \in InState(t, Active) : g = h
       /\ \A g, h \in CurrentUnread(t) : g = h
  /\ \A l, m \in leases : (l.task = m.task /\ l.gen = m.gen) \/ l.id = m.id => l = m

\* No completion is lost: one that has been taken into a summary belongs to a
\* row that was heard or to the current unread one, never to a superseded,
\* abandoned or unpublished row, whatever crashed or was cancelled since.
NoCompletionLost ==
  \A t \in Task : \A n \in DOMAIN summarized[t] :
    summarized[t][n] # 0 =>
      /\ summarized[t][n] \in DOMAIN rows[t]
      /\ rows[t][summarized[t][n]].by = 0
      /\ rows[t][summarized[t][n]].state \in Unread \cup {"heard"}

\* query_current_unread never answers InvalidSummaryState (health.rs leaves its
\* service loop on that error): a current unread row covers something.
UnreadCoversSomething ==
  \A t \in Task : \A g \in CurrentUnread(t) : Coverage(t, g) # {}

\* A row is `leased` exactly while one lease of the table names it, so that a
\* summary can neither stay busy without a player nor be played by two.
LeasedHasLease ==
  /\ \A t \in Task : \A g \in InState(t, {"leased"}) : LeasedOn(t, g) # {}
  /\ \A l \in leases : /\ l.gen \in DOMAIN rows[l.task]
                       /\ rows[l.task][l.gen].state = "leased"

\* What a claim in progress covers is still pending: no other row has taken it,
\* so load_summary_claim never refuses an interrupted claim on that ground.
ClaimedStaysPending ==
  \A t \in Task : \A g \in InState(t, Active) :
    rows[t][g].covers # {} /\ rows[t][g].covers \subseteq Pending(t)

\* Work in hand is consistent across stale calls and restarts: rows and lease
\* table agree on what is played, and nothing else takes what is being claimed.
WorkInHandConsistent == LeasedHasLease /\ ClaimedStaysPending

\* A heard row stays heard, and a completion whose summary was heard is never
\* moved to another one: a restart, a stale claim or a stale lease brings
\* nothing back to the mailbox.
HeardIsFinal ==
  [][\A t \in Task : \A g \in InState(t, {"heard"}) :
       /\ rows'[t][g].state = "heard"
       /\ \A n \in Coverage(t, g) : summarized'[t][n] = g]_vars

\* The ledger implements the mailbox: each completion goes pending, unread,
\* heard, whatever the calls and restarts in between.
MailboxStatus ==
  [t \in Task |-> [n \in DOMAIN summarized[t] |->
     IF summarized[t][n] = 0 THEN "pending"
     ELSE IF rows[t][summarized[t][n]].state = "heard" THEN "heard" ELSE "unread"]]

Box == INSTANCE Mailbox WITH status <- MailboxStatus

\* Refinement of Mailbox under the mapping MailboxStatus.
ImplementsMailbox == Box!Spec
=============================================================================
