------------------------- MODULE SummaryLedgerProofs -------------------------
(***************************************************************************)
(* Proofs about SummaryLedger, for any number of tasks, slots, completions,*)
(* generations and leases.                                                 *)
(***************************************************************************)
EXTENDS SummaryLedger, FiniteSetTheorems, SequenceTheorems, TLAPS

-----------------------------------------------------------------------------
(* Shape of the tables.                                                    *)

\* The bounds of the actions hold of the tables.
Bounded ==
  \A t \in Task : /\ Len(rows[t]) <= MaxGenerations
                  /\ Len(summarized[t]) <= MaxCompletions

TypeInv == TypeOK /\ Bounded

\* A typed table has the rows 1 to its length, each of them a row.
LEMMA Shape ==
  ASSUME TypeInv, NEW t \in Task
  PROVE  /\ rows[t] \in Seq(Row)
         /\ Len(rows[t]) \in Nat
         /\ DOMAIN rows[t] = 1..Len(rows[t])
         /\ DOMAIN rows[t] \subseteq 1..MaxGenerations
         /\ \A g \in DOMAIN rows[t] : rows[t][g] \in Row
         /\ summarized[t] \in Seq(0..MaxGenerations)
         /\ Len(summarized[t]) \in Nat
         /\ DOMAIN summarized[t] = 1..Len(summarized[t])
         /\ DOMAIN summarized[t] \subseteq 1..MaxCompletions
         /\ \A n \in DOMAIN summarized[t] : summarized[t][n] \in 0..MaxGenerations
  <1>1. rows[t] \in Seq(Row) /\ summarized[t] \in Seq(0..MaxGenerations)
    BY DEF TypeInv, TypeOK
  <1>2. /\ Len(rows[t]) \in Nat /\ DOMAIN rows[t] = 1..Len(rows[t])
        /\ Len(summarized[t]) \in Nat /\ DOMAIN summarized[t] = 1..Len(summarized[t])
    BY <1>1, LenProperties
  <1>3. /\ \A g \in DOMAIN rows[t] : rows[t][g] \in Row
        /\ \A n \in DOMAIN summarized[t] : summarized[t][n] \in 0..MaxGenerations
    BY <1>1, <1>2, ElementOfSeq
  <1>4. Len(rows[t]) <= MaxGenerations /\ Len(summarized[t]) <= MaxCompletions
    BY DEF TypeInv, Bounded
  <1> QED
    BY <1>1, <1>2, <1>3, <1>4, LedgerConstants

\* Replacing one row by a row changes that row only.
LEMMA WithRowShape ==
  ASSUME TypeInv, NEW t \in Task, NEW g \in DOMAIN rows[t], NEW r \in Row,
         rows' = WithRow(t, g, r)
  PROVE  /\ rows' \in [Task -> Seq(Row)]
         /\ \A u \in Task : Len(rows'[u]) = Len(rows[u])
         /\ \A u \in Task : DOMAIN rows'[u] = DOMAIN rows[u]
         /\ \A u \in Task : u # t => rows'[u] = rows[u]
         /\ rows'[t][g] = r
         /\ \A h \in DOMAIN rows[t] : h # g => rows'[t][h] = rows[t][h]
  <1>1. rows \in [Task -> Seq(Row)]
    BY DEF TypeInv, TypeOK
  <1> DEFINE new == [rows[t] EXCEPT ![g] = r]
  <1>2. rows' = [rows EXCEPT ![t] = new]
    BY DEF WithRow
  <1>3. rows[t] \in Seq(Row) /\ g \in 1..Len(rows[t]) /\ DOMAIN rows[t] = 1..Len(rows[t])
    BY Shape
  <1>4. /\ new \in Seq(Row) /\ Len(new) = Len(rows[t])
        /\ DOMAIN new = DOMAIN rows[t]
        /\ new[g] = r
        /\ \A h \in DOMAIN rows[t] : h # g => new[h] = rows[t][h]
    BY <1>3, ExceptSeq
  <1> QED
    BY <1>1, <1>2, <1>4

\* What may be done to one field of a row leaves it a row.
LEMMA RowFields ==
  ASSUME NEW r \in Row
  PROVE  /\ \A st \in RowState : [r EXCEPT !.state = st] \in Row
         /\ \A st \in RowState : [r EXCEPT !.state = st, !.tts = FALSE] \in Row
         /\ [r EXCEPT !.tts = TRUE] \in Row
         /\ Released(r) \in Row
         /\ RecoveredRow(r) \in Row
         /\ \A g \in 1..MaxGenerations : Supersede(r, g) \in Row
  <1>1. /\ \A st \in RowState : [r EXCEPT !.state = st] \in Row
        /\ \A st \in RowState : [r EXCEPT !.state = st, !.tts = FALSE] \in Row
        /\ [r EXCEPT !.tts = TRUE] \in Row
    BY DEF Row
  <1>2. {"unheard", "superseded", "interrupted", r.state} \subseteq RowState
    BY DEF Row, RowState, Active, Unread
  <1>3. Released(r) \in Row
    BY <1>1, <1>2 DEF Released
  <1>4. RecoveredRow(r) \in Row
    BY <1>1, <1>2, <1>3 DEF RecoveredRow
  <1>5. ASSUME NEW g \in 1..MaxGenerations PROVE Supersede(r, g) \in Row
    <2>1. g \in 0..MaxGenerations
      BY LedgerConstants
    <2> QED BY <1>2, <2>1 DEF Supersede, Row
  <1> QED BY <1>1, <1>3, <1>4, <1>5

\* The current unread row is a row, and 0 means that there is none.
LEMMA CurrentRow ==
  ASSUME TypeInv, NEW t \in Task
  PROVE  /\ Current(t) \in 0..MaxGenerations
         /\ Current(t) # 0 => Current(t) \in CurrentUnread(t)
         /\ Current(t) = 0 <=> CurrentUnread(t) = {}
  <1>1. CurrentUnread(t) \subseteq 1..MaxGenerations
    BY Shape DEF CurrentUnread, InState
  <1>2. CurrentUnread(t) # {} => Current(t) \in CurrentUnread(t)
    BY DEF Current
  <1>3. CurrentUnread(t) = {} => Current(t) = 0
    BY DEF Current
  <1> QED
    BY <1>1, <1>2, <1>3, LedgerConstants

\* The value handed out for a row is a claim.
LEMMA ClaimTyped ==
  ASSUME TypeInv, NEW t \in Task, NEW g \in 1..MaxGenerations,
         NEW p \in 0..MaxGenerations, NEW S \in SUBSET (1..MaxCompletions)
  PROVE  ClaimValue(t, g, p, S) \in Claim
  <1>1. Cardinality(Coverage(t, p)) \in Nat
    <2>1. IsFiniteSet(DOMAIN summarized[t])
      <3>1. Len(summarized[t]) \in Nat /\ DOMAIN summarized[t] = 1..Len(summarized[t])
        BY Shape
      <3> QED BY <3>1, FS_Interval
    <2>2. Coverage(t, p) \subseteq DOMAIN summarized[t]
      BY DEF Coverage
    <2> QED BY <2>1, <2>2, FS_Subset, FS_CardinalityType
  <1> QED
    BY <1>1 DEF ClaimValue, Claim

-----------------------------------------------------------------------------
(* Type correctness.                                                       *)

LEMMA InitTyped == Init => TypeInv
  <1> SUFFICES ASSUME Init PROVE TypeInv
    OBVIOUS
  <1>1. TypeOK
    BY LedgerConstants, EmptySeq DEF Init, TypeOK
  <1>2. Bounded
    BY LedgerConstants DEF Init, Bounded
  <1> QED BY <1>1, <1>2 DEF TypeInv

\* A step that replaces one row keeps the tables typed.
LEMMA WithRowTyped ==
  ASSUME TypeInv, NEW t \in Task, NEW g \in DOMAIN rows[t], NEW r \in Row,
         rows' = WithRow(t, g, r), UNCHANGED <<binding, summarized>>,
         leases' \in SUBSET Lease, leaseCount' \in 0..MaxLeases,
         issued' \in SUBSET Claim, granted' \in SUBSET Lease
  PROVE  TypeInv'
  <1>1. /\ rows' \in [Task -> Seq(Row)]
        /\ \A u \in Task : Len(rows'[u]) = Len(rows[u])
    BY WithRowShape
  <1> QED
    BY <1>1 DEF TypeInv, TypeOK, Bounded

\* A restart rewrites every row into a row.
LEMMA RecoveredShape ==
  ASSUME TypeInv
  PROVE  /\ RecoveredRows \in [Task -> Seq(Row)]
         /\ \A t \in Task : /\ Len(RecoveredRows[t]) = Len(rows[t])
                            /\ DOMAIN RecoveredRows[t] = DOMAIN rows[t]
                            /\ \A g \in DOMAIN rows[t] :
                                 RecoveredRows[t][g] = RecoveredRow(rows[t][g])
  <1>1. ASSUME NEW t \in Task
        PROVE  /\ RecoveredRows[t] \in Seq(Row)
               /\ Len(RecoveredRows[t]) = Len(rows[t])
               /\ DOMAIN RecoveredRows[t] = DOMAIN rows[t]
               /\ \A g \in DOMAIN rows[t] :
                    RecoveredRows[t][g] = RecoveredRow(rows[t][g])
    <2>1. /\ Len(rows[t]) \in Nat /\ DOMAIN rows[t] = 1..Len(rows[t])
          /\ \A g \in DOMAIN rows[t] : rows[t][g] \in Row
      BY Shape
    <2>2. RecoveredRows[t] = [g \in 1..Len(rows[t]) |-> RecoveredRow(rows[t][g])]
      BY <2>1 DEF RecoveredRows
    <2>3. \A g \in 1..Len(rows[t]) : RecoveredRow(rows[t][g]) \in Row
      BY <2>1, RowFields
    <2> QED BY <2>1, <2>2, <2>3
  <1> QED BY <1>1 DEF RecoveredRows

LEMMA NextTyped == TypeInv /\ [Next]_vars => TypeInv'
  <1> SUFFICES ASSUME TypeInv, [Next]_vars PROVE TypeInv'
    OBVIOUS
  <1> USE LedgerConstants
  <1>1. ASSUME NEW s \in Slot, NEW t \in Task, SetBinding(s, t) PROVE TypeInv'
    <2>1. binding' \in [Slot -> [task : Task \cup {NoTask}, gen : 0..MaxBindings]]
      BY <1>1 DEF SetBinding, TypeInv, TypeOK
    <2> QED BY <1>1, <2>1 DEF SetBinding, TypeInv, TypeOK, Bounded
  <1>2. ASSUME NEW t \in Task, CommitCompletion(t) PROVE TypeInv'
    <2>1. /\ summarized[t] \in Seq(0..MaxGenerations) /\ Len(summarized[t]) \in Nat
          /\ 0 \in 0..MaxGenerations
      BY Shape
    <2>2. /\ Append(summarized[t], 0) \in Seq(0..MaxGenerations)
          /\ Len(Append(summarized[t], 0)) = Len(summarized[t]) + 1
      BY <2>1, AppendProperties
    <2>3. summarized' \in [Task -> Seq(0..MaxGenerations)]
      BY <1>2, <2>2 DEF CommitCompletion, TypeInv, TypeOK
    <2>4. \A u \in Task : Len(summarized'[u]) <= MaxCompletions
      BY <1>2, <2>1, <2>2 DEF CommitCompletion, TypeInv, TypeOK, Bounded
    <2> QED BY <1>2, <2>3, <2>4 DEF CommitCompletion, TypeInv, TypeOK, Bounded
  <1>3. ASSUME NEW t \in Task, ClaimSummary(t) PROVE TypeInv'
    <2>1. PICK S \in OldestPending(t) :
            /\ rows' = [rows EXCEPT ![t] = Append(@,
                 [state |-> "generating", covers |-> S, prev |-> Current(t),
                  by |-> 0, tts |-> FALSE])]
            /\ issued' = issued \cup {ClaimValue(t, Len(rows[t]) + 1, Current(t), S)}
      BY <1>3 DEF ClaimSummary
    <2> DEFINE row == [state |-> "generating", covers |-> S, prev |-> Current(t),
                       by |-> 0, tts |-> FALSE]
    <2>2. S \in SUBSET (1..MaxCompletions)
      BY Shape DEF OldestPending, Pending, Coverage
    <2>3. row \in Row
      BY <2>2, CurrentRow DEF Row, RowState, Active
    <2>4. /\ Append(rows[t], row) \in Seq(Row)
          /\ Len(Append(rows[t], row)) = Len(rows[t]) + 1
      BY <2>3, Shape, AppendProperties
    <2>5. rows' \in [Task -> Seq(Row)]
      BY <2>1, <2>4 DEF TypeInv, TypeOK
    <2>6. Len(rows[t]) \in Nat /\ Len(rows[t]) < MaxGenerations
      BY <1>3, Shape DEF ClaimSummary
    <2>7. \A u \in Task : Len(rows'[u]) <= MaxGenerations
      BY <2>1, <2>4, <2>6 DEF TypeInv, TypeOK, Bounded
    <2>8. ClaimValue(t, Len(rows[t]) + 1, Current(t), S) \in Claim
      BY <2>2, <2>6, CurrentRow, ClaimTyped
    <2> QED
      BY <1>3, <2>1, <2>5, <2>7, <2>8 DEF ClaimSummary, TypeInv, TypeOK, Bounded
  <1>4. ASSUME NEW t \in Task, NEW g \in InState(t, Active), Loadable(t, g),
               rows' = WithRow(t, g, [rows[t][g] EXCEPT !.state = "generating"]),
               issued' = issued \cup
                 {ClaimValue(t, g, rows[t][g].prev, rows[t][g].covers)},
               UNCHANGED <<binding, summarized, leases, leaseCount, granted>>
        PROVE  TypeInv'
    <2>1. g \in DOMAIN rows[t] /\ g \in 1..MaxGenerations /\ rows[t][g] \in Row
      BY <1>4, Shape DEF InState
    <2>2. [rows[t][g] EXCEPT !.state = "generating"] \in Row
      BY <2>1, RowFields DEF RowState, Active
    <2>3. ClaimValue(t, g, rows[t][g].prev, rows[t][g].covers) \in Claim
      BY <2>1, ClaimTyped DEF Row
    <2>4. issued' \in SUBSET Claim
      BY <1>4, <2>3 DEF TypeInv, TypeOK
    <2>5. leases' \in SUBSET Lease /\ leaseCount' \in 0..MaxLeases /\ granted' \in SUBSET Lease
      BY <1>4 DEF TypeInv, TypeOK
    <2> QED BY <1>4, <2>1, <2>2, <2>4, <2>5, WithRowTyped
  <1>5. ASSUME NEW t \in Task, NEW g \in DOMAIN rows[t], ReplayClaim(t, g) PROVE TypeInv'
    BY <1>4, <1>5 DEF ReplayClaim
  <1>6. ASSUME NEW t \in Task, ResumeInterruptedSummary(t) PROVE TypeInv'
    <2>1. PICK g \in InState(t, {"interrupted"}) :
            /\ Loadable(t, g)
            /\ rows' = WithRow(t, g, [rows[t][g] EXCEPT !.state = "generating"])
            /\ issued' = issued \cup
                 {ClaimValue(t, g, rows[t][g].prev, rows[t][g].covers)}
            /\ UNCHANGED <<binding, summarized, leases, leaseCount, granted>>
      BY <1>6 DEF ResumeInterruptedSummary
    <2>2. g \in InState(t, Active)
      BY DEF InState, Active
    <2> QED BY <1>4, <2>1, <2>2
  <1>7. ASSUME NEW c \in issued, AbandonSummaryClaim(c) \/ BeginSummaryTtsAttempt(c)
        PROVE  TypeInv'
    <2>1. c.task \in Task
      BY DEF TypeInv, TypeOK, Claim
    <2>2. c.gen \in DOMAIN rows[c.task]
      BY <1>7 DEF AbandonSummaryClaim, BeginSummaryTtsAttempt, Holds
    <2>3. rows[c.task][c.gen] \in Row
      BY <2>1, <2>2, Shape
    <2>4. UNCHANGED <<binding, summarized, leases, leaseCount, issued, granted>>
      BY <1>7 DEF AbandonSummaryClaim, BeginSummaryTtsAttempt
    <2>5. /\ leases' \in SUBSET Lease /\ leaseCount' \in 0..MaxLeases
          /\ issued' \in SUBSET Claim /\ granted' \in SUBSET Lease
      BY <2>4 DEF TypeInv, TypeOK
    <2>6. \E r \in Row : rows' = WithRow(c.task, c.gen, r)
      BY <1>7, <2>3, RowFields DEF AbandonSummaryClaim, BeginSummaryTtsAttempt, RowState
    <2> QED BY <2>1, <2>2, <2>4, <2>5, <2>6, WithRowTyped
  <1>8. ASSUME NEW c \in issued, PublishSummary(c) PROVE TypeInv'
    <2> DEFINE t == c.task
    <2>1. t \in Task /\ c.gen \in 1..MaxGenerations /\ c.prev \in 0..MaxGenerations
      BY DEF TypeInv, TypeOK, Claim
    <2>2. /\ Len(summarized[t]) \in Nat /\ DOMAIN summarized[t] = 1..Len(summarized[t])
          /\ \A n \in DOMAIN summarized[t] : summarized[t][n] \in 0..MaxGenerations
          /\ Len(rows[t]) \in Nat /\ DOMAIN rows[t] = 1..Len(rows[t])
          /\ \A g \in DOMAIN rows[t] : rows[t][g] \in Row
      BY <2>1, Shape
    <2>3. TakeOver(c) \in Seq(0..MaxGenerations) /\ Len(TakeOver(c)) = Len(summarized[t])
      <3>1. TakeOver(c) \in [1..Len(summarized[t]) -> 0..MaxGenerations]
        BY <2>1, <2>2 DEF TakeOver
      <3> QED BY <2>2, <3>1
    <2>4. PublishedRows(c) \in Seq(Row) /\ Len(PublishedRows(c)) = Len(rows[t])
      <3>1. ASSUME NEW g \in DOMAIN rows[t]
            PROVE  /\ [rows[t][g] EXCEPT !.state = "unheard", !.tts = FALSE] \in Row
                   /\ Supersede(rows[t][g], c.gen) \in Row
        BY <2>1, <2>2, RowFields DEF RowState, Unread
      <3>2. PublishedRows(c) \in [1..Len(rows[t]) -> Row]
        BY <2>2, <3>1 DEF PublishedRows
      <3> QED BY <2>2, <3>2
    <2>5. rows' \in [Task -> Seq(Row)] /\ summarized' \in [Task -> Seq(0..MaxGenerations)]
      BY <1>8, <2>3, <2>4 DEF PublishSummary, TypeInv, TypeOK
    <2>6. \A u \in Task : /\ Len(rows'[u]) = Len(rows[u])
                          /\ Len(summarized'[u]) = Len(summarized[u])
      BY <1>8, <2>3, <2>4 DEF PublishSummary, TypeInv, TypeOK
    <2> QED BY <1>8, <2>5, <2>6 DEF PublishSummary, TypeInv, TypeOK, Bounded
  <1>9. ASSUME NEW s \in Slot, AcquireSummaryPlayback(s) PROVE TypeInv'
    <2> DEFINE t == binding[s].task
               g == Current(t)
               lease == [id |-> leaseCount + 1, task |-> t, gen |-> g, slot |-> s]
    <2>1. t \in Task /\ g # 0 /\ leaseCount < MaxLeases
      BY <1>9 DEF AcquireSummaryPlayback, Playable
    <2>2. g \in DOMAIN rows[t] /\ g \in 1..MaxGenerations /\ rows[t][g] \in Row
      BY <2>1, CurrentRow, Shape DEF CurrentUnread, InState
    <2>3. [rows[t][g] EXCEPT !.state = "leased"] \in Row
      BY <2>2, RowFields DEF RowState, Unread
    <2>4. lease \in Lease /\ leaseCount' \in 0..MaxLeases
      BY <1>9, <2>1, <2>2 DEF AcquireSummaryPlayback, Lease, TypeInv, TypeOK
    <2>5. leases' \in SUBSET Lease /\ granted' \in SUBSET Lease /\ issued' \in SUBSET Claim
      BY <1>9, <2>4 DEF AcquireSummaryPlayback, TypeInv, TypeOK
    <2> QED BY <1>9, <2>1, <2>2, <2>3, <2>4, <2>5, WithRowTyped DEF AcquireSummaryPlayback
  <1>10. ASSUME NEW l \in granted, CancelSummaryPlayback(l) PROVE TypeInv'
    <2>1. l.task \in Task
      BY DEF TypeInv, TypeOK, Lease
    <2>2. CASE l.gen \in DOMAIN rows[l.task]
      <3>1. Released(rows[l.task][l.gen]) \in Row
        BY <2>1, <2>2, Shape, RowFields
      <3>2. /\ leases' \in SUBSET Lease /\ leaseCount' \in 0..MaxLeases
            /\ issued' \in SUBSET Claim /\ granted' \in SUBSET Lease
        BY <1>10 DEF CancelSummaryPlayback, TypeInv, TypeOK
      <3> QED BY <1>10, <2>1, <2>2, <3>1, <3>2, WithRowTyped DEF CancelSummaryPlayback
    <2>3. CASE l.gen \notin DOMAIN rows[l.task]
      <3>1. rows' = rows
        BY <1>10, <2>1, <2>3, Shape DEF CancelSummaryPlayback, WithRow, TypeInv, TypeOK
      <3> QED BY <1>10, <3>1 DEF CancelSummaryPlayback, TypeInv, TypeOK, Bounded
    <2> QED BY <2>2, <2>3
  <1>11. ASSUME NEW l \in granted, FinishSummaryPlayback(l) PROVE TypeInv'
    <2>1. l.task \in Task
      BY DEF TypeInv, TypeOK, Lease
    <2>2. CASE l.gen \in DOMAIN rows[l.task]
      <3>1. [rows[l.task][l.gen] EXCEPT !.state = "heard"] \in Row
        BY <2>1, <2>2, Shape, RowFields DEF RowState
      <3>2. /\ leases' \in SUBSET Lease /\ leaseCount' \in 0..MaxLeases
            /\ issued' \in SUBSET Claim /\ granted' \in SUBSET Lease
        BY <1>11 DEF FinishSummaryPlayback, TypeInv, TypeOK
      <3> QED BY <1>11, <2>1, <2>2, <3>1, <3>2, WithRowTyped DEF FinishSummaryPlayback
    <2>3. CASE l.gen \notin DOMAIN rows[l.task]
      <3>1. rows' = rows
        BY <1>11, <2>1, <2>3, Shape DEF FinishSummaryPlayback, WithRow, TypeInv, TypeOK
      <3> QED BY <1>11, <3>1 DEF FinishSummaryPlayback, TypeInv, TypeOK, Bounded
    <2> QED BY <2>2, <2>3
  <1>12. ASSUME NEW s \in Slot, AbandonSlotSummary(s) PROVE TypeInv'
    <2> DEFINE t == binding[s].task
    <2>1. t \in Task
      BY <1>12 DEF AbandonSlotSummary
    <2>2. PICK g \in InState(t, Active) :
            rows' = [RecoveredRows EXCEPT ![t][g] =
                       [rows[t][g] EXCEPT !.state = "abandoned", !.tts = FALSE]]
      BY <1>12 DEF AbandonSlotSummary
    <2> DEFINE r == [rows[t][g] EXCEPT !.state = "abandoned", !.tts = FALSE]
               new == [RecoveredRows[t] EXCEPT ![g] = r]
    <2>3. g \in DOMAIN rows[t] /\ r \in Row /\ DOMAIN rows[t] = 1..Len(rows[t])
      BY <2>1, Shape, RowFields DEF InState, RowState
    <2>4. /\ RecoveredRows \in [Task -> Seq(Row)]
          /\ \A u \in Task : Len(RecoveredRows[u]) = Len(rows[u])
      BY RecoveredShape
    <2>5. new \in Seq(Row) /\ Len(new) = Len(rows[t])
      BY <2>1, <2>3, <2>4, ExceptSeq
    <2>6. rows' = [RecoveredRows EXCEPT ![t] = new]
      BY <2>2
    <2>7. /\ rows' \in [Task -> Seq(Row)]
          /\ \A u \in Task : Len(rows'[u]) = Len(rows[u])
      BY <2>1, <2>4, <2>5, <2>6
    <2> QED BY <1>12, <2>7 DEF AbandonSlotSummary, TypeInv, TypeOK, Bounded
  <1>13. CASE Restart
    <2>1. /\ rows' \in [Task -> Seq(Row)]
          /\ \A u \in Task : Len(rows'[u]) = Len(rows[u])
      BY <1>13, RecoveredShape DEF Restart
    <2> QED BY <1>13, <2>1 DEF Restart, TypeInv, TypeOK, Bounded
  <1>14. CASE UNCHANGED vars
    BY <1>14 DEF vars, TypeInv, TypeOK, Bounded
  <1> QED
    BY <1>1, <1>2, <1>3, <1>5, <1>6, <1>7, <1>8, <1>9, <1>10, <1>11, <1>12,
       <1>13, <1>14 DEF Next

\* Every table of the store, and every claim and lease value in memory, is well
\* typed in every reachable state.
THEOREM TypeCorrect == Spec => []TypeOK
  <1>1. Init => TypeInv
    BY InitTyped
  <1>2. TypeInv /\ [Next]_vars => TypeInv'
    BY NextTyped
  <1>3. TypeInv => TypeOK
    BY DEF TypeInv
  <1> QED BY <1>1, <1>2, <1>3, PTL DEF Spec

-----------------------------------------------------------------------------
(* The inductive invariant.                                                *)

\* What holds of the rows and completions of one task.  Beyond the stated
\* invariants: a claim in progress is not superseded, and it covers the oldest
\* pending completions.
TaskInv(t) ==
  /\ \A g, h \in InState(t, Active) : g = h
  /\ \A g, h \in CurrentUnread(t) : g = h
  /\ \A n \in DOMAIN summarized[t] :
       summarized[t][n] # 0 =>
         /\ summarized[t][n] \in DOMAIN rows[t]
         /\ rows[t][summarized[t][n]].by = 0
         /\ rows[t][summarized[t][n]].state \in Unread \cup {"heard"}
  /\ \A g \in CurrentUnread(t) : Coverage(t, g) # {}
  /\ \A g \in InState(t, Active) :
       /\ rows[t][g].by = 0
       /\ rows[t][g].covers # {}
       /\ rows[t][g].covers \subseteq Pending(t)
       /\ \A n \in rows[t][g].covers, m \in Pending(t) :
            m < n => m \in rows[t][g].covers

\* What holds of the lease table.  Beyond the stated invariants: an id in the
\* table has been drawn, so the next one is new.
LeaseInv ==
  /\ \A l, m \in leases :
       (l.task = m.task /\ l.gen = m.gen) \/ l.id = m.id => l = m
  /\ \A t \in Task : \A g \in InState(t, {"leased"}) : LeasedOn(t, g) # {}
  /\ \A l \in leases : /\ l.gen \in DOMAIN rows[l.task]
                       /\ rows[l.task][l.gen].state = "leased"
                       /\ l.id <= leaseCount

IInv == TypeInv /\ (\A t \in Task : TaskInv(t)) /\ LeaseInv

\* A change of one row that opens no claim, makes nothing unread and takes
\* nothing covered out of the unread and heard states.
Calm(r, q) ==
  /\ q.covers = r.covers /\ q.by = r.by
  /\ q.state \in Active => r.state \in Active
  /\ q.state \in Unread /\ q.by = 0 => r.state \in Unread
  /\ r.state \in Unread \cup {"heard"} /\ r.by = 0 => q.state \in Unread \cup {"heard"}

LEMMA CalmKeepsTaskInv ==
  ASSUME NEW t \in Task, TaskInv(t),
         DOMAIN rows'[t] = DOMAIN rows[t], summarized'[t] = summarized[t],
         \A g \in DOMAIN rows[t] : Calm(rows[t][g], rows'[t][g])
  PROVE  TaskInv(t)'
  <1>1. /\ InState(t, Active)' \subseteq InState(t, Active)
        /\ CurrentUnread(t)' \subseteq CurrentUnread(t)
    BY DEF InState, CurrentUnread, Calm
  <1>2. Pending(t)' = Pending(t) /\ \A g \in DOMAIN rows[t] : Coverage(t, g)' = Coverage(t, g)
    BY DEF Pending, Coverage
  <1>3. \A n \in DOMAIN summarized'[t] :
          summarized'[t][n] # 0 =>
            /\ summarized'[t][n] \in DOMAIN rows'[t]
            /\ rows'[t][summarized'[t][n]].by = 0
            /\ rows'[t][summarized'[t][n]].state \in Unread \cup {"heard"}
    BY DEF TaskInv, Calm
  <1>4. \A g \in CurrentUnread(t)' : Coverage(t, g)' # {}
    BY <1>1, <1>2 DEF TaskInv, CurrentUnread, InState
  <1>5. \A g \in InState(t, Active)' :
          /\ rows'[t][g].by = 0
          /\ rows'[t][g].covers # {}
          /\ rows'[t][g].covers \subseteq Pending(t)'
          /\ \A n \in rows'[t][g].covers, m \in Pending(t)' :
               m < n => m \in rows'[t][g].covers
    <2> SUFFICES ASSUME NEW g \in InState(t, Active)'
                 PROVE  /\ rows'[t][g].by = 0
                        /\ rows'[t][g].covers # {}
                        /\ rows'[t][g].covers \subseteq Pending(t)'
                        /\ \A n \in rows'[t][g].covers, m \in Pending(t)' :
                             m < n => m \in rows'[t][g].covers
      OBVIOUS
    <2>1. g \in InState(t, Active) /\ g \in DOMAIN rows[t]
      BY <1>1 DEF InState
    <2>2. rows'[t][g].covers = rows[t][g].covers /\ rows'[t][g].by = rows[t][g].by
      BY <2>1 DEF Calm
    <2> QED BY <1>2, <2>1, <2>2 DEF TaskInv
  <1> QED BY <1>1, <1>3, <1>4, <1>5 DEF TaskInv

\* A task whose rows and completions do not change keeps its invariant.
LEMMA FrameTaskInv ==
  ASSUME NEW t \in Task, TaskInv(t),
         rows'[t] = rows[t], summarized'[t] = summarized[t]
  PROVE  TaskInv(t)'
  BY CalmKeepsTaskInv DEF Calm

\* Replacing one row calmly keeps the invariant of every task.
LEMMA CalmRow ==
  ASSUME TypeInv, \A u \in Task : TaskInv(u),
         NEW t \in Task, NEW g \in DOMAIN rows[t], NEW r \in Row,
         rows' = WithRow(t, g, r), summarized' = summarized,
         Calm(rows[t][g], r)
  PROVE  \A u \in Task : TaskInv(u)'
  <1> SUFFICES ASSUME NEW u \in Task PROVE TaskInv(u)'
    OBVIOUS
  <1>1. CASE u # t
    BY <1>1, WithRowShape, FrameTaskInv
  <1>2. CASE u = t
    <2>1. /\ DOMAIN rows'[t] = DOMAIN rows[t]
          /\ rows'[t][g] = r
          /\ \A h \in DOMAIN rows[t] : h # g => rows'[t][h] = rows[t][h]
      BY WithRowShape
    <2>2. \A h \in DOMAIN rows[t] : Calm(rows[t][h], rows'[t][h])
      BY <2>1 DEF Calm
    <2> QED BY <1>2, <2>1, <2>2, CalmKeepsTaskInv
  <1> QED BY <1>1, <1>2

\* Replacing a row that is not leased by one that is not leased, with the same
\* leases, keeps the lease table consistent.
LEMMA UnleasedRow ==
  ASSUME TypeInv, LeaseInv,
         NEW t \in Task, NEW g \in DOMAIN rows[t], NEW r \in Row,
         rows' = WithRow(t, g, r), UNCHANGED <<leases, leaseCount>>,
         rows[t][g].state # "leased", r.state # "leased"
  PROVE  LeaseInv'
  <1>1. /\ \A u \in Task : DOMAIN rows'[u] = DOMAIN rows[u]
        /\ \A u \in Task : u # t => rows'[u] = rows[u]
        /\ rows'[t][g] = r
        /\ \A h \in DOMAIN rows[t] : h # g => rows'[t][h] = rows[t][h]
    BY WithRowShape
  <1>2. \A u \in Task : InState(u, {"leased"})' = InState(u, {"leased"})
    BY <1>1 DEF InState
  <1>3. \A l \in leases : l.task \in Task
    BY DEF TypeInv, TypeOK, Lease
  <1>4. \A l \in leases : /\ l.gen \in DOMAIN rows'[l.task]
                          /\ rows'[l.task][l.gen].state = "leased"
    BY <1>1, <1>3 DEF LeaseInv
  <1> QED BY <1>2, <1>4 DEF LeaseInv, LeasedOn

\* Ending a lease, its row leaving the leased state, keeps the lease table
\* consistent.
LEMMA EndLease ==
  ASSUME TypeInv, LeaseInv, NEW l \in leases, NEW r \in Row,
         rows' = WithRow(l.task, l.gen, r), leases' = leases \ {l},
         UNCHANGED leaseCount, r.state # "leased"
  PROVE  LeaseInv'
  <1>0. l.task \in Task /\ l.gen \in DOMAIN rows[l.task]
    BY DEF TypeInv, TypeOK, Lease, LeaseInv
  <1>1. /\ \A u \in Task : DOMAIN rows'[u] = DOMAIN rows[u]
        /\ \A u \in Task : u # l.task => rows'[u] = rows[u]
        /\ rows'[l.task][l.gen] = r
        /\ \A h \in DOMAIN rows[l.task] : h # l.gen => rows'[l.task][h] = rows[l.task][h]
    BY <1>0, WithRowShape
  <1>2. ASSUME NEW u \in Task, NEW h \in InState(u, {"leased"})'
        PROVE  LeasedOn(u, h)' # {}
    <2>1. h \in InState(u, {"leased"}) /\ ~(u = l.task /\ h = l.gen)
      BY <1>0, <1>1 DEF InState
    <2>2. PICK m \in leases : m.task = u /\ m.gen = h
      BY <2>1 DEF LeaseInv, LeasedOn
    <2> QED BY <2>1, <2>2 DEF LeasedOn
  <1>3. ASSUME NEW m \in leases'
        PROVE  /\ m.gen \in DOMAIN rows'[m.task]
               /\ rows'[m.task][m.gen].state = "leased"
               /\ m.id <= leaseCount'
    <2>1. m \in leases /\ m # l /\ m.task \in Task
      BY DEF TypeInv, TypeOK, Lease
    <2>2. ~(m.task = l.task /\ m.gen = l.gen)
      BY <2>1 DEF LeaseInv
    <2> QED BY <1>1, <2>1, <2>2 DEF LeaseInv
  <1> QED BY <1>2, <1>3 DEF LeaseInv

-----------------------------------------------------------------------------
(* The steps that are not calm.                                            *)

\* Recording a completion.
LEMMA CommitKeeps ==
  ASSUME IInv, NEW t \in Task, CommitCompletion(t)
  PROVE  (\A u \in Task : TaskInv(u)') /\ LeaseInv'
  <1>1. LeaseInv'
    BY DEF CommitCompletion, IInv, LeaseInv, InState, LeasedOn
  <1>2. ASSUME NEW u \in Task, u # t PROVE TaskInv(u)'
    <2>1. rows'[u] = rows[u] /\ summarized'[u] = summarized[u]
      BY <1>2 DEF CommitCompletion, IInv, TypeInv, TypeOK
    <2> QED BY <2>1, FrameTaskInv DEF IInv
  <1>3. TaskInv(t)'
    <2> DEFINE k == Len(summarized[t])
    <2>1. /\ k \in Nat /\ DOMAIN summarized[t] = 1..k
          /\ summarized[t] \in Seq(0..MaxGenerations) /\ 0 \in 0..MaxGenerations
      BY Shape, LedgerConstants DEF IInv
    <2>2. /\ DOMAIN summarized'[t] = 1..(k + 1)
          /\ summarized'[t][k + 1] = 0
          /\ \A n \in 1..k : summarized'[t][n] = summarized[t][n]
      <3>1. summarized'[t] = Append(summarized[t], 0)
        BY DEF CommitCompletion, IInv, TypeInv, TypeOK
      <3>2. /\ Append(summarized[t], 0) \in Seq(0..MaxGenerations)
            /\ Len(Append(summarized[t], 0)) = k + 1
            /\ \A i \in 1..k : Append(summarized[t], 0)[i] = summarized[t][i]
            /\ Append(summarized[t], 0)[k + 1] = 0
        BY <2>1, AppendProperties
      <3> QED BY <3>1, <3>2, LenProperties
    <2>3. rows'[t] = rows[t]
      BY DEF CommitCompletion
    <2>4. Pending(t)' = Pending(t) \cup {k + 1}
      BY <2>1, <2>2 DEF Pending, Coverage
    <2>5. \A g \in DOMAIN rows[t] : Coverage(t, g)' = Coverage(t, g)
      BY <2>1, <2>2, Shape DEF Coverage, IInv
    <2>6. InState(t, Active)' = InState(t, Active) /\ CurrentUnread(t)' = CurrentUnread(t)
      BY <2>3 DEF InState, CurrentUnread
    <2>7. \A n \in DOMAIN summarized'[t] :
            summarized'[t][n] # 0 =>
              /\ summarized'[t][n] \in DOMAIN rows'[t]
              /\ rows'[t][summarized'[t][n]].by = 0
              /\ rows'[t][summarized'[t][n]].state \in Unread \cup {"heard"}
      BY <2>1, <2>2, <2>3 DEF IInv, TaskInv
    <2>8. \A g \in CurrentUnread(t)' : Coverage(t, g)' # {}
      BY <2>5, <2>6 DEF IInv, TaskInv, CurrentUnread, InState
    <2>9. ASSUME NEW g \in InState(t, Active)'
          PROVE  /\ rows'[t][g].by = 0
                 /\ rows'[t][g].covers # {}
                 /\ rows'[t][g].covers \subseteq Pending(t)'
                 /\ \A n \in rows'[t][g].covers, m \in Pending(t)' :
                      m < n => m \in rows'[t][g].covers
      <3>1. g \in InState(t, Active)
        BY <2>6
      <3>2. /\ rows[t][g].by = 0 /\ rows[t][g].covers # {}
            /\ rows[t][g].covers \subseteq Pending(t)
            /\ \A n \in rows[t][g].covers, m \in Pending(t) :
                 m < n => m \in rows[t][g].covers
        BY <3>1 DEF IInv, TaskInv
      <3>3. \A n \in Pending(t) : n \in 1..k
        BY <2>1 DEF Pending, Coverage
      <3>4. \A n \in rows[t][g].covers : ~(k + 1 < n)
        BY <2>1, <3>2, <3>3
      <3> QED BY <2>3, <2>4, <3>2, <3>4
    <2> QED BY <2>6, <2>7, <2>8, <2>9 DEF IInv, TaskInv
  <1> QED BY <1>1, <1>2, <1>3

\* Opening a claim.
LEMMA ClaimKeeps ==
  ASSUME IInv, NEW t \in Task, ClaimSummary(t)
  PROVE  (\A u \in Task : TaskInv(u)') /\ LeaseInv'
  <1>1. PICK S \in OldestPending(t) :
          rows' = [rows EXCEPT ![t] = Append(@,
               [state |-> "generating", covers |-> S, prev |-> Current(t),
                by |-> 0, tts |-> FALSE])]
    BY DEF ClaimSummary
  <1> DEFINE row == [state |-> "generating", covers |-> S, prev |-> Current(t),
                     by |-> 0, tts |-> FALSE]
             k == Len(rows[t])
  <1>2. k \in Nat /\ DOMAIN rows[t] = 1..k /\ rows[t] \in Seq(Row)
    BY Shape DEF IInv
  <1>3. row \in Row
    <2>1. S \in SUBSET (1..MaxCompletions)
      BY Shape DEF OldestPending, Pending, Coverage, IInv
    <2>2. Current(t) \in 0..MaxGenerations /\ 0 \in 0..MaxGenerations
      BY CurrentRow, LedgerConstants DEF IInv
    <2> QED BY <2>1, <2>2 DEF Row, RowState, Active
  <1>4. /\ \A u \in Task : u # t => rows'[u] = rows[u]
        /\ DOMAIN rows'[t] = 1..(k + 1)
        /\ rows'[t][k + 1] = row
        /\ \A g \in 1..k : rows'[t][g] = rows[t][g]
    <2>1. rows'[t] = Append(rows[t], row) /\ \A u \in Task : u # t => rows'[u] = rows[u]
      BY <1>1 DEF IInv, TypeInv, TypeOK
    <2>2. /\ Append(rows[t], row) \in Seq(Row)
          /\ Len(Append(rows[t], row)) = k + 1
          /\ \A i \in 1..k : Append(rows[t], row)[i] = rows[t][i]
          /\ Append(rows[t], row)[k + 1] = row
      BY <1>2, <1>3, AppendProperties
    <2> QED BY <2>1, <2>2, LenProperties
  <1>5. UNCHANGED <<summarized, leases, leaseCount>> /\ InState(t, Active) = {}
    BY DEF ClaimSummary
  <1>6. ASSUME NEW u \in Task, u # t PROVE TaskInv(u)'
    BY <1>4, <1>5, <1>6, FrameTaskInv DEF IInv
  <1>7. TaskInv(t)'
    <2>1. InState(t, Active)' = {k + 1}
      BY <1>2, <1>4, <1>5 DEF InState, Active
    <2>2. CurrentUnread(t)' = CurrentUnread(t)
      BY <1>2, <1>4 DEF InState, CurrentUnread, Unread
    <2>3. Pending(t)' = Pending(t) /\ \A g \in DOMAIN rows[t] : Coverage(t, g)' = Coverage(t, g)
      BY <1>5 DEF Pending, Coverage
    <2>4. \A n \in DOMAIN summarized'[t] :
            summarized'[t][n] # 0 =>
              /\ summarized'[t][n] \in DOMAIN rows'[t]
              /\ rows'[t][summarized'[t][n]].by = 0
              /\ rows'[t][summarized'[t][n]].state \in Unread \cup {"heard"}
      <3> SUFFICES ASSUME NEW n \in DOMAIN summarized[t], summarized[t][n] # 0
                   PROVE  /\ summarized[t][n] \in DOMAIN rows'[t]
                          /\ rows'[t][summarized[t][n]].by = 0
                          /\ rows'[t][summarized[t][n]].state \in Unread \cup {"heard"}
        BY <1>5
      <3>1. /\ summarized[t][n] \in 1..k
            /\ rows[t][summarized[t][n]].by = 0
            /\ rows[t][summarized[t][n]].state \in Unread \cup {"heard"}
        BY <1>2 DEF IInv, TaskInv
      <3>2. rows'[t][summarized[t][n]] = rows[t][summarized[t][n]]
        BY <1>4, <3>1
      <3>3. summarized[t][n] \in DOMAIN rows'[t]
        BY <1>2, <1>4, <3>1
      <3> QED BY <3>1, <3>2, <3>3
    <2>5. \A g \in CurrentUnread(t)' : Coverage(t, g)' # {}
      BY <2>2, <2>3 DEF IInv, TaskInv, CurrentUnread, InState
    <2>6. /\ row.by = 0 /\ row.covers # {} /\ row.covers \subseteq Pending(t)
          /\ \A n \in row.covers, m \in Pending(t) : m < n => m \in row.covers
      BY DEF OldestPending
    <2> QED BY <1>4, <2>1, <2>2, <2>3, <2>4, <2>5, <2>6 DEF IInv, TaskInv
  <1>8. LeaseInv'
    <2>1. \A u \in Task : InState(u, {"leased"})' = InState(u, {"leased"})
      BY <1>2, <1>4 DEF InState
    <2>2. \A l \in leases : l.task \in Task
      BY DEF IInv, TypeInv, TypeOK, Lease
    <2>3. \A l \in leases : /\ l.gen \in DOMAIN rows'[l.task]
                            /\ rows'[l.task][l.gen].state = "leased"
      BY <1>2, <1>4, <2>2 DEF IInv, LeaseInv
    <2> QED BY <1>5, <2>1, <2>3 DEF IInv, LeaseInv, LeasedOn
  <1> QED BY <1>6, <1>7, <1>8

\* What a publication does to the rows and completions of its task.
LEMMA PublishShape ==
  ASSUME IInv, NEW c \in issued, PublishSummary(c)
  PROVE  /\ c.task \in Task /\ c.gen \in DOMAIN rows[c.task] /\ c.gen # 0
         /\ c.gen \in InState(c.task, Active)
         /\ c.covers = rows[c.task][c.gen].covers
         /\ c.covers \subseteq Pending(c.task) /\ c.covers # {}
         /\ c.prev # c.gen
         /\ c.prev # 0 => CurrentUnread(c.task) = {c.prev}
         /\ c.prev = 0 => CurrentUnread(c.task) = {}
         /\ \A u \in Task : u # c.task =>
              rows'[u] = rows[u] /\ summarized'[u] = summarized[u]
         /\ DOMAIN rows'[c.task] = DOMAIN rows[c.task]
         /\ rows'[c.task][c.gen] =
              [rows[c.task][c.gen] EXCEPT !.state = "unheard", !.tts = FALSE]
         /\ c.prev # 0 => rows'[c.task][c.prev] = Supersede(rows[c.task][c.prev], c.gen)
         /\ \A g \in DOMAIN rows[c.task] :
              g # c.gen /\ g # c.prev => rows'[c.task][g] = rows[c.task][g]
         /\ DOMAIN summarized'[c.task] = DOMAIN summarized[c.task]
         /\ \A n \in DOMAIN summarized[c.task] : summarized'[c.task][n] =
              IF n \in c.covers \/ (c.prev # 0 /\ summarized[c.task][n] = c.prev)
              THEN c.gen ELSE summarized[c.task][n]
  <1> DEFINE t == c.task
  <1>1. t \in Task /\ c.gen \in 1..MaxGenerations
    BY DEF IInv, TypeInv, TypeOK, Claim
  <1>2. /\ c.gen \in DOMAIN rows[t] /\ rows[t][c.gen].state = "generating"
        /\ c.covers = rows[t][c.gen].covers
        /\ c.covers \subseteq Pending(t) /\ Current(t) = c.prev
    BY DEF PublishSummary, Publishable, Holds, PreviousUnchanged
  <1>3. c.gen \in InState(t, Active) /\ c.gen \notin CurrentUnread(t)
    BY <1>2 DEF InState, Active, CurrentUnread, Unread
  <1>4. c.covers # {}
    BY <1>1, <1>2, <1>3 DEF IInv, TaskInv
  <1>5. /\ c.prev # 0 => CurrentUnread(t) = {c.prev}
        /\ c.prev = 0 => CurrentUnread(t) = {}
    BY <1>1, <1>2, CurrentRow DEF IInv, TaskInv
  <1>6. c.prev # c.gen
    BY <1>1, <1>3, <1>5, LedgerConstants
  <1>7. /\ \A u \in Task : u # t => rows'[u] = rows[u] /\ summarized'[u] = summarized[u]
        /\ rows'[t] = PublishedRows(c) /\ summarized'[t] = TakeOver(c)
    BY <1>1 DEF PublishSummary, IInv, TypeInv, TypeOK
  <1>8. c.prev # 0 => c.prev \in DOMAIN rows[t]
    BY <1>5 DEF CurrentUnread, InState
  <1>9. /\ DOMAIN rows'[t] = DOMAIN rows[t]
        /\ rows'[t][c.gen] = [rows[t][c.gen] EXCEPT !.state = "unheard", !.tts = FALSE]
        /\ c.prev # 0 => rows'[t][c.prev] = Supersede(rows[t][c.prev], c.gen)
        /\ \A g \in DOMAIN rows[t] :
             g # c.gen /\ g # c.prev => rows'[t][g] = rows[t][g]
    <2>1. DOMAIN rows'[t] = DOMAIN rows[t]
      BY <1>7 DEF PublishedRows
    <2>2. rows'[t][c.gen] = [rows[t][c.gen] EXCEPT !.state = "unheard", !.tts = FALSE]
      BY <1>2, <1>6, <1>7 DEF PublishedRows
    <2>3. c.prev # 0 => rows'[t][c.prev] = Supersede(rows[t][c.prev], c.gen)
      <3> HIDE DEF Supersede
      <3> QED BY <1>6, <1>7, <1>8 DEF PublishedRows
    <2>4. ASSUME NEW g \in DOMAIN rows[t], g # c.gen, g # c.prev
          PROVE  rows'[t][g] = rows[t][g]
      BY <1>7, <2>4 DEF PublishedRows
    <2> QED BY <2>1, <2>2, <2>3, <2>4
  <1>10. /\ DOMAIN summarized'[t] = DOMAIN summarized[t]
         /\ \A n \in DOMAIN summarized[t] : summarized'[t][n] =
              IF n \in c.covers \/ (c.prev # 0 /\ summarized[t][n] = c.prev)
              THEN c.gen ELSE summarized[t][n]
    BY <1>7 DEF TakeOver
  <1>11. c.gen # 0
    BY <1>1, LedgerConstants
  <1> QED
    BY <1>1, <1>2, <1>3, <1>4, <1>5, <1>6, <1>7, <1>9, <1>10, <1>11

\* Publishing a generation.
LEMMA PublishKeeps ==
  ASSUME IInv, NEW c \in issued, PublishSummary(c)
  PROVE  (\A u \in Task : TaskInv(u)') /\ LeaseInv'
  <1> DEFINE t == c.task
             S == c.covers
  <1>0. t \in Task /\ c.gen \in DOMAIN rows[t] /\ c.gen # 0 /\ c.gen \in InState(t, Active)
    BY PublishShape
  <1>1. S = rows[t][c.gen].covers /\ S \subseteq Pending(t) /\ S # {}
    BY PublishShape
  <1>2. /\ c.prev # c.gen
        /\ c.prev # 0 => CurrentUnread(t) = {c.prev}
        /\ c.prev = 0 => CurrentUnread(t) = {}
    BY PublishShape
  <1>3. /\ DOMAIN rows'[t] = DOMAIN rows[t]
        /\ rows'[t][c.gen] = [rows[t][c.gen] EXCEPT !.state = "unheard", !.tts = FALSE]
        /\ c.prev # 0 => rows'[t][c.prev] = Supersede(rows[t][c.prev], c.gen)
        /\ \A g \in DOMAIN rows[t] : g # c.gen /\ g # c.prev => rows'[t][g] = rows[t][g]
    BY PublishShape
  <1>4. /\ DOMAIN summarized'[t] = DOMAIN summarized[t]
        /\ \A n \in DOMAIN summarized[t] : summarized'[t][n] =
             IF n \in S \/ (c.prev # 0 /\ summarized[t][n] = c.prev)
             THEN c.gen ELSE summarized[t][n]
    BY PublishShape
  <1>5. /\ \A g, h \in InState(t, Active) : g = h
        /\ rows[t][c.gen].by = 0
    BY <1>0 DEF IInv, TaskInv
  <1>6. \A g \in DOMAIN rows[t] : rows[t][g] \in Row
    BY <1>0, Shape DEF IInv
  <1>7. /\ rows'[t][c.gen].state = "unheard" /\ rows'[t][c.gen].by = 0
        /\ c.prev # 0 => /\ rows'[t][c.prev].by = c.gen
                         /\ rows[t][c.prev].state \in Unread
                         /\ rows'[t][c.prev].state \notin Active
                         /\ rows'[t][c.prev].state = "leased"
                              <=> rows[t][c.prev].state = "leased"
                         /\ c.prev \in DOMAIN rows[t]
    <2>1. c.prev # 0 => c.prev \in DOMAIN rows[t] /\ rows[t][c.prev].state \in Unread
      BY <1>2 DEF CurrentUnread, InState
    <2> QED BY <1>0, <1>3, <1>5, <1>6, <2>1 DEF Supersede, Row, Unread, Active
  <1>8. InState(t, Active)' = {}
    <2> SUFFICES ASSUME NEW g \in InState(t, Active)' PROVE FALSE
      OBVIOUS
    <2>1. g \in DOMAIN rows[t] /\ rows'[t][g].state \in Active
      BY <1>3 DEF InState
    <2>2. g # c.gen
      BY <1>7, <2>1 DEF Active
    <2>3. g # 0
      BY <1>0, <2>1, Shape DEF IInv
    <2>4. g # c.prev
      BY <1>7, <2>1, <2>3
    <2>5. g \in InState(t, Active)
      BY <1>3, <2>1, <2>2, <2>4 DEF InState
    <2> QED BY <1>0, <1>5, <2>2, <2>5
  <1>9. CurrentUnread(t)' = {c.gen}
    <2>1. c.gen \in CurrentUnread(t)'
      BY <1>0, <1>3, <1>7 DEF CurrentUnread, InState, Unread
    <2>2. ASSUME NEW g \in CurrentUnread(t)', g # c.gen PROVE FALSE
      <3>0. g \in DOMAIN rows[t] /\ rows'[t][g].by = 0
        BY <1>3, <2>2 DEF CurrentUnread, InState
      <3>1. g \in DOMAIN rows[t] /\ g # c.prev
        <4>1. g # 0
          BY <1>0, <3>0, Shape DEF IInv
        <4> QED BY <1>0, <1>7, <3>0, <4>1
      <3>2. g \in CurrentUnread(t)
        BY <1>3, <2>2, <3>1 DEF CurrentUnread, InState
      <3> QED BY <1>2, <3>1, <3>2
    <2> QED BY <2>1, <2>2
  <1>10. TaskInv(t)'
    <2>1. ASSUME NEW n \in DOMAIN summarized'[t], summarized'[t][n] # 0
          PROVE  /\ summarized'[t][n] \in DOMAIN rows'[t]
                 /\ rows'[t][summarized'[t][n]].by = 0
                 /\ rows'[t][summarized'[t][n]].state \in Unread \cup {"heard"}
      <3>1. CASE summarized'[t][n] = c.gen
        BY <1>0, <1>3, <1>7, <3>1 DEF Unread
      <3>2. CASE summarized'[t][n] # c.gen
        <4>1. /\ summarized'[t][n] = summarized[t][n] /\ summarized[t][n] # 0
              /\ n \in DOMAIN summarized[t] /\ summarized[t][n] # c.prev
          BY <1>4, <2>1, <3>2
        <4>2. /\ summarized[t][n] \in DOMAIN rows[t]
              /\ rows[t][summarized[t][n]].by = 0
              /\ rows[t][summarized[t][n]].state \in Unread \cup {"heard"}
          BY <1>0, <4>1 DEF IInv, TaskInv
        <4> QED BY <1>3, <3>2, <4>1, <4>2
      <3> QED BY <3>1, <3>2
    <2>2. Coverage(t, c.gen)' # {}
      <3>1. PICK n \in S : n \in DOMAIN summarized[t]
        BY <1>1 DEF Pending, Coverage
      <3> QED BY <1>4, <3>1 DEF Coverage
    <2> QED BY <1>8, <1>9, <2>1, <2>2 DEF TaskInv
  <1>11. \A u \in Task : u # t => rows'[u] = rows[u] /\ summarized'[u] = summarized[u]
    BY PublishShape
  <1>12. ASSUME NEW u \in Task, u # t PROVE TaskInv(u)'
    BY <1>11, <1>12, FrameTaskInv DEF IInv
  <1>13. LeaseInv'
    <2>1. UNCHANGED <<leases, leaseCount>>
      BY DEF PublishSummary
    <2>2. \A u \in Task : InState(u, {"leased"})' = InState(u, {"leased"})
      <3>1. rows[t][c.gen].state # "leased"
        BY <1>0 DEF InState, Active
      <3>2. InState(t, {"leased"})' = InState(t, {"leased"})
        <4> SUFFICES ASSUME NEW g \in DOMAIN rows[t]
                     PROVE  rows'[t][g].state = "leased" <=> rows[t][g].state = "leased"
          BY <1>3 DEF InState
        <4>1. CASE g = c.gen
          BY <1>7, <3>1, <4>1
        <4>2. CASE g = c.prev
          <5>1. g # 0
            BY <1>0, Shape DEF IInv
          <5> QED BY <1>7, <4>2, <5>1
        <4>3. CASE g # c.gen /\ g # c.prev
          BY <1>3, <4>3
        <4> QED BY <4>1, <4>2, <4>3
      <3>3. \A u \in Task : u # t => InState(u, {"leased"})' = InState(u, {"leased"})
        BY <1>11 DEF InState
      <3> QED BY <3>2, <3>3
    <2>3. ASSUME NEW l \in leases
          PROVE  l.gen \in DOMAIN rows'[l.task] /\ rows'[l.task][l.gen].state = "leased"
      <3>1. l.task \in Task /\ l.gen \in InState(l.task, {"leased"})
        BY DEF IInv, TypeInv, TypeOK, Lease, LeaseInv, InState
      <3>2. l.gen \in InState(l.task, {"leased"})'
        BY <2>2, <3>1
      <3> QED BY <3>2 DEF InState
    <2> QED BY <2>1, <2>2, <2>3 DEF IInv, LeaseInv, LeasedOn
  <1> QED BY <1>10, <1>12, <1>13

\* A fresh lease on a row nobody plays keeps the lease table consistent.
LEMMA AddLease ==
  ASSUME TypeInv, LeaseInv,
         NEW t \in Task, NEW g \in DOMAIN rows[t], NEW r \in Row, NEW lease,
         lease.task = t, lease.gen = g, lease.id = leaseCount + 1,
         rows' = WithRow(t, g, r), r.state = "leased",
         leases' = leases \cup {lease}, leaseCount' = leaseCount + 1,
         LeasedOn(t, g) = {}
  PROVE  LeaseInv'
  <1>1. /\ \A u \in Task : DOMAIN rows'[u] = DOMAIN rows[u]
        /\ \A u \in Task : u # t => rows'[u] = rows[u]
        /\ rows'[t][g] = r
        /\ \A h \in DOMAIN rows[t] : h # g => rows'[t][h] = rows[t][h]
    BY WithRowShape
  <1>2. leaseCount \in Nat /\ \A l \in leases : l.task \in Task /\ l.id \in Nat
    BY LedgerConstants DEF TypeInv, TypeOK, Lease
  <1>3. ASSUME NEW l \in leases PROVE l.id # lease.id /\ ~(l.task = t /\ l.gen = g)
    BY <1>2 DEF LeaseInv, LeasedOn
  <1>4. ASSUME NEW u \in Task, NEW h \in InState(u, {"leased"})'
        PROVE  LeasedOn(u, h)' # {}
    <2>1. CASE u = t /\ h = g
      <3>1. lease \in LeasedOn(u, h)'
        BY <2>1 DEF LeasedOn
      <3> QED BY <3>1
    <2>2. CASE ~(u = t /\ h = g)
      <3>1. h \in InState(u, {"leased"})
        BY <1>1, <1>4, <2>2 DEF InState
      <3>2. PICK l \in leases : l.task = u /\ l.gen = h
        BY <3>1 DEF LeaseInv, LeasedOn
      <3> QED BY <3>2 DEF LeasedOn
    <2> QED BY <2>1, <2>2
  <1>5. ASSUME NEW l \in leases'
        PROVE  /\ l.gen \in DOMAIN rows'[l.task]
               /\ rows'[l.task][l.gen].state = "leased"
               /\ l.id <= leaseCount'
    <2>1. CASE l = lease
      BY <1>1, <1>2, <2>1
    <2>2. CASE l \in leases
      <3>1. /\ l.gen \in DOMAIN rows[l.task] /\ rows[l.task][l.gen].state = "leased"
            /\ l.id <= leaseCount /\ l.task \in Task /\ l.id \in Nat
        BY <1>2, <2>2 DEF LeaseInv
      <3>2. l.id <= leaseCount'
        BY <1>2, <3>1
      <3> QED BY <1>1, <1>3, <2>2, <3>1, <3>2
    <2> QED BY <2>1, <2>2
  <1>6. \A l, m \in leases' :
          (l.task = m.task /\ l.gen = m.gen) \/ l.id = m.id => l = m
    BY <1>3 DEF LeaseInv
  <1> QED BY <1>4, <1>5, <1>6 DEF LeaseInv

\* Leasing the current unread row.
LEMMA AcquireKeeps ==
  ASSUME IInv, NEW s \in Slot, AcquireSummaryPlayback(s)
  PROVE  (\A u \in Task : TaskInv(u)') /\ LeaseInv'
  <1> DEFINE t == binding[s].task
             g == Current(t)
             r == [rows[t][g] EXCEPT !.state = "leased"]
             lease == [id |-> leaseCount + 1, task |-> t, gen |-> g, slot |-> s]
  <1>1. /\ t \in Task /\ g # 0 /\ LeasedOn(t, g) = {}
        /\ rows[t][g].state = "unheard"
        /\ rows' = WithRow(t, g, r) /\ leases' = leases \cup {lease}
        /\ leaseCount' = leaseCount + 1 /\ UNCHANGED summarized
    BY DEF AcquireSummaryPlayback, Playable
  <1>2. g \in DOMAIN rows[t] /\ rows[t][g] \in Row
    BY <1>1, CurrentRow, Shape DEF IInv, CurrentUnread, InState
  <1>3. r \in Row /\ r.state = "leased" /\ Calm(rows[t][g], r)
    BY <1>1, <1>2, RowFields DEF RowState, Unread, Calm, Row, Active
  <1>4. \A u \in Task : TaskInv(u)'
    BY <1>1, <1>2, <1>3, CalmRow DEF IInv
  <1>5. lease.task = t /\ lease.gen = g /\ lease.id = leaseCount + 1
    OBVIOUS
  <1>6. LeaseInv'
    <2> HIDE DEF t, g, r, lease
    <2> QED BY <1>1, <1>2, <1>3, <1>5, AddLease DEF IInv
  <1> QED BY <1>4, <1>6

\* A row that starts or ends neither a claim nor a lease of its own is replaced.
LEMMA ActiveRow ==
  ASSUME IInv, NEW t \in Task, NEW g \in InState(t, Active), NEW r \in Row,
         rows' = WithRow(t, g, r), UNCHANGED <<summarized, leases, leaseCount>>,
         r.covers = rows[t][g].covers, r.by = rows[t][g].by,
         r.state \in Active \cup {"abandoned"}
  PROVE  (\A u \in Task : TaskInv(u)') /\ LeaseInv'
  <1>1. g \in DOMAIN rows[t] /\ rows[t][g].state \in Active
    BY DEF InState
  <1>2. Calm(rows[t][g], r) /\ rows[t][g].state # "leased" /\ r.state # "leased"
    BY <1>1 DEF Calm, Active, Unread
  <1>3. \A u \in Task : TaskInv(u)'
    BY <1>1, <1>2, CalmRow DEF IInv
  <1>4. LeaseInv'
    BY <1>1, <1>2, UnleasedRow DEF IInv
  <1> QED BY <1>3, <1>4

\* Taking up or handing out again the claim of row g.
LEMMA GeneratingKeeps ==
  ASSUME IInv, NEW t \in Task, NEW g \in InState(t, Active),
         rows' = WithRow(t, g, [rows[t][g] EXCEPT !.state = "generating"]),
         UNCHANGED <<summarized, leases, leaseCount>>
  PROVE  (\A u \in Task : TaskInv(u)') /\ LeaseInv'
  <1> DEFINE r == [rows[t][g] EXCEPT !.state = "generating"]
  <1>1. rows[t][g] \in Row
    BY Shape DEF IInv, InState
  <1>2. /\ r \in Row /\ r.covers = rows[t][g].covers /\ r.by = rows[t][g].by
        /\ r.state \in Active \cup {"abandoned"}
    BY <1>1, RowFields DEF Row, RowState, Active
  <1> QED BY <1>2, ActiveRow

\* Abandoning a claim and marking its speech attempt.
LEMMA ClaimHolderKeeps ==
  ASSUME IInv, NEW c \in issued, AbandonSummaryClaim(c) \/ BeginSummaryTtsAttempt(c)
  PROVE  (\A u \in Task : TaskInv(u)') /\ LeaseInv'
  <1> DEFINE t == c.task
             g == c.gen
  <1>1. t \in Task
    BY DEF IInv, TypeInv, TypeOK, Claim
  <1>2. g \in InState(t, Active)
    BY DEF AbandonSummaryClaim, BeginSummaryTtsAttempt, Holds, InState
  <1>3. rows[t][g] \in Row /\ rows[t][g].state \in Active
    BY <1>1, <1>2, Shape DEF IInv, InState
  <1>4. \E r \in Row : /\ rows' = WithRow(t, g, r)
                       /\ r.covers = rows[t][g].covers /\ r.by = rows[t][g].by
                       /\ r.state \in Active \cup {"abandoned"}
    <2>1. CASE AbandonSummaryClaim(c)
      <3> DEFINE r == [rows[t][g] EXCEPT !.state = "abandoned", !.tts = FALSE]
      <3>1. /\ r \in Row /\ r.covers = rows[t][g].covers /\ r.by = rows[t][g].by
            /\ r.state \in Active \cup {"abandoned"}
        BY <1>3, RowFields DEF Row, RowState
      <3>2. rows' = WithRow(t, g, r)
        BY <2>1 DEF AbandonSummaryClaim
      <3> QED BY <3>1, <3>2
    <2>2. CASE BeginSummaryTtsAttempt(c)
      <3> DEFINE r == [rows[t][g] EXCEPT !.tts = TRUE]
      <3>1. /\ r \in Row /\ r.covers = rows[t][g].covers /\ r.by = rows[t][g].by
            /\ r.state \in Active \cup {"abandoned"}
        BY <1>3, RowFields DEF Row
      <3>2. rows' = WithRow(t, g, r)
        BY <2>2 DEF BeginSummaryTtsAttempt
      <3> QED BY <3>1, <3>2
    <2> QED BY <2>1, <2>2
  <1>5. UNCHANGED <<summarized, leases, leaseCount>>
    BY DEF AbandonSummaryClaim, BeginSummaryTtsAttempt
  <1> QED BY <1>1, <1>2, <1>4, <1>5, ActiveRow

\* Ending a lease, heard or not.
LEMMA LeaseHolderKeeps ==
  ASSUME IInv, NEW l \in granted, CancelSummaryPlayback(l) \/ FinishSummaryPlayback(l)
  PROVE  (\A u \in Task : TaskInv(u)') /\ LeaseInv'
  <1> DEFINE t == l.task
             g == l.gen
  <1>1. l \in leases /\ t \in Task
    BY DEF CancelSummaryPlayback, FinishSummaryPlayback, IInv, TypeInv, TypeOK, Lease
  <1>2. g \in DOMAIN rows[t] /\ rows[t][g] \in Row /\ rows[t][g].state = "leased"
    BY <1>1, Shape DEF IInv, LeaseInv
  <1>3. \E r \in Row : /\ rows' = WithRow(t, g, r) /\ r.state # "leased"
                       /\ Calm(rows[t][g], r)
    <2>1. CASE CancelSummaryPlayback(l)
      <3> DEFINE r == Released(rows[t][g])
      <3>1. r \in Row /\ r.state # "leased" /\ Calm(rows[t][g], r)
        BY <1>2, RowFields DEF Released, Calm, Row, Active, Unread
      <3>2. rows' = WithRow(t, g, r)
        BY <2>1 DEF CancelSummaryPlayback
      <3> QED BY <3>1, <3>2
    <2>2. CASE FinishSummaryPlayback(l)
      <3> DEFINE r == [rows[t][g] EXCEPT !.state = "heard"]
      <3>1. r \in Row
        BY <1>2, RowFields DEF RowState
      <3>2. r.state # "leased" /\ Calm(rows[t][g], r)
        BY <1>2 DEF Calm, Row, Active, Unread
      <3>3. rows' = WithRow(t, g, r)
        BY <2>2 DEF FinishSummaryPlayback
      <3> QED BY <3>1, <3>2, <3>3
    <2> QED BY <2>1, <2>2
  <1>4. leases' = leases \ {l} /\ UNCHANGED <<summarized, leaseCount>>
    BY DEF CancelSummaryPlayback, FinishSummaryPlayback
  <1>5. PICK r \in Row : /\ rows' = WithRow(t, g, r) /\ r.state # "leased"
                        /\ Calm(rows[t][g], r)
    BY <1>3
  <1>6. \A u \in Task : TaskInv(u)'
    BY <1>1, <1>2, <1>4, <1>5, CalmRow DEF IInv
  <1>7. LeaseInv'
    BY <1>1, <1>4, <1>5, EndLease DEF IInv
  <1> QED BY <1>6, <1>7

\* A restart changes each row calmly and leaves none leased; so does one that
\* also abandons a claim.
LEMMA RecoveredCalm ==
  ASSUME NEW r \in Row
  PROVE  /\ Calm(r, RecoveredRow(r)) /\ RecoveredRow(r).state # "leased"
         /\ r.state \in Active =>
              /\ Calm(r, [r EXCEPT !.state = "abandoned", !.tts = FALSE])
              /\ [r EXCEPT !.state = "abandoned", !.tts = FALSE].state # "leased"
  BY DEF Calm, RecoveredRow, Released, Row, Active, Unread

\* A step that changes every row calmly, leaves none leased and empties the
\* lease table keeps the invariant.
LEMMA RecoveryKeeps ==
  ASSUME IInv, leases' = {}, UNCHANGED summarized,
         \A u \in Task :
           /\ DOMAIN rows'[u] = DOMAIN rows[u]
           /\ \A h \in DOMAIN rows[u] : /\ Calm(rows[u][h], rows'[u][h])
                                       /\ rows'[u][h].state # "leased"
  PROVE  (\A u \in Task : TaskInv(u)') /\ LeaseInv'
  <1>1. ASSUME NEW u \in Task PROVE TaskInv(u)'
    BY CalmKeepsTaskInv DEF IInv
  <1>2. \A u \in Task : InState(u, {"leased"})' = {}
    BY DEF InState
  <1> QED BY <1>1, <1>2 DEF LeaseInv

\* Process start, with or without abandoning the claim of a slot.
LEMMA RestartKeeps ==
  ASSUME IInv, Restart \/ \E s \in Slot : AbandonSlotSummary(s)
  PROVE  (\A u \in Task : TaskInv(u)') /\ LeaseInv'
  <1>1. /\ RecoveredRows \in [Task -> Seq(Row)]
        /\ \A u \in Task : DOMAIN RecoveredRows[u] = DOMAIN rows[u]
        /\ \A u \in Task : \A h \in DOMAIN rows[u] :
              RecoveredRows[u][h] = RecoveredRow(rows[u][h])
    BY RecoveredShape DEF IInv, RecoveredRows
  <1>2. \A u \in Task : \A h \in DOMAIN rows[u] : rows[u][h] \in Row
    BY Shape DEF IInv
  <1>3. CASE Restart
    <2>1. rows' = RecoveredRows /\ leases' = {} /\ UNCHANGED summarized
      BY <1>3 DEF Restart
    <2>2. ASSUME NEW u \in Task, NEW h \in DOMAIN rows[u]
          PROVE  Calm(rows[u][h], rows'[u][h]) /\ rows'[u][h].state # "leased"
      <3>1. rows'[u][h] = RecoveredRow(rows[u][h]) /\ rows[u][h] \in Row
        BY <1>1, <1>2, <2>1
      <3> QED BY <3>1, RecoveredCalm
    <2>3. \A u \in Task : DOMAIN rows'[u] = DOMAIN rows[u]
      BY <1>1, <2>1
    <2> QED BY <2>1, <2>2, <2>3, RecoveryKeeps
  <1>4. ASSUME NEW s \in Slot, AbandonSlotSummary(s)
        PROVE  (\A u \in Task : TaskInv(u)') /\ LeaseInv'
    <2> DEFINE t == binding[s].task
    <2>1. PICK g \in InState(t, Active) :
            rows' = [RecoveredRows EXCEPT ![t][g] =
                       [rows[t][g] EXCEPT !.state = "abandoned", !.tts = FALSE]]
      BY <1>4 DEF AbandonSlotSummary
    <2> DEFINE r == [rows[t][g] EXCEPT !.state = "abandoned", !.tts = FALSE]
    <2>2. t \in Task /\ leases' = {} /\ UNCHANGED summarized
      BY <1>4 DEF AbandonSlotSummary
    <2>3. g \in DOMAIN rows[t] /\ rows[t][g].state \in Active
      BY DEF InState
    <2>4. Calm(rows[t][g], r) /\ r.state # "leased"
      BY <1>2, <2>2, <2>3, RecoveredCalm
    <2>5. /\ \A u \in Task : DOMAIN rows'[u] = DOMAIN rows[u]
          /\ rows'[t][g] = r
          /\ \A u \in Task : \A h \in DOMAIN rows[u] :
               ~(u = t /\ h = g) => rows'[u][h] = RecoveredRow(rows[u][h])
      <3> HIDE DEF r
      <3>1. rows' = [RecoveredRows EXCEPT ![t] = [RecoveredRows[t] EXCEPT ![g] = r]]
        BY <2>1 DEF r
      <3> HIDE DEF t
      <3>2. /\ \A u \in Task : u # t => rows'[u] = RecoveredRows[u]
            /\ rows'[t] = [RecoveredRows[t] EXCEPT ![g] = r]
        BY <1>1, <2>2, <3>1
      <3> QED BY <1>1, <2>2, <2>3, <3>2
    <2>6. ASSUME NEW u \in Task, NEW h \in DOMAIN rows[u]
          PROVE  Calm(rows[u][h], rows'[u][h]) /\ rows'[u][h].state # "leased"
      <3>1. CASE u = t /\ h = g
        BY <2>4, <2>5, <3>1
      <3>2. CASE ~(u = t /\ h = g)
        <4>1. rows'[u][h] = RecoveredRow(rows[u][h]) /\ rows[u][h] \in Row
          BY <1>2, <2>5, <3>2
        <4> QED BY <4>1, RecoveredCalm
      <3> QED BY <3>1, <3>2
    <2> QED BY <2>2, <2>5, <2>6, RecoveryKeeps
  <1> QED BY <1>3, <1>4

-----------------------------------------------------------------------------
(* The invariant is inductive.                                             *)

\* The empty store satisfies the invariant.
LEMMA InitInvariant == Init => IInv
  <1> SUFFICES ASSUME Init PROVE IInv
    OBVIOUS
  <1>1. TypeInv
    BY InitTyped
  <1>2. \A t \in Task : rows[t] = << >> /\ summarized[t] = << >>
    BY DEF Init
  <1>3. \A S : \A t \in Task : InState(t, S) = {}
    BY <1>2 DEF InState
  <1>4. \A t \in Task : DOMAIN summarized[t] = {} /\ CurrentUnread(t) = {}
    BY <1>2, <1>3 DEF CurrentUnread
  <1>5. \A t \in Task : TaskInv(t)
    BY <1>3, <1>4 DEF TaskInv
  <1>6. LeaseInv
    BY <1>3 DEF Init, LeaseInv
  <1> QED BY <1>1, <1>5, <1>6 DEF IInv

\* Every store operation and every restart keeps the invariant.
LEMMA NextInvariant == IInv /\ [Next]_vars => IInv'
  <1> SUFFICES ASSUME IInv, [Next]_vars PROVE IInv'
    OBVIOUS
  <1>0. TypeInv'
    BY NextTyped DEF IInv
  <1> DEFINE Kept == (\A u \in Task : TaskInv(u)') /\ LeaseInv'
  <1>1. ASSUME NEW s \in Slot, NEW t \in Task, SetBinding(s, t) PROVE Kept
    <2>1. UNCHANGED <<rows, summarized, leases, leaseCount>>
      BY <1>1 DEF SetBinding
    <2>2. LeaseInv'
      BY <2>1 DEF IInv, LeaseInv, InState, LeasedOn
    <2> QED BY <2>1, <2>2, FrameTaskInv DEF IInv
  <1>2. ASSUME NEW t \in Task, CommitCompletion(t) PROVE Kept
    BY <1>2, CommitKeeps
  <1>3. ASSUME NEW t \in Task, ClaimSummary(t) PROVE Kept
    BY <1>3, ClaimKeeps
  <1>4. ASSUME NEW t \in Task, NEW g \in DOMAIN rows[t], ReplayClaim(t, g) PROVE Kept
    BY <1>4, GeneratingKeeps DEF ReplayClaim
  <1>5. ASSUME NEW t \in Task, ResumeInterruptedSummary(t) PROVE Kept
    <2>1. PICK g \in InState(t, {"interrupted"}) :
            /\ rows' = WithRow(t, g, [rows[t][g] EXCEPT !.state = "generating"])
            /\ UNCHANGED <<summarized, leases, leaseCount>>
      BY <1>5 DEF ResumeInterruptedSummary
    <2>2. g \in InState(t, Active)
      BY DEF InState, Active
    <2> QED BY <2>1, <2>2, GeneratingKeeps
  <1>6. ASSUME NEW c \in issued, AbandonSummaryClaim(c) \/ BeginSummaryTtsAttempt(c)
        PROVE  Kept
    BY <1>6, ClaimHolderKeeps
  <1>7. ASSUME NEW c \in issued, PublishSummary(c) PROVE Kept
    BY <1>7, PublishKeeps
  <1>8. ASSUME NEW s \in Slot, AcquireSummaryPlayback(s) PROVE Kept
    BY <1>8, AcquireKeeps
  <1>9. ASSUME NEW l \in granted, CancelSummaryPlayback(l) \/ FinishSummaryPlayback(l)
        PROVE  Kept
    BY <1>9, LeaseHolderKeeps
  <1>10. ASSUME Restart \/ \E s \in Slot : AbandonSlotSummary(s) PROVE Kept
    BY <1>10, RestartKeeps
  <1>11. ASSUME UNCHANGED vars PROVE Kept
    <2>1. UNCHANGED <<rows, summarized, leases, leaseCount>>
      BY <1>11 DEF vars
    <2>2. LeaseInv'
      BY <2>1 DEF IInv, LeaseInv, InState, LeasedOn
    <2> QED BY <2>1, <2>2, FrameTaskInv DEF IInv
  <1>12. Kept
    BY <1>1, <1>2, <1>3, <1>4, <1>5, <1>6, <1>7, <1>8, <1>9, <1>10, <1>11 DEF Next
  <1> QED BY <1>0, <1>12 DEF IInv

\* IInv holds in every reachable state.
THEOREM Invariance == Spec => []IInv
  BY InitInvariant, NextInvariant, PTL DEF Spec

\* The store's CHECKs, unique indexes and keys never abort a transaction (store.rs).
THEOREM Indexes == Spec => []IndexesNeverFire
  <1>1. IInv => IndexesNeverFire
    BY DEF IInv, TypeInv, TaskInv, LeaseInv, IndexesNeverFire
  <1> QED BY <1>1, Invariance, PTL

\* No completion is lost between pending, unread and heard.
THEOREM NothingLost == Spec => []NoCompletionLost
  <1>1. IInv => NoCompletionLost
    BY DEF IInv, TaskInv, NoCompletionLost
  <1> QED BY <1>1, Invariance, PTL

\* query_current_unread never meets an unread summary of nothing.
THEOREM UnreadCovers == Spec => []UnreadCoversSomething
  <1>1. IInv => UnreadCoversSomething
    BY DEF IInv, TaskInv, UnreadCoversSomething
  <1> QED BY <1>1, Invariance, PTL

\* The `leased` rows and the lease table agree.
THEOREM LeasesConsistent == Spec => []LeasedHasLease
  <1>1. IInv => LeasedHasLease
    BY DEF IInv, LeaseInv, LeasedHasLease
  <1> QED BY <1>1, Invariance, PTL

\* A claim in progress covers pending completions only.
THEOREM ClaimsPending == Spec => []ClaimedStaysPending
  <1>1. IInv => ClaimedStaysPending
    BY DEF IInv, TaskInv, ClaimedStaysPending
  <1> QED BY <1>1, Invariance, PTL

\* Both together: what the claims and leases in hand rely on stays true.
THEOREM WorkInHand == Spec => []WorkInHandConsistent
  BY LeasesConsistent, ClaimsPending, PTL DEF WorkInHandConsistent

-----------------------------------------------------------------------------
(* What is heard stays heard.                                              *)

\* A step that replaces row g of task t, which was not heard, and no completion.
LEMMA OtherRowsHeard ==
  ASSUME IInv, NEW t \in Task, NEW g \in DOMAIN rows[t], NEW r \in Row,
         rows' = WithRow(t, g, r), UNCHANGED summarized, rows[t][g].state # "heard",
         NEW u \in Task, NEW h \in InState(u, {"heard"})
  PROVE  rows'[u][h].state = "heard" /\ \A n \in Coverage(u, h) : summarized'[u][n] = h
  <1>1. /\ \A v \in Task : v # t => rows'[v] = rows[v]
        /\ \A k \in DOMAIN rows[t] : k # g => rows'[t][k] = rows[t][k]
    BY WithRowShape DEF IInv
  <1>2. h \in DOMAIN rows[u] /\ rows[u][h].state = "heard"
    BY DEF InState
  <1>3. rows'[u][h] = rows[u][h]
    BY <1>1, <1>2
  <1> QED BY <1>2, <1>3 DEF Coverage

\* No step takes a row out of `heard` or a completion out of a heard row.
LEMMA HeardStep ==
  ASSUME IInv, Next, NEW u \in Task, NEW h \in InState(u, {"heard"})
  PROVE  rows'[u][h].state = "heard" /\ \A n \in Coverage(u, h) : summarized'[u][n] = h
  <1> DEFINE Stays == /\ rows'[u][h].state = "heard"
                      /\ \A n \in Coverage(u, h) : summarized'[u][n] = h
  <1>0. /\ h \in DOMAIN rows[u] /\ rows[u][h].state = "heard" /\ rows[u][h] \in Row
        /\ DOMAIN rows[u] = 1..Len(rows[u]) /\ Len(rows[u]) \in Nat
        /\ DOMAIN summarized[u] = 1..Len(summarized[u]) /\ Len(summarized[u]) \in Nat
    BY Shape DEF IInv, InState
  <1>1. ASSUME UNCHANGED <<rows, summarized>> PROVE Stays
    BY <1>0, <1>1 DEF Coverage
  <1>2. ASSUME NEW t \in Task, CommitCompletion(t) PROVE Stays
    <2>1. rows' = rows /\ summarized' = [summarized EXCEPT ![t] = Append(@, 0)]
      BY <1>2 DEF CommitCompletion
    <2>2. ASSUME NEW n \in DOMAIN summarized[u] PROVE summarized'[u][n] = summarized[u][n]
      BY <1>0, <2>1, Shape DEF IInv, TypeInv, TypeOK
    <2> QED BY <1>0, <2>1, <2>2 DEF Coverage
  <1>3. ASSUME NEW t \in Task, ClaimSummary(t) PROVE Stays
    <2>1. PICK r : rows' = [rows EXCEPT ![t] = Append(@, r)]
      BY <1>3 DEF ClaimSummary
    <2>2. rows'[u][h] = rows[u][h]
      BY <1>0, <2>1, Shape DEF IInv, TypeInv, TypeOK
    <2> QED BY <1>0, <1>3, <2>2 DEF ClaimSummary, Coverage
  <1>4. ASSUME NEW t \in Task, NEW g \in InState(t, Active),
               rows' = WithRow(t, g, [rows[t][g] EXCEPT !.state = "generating"]),
               UNCHANGED summarized
        PROVE  Stays
    <2>1. g \in DOMAIN rows[t] /\ rows[t][g].state # "heard" /\ rows[t][g] \in Row
      BY Shape DEF IInv, InState, Active
    <2>2. [rows[t][g] EXCEPT !.state = "generating"] \in Row
      BY <2>1, RowFields DEF RowState, Active
    <2> QED BY <1>4, <2>1, <2>2, OtherRowsHeard
  <1>5. ASSUME NEW t \in Task, NEW g \in DOMAIN rows[t], ReplayClaim(t, g) PROVE Stays
    BY <1>4, <1>5 DEF ReplayClaim
  <1>6. ASSUME NEW t \in Task, ResumeInterruptedSummary(t) PROVE Stays
    <2>1. PICK g \in InState(t, {"interrupted"}) :
            /\ rows' = WithRow(t, g, [rows[t][g] EXCEPT !.state = "generating"])
            /\ UNCHANGED summarized
      BY <1>6 DEF ResumeInterruptedSummary
    <2>2. g \in InState(t, Active)
      BY DEF InState, Active
    <2> QED BY <1>4, <2>1, <2>2
  <1>7. ASSUME NEW c \in issued, AbandonSummaryClaim(c) \/ BeginSummaryTtsAttempt(c)
        PROVE  Stays
    <2>1. c.task \in Task /\ UNCHANGED summarized
      BY <1>7 DEF IInv, TypeInv, TypeOK, Claim, AbandonSummaryClaim, BeginSummaryTtsAttempt
    <2>2. c.gen \in DOMAIN rows[c.task] /\ rows[c.task][c.gen].state # "heard"
      BY <1>7 DEF AbandonSummaryClaim, BeginSummaryTtsAttempt, Holds, Active
    <2>3. rows[c.task][c.gen] \in Row
      BY <2>1, <2>2, Shape DEF IInv
    <2>4. \E r \in Row : rows' = WithRow(c.task, c.gen, r)
      BY <1>7, <2>3, RowFields DEF AbandonSummaryClaim, BeginSummaryTtsAttempt, RowState
    <2> QED BY <2>1, <2>2, <2>4, OtherRowsHeard
  <1>8. ASSUME NEW c \in issued, PublishSummary(c) PROVE Stays
    <2>1. /\ c.task \in Task /\ c.gen \in InState(c.task, Active)
          /\ c.prev # 0 => CurrentUnread(c.task) = {c.prev}
          /\ c.covers \subseteq Pending(c.task)
          /\ \A v \in Task : v # c.task =>
               rows'[v] = rows[v] /\ summarized'[v] = summarized[v]
          /\ \A g \in DOMAIN rows[c.task] :
               g # c.gen /\ g # c.prev => rows'[c.task][g] = rows[c.task][g]
          /\ \A n \in DOMAIN summarized[c.task] : summarized'[c.task][n] =
               IF n \in c.covers \/ (c.prev # 0 /\ summarized[c.task][n] = c.prev)
               THEN c.gen ELSE summarized[c.task][n]
      BY <1>8, PublishShape
    <2>2. CASE u # c.task
      BY <1>0, <2>1, <2>2 DEF Coverage
    <2>3. CASE u = c.task
      <3>1. h # 0 /\ h # c.gen /\ h # c.prev
        <4>1. h # 0
          BY <1>0
        <4>2. h # c.gen
          BY <1>0, <2>1, <2>3 DEF InState, Active
        <4>3. c.prev # 0 => h # c.prev
          BY <1>0, <2>1, <2>3 DEF CurrentUnread, InState, Unread
        <4> QED BY <4>1, <4>2, <4>3
      <3>2. rows'[u][h] = rows[u][h]
        BY <1>0, <2>1, <2>3, <3>1
      <3>3. ASSUME NEW n \in Coverage(u, h) PROVE summarized'[u][n] = h
        <4>1. n \in DOMAIN summarized[u] /\ summarized[u][n] = h
          BY DEF Coverage
        <4>2. n \notin c.covers
          BY <2>1, <2>3, <3>1, <4>1 DEF Pending, Coverage
        <4> QED BY <2>1, <2>3, <3>1, <4>1, <4>2
      <3> QED BY <1>0, <3>2, <3>3
    <2> QED BY <2>2, <2>3
  <1>9. ASSUME NEW s \in Slot, AcquireSummaryPlayback(s) PROVE Stays
    <2> DEFINE t == binding[s].task
               g == Current(t)
               r == [rows[t][g] EXCEPT !.state = "leased"]
    <2>1. /\ t \in Task /\ g # 0 /\ rows[t][g].state # "heard"
          /\ rows' = WithRow(t, g, r) /\ UNCHANGED summarized
      BY <1>9 DEF AcquireSummaryPlayback, Playable
    <2>2. g \in DOMAIN rows[t] /\ rows[t][g] \in Row
      BY <2>1, CurrentRow, Shape DEF IInv, CurrentUnread, InState
    <2>3. r \in Row
      BY <2>2, RowFields DEF RowState, Unread
    <2> HIDE DEF t, g, r
    <2> QED BY <2>1, <2>2, <2>3, OtherRowsHeard
  <1>10. ASSUME NEW l \in granted, CancelSummaryPlayback(l) \/ FinishSummaryPlayback(l)
         PROVE  Stays
    <2>1. l \in leases /\ l.task \in Task /\ UNCHANGED summarized
      BY <1>10 DEF CancelSummaryPlayback, FinishSummaryPlayback, IInv, TypeInv, TypeOK, Lease
    <2>2. /\ l.gen \in DOMAIN rows[l.task] /\ rows[l.task][l.gen] \in Row
          /\ rows[l.task][l.gen].state = "leased"
      BY <2>1, Shape DEF IInv, LeaseInv
    <2>3. \E r \in Row : rows' = WithRow(l.task, l.gen, r)
      BY <1>10, <2>2, RowFields DEF CancelSummaryPlayback, FinishSummaryPlayback, RowState
    <2> QED BY <2>1, <2>2, <2>3, OtherRowsHeard
  <1>11. ASSUME Restart PROVE Stays
    <2>1. rows'[u][h] = RecoveredRow(rows[u][h]) /\ UNCHANGED summarized
      BY <1>0, <1>11 DEF Restart, RecoveredRows
    <2> QED BY <1>0, <2>1 DEF RecoveredRow, Released, Coverage
  <1>12. ASSUME NEW s \in Slot, AbandonSlotSummary(s) PROVE Stays
    <2> DEFINE t == binding[s].task
    <2>1. PICK g \in InState(t, Active) :
            rows' = [RecoveredRows EXCEPT ![t][g] =
                       [rows[t][g] EXCEPT !.state = "abandoned", !.tts = FALSE]]
      BY <1>12 DEF AbandonSlotSummary
    <2>2. UNCHANGED summarized /\ ~(u = t /\ h = g)
      BY <1>0, <1>12 DEF AbandonSlotSummary, InState, Active
    <2>3. rows'[u][h] = RecoveredRows[u][h]
      BY <1>0, <2>1, <2>2 DEF RecoveredRows
    <2>4. RecoveredRows[u][h] = rows[u][h]
      BY <1>0 DEF RecoveredRows, RecoveredRow, Released
    <2> QED BY <1>0, <2>2, <2>3, <2>4 DEF Coverage
  <1>13. ASSUME NEW s \in Slot, NEW t \in Task, SetBinding(s, t) PROVE Stays
    BY <1>1, <1>13 DEF SetBinding
  <1> QED
    BY <1>2, <1>3, <1>5, <1>6, <1>7, <1>8, <1>9, <1>10, <1>11, <1>12, <1>13 DEF Next

\* Neither a restart nor a stale claim or lease returns a heard summary, or a
\* completion it told, to the mailbox.
THEOREM HeardStaysHeard == Spec => HeardIsFinal
  <1>1. IInv /\ [Next]_vars =>
          [\A t \in Task : \A g \in InState(t, {"heard"}) :
             /\ rows'[t][g].state = "heard"
             /\ \A n \in Coverage(t, g) : summarized'[t][n] = g]_vars
    BY HeardStep
  <1> QED BY <1>1, Invariance, PTL DEF Spec, HeardIsFinal


-----------------------------------------------------------------------------
(* SummaryLedger implements Mailbox: every store operation maps, under      *)
(* MailboxStatus, to a step of the mailbox or to a stuttering step.         *)

\* The mapped stage of the n-th completion of task t.
StageOf(t, n) ==
  IF summarized[t][n] = 0 THEN "pending"
  ELSE IF rows[t][summarized[t][n]].state = "heard" THEN "heard" ELSE "unread"

\* The mapped state is a sequence of stages for each task.
LEMMA StatusShape ==
  ASSUME TypeInv, NEW t \in Task
  PROVE  /\ MailboxStatus = [u \in Task |-> [n \in DOMAIN summarized[u] |-> StageOf(u, n)]]
         /\ MailboxStatus[t] = [n \in DOMAIN summarized[t] |-> StageOf(t, n)]
         /\ DOMAIN MailboxStatus[t] = DOMAIN summarized[t]
         /\ \A n \in DOMAIN summarized[t] : MailboxStatus[t][n] = StageOf(t, n)
         /\ MailboxStatus[t] \in Seq({"pending", "unread", "heard"})
         /\ Len(MailboxStatus[t]) = Len(summarized[t])
  <1>1. /\ MailboxStatus = [u \in Task |-> [n \in DOMAIN summarized[u] |-> StageOf(u, n)]]
        /\ MailboxStatus[t] = [n \in DOMAIN summarized[t] |-> StageOf(t, n)]
    BY DEF MailboxStatus, StageOf
  <1>2. Len(summarized[t]) \in Nat /\ DOMAIN summarized[t] = 1..Len(summarized[t])
    BY Shape
  <1>3. \A n \in DOMAIN summarized[t] : StageOf(t, n) \in {"pending", "unread", "heard"}
    BY DEF StageOf
  <1>4. MailboxStatus[t] \in [1..Len(summarized[t]) -> {"pending", "unread", "heard"}]
    BY <1>1, <1>2, <1>3
  <1>5. MailboxStatus[t] \in Seq({"pending", "unread", "heard"})
    BY <1>2, <1>4
  <1>6. Len(MailboxStatus[t]) = Len(summarized[t])
    BY <1>2, <1>4
  <1> QED BY <1>1, <1>5, <1>6

\* Tasks whose completions and their stages do not change map to themselves.
LEMMA Stutter ==
  ASSUME \A u \in Task :
           /\ DOMAIN summarized'[u] = DOMAIN summarized[u]
           /\ \A n \in DOMAIN summarized[u] : StageOf(u, n)' = StageOf(u, n)
  PROVE  MailboxStatus' = MailboxStatus
  BY DEF MailboxStatus, StageOf

\* A step that leaves the completions alone and makes no covered row heard maps
\* to a stuttering step.
LEMMA QuietStep ==
  ASSUME IInv, Next, UNCHANGED summarized,
         \A u \in Task : \A n \in DOMAIN summarized[u] :
           summarized[u][n] # 0 /\ rows[u][summarized[u][n]].state # "heard"
             => rows'[u][summarized[u][n]].state # "heard"
  PROVE  MailboxStatus' = MailboxStatus
  <1> SUFFICES ASSUME NEW u \in Task, NEW n \in DOMAIN summarized[u]
               PROVE  StageOf(u, n)' = StageOf(u, n)
    BY Stutter
  <1> DEFINE g == summarized[u][n]
  <1>1. CASE g = 0
    BY <1>1 DEF StageOf
  <1>2. CASE g # 0 /\ rows[u][g].state = "heard"
    <2>1. g \in InState(u, {"heard"})
      BY <1>2 DEF IInv, TaskInv, InState
    <2>2. rows'[u][g].state = "heard"
      BY <2>1, HeardStep
    <2> QED BY <1>2, <2>2 DEF StageOf
  <1>3. CASE g # 0 /\ rows[u][g].state # "heard"
    BY <1>3 DEF StageOf
  <1> QED BY <1>1, <1>2, <1>3

\* Recording a completion is Arrive.
LEMMA CommitArrives ==
  ASSUME IInv, NEW t \in Task, CommitCompletion(t)
  PROVE  Box!Arrive(t)
  <1>0. PICK k \in Nat : k = Len(summarized[t])
    BY Shape DEF IInv
  <1> DEFINE st == MailboxStatus[t]
  <1>1. /\ k \in Nat /\ k < MaxCompletions /\ DOMAIN summarized[t] = 1..k
        /\ summarized[t] \in Seq(0..MaxGenerations) /\ 0 \in 0..MaxGenerations
    BY <1>0, Shape, LedgerConstants DEF IInv, CommitCompletion
  <1>2. /\ st \in Seq({"pending", "unread", "heard"}) /\ Len(st) = k
        /\ \A n \in 1..k : st[n] = StageOf(t, n)
    BY <1>0, <1>1, StatusShape DEF IInv
  <1>3. rows' = rows /\ summarized' = [summarized EXCEPT ![t] = Append(@, 0)]
    BY DEF CommitCompletion
  <1>4. summarized \in [Task -> Seq(0..MaxGenerations)]
    BY DEF IInv, TypeInv, TypeOK
  <1>5. /\ summarized'[t] = Append(summarized[t], 0)
        /\ \A u \in Task : u # t => summarized'[u] = summarized[u]
    BY <1>3, <1>4
  <1>6. /\ DOMAIN summarized'[t] = 1..(k + 1) /\ summarized'[t][k + 1] = 0
        /\ \A n \in 1..k : summarized'[t][n] = summarized[t][n]
    BY <1>0, <1>1, <1>5
  <1>7. MailboxStatus'[t] = [n \in 1..(k + 1) |-> StageOf(t, n)']
    BY <1>6 DEF MailboxStatus, StageOf
  <1>8. StageOf(t, k + 1)' = "pending" /\ \A n \in 1..k : StageOf(t, n)' = StageOf(t, n)
    BY <1>3, <1>6 DEF StageOf
  <1>9. Append(st, "pending") = [n \in 1..(k + 1) |-> IF n = k + 1 THEN "pending" ELSE st[n]]
    BY <1>1, <1>2
  <1>10. MailboxStatus'[t] = Append(st, "pending")
    BY <1>1, <1>2, <1>7, <1>8, <1>9
  <1>11. \A u \in Task : u # t => MailboxStatus'[u] = MailboxStatus[u]
    BY <1>3, <1>5 DEF MailboxStatus
  <1>12. /\ MailboxStatus = [u \in Task |-> MailboxStatus[u]]
         /\ MailboxStatus' = [u \in Task |-> MailboxStatus'[u]]
    BY DEF MailboxStatus
  <1>13. MailboxStatus' = [MailboxStatus EXCEPT ![t] = Append(@, "pending")]
    BY <1>10, <1>11, <1>12
  <1> QED BY <1>1, <1>2, <1>13 DEF Box!Arrive

\* The stages of one task change from one sequence to another.
LEMMA OneTask ==
  ASSUME NEW t \in Task, NEW S, NEW stage,
         \A u \in Task : DOMAIN summarized'[u] = DOMAIN summarized[u],
         \A u \in Task : u # t =>
           \A n \in DOMAIN summarized[u] : StageOf(u, n)' = StageOf(u, n),
         \A n \in DOMAIN summarized[t] :
           StageOf(t, n)' = IF n \in S THEN stage ELSE StageOf(t, n)
  PROVE  MailboxStatus' = Box!Moved(t, S, stage)
  <1> DEFINE st == MailboxStatus
  <1>1. st = [u \in Task |-> [n \in DOMAIN summarized[u] |-> StageOf(u, n)]]
    BY DEF MailboxStatus, StageOf
  <1>2. st' = [u \in Task |-> [n \in DOMAIN summarized[u] |-> StageOf(u, n)']]
    BY DEF MailboxStatus, StageOf
  <1>3. \A u \in Task : u # t => st'[u] = st[u]
    BY <1>1, <1>2
  <1>4. st'[t] = [n \in DOMAIN st[t] |-> IF n \in S THEN stage ELSE st[t][n]]
    BY <1>1, <1>2
  <1>5. st' = [st EXCEPT ![t] = [n \in DOMAIN st[t] |-> IF n \in S THEN stage ELSE st[t][n]]]
    BY <1>1, <1>2, <1>3, <1>4
  <1> QED BY <1>5 DEF Box!Moved

\* Publishing a generation is Publish.
LEMMA PublishPublishes ==
  ASSUME IInv, NEW c \in issued, PublishSummary(c)
  PROVE  Box!Publish(c.task)
  <1> DEFINE t == c.task
             S == c.covers
  <1>1. t \in Task /\ c.gen \in InState(t, Active) /\ S = rows[t][c.gen].covers
    BY PublishShape
  <1>2. S \subseteq Pending(t) /\ S # {}
    BY PublishShape
  <1>3. /\ c.prev # 0 => CurrentUnread(t) = {c.prev}
        /\ \A u \in Task : u # t => rows'[u] = rows[u] /\ summarized'[u] = summarized[u]
        /\ rows'[t][c.gen] = [rows[t][c.gen] EXCEPT !.state = "unheard", !.tts = FALSE]
        /\ \A g \in DOMAIN rows[t] : g # c.gen /\ g # c.prev => rows'[t][g] = rows[t][g]
        /\ DOMAIN summarized'[t] = DOMAIN summarized[t]
        /\ \A n \in DOMAIN summarized[t] : summarized'[t][n] =
             IF n \in S \/ (c.prev # 0 /\ summarized[t][n] = c.prev)
             THEN c.gen ELSE summarized[t][n]
        /\ c.gen # 0
    BY PublishShape
  <1>4. Box!Having(t, "pending") = Pending(t)
    <2>1. /\ DOMAIN MailboxStatus[t] = DOMAIN summarized[t]
          /\ \A n \in DOMAIN summarized[t] : MailboxStatus[t][n] = StageOf(t, n)
      BY <1>1, StatusShape DEF IInv
    <2> QED BY <2>1 DEF Box!Having, Pending, Coverage, StageOf
  <1>5. \A n \in S, m \in Pending(t) : m < n => m \in S
    BY <1>1 DEF IInv, TaskInv
  <1>6. rows'[t][c.gen].state = "unheard"
    <2>1. rows[t][c.gen] \in Row
      BY <1>1, Shape DEF IInv, InState
    <2> QED BY <1>3, <2>1 DEF Row
  <1>7. ASSUME NEW n \in DOMAIN summarized[t]
        PROVE  StageOf(t, n)' = IF n \in S THEN "unread" ELSE StageOf(t, n)
    <2>1. CASE n \in S
      BY <1>3, <1>6, <2>1 DEF StageOf
    <2>2. CASE n \notin S /\ c.prev # 0 /\ summarized[t][n] = c.prev
      <3>1. StageOf(t, n)' = "unread"
        BY <1>3, <1>6, <2>2 DEF StageOf
      <3>2. rows[t][c.prev].state # "heard"
        BY <1>3, <2>2 DEF CurrentUnread, InState, Unread
      <3> QED BY <2>2, <3>1, <3>2 DEF StageOf
    <2>3. CASE n \notin S /\ ~(c.prev # 0 /\ summarized[t][n] = c.prev)
      <3>1. summarized'[t][n] = summarized[t][n]
        BY <1>3, <2>3
      <3>2. CASE summarized[t][n] = 0
        BY <2>3, <3>1, <3>2 DEF StageOf
      <3>3. CASE summarized[t][n] # 0
        <4>1. /\ summarized[t][n] \in DOMAIN rows[t]
              /\ rows[t][summarized[t][n]].state \in Unread \cup {"heard"}
          BY <1>1, <3>3 DEF IInv, TaskInv
        <4>2. summarized[t][n] # c.gen
          BY <1>1, <4>1 DEF InState, Active, Unread
        <4>3. rows'[t][summarized[t][n]] = rows[t][summarized[t][n]]
          BY <1>3, <2>3, <3>3, <4>1, <4>2
        <4> QED BY <2>3, <3>1, <4>3 DEF StageOf
      <3> QED BY <3>2, <3>3
    <2> QED BY <2>1, <2>2, <2>3
  <1>8. \A u \in Task : u # t =>
          \A n \in DOMAIN summarized[u] : StageOf(u, n)' = StageOf(u, n)
    BY <1>3 DEF StageOf
  <1>9. \A u \in Task : DOMAIN summarized'[u] = DOMAIN summarized[u]
    BY <1>1, <1>3
  <1>10. MailboxStatus' = Box!Moved(t, S, "unread")
    BY <1>1, <1>7, <1>8, <1>9, OneTask
  <1> QED BY <1>2, <1>4, <1>5, <1>10 DEF Box!Publish

\* Hearing the current unread row is Hear; hearing one that was superseded
\* while it played changes no stage.
LEMMA FinishHears ==
  ASSUME IInv, Next, NEW l \in granted, FinishSummaryPlayback(l)
  PROVE  Box!Hear(l.task) \/ MailboxStatus' = MailboxStatus
  <1> DEFINE t == l.task
             g == l.gen
  <1>1. l \in leases /\ t \in Task /\ UNCHANGED summarized
    BY DEF FinishSummaryPlayback, IInv, TypeInv, TypeOK, Lease
  <1>2. g \in DOMAIN rows[t] /\ rows[t][g] \in Row /\ rows[t][g].state = "leased"
    BY <1>1, Shape DEF IInv, LeaseInv
  <1>3. /\ \A u \in Task : u # t => rows'[u] = rows[u]
        /\ rows'[t][g].state = "heard"
        /\ \A h \in DOMAIN rows[t] : h # g => rows'[t][h] = rows[t][h]
    <2> DEFINE r == [rows[t][g] EXCEPT !.state = "heard"]
    <2>1. r \in Row /\ r.state = "heard"
      BY <1>2, RowFields DEF RowState, Row
    <2>2. rows' = WithRow(t, g, r)
      BY DEF FinishSummaryPlayback
    <2> HIDE DEF r
    <2> QED BY <1>1, <1>2, <2>1, <2>2, WithRowShape DEF IInv
  <1>4. \A n \in DOMAIN summarized[t] : summarized[t][n] # 0 =>
          /\ summarized[t][n] \in DOMAIN rows[t]
          /\ rows[t][summarized[t][n]].by = 0
          /\ rows[t][summarized[t][n]].state \in Unread \cup {"heard"}
    BY <1>1 DEF IInv, TaskInv
  <1>5. CASE rows[t][g].by # 0
    <2>1. ASSUME NEW u \in Task, NEW n \in DOMAIN summarized[u],
                 summarized[u][n] # 0, rows[u][summarized[u][n]].state # "heard"
          PROVE  rows'[u][summarized[u][n]].state # "heard"
      <3>1. CASE u # t
        BY <1>3, <2>1, <3>1
      <3>2. CASE u = t
        BY <1>3, <1>4, <1>5, <2>1, <3>2
      <3> QED BY <3>1, <3>2
    <2> QED BY <1>1, <2>1, QuietStep
  <1>6. CASE rows[t][g].by = 0
    <2>1. g \in CurrentUnread(t) /\ CurrentUnread(t) = {g} /\ Coverage(t, g) # {}
      BY <1>1, <1>2, <1>6 DEF CurrentUnread, InState, Unread, IInv, TaskInv
    <2>2. g # 0
      BY <1>1, <1>2, Shape DEF IInv
    <2>3. ASSUME NEW n \in DOMAIN summarized[t]
          PROVE  StageOf(t, n) = "unread" <=> summarized[t][n] = g
      <3>1. CASE summarized[t][n] = g
        BY <1>2, <2>2, <3>1 DEF StageOf
      <3>2. CASE summarized[t][n] # g /\ summarized[t][n] # 0
        <4>1. summarized[t][n] \notin CurrentUnread(t)
          BY <2>1, <3>2
        <4>2. rows[t][summarized[t][n]].state = "heard"
          BY <1>4, <3>2, <4>1 DEF CurrentUnread, InState
        <4> QED BY <3>2, <4>2 DEF StageOf
      <3>3. CASE summarized[t][n] = 0
        BY <2>2, <3>3 DEF StageOf
      <3> QED BY <3>1, <3>2, <3>3
    <2>4. Box!Having(t, "unread") = Coverage(t, g)
      <3>1. /\ DOMAIN MailboxStatus[t] = DOMAIN summarized[t]
            /\ \A n \in DOMAIN summarized[t] : MailboxStatus[t][n] = StageOf(t, n)
        BY <1>1, StatusShape DEF IInv
      <3> QED BY <2>3, <3>1 DEF Box!Having, Coverage
    <2>5. ASSUME NEW n \in DOMAIN summarized[t]
          PROVE  StageOf(t, n)' = IF n \in Coverage(t, g) THEN "heard" ELSE StageOf(t, n)
      <3>1. CASE summarized[t][n] = g
        BY <1>1, <1>3, <2>2, <3>1 DEF StageOf, Coverage
      <3>2. CASE summarized[t][n] # g
        BY <1>1, <1>3, <1>4, <3>2 DEF StageOf, Coverage
      <3> QED BY <3>1, <3>2
    <2>6. \A u \in Task : u # t =>
            \A n \in DOMAIN summarized[u] : StageOf(u, n)' = StageOf(u, n)
      BY <1>1, <1>3 DEF StageOf
    <2>7. MailboxStatus' = Box!Moved(t, Coverage(t, g), "heard")
      BY <1>1, <2>5, <2>6, OneTask
    <2> QED BY <2>1, <2>4, <2>7 DEF Box!Hear
  <1> QED BY <1>5, <1>6

\* Every step of the ledger is a mailbox step or changes no stage.
LEMMA MailboxStep ==
  ASSUME IInv, [Next]_vars
  PROVE  [Box!Next]_MailboxStatus
  <1>1. ASSUME Next,
               UNCHANGED summarized,
               \A u \in Task : \A g \in DOMAIN rows[u] :
                 rows[u][g].state # "heard" => rows'[u][g].state # "heard"
        PROVE  MailboxStatus' = MailboxStatus
    BY <1>1, QuietStep DEF IInv, TaskInv
  <1>2. ASSUME NEW t \in Task, CommitCompletion(t) PROVE Box!Next
    BY <1>2, CommitArrives DEF Box!Next
  <1>3. ASSUME NEW c \in issued, PublishSummary(c) PROVE Box!Next
    <2>1. c.task \in Task
      BY DEF IInv, TypeInv, TypeOK, Claim
    <2> QED BY <1>3, <2>1, PublishPublishes DEF Box!Next
  <1>4. ASSUME Next, NEW l \in granted, FinishSummaryPlayback(l)
        PROVE  Box!Next \/ MailboxStatus' = MailboxStatus
    <2>1. l.task \in Task
      BY DEF IInv, TypeInv, TypeOK, Lease
    <2> QED BY <1>4, <2>1, FinishHears DEF Box!Next
  <1> DEFINE Quiet == /\ UNCHANGED summarized
                      /\ \A u \in Task : \A g \in DOMAIN rows[u] :
                           rows[u][g].state # "heard" => rows'[u][g].state # "heard"
  <1>5. ASSUME NEW t \in Task, NEW g \in DOMAIN rows[t], NEW r \in Row,
               rows' = WithRow(t, g, r), UNCHANGED summarized, r.state # "heard"
        PROVE  Quiet
    <2>1. /\ \A u \in Task : u # t => rows'[u] = rows[u]
          /\ rows'[t][g] = r
          /\ \A h \in DOMAIN rows[t] : h # g => rows'[t][h] = rows[t][h]
      BY <1>5, WithRowShape DEF IInv
    <2> QED BY <1>5, <2>1
  <1>6. ASSUME NEW s \in Slot, NEW t \in Task, SetBinding(s, t) PROVE Quiet
    BY <1>6 DEF SetBinding
  <1>7. ASSUME NEW t \in Task, ClaimSummary(t) PROVE Quiet
    <2>1. PICK r : rows' = [rows EXCEPT ![t] = Append(@, r)]
      BY <1>7 DEF ClaimSummary
    <2>2. ASSUME NEW u \in Task, NEW h \in DOMAIN rows[u] PROVE rows'[u][h] = rows[u][h]
      BY <2>1, Shape DEF IInv, TypeInv, TypeOK
    <2> QED BY <1>7, <2>2 DEF ClaimSummary
  <1>8. ASSUME NEW t \in Task, NEW g \in InState(t, Active),
               rows' = WithRow(t, g, [rows[t][g] EXCEPT !.state = "generating"]),
               UNCHANGED summarized
        PROVE  Quiet
    <2>1. g \in DOMAIN rows[t] /\ rows[t][g] \in Row
      BY Shape DEF IInv, InState
    <2> DEFINE r == [rows[t][g] EXCEPT !.state = "generating"]
    <2>2. r \in Row /\ r.state # "heard"
      BY <2>1, RowFields DEF RowState, Active, Row
    <2> QED BY <1>5, <1>8, <2>1, <2>2
  <1>9. ASSUME NEW t \in Task, NEW g \in DOMAIN rows[t], ReplayClaim(t, g) PROVE Quiet
    BY <1>8, <1>9 DEF ReplayClaim
  <1>10. ASSUME NEW t \in Task, ResumeInterruptedSummary(t) PROVE Quiet
    <2>1. PICK g \in InState(t, {"interrupted"}) :
            /\ rows' = WithRow(t, g, [rows[t][g] EXCEPT !.state = "generating"])
            /\ UNCHANGED summarized
      BY <1>10 DEF ResumeInterruptedSummary
    <2>2. g \in InState(t, Active)
      BY DEF InState, Active
    <2> QED BY <1>8, <2>1, <2>2
  <1>11. ASSUME NEW c \in issued, AbandonSummaryClaim(c) \/ BeginSummaryTtsAttempt(c)
         PROVE  Quiet
    <2>1. c.task \in Task /\ UNCHANGED summarized
      BY <1>11 DEF IInv, TypeInv, TypeOK, Claim, AbandonSummaryClaim, BeginSummaryTtsAttempt
    <2>2. /\ c.gen \in DOMAIN rows[c.task] /\ rows[c.task][c.gen].state \in Active
          /\ rows[c.task][c.gen] \in Row
      BY <1>11, <2>1, Shape DEF IInv, AbandonSummaryClaim, BeginSummaryTtsAttempt, Holds
    <2>3. CASE AbandonSummaryClaim(c)
      <3> DEFINE r == [rows[c.task][c.gen] EXCEPT !.state = "abandoned", !.tts = FALSE]
      <3>1. r \in Row /\ r.state # "heard" /\ rows' = WithRow(c.task, c.gen, r)
        BY <2>2, <2>3, RowFields DEF RowState, Row, AbandonSummaryClaim
      <3> QED BY <1>5, <2>1, <2>2, <3>1
    <2>4. CASE BeginSummaryTtsAttempt(c)
      <3> DEFINE r == [rows[c.task][c.gen] EXCEPT !.tts = TRUE]
      <3>1. r \in Row /\ r.state # "heard" /\ rows' = WithRow(c.task, c.gen, r)
        BY <2>2, <2>4, RowFields DEF Active, Row, BeginSummaryTtsAttempt
      <3> QED BY <1>5, <2>1, <2>2, <3>1
    <2> QED BY <1>11, <2>3, <2>4
  <1>12. ASSUME NEW s \in Slot, AcquireSummaryPlayback(s) PROVE Quiet
    <2> DEFINE t == binding[s].task
               g == Current(t)
               r == [rows[t][g] EXCEPT !.state = "leased"]
    <2>1. /\ t \in Task /\ g # 0 /\ rows' = WithRow(t, g, r) /\ UNCHANGED summarized
      BY <1>12 DEF AcquireSummaryPlayback, Playable
    <2>2. g \in DOMAIN rows[t] /\ rows[t][g] \in Row
      BY <2>1, CurrentRow, Shape DEF IInv, CurrentUnread, InState
    <2>3. r \in Row /\ r.state # "heard"
      BY <2>2, RowFields DEF RowState, Unread, Row
    <2> HIDE DEF t, g, r
    <2> QED BY <1>5, <2>1, <2>2, <2>3
  <1>13. ASSUME NEW l \in granted, CancelSummaryPlayback(l) PROVE Quiet
    <2>1. l \in leases /\ l.task \in Task /\ UNCHANGED summarized
      BY <1>13 DEF CancelSummaryPlayback, IInv, TypeInv, TypeOK, Lease
    <2>2. /\ l.gen \in DOMAIN rows[l.task] /\ rows[l.task][l.gen] \in Row
          /\ rows[l.task][l.gen].state = "leased"
      BY <2>1, Shape DEF IInv, LeaseInv
    <2> DEFINE r == Released(rows[l.task][l.gen])
    <2>3. r \in Row /\ r.state # "heard" /\ rows' = WithRow(l.task, l.gen, r)
      BY <1>13, <2>2, RowFields DEF Released, Row, CancelSummaryPlayback
    <2> QED BY <1>5, <2>1, <2>2, <2>3
  <1>14. \A u \in Task : \A h \in DOMAIN rows[u] :
           /\ RecoveredRows[u][h] = RecoveredRow(rows[u][h])
           /\ rows[u][h].state # "heard" => RecoveredRow(rows[u][h]).state # "heard"
    <2>1. ASSUME NEW r \in Row, r.state # "heard" PROVE RecoveredRow(r).state # "heard"
      BY <2>1 DEF RecoveredRow, Released, Row
    <2> QED BY <2>1, Shape DEF IInv, RecoveredRows
  <1>15. ASSUME Restart PROVE Quiet
    BY <1>14, <1>15 DEF Restart
  <1>16. ASSUME NEW s \in Slot, AbandonSlotSummary(s) PROVE Quiet
    <2> DEFINE t == binding[s].task
    <2>1. PICK g \in InState(t, Active) :
            rows' = [RecoveredRows EXCEPT ![t][g] =
                       [rows[t][g] EXCEPT !.state = "abandoned", !.tts = FALSE]]
      BY <1>16 DEF AbandonSlotSummary
    <2> DEFINE r == [rows[t][g] EXCEPT !.state = "abandoned", !.tts = FALSE]
    <2>2. t \in Task /\ UNCHANGED summarized
      BY <1>16 DEF AbandonSlotSummary
    <2>3. g \in DOMAIN rows[t] /\ rows[t][g] \in Row
      BY <2>2, Shape DEF IInv, InState
    <2>4. r.state # "heard"
      BY <2>3 DEF Row
    <2>5. ASSUME NEW u \in Task, NEW h \in DOMAIN rows[u]
          PROVE  rows'[u][h] = IF u = t /\ h = g THEN r ELSE RecoveredRows[u][h]
      <3>1. /\ DOMAIN RecoveredRows = Task
            /\ \A v \in Task : DOMAIN RecoveredRows[v] = DOMAIN rows[v]
        BY DEF RecoveredRows
      <3>2. rows' = [RecoveredRows EXCEPT ![t] = [RecoveredRows[t] EXCEPT ![g] = r]]
        BY <2>1
      <3> HIDE DEF t, r
      <3> QED BY <2>2, <2>3, <3>1, <3>2
    <2>6. ASSUME NEW u \in Task, NEW h \in DOMAIN rows[u], rows[u][h].state # "heard"
          PROVE  rows'[u][h].state # "heard"
      <3> HIDE DEF t, r
      <3>1. CASE u = t /\ h = g
        BY <2>4, <2>5, <3>1
      <3>2. CASE ~(u = t /\ h = g)
        BY <1>14, <2>5, <2>6, <3>2
      <3> QED BY <3>1, <3>2
    <2> QED BY <2>2, <2>6
  <1>17. CASE Next
    <2>1. Quiet => MailboxStatus' = MailboxStatus
      BY <1>1, <1>17
    <2> HIDE DEF Quiet
    <2> QED
      BY <1>2, <1>3, <1>4, <1>6, <1>7, <1>9, <1>10, <1>11, <1>12, <1>13, <1>15,
         <1>16, <1>17, <2>1 DEF Next
  <1>18. CASE UNCHANGED vars
    BY <1>18 DEF vars, MailboxStatus
  <1> QED BY <1>17, <1>18

\* The store implements the mailbox: whatever is called, retried, presented
\* again or interrupted, each completion goes pending, unread, heard, in order
\* and once.
THEOREM Refinement == Spec => ImplementsMailbox
  <1>1. Init => Box!Init
    BY DEF Init, Box!Init, MailboxStatus
  <1>2. IInv /\ [Next]_vars => [Box!Next]_MailboxStatus
    BY MailboxStep
  <1> QED BY <1>1, <1>2, Invariance, PTL DEF Spec, ImplementsMailbox, Box!Spec

=============================================================================
