--------------------------- MODULE RolloutObserver ---------------------------
(***************************************************************************)
(* The observer thread that tails a task's rollout file and commits each    *)
(* completed turn with the cursor it was read up to: rollout_observer.rs,   *)
(* and commit_rollout_completion_on of store.rs.                            *)
(*                                                                         *)
(* The file belongs to the Codex CLI, which may append to it, cut it back   *)
(* and write it anew, overwrite a part of it or put another file in its     *)
(* place while a poll reads it.  A poll is therefore split wherever it      *)
(* reads after it checked: open and session line, checks of the pending     *)
(* scan, checks of the cursor, anchors of the new scan, each piece of the   *)
(* scan, check before the verification, each piece of the verification,     *)
(* check before the commit, commit, anchors after it, anchor of a parked    *)
(* scan.                                                                    *)
(*                                                                         *)
(* Data.  A file is a sequence of pieces, the amount one read returns: part *)
(* k of a record, as written in version v.  The last part of a record ends  *)
(* in the newline.  A digest is the sequence of pieces it was computed      *)
(* from.  The anchor before an offset covers AnchorLen pieces.              *)
(***************************************************************************)
EXTENDS TurnPack, FiniteSets

CONSTANTS Script,       \* the record sequences the CLI may write
          MaxLine,      \* MAX_ROLLOUT_LINE_BYTES, in pieces
          Budget,       \* MAX_SCAN_BYTES_PER_POLL, in pieces
          AnchorLen,    \* ROLLOUT_ANCHOR_BYTES, in pieces
          MaxChanges,   \* bound: cuts, overwrites and replacements of the file
          MaxInterrupts \* bound: new bindings and process ends

ASSUME ObserverConstants ==
  /\ MaxLine \in Nat \ {0} /\ Budget > MaxLine /\ AnchorLen \in Nat \ {0}
  /\ \A s \in Script : s # << >> /\ s[1].kind = "meta"

VARIABLES disk,      \* inode -> pieces; a replaced file stays readable through its handle
          path,      \* the inode the rollout path names
          script,    \* what the CLI writes
          version,   \* version of the pieces being written
          binding,   \* [bound, gen] of the task's slot
          cursor,    \* rollout_cursors row of the task, or NoTurn
          ledger,    \* completion_ledger: turn -> pack
          pending,   \* observer.pending[task], or NoTurn
          poll,      \* the poll in progress
          written,   \* packs of the turns the file ever held (history)
          answered,  \* the answered turns of the file that can be read (history)
          raced,     \* the unguarded points of a poll that met a changed file (history)
          restarts

file == <<disk, path, script, version, written, answered, raced>>
store == <<cursor, ledger>>
vars == <<file, store, binding, pending, poll, restarts>>

-----------------------------------------------------------------------------
(* Reading.                                                                *)

EndsLine(p) == p.k = p.rec.size

\* serde_json::from_slice, StreamingRecordParser::finish: pieces of different records
\* do not parse; pieces of different versions of one record may.
ParsesAs(pieces) ==
  IF /\ pieces # << >>
     /\ pieces[1].rec.kind # "bad"
     /\ Len(pieces) = pieces[1].rec.size
     /\ \A i \in DOMAIN pieces : pieces[i].rec = pieces[1].rec /\ pieces[i].k = i
  THEN {[rec |-> pieces[1].rec, vs |-> [i \in DOMAIN pieces |-> pieces[i].v]]}
  ELSE {}

\* MAX_SERIALIZED_TURN_PACK_BYTES: whether the pack of a turn, with its escapes, is too
\* large is a fact of the script, told by the record that completes the turn.
TooLarge(rec) == rec.kind = "done" /\ rec.arg = "large"

\* apply_rollout_value: the next active turn, and the pack of a turn that was answered.
\* The empty set is an error, InvalidRollout or TurnPackTooLarge.
Applied(line, active) ==
  LET none == {[active |-> active, pack |-> NoTurn]}
  IN  CASE line.rec.kind = "start" -> {[active |-> NewTurn(line.rec.turn), pack |-> NoTurn]}
        [] line.rec.kind = "item" /\ active # NoTurn ->
             {[active |-> ObserveResponseItem(active, line), pack |-> NoTurn]}
        [] line.rec.kind \in {"done", "fail"} ->
             IF active = NoTurn \/ (active # NoTurn /\ active.turn # line.rec.turn) THEN {}
             ELSE IF line.rec.kind = "fail" THEN {[active |-> NoTurn, pack |-> NoTurn]}
             ELSE IF TooLarge(line.rec) THEN {}
             ELSE {[active |-> NoTurn, pack |-> FinishTurn(active, line.vs)]}
        [] OTHER -> none

AnchorAt(f, offset) == Last(SubSeq(f, 1, offset), AnchorLen)

\* validate_session_meta
MetaValid(f) == f # << >> /\ f[1].rec.kind = "meta" /\ EndsLine(f[1])

\* validate_line_boundary: the byte before the offset can be read and is a newline.
LineBoundary(f, offset) == offset = 0 \/ (offset <= Len(f) /\ EndsLine(f[offset]))

\* trust_from
TrustFrom(s, f, offset) ==
  [s EXCEPT !.tOffset = offset, !.tAnchor = AnchorAt(f, offset),
            !.tPrefix = SubSeq(f, offset + 1, IF Len(f) < offset + AnchorLen THEN Len(f)
                                              ELSE offset + AnchorLen),
            !.tDigest = << >>]

\* validate_trusted_range
TrustedRange(s, f) ==
  /\ s.tOffset + Len(s.tPrefix) <= Len(f)
  /\ AnchorAt(f, s.tOffset) = s.tAnchor
  /\ SubSeq(f, s.tOffset + 1, s.tOffset + Len(s.tPrefix)) = s.tPrefix

-----------------------------------------------------------------------------
(* The Codex CLI.                                                          *)

LineEnds(f) == {i \in DOMAIN f : EndsLine(f[i])}
LineStart(f, e) == IF \E i \in LineEnds(f) : i < e
                   THEN 1 + CHOOSE i \in LineEnds(f) :
                              i < e /\ \A j \in LineEnds(f) : j < e => j <= i
                   ELSE 1

\* The complete lines of a file, in order.
LinesOf(f) ==
  LET complete == SelectSeq([i \in DOMAIN f |-> i], LAMBDA i : EndsLine(f[i]))
  IN  [n \in DOMAIN complete |->
         LET e == complete[n]
             pieces == SubSeq(f, LineStart(f, e), e)
         IN  [rec |-> f[e].rec, vs |-> [i \in DOMAIN pieces |-> pieces[i].v]]]

\* What the file says of its answered turns, said without a builder: line j answers the
\* turn that line i started, and nothing between them starts or ends a turn.
TurnSpans(lines) ==
  {<<i, j>> \in (DOMAIN lines) \X (DOMAIN lines) :
     /\ i < j
     /\ lines[i].rec.kind = "start" /\ lines[j].rec.kind = "done"
     /\ lines[i].rec.turn = lines[j].rec.turn
     /\ \A m \in (i + 1)..(j - 1) : lines[m].rec.kind \notin {"start", "done", "fail"}}

PackOf(lines, i, j) ==
  LET inside == [m \in 1..(j - i - 1) |-> i + m]
      own(m) == lines[m].rec.kind = "item" /\ lines[m].rec.turn \in {NoTurn, lines[i].rec.turn}
      users == SelectSeq(inside, LAMBDA m : own(m) /\ lines[m].rec.item = "message"
                                                  /\ lines[m].rec.arg = "user")
      called == SelectSeq(inside, LAMBDA m : own(m) /\ lines[m].rec.item = "call")
      outputSeen(m) == \E a \in m..j :
        /\ own(a) /\ lines[a].rec.item = "output" /\ lines[a].rec.arg = lines[m].rec.arg
        /\ \A c \in (m + 1)..a :
             ~(own(c) /\ lines[c].rec.item = "call" /\ lines[c].rec.arg = lines[m].rec.arg)
      tools == Last(called, MaxTools)
  IN  [turn |-> lines[i].rec.turn,
       user |-> Last([n \in DOMAIN users |-> lines[users[n]].vs], MaxMessages),
       assistant |-> <<lines[j].vs>>,
       tools |-> [n \in DOMAIN tools |->
                    [call |-> lines[tools[n]].rec.arg, vs |-> lines[tools[n]].vs,
                     status |-> IF outputSeen(tools[n]) THEN "completed" ELSE "requested"]]]

PacksOf(f) == LET lines == LinesOf(f) IN {PackOf(lines, s[1], s[2]) : s \in TurnSpans(lines)}
TurnsOf(f) == LET lines == LinesOf(f) IN {lines[s[1]].rec.turn : s \in TurnSpans(lines)}

\* A line stops no poll: it parses, ends no turn but the one that was started, and no pack
\* that is too large.
Readable(lines, n) ==
  /\ lines[n].rec.kind # "bad" /\ ~TooLarge(lines[n].rec)
  /\ lines[n].rec.kind \in {"done", "fail"} =>
       \E i \in 1..(n - 1) :
         /\ lines[i].rec.kind = "start" /\ lines[i].rec.turn = lines[n].rec.turn
         /\ \A m \in (i + 1)..(n - 1) : lines[m].rec.kind \notin {"start", "done", "fail"}

\* The answered turns up to the first line that stops a poll.
ReadableTurns(f) ==
  LET lines == LinesOf(f)
  IN  {lines[s[1]].rec.turn :
         s \in {s \in TurnSpans(lines) : \A n \in 1..s[2] : Readable(lines, n)}}

Held == disk[path]
Interrupts == (binding.gen - 1) + restarts

FileBecomes(ino, f) ==
  /\ disk' = [i \in DOMAIN disk \cup {ino} |-> IF i = ino THEN f ELSE disk[i]]
  /\ path' = ino
  /\ written' = written \cup PacksOf(f)
  /\ answered' = IF MetaValid(f) THEN ReadableTurns(f) ELSE {}
  /\ UNCHANGED <<store, binding, pending, poll, restarts>>

\* The position in the script that follows the pieces the file holds.
NextPiece(f) ==
  LET done == Cardinality(LineEnds(f))
      part == IF f = << >> \/ EndsLine(f[Len(f)]) THEN 1 ELSE f[Len(f)].k + 1
  IN  IF done < Len(script) THEN {[rec |-> script[done + 1], k |-> part, v |-> version]} ELSE {}

Append1 ==
  /\ \E p \in NextPiece(Held) : FileBecomes(path, Append(Held, p))
  /\ UNCHANGED <<script, version, raced>>

\* Where in a poll a change other than an append falls: between the last read of a
\* verification and the commit, or between a check of the cursor or a commit and the
\* anchors that are taken after it.
PollPoint ==
  CASE poll.phase = "verify" -> IF poll.scan.verif.at = poll.scan.verif.end THEN {"commit"} ELSE {}
    [] poll.phase = "trust" -> {"trust"}
    [] OTHER -> {}

Change(ino, f) ==
  /\ version < MaxChanges
  /\ version' = version + 1
  /\ raced' = raced \cup PollPoint
  /\ FileBecomes(ino, f)

\* Cut back to a line and written on, perhaps with other turns.
Cut(m, s) ==
  /\ m \in LineEnds(Held) \cup {0} /\ m < Len(Held)
  /\ LET kept == Cardinality({i \in LineEnds(Held) : i <= m})
     IN  kept <= Len(s) /\ SubSeq(s, 1, kept) = SubSeq(script, 1, kept)
  /\ Change(path, SubSeq(Held, 1, m))
  /\ script' = s

Rewritten(from, to) ==
  [i \in DOMAIN Held |-> IF i \in from..to THEN [Held[i] EXCEPT !.v = version + 1] ELSE Held[i]]

\* A line overwritten in place.
Overwrite(e) ==
  /\ e \in LineEnds(Held)
  /\ Change(path, Rewritten(LineStart(Held, e), e))
  /\ UNCHANGED script

\* Another file renamed over the path.
Replace ==
  /\ Held # << >>
  /\ Change(path + 1, Rewritten(1, Len(Held)))
  /\ UNCHANGED script

-----------------------------------------------------------------------------
(* The observer thread.                                                    *)

Idle == [phase |-> "idle"]
Opened == disk[poll.ino]

Init ==
  /\ disk = [i \in {1} |-> << >>] /\ path = 1
  /\ script \in Script
  /\ version = 0 /\ written = {} /\ answered = {} /\ raced = {}
  /\ binding = [bound |-> TRUE, gen |-> 1]
  /\ cursor = NoTurn /\ ledger = << >>
  /\ pending = NoTurn /\ poll = Idle
  /\ restarts = 0

\* set_binding on the control thread: the slot goes to another task or comes back.
Rebind(b) ==
  /\ Interrupts < MaxInterrupts
  /\ binding' = [bound |-> b, gen |-> binding.gen + 1]
  /\ UNCHANGED <<file, store, pending, poll, restarts>>

\* poll_bound_tasks: a task that is not bound loses its scan.
PollUnbound ==
  /\ poll = Idle /\ ~binding.bound /\ pending # NoTurn
  /\ pending' = NoTurn
  /\ UNCHANGED <<file, store, binding, poll, restarts>>

\* poll_task: open the rollout and take the pending scan.  A file without its session line
\* is refused before the scan is touched.
PollOpen ==
  /\ poll = Idle /\ binding.bound
  /\ MetaValid(Held)
  /\ poll' = [phase |-> IF pending = NoTurn THEN "fresh" ELSE "pending", resumed |-> FALSE,
              ino |-> path, size |-> Len(Held), gen |-> binding.gen, scan |-> pending,
              line |-> << >>, scanned |-> 0]
  /\ pending' = NoTurn
  /\ UNCHANGED <<file, store, binding, restarts>>

\* Any error ends the poll of this task; the scan was taken out of `pending`.
Fail == poll' = Idle /\ UNCHANGED <<store, pending>>

\* The file that was opened is the one x was taken from, and not shorter than x when it
\* was opened.  The size is not looked at again after these checks, and set to 0.
SameIdentity(x) == x.ino = poll.ino /\ x.offset <= poll.size

\* The pending scan is resumed when cursor, file, anchor and trusted range still agree.
\* anchor_at is an error when the file has become shorter than the scan.
CheckPending ==
  /\ poll.phase = "pending"
  /\ LET s == poll.scan
         candidate == /\ s.expected = cursor /\ SameIdentity(s)
                      /\ s.stream # << >> \/ s.verif # NoTurn \/ LineBoundary(Opened, s.offset)
     IN  IF candidate /\ s.offset > Len(Opened) THEN Fail
         ELSE /\ poll' =
                   IF candidate /\ AnchorAt(Opened, s.offset) = s.anchor /\ TrustedRange(s, Opened)
                   THEN [poll EXCEPT !.phase = IF s.verif = NoTurn THEN "scan" ELSE "verify",
                                     !.resumed = s.verif # NoTurn, !.size = 0]
                   ELSE [poll EXCEPT !.phase = "fresh", !.scan = NoTurn]
              /\ UNCHANGED <<store, pending>>
  /\ UNCHANGED <<file, binding, restarts>>

\* fresh_scan up to the choice of the offset: from the cursor when the file is still the
\* stream it was taken from.
FreshScan ==
  /\ poll.phase = "fresh"
  /\ LET same == /\ cursor # NoTurn /\ SameIdentity(cursor)
                 /\ LineBoundary(Opened, cursor.offset)
                 /\ AnchorAt(Opened, cursor.offset) = cursor.anchor
         gen == IF cursor = NoTurn THEN 1 ELSE IF same THEN cursor.gen ELSE cursor.gen + 1
     IN  poll' = [poll EXCEPT !.phase = "trust", !.size = 0, !.scan =
                    [expected |-> cursor, ino |-> poll.ino, gen |-> gen,
                     offset |-> IF same THEN cursor.offset ELSE 0, anchor |-> << >>,
                     tOffset |-> 0, tAnchor |-> << >>, tPrefix |-> << >>, tDigest |-> << >>,
                     active |-> NoTurn, stream |-> << >>, verif |-> NoTurn]]
  /\ UNCHANGED <<file, store, binding, pending, restarts>>

\* The reads that follow, in fresh_scan as after a commit: anchor_at and trust_from.
Trust ==
  /\ poll.phase = "trust"
  /\ LET s == poll.scan
     IN  IF s.offset > Len(Opened) THEN Fail
         ELSE /\ poll' = [poll EXCEPT !.phase = "scan", !.scan =
                   TrustFrom([s EXCEPT !.anchor = AnchorAt(Opened, s.offset)], Opened, s.offset)]
              /\ UNCHANGED <<store, pending>>
  /\ UNCHANGED <<file, binding, restarts>>

\* verify_path_identity: the path still names the opened file.
SamePath == poll.ino = path

\* One read of the scan loop.
Taken(p) ==
  LET s == poll.scan
      ns == [s EXCEPT !.offset = @ + 1]
  IN  IF s.stream # << >>
      THEN [scan |-> [ns EXCEPT !.stream = Append(@, p), !.tDigest = Append(@, p)],
            line |-> << >>]
      ELSE IF Len(poll.line) + 1 <= MaxLine
      THEN [scan |-> ns, line |-> Append(poll.line, p)]
      ELSE [scan |-> [ns EXCEPT !.stream = Append(poll.line, p),
                                !.tDigest = @ \o Append(poll.line, p)],
            line |-> << >>]

\* A complete line: its digest, its value, and the verification of a completed turn.
LineRead(t) ==
  LET pieces == t.scan.stream \o t.line
      s == [t.scan EXCEPT !.stream = << >>, !.tDigest = @ \o t.line]
      outcomes == UNION {Applied(line, s.active) : line \in ParsesAs(pieces)}
  IN  IF outcomes = {} THEN Fail
      ELSE \E o \in outcomes :
             LET n == [s EXCEPT !.active = o.active]
             IN  IF o.pack = NoTurn
                 THEN /\ poll' = [poll EXCEPT !.scan = n, !.line = << >>, !.scanned = @ + 1]
                      /\ UNCHANGED <<store, pending>>
                 ELSE /\ poll' = [poll EXCEPT !.phase = "completed",
                                    !.line = << >>, !.scanned = @ + 1,
                                    !.scan = [n EXCEPT !.verif =
                                      [end |-> n.offset, at |-> n.tOffset, digest |-> << >>,
                                       pack |-> o.pack]]]
                      /\ UNCHANGED <<store, pending>>

ScanRead ==
  /\ poll.phase = "scan"
  /\ poll.scanned < Budget
  /\ poll.scan.offset < Len(Opened)
  /\ LET p == Opened[poll.scan.offset + 1]
         t == Taken(p)
     IN  IF EndsLine(p) THEN LineRead(t)
         ELSE /\ poll' = [poll EXCEPT !.scan = t.scan, !.line = t.line, !.scanned = @ + 1]
              /\ UNCHANGED <<store, pending>>
  /\ UNCHANGED <<file, binding, restarts>>

\* A turn is complete: path and trusted range are checked before it is read again.
StartVerification ==
  /\ poll.phase = "completed"
  /\ IF SamePath /\ TrustedRange(poll.scan, Opened)
     THEN poll' = [poll EXCEPT !.phase = "verify", !.resumed = FALSE] /\ UNCHANGED <<store, pending>>
     ELSE Fail
  /\ UNCHANGED <<file, binding, restarts>>

\* The committed offset the end of the poll is compared with.
CommittedOffset(s) ==
  IF s.expected # NoTurn /\ s.expected.ino = s.ino /\ s.expected.gen = s.gen
  THEN s.expected.offset ELSE 0

\* End of the file or of the budget: a short line is read again by the next poll.
ScanEnd ==
  /\ poll.phase = "scan"
  /\ poll.scanned = Budget \/ poll.scan.offset >= Len(Opened)
  /\ LET s == [poll.scan EXCEPT !.offset = @ - Len(poll.line)]
         kept == \/ s.active # NoTurn \/ s.offset # CommittedOffset(s)
                 \/ poll.line # << >> \/ s.stream # << >>
     IN  IF ~SamePath \/ (kept /\ ~TrustedRange(s, Opened)) THEN Fail
         ELSE /\ poll' = IF kept THEN [poll EXCEPT !.phase = "park", !.scan = s] ELSE Idle
              /\ UNCHANGED <<store, pending>>
  /\ UNCHANGED <<file, binding, restarts>>

\* The scan is kept for the next poll, with the anchor of where it stopped.  What it read
\* may have been changed since: validate_trusted_range looks at the ends of the range only.
Park ==
  /\ poll.phase = "park"
  /\ IF poll.scan.offset > Len(Opened) THEN Fail /\ UNCHANGED raced
     ELSE LET s == poll.scan
              there == SubSeq(Opened, s.tOffset + 1, s.tOffset + Len(s.tDigest))
          IN  /\ poll' = Idle
              /\ pending' = [s EXCEPT !.anchor = AnchorAt(Opened, s.offset)]
              /\ raced' = raced \cup IF there = s.tDigest THEN {} ELSE {"park"}
              /\ UNCHANGED store
  /\ UNCHANGED <<disk, path, script, version, written, answered, binding, restarts>>

\* CompletionVerification::advance: the trusted range is read a second time.
VerifyRead ==
  /\ poll.phase = "verify"
  /\ LET v == poll.scan.verif
     IN  /\ v.at < v.end /\ poll.scanned < Budget
         /\ IF v.at >= Len(Opened) THEN Fail
            ELSE /\ poll' = [poll EXCEPT !.scanned = @ + 1,
                               !.scan.verif.at = @ + 1,
                               !.scan.verif.digest = Append(@, Opened[v.at + 1])]
                 /\ UNCHANGED <<store, pending>>
  /\ UNCHANGED <<file, binding, restarts>>

\* Mutant of VerifyLater: a verification that the budget cuts short is not kept.
VerifyLaterForgotten ==
  /\ poll.phase = "verify"
  /\ poll.scan.verif.at < poll.scan.verif.end /\ poll.scanned = Budget
  /\ Fail
  /\ UNCHANGED <<file, binding, restarts>>

\* The rest of the verification is left to the next poll.  The anchor of a new one is taken
\* before the checks, a resumed one keeps its anchor.
VerifyLater ==
  /\ poll.phase = "verify"
  /\ poll.scan.verif.at < poll.scan.verif.end /\ poll.scanned = Budget
  /\ LET s == poll.scan
     IN  IF SamePath /\ TrustedRange(s, Opened) /\ (poll.resumed \/ s.offset <= Len(Opened))
         THEN /\ poll' = Idle
              /\ pending' = IF poll.resumed THEN s
                            ELSE [s EXCEPT !.anchor = AnchorAt(Opened, s.offset)]
              /\ UNCHANGED store
         ELSE Fail
  /\ UNCHANGED <<file, binding, restarts>>

\* A verification that was resumed is complete: range and path are checked once more.
Recheck ==
  /\ poll.phase = "verify" /\ poll.resumed
  /\ poll.scan.verif.at = poll.scan.verif.end
  /\ IF SamePath /\ TrustedRange(poll.scan, Opened)
     THEN poll' = [poll EXCEPT !.resumed = FALSE] /\ UNCHANGED <<store, pending>>
     ELSE Fail
  /\ UNCHANGED <<file, binding, restarts>>

\* Mutant of DigestMatches: the second reading is not compared.
DigestIgnored(s) == TRUE

\* validate_digest
DigestMatches(s) == s.verif.digest = s.tDigest

\* commit_rollout_completion_on: the binding and the cursor must be the ones the poll
\* started from, and the transition one that validate_rollout_completion allows.
StoreAccepts(s, next) ==
  /\ binding.bound /\ binding.gen = poll.gen
  /\ cursor = s.expected
  /\ IF cursor = NoTurn THEN next.gen = 1
     ELSE \/ /\ next.ino = cursor.ino /\ next.gen = cursor.gen
             /\ next.offset >= cursor.offset
          \/ next.gen = cursor.gen + 1

\* commit_verified_completion up to the commit; the anchors of the next turn are Trust.
Commit ==
  /\ poll.phase = "verify" /\ ~poll.resumed
  /\ poll.scan.verif.at = poll.scan.verif.end
  /\ LET s == poll.scan
         offset == s.verif.end
         next == [ino |-> poll.ino, offset |-> offset, gen |-> s.gen,
                  anchor |-> AnchorAt(Opened, offset)]
         turn == s.verif.pack.turn
     IN  IF ~DigestMatches(s) \/ offset > Len(Opened) \/ ~StoreAccepts(s, next) THEN Fail
         ELSE /\ cursor' = next
              /\ ledger' = IF turn \in DOMAIN ledger THEN ledger
                           ELSE [t \in DOMAIN ledger \cup {turn} |->
                                   IF t = turn THEN s.verif.pack ELSE ledger[t]]
              /\ poll' = [poll EXCEPT !.phase = "trust", !.scan =
                            [s EXCEPT !.verif = NoTurn, !.expected = next, !.offset = offset]]
              /\ UNCHANGED pending
  /\ UNCHANGED <<file, binding, restarts>>

\* The process ends between two steps and starts again.
Restart ==
  /\ Interrupts < MaxInterrupts
  /\ restarts' = restarts + 1
  /\ pending' = NoTurn /\ poll' = Idle
  /\ UNCHANGED <<file, store, binding>>

Observer ==
  \/ PollUnbound \/ PollOpen \/ CheckPending \/ FreshScan \/ Trust
  \/ ScanRead \/ StartVerification \/ ScanEnd \/ Park
  \/ VerifyRead \/ VerifyLater \/ Recheck \/ Commit

Next ==
  \/ Append1
  \/ \E m \in 0..Len(Held), s \in Script : Cut(m, s)
  \/ \E e \in 1..Len(Held) : Overwrite(e)
  \/ Replace
  \/ \E b \in BOOLEAN : Rebind(b)
  \/ Observer
  \/ Restart

Spec == Init /\ [][Next]_vars /\ WF_vars(Observer)

-----------------------------------------------------------------------------
\* A pack in the ledger is a turn that one version of the file really held, from its
\* task_started to its task_complete: no mixture of what stood there before and after a
\* change of the file, no tool marked done by another tool's output (rollout_observer.rs
\* poll_task, CompletionVerification, TurnBuilder).
PacksAreWhole == \A t \in DOMAIN ledger : ledger[t] \in written

\* As long as the file is the stream the cursor was taken from, no answered turn before
\* the cursor is missing in the ledger: what the next scan leaves out has been committed
\* (rollout_observer.rs fresh_scan, store.rs commit_rollout_completion_on).
CursorCovers ==
  cursor # NoTurn /\ cursor.ino = path /\ cursor.offset <= Len(Held)
    /\ LineBoundary(Held, cursor.offset) /\ AnchorAt(Held, cursor.offset) = cursor.anchor
  => TurnsOf(SubSeq(Held, 1, cursor.offset)) \subseteq DOMAIN ledger

\* Whatever was changed while it was read, no answered turn is skipped, unless the change
\* fell between the last read of a verification and the commit that takes the anchor, or
\* between a check or commit of the cursor and the anchors of the scan that goes on from it
\* (rollout_observer.rs 742-779, commit_verified_completion): there the observer trusts
\* what it reads without having compared it.
NothingSkipped == raced \cap {"commit", "trust"} # {} \/ CursorCovers

\* A turn of a bound task that is answered, and stays so, before the first line that cannot
\* be read reaches the ledger: neither changes of the file, nor lines that span polls, nor
\* verifications cut short by the read budget, nor restarts keep the observer from it.  A
\* line that does not parse, or a turn whose pack is too large, stops every poll at the
\* same place: what follows it is not committed, and nothing is claimed of it.
AnswersGetCommitted ==
  \A t \in UNION {{s[i].turn : i \in DOMAIN s} : s \in Script} \ {NoTurn} :
    \/ []<>~(binding.bound /\ t \in answered)
    \/ <>(t \in DOMAIN ledger)
    \/ <>(raced # {})
=============================================================================
