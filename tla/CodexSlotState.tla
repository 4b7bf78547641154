--------------------------- MODULE CodexSlotState ---------------------------
(***************************************************************************)
(* The keyboard's slot state (codex_slot_state.cpp): which slot is being   *)
(* recorded, which play request waits for the Host, and how far the        *)
(* playback has come.  One keyboard task owns it, so every method is one   *)
(* function of the record; the actions of LanDevice apply them.            *)
(***************************************************************************)
EXTENDS LanWire

CONSTANT NoCapture

ASSUME NoCaptureAssumption == NoCapture \notin [slot : Slot, conn : Nat]

SlotPhases == {"Idle", "Buffering", "Playing", "TransferComplete",
               "FinishedPendingAck"}

\* [pending, requests, capture, phase, id, next]: the pending play request,
\* request_counter_, the recording [slot, conn], and the playback with the
\* next frame it expects.
SlotsInit ==
  [pending |-> NoRequest, requests |-> 0, capture |-> NoCapture,
   phase |-> "Idle", id |-> NoIdentity, next |-> 0]

Capturing(s) == s.capture # NoCapture

\* clear_playback; preempt_playback and abort_playback end in it.
ClearPlayback(s) == [s EXCEPT !.phase = "Idle", !.id = NoIdentity, !.next = 0]

\* handle_input, S1 to S4 pressed over a route: the recording takes the place
\* of any playback and of any pending request.
PttPressed(s, k, conn) ==
  [ClearPlayback(s) EXCEPT !.pending = NoRequest,
                           !.capture = [slot |-> k, conn |-> conn]]

\* handle_input, the recorded slot's key released.
PttReleased(s) == [s EXCEPT !.capture = NoCapture]

\* handle_input, S5 to S8: a play key starts a request unless a slot is being
\* recorded or this slot is the one playing.
PlayAccepted(s, k) == ~Capturing(s) /\ (s.phase # "Idle" => s.id.slot # k)

NextRequest(s, k, conn) ==
  [slot |-> k, gen |-> s.requests + 1, conn |-> conn]

PlayPressed(s, k, conn) ==
  [ClearPlayback(s) EXCEPT !.pending = NextRequest(s, k, conn),
                           !.requests = @ + 1]

\* Mutant of Disconnected: the request counter starts over with the route.
DisconnectedStartingOver(s, conn) == [SlotsInit EXCEPT !.capture = s.capture]

\* disconnect: everything that belongs to the route is dropped.
Disconnected(s, conn) ==
  LET t == IF s.phase # "Idle" /\ s.id.conn = conn THEN ClearPlayback(s) ELSE s
  IN  [t EXCEPT
        !.capture = IF @ # NoCapture /\ @.conn = conn THEN NoCapture ELSE @,
        !.pending = IF @ # NoRequest /\ @.conn = conn THEN NoRequest ELSE @]

Matches(s, id) == s.phase # "Idle" /\ s.id = id

\* Mutant of CanBegin: a begin is accepted whatever was asked for.
CanBeginAnything(s, id) == ~Capturing(s) /\ s.phase = "Idle"

\* begin_playback returns Accepted.
CanBegin(s, id) ==
  /\ ~Capturing(s)
  /\ s.phase = "Idle"
  /\ s.pending = RequestOf(id)

Begun(s, id) ==
  [s EXCEPT !.pending = NoRequest, !.phase = "Buffering", !.id = id, !.next = 0]

\* accept_playback_frame returns Accepted.
CanAcceptFrame(s, id, frame) ==
  /\ Matches(s, id)
  /\ s.phase \in {"Buffering", "Playing"}
  /\ frame < Total
  /\ frame = s.next

FrameAccepted(s) == [s EXCEPT !.next = @ + 1]

\* mark_playback_started, mark_playback_transfer_complete and
\* mark_playback_drained return true.
CanStart(s, id) == Matches(s, id) /\ s.phase = "Buffering"
Started(s) == [s EXCEPT !.phase = "Playing"]

CanComplete(s, id) ==
  /\ Matches(s, id)
  /\ s.phase \in {"Buffering", "Playing"}
  /\ s.next = Total

Completed(s) == [s EXCEPT !.phase = "TransferComplete"]

CanDrain(s, id) == Matches(s, id) /\ s.phase = "TransferComplete"
Drained(s) == [s EXCEPT !.phase = "FinishedPendingAck"]

\* acknowledge_finished returns true.
CanAcknowledge(s, id) == Matches(s, id) /\ s.phase = "FinishedPendingAck"
=============================================================================
