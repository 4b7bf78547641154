------------------------------ MODULE LanDevice ------------------------------
(***************************************************************************)
(* The keyboard's end of a playback: CodexLanPlayback (platform/           *)
(* codex_lan_playback.cpp), the slot state it drives, and the part of the  *)
(* main loop (app_main.cpp) that feeds key events and route changes to     *)
(* both.  The main loop is one task: one call is one action.               *)
(*                                                                         *)
(* The speaker task is external: it reads the streamed audio, and ends     *)
(* with success only after it has played all of it.                        *)
(***************************************************************************)
EXTENDS CodexSlotState

CONSTANTS Prebuffer,           \* chunks buffered before the speaker starts
          MaxRequestRetries, MaxFinishedRetries, MaxCancelRetries,
          MaxPresses,          \* bound: play requests
          MaxCaptures,         \* bound: recordings
          MaxRoutes,           \* bound: lifetimes of routes
          MaxDeviceFaults      \* bound: socket, memory, speaker failures, reboots

ASSUME PrebufferAssumption == Prebuffer \in Nat \ {0}
ASSUME DeviceBounds ==
  /\ MaxRequestRetries \in Nat /\ MaxFinishedRetries \in Nat /\ MaxCancelRetries \in Nat \ {0}
  /\ MaxPresses \in Nat /\ MaxCaptures \in Nat /\ MaxRoutes \in Nat \ {0}
  /\ MaxDeviceFaults \in Nat

VARIABLES dev,      \* CodexLanPlayback: [phase, req, id, received, tries,
                    \* deferred, acked]
          slots,    \* CodexSlotState
          speaker,  \* external: "quiet", "busy", "ok" or "bad"
          route,    \* lifetime of the present route, 0 without one
          boot,     \* power cycles
          captures, deviceFaults,
          drained   \* identities whose audio the speaker played to the end

deviceVars == <<dev, slots, speaker, route, lives, boot, captures,
                deviceFaults, drained>>
budget == <<lives, boot, captures, deviceFaults>>

DevicePhases == {"Idle", "AwaitBegin", "Receiving", "Playing",
                 "FinishedPendingAck", "Cancelling"}

\* What cleanup() leaves.
Resting ==
  [phase |-> "Idle", req |-> NoRequest, id |-> NoIdentity, received |-> 0,
   tries |-> 0, deferred |-> NoRequest, acked |-> FALSE]

\* Route lifetimes so far.
routes == Len(lives)

DeviceInit ==
  /\ dev = Resting
  /\ slots = SlotsInit
  /\ speaker = "quiet"
  /\ route = 1
  /\ boot = 0
  /\ \E g \in Generations : lives = <<[boot |-> 0, generation |-> g]>>
  /\ captures = 0
  /\ deviceFaults = 0
  /\ drained = {}

DeviceFault ==
  deviceFaults < MaxDeviceFaults /\ deviceFaults' = deviceFaults + 1

\* send_ack of status 3: nothing to say before a begin was accepted.
AbortNotice == IF dev.id = NoIdentity THEN {} ELSE {EIPA(dev.id, Abort, 0)}

\* Mutant of Ack: off by one chunk.
AckAhead(status) == EIPA(dev.id, status, dev.received + 1)

Ack(status) == EIPA(dev.id, status, dev.received)

-----------------------------------------------------------------------------
(* Requests, preemption and failure.                                       *)

\* request() on an idle transport.
AskedFor(r) == [Resting EXCEPT !.phase = "AwaitBegin", !.req = r]

\* Mutant of Preempted: a request kept back for the end of a cancellation
\* survives the next preemption.
PreemptKeepingDeferred(id) ==
  /\ dev' = IF dev.phase = "Idle" \/ id \notin {dev.id, NoIdentity} THEN dev
            ELSE [dev EXCEPT !.phase = "Cancelling", !.tries = 0, !.acked = FALSE]
  /\ Send(AbortNotice)

\* preempt(), of the playback with this identity or of whatever there is.
Preempt(id) ==
  IF dev.phase = "Idle" THEN UNCHANGED <<dev, net>>
  ELSE IF id \notin {dev.id, NoIdentity}
  THEN dev' = [dev EXCEPT !.deferred = NoRequest] /\ UNCHANGED net
  ELSE /\ dev' = [dev EXCEPT !.phase = "Cancelling", !.tries = 0,
                             !.acked = FALSE, !.deferred = NoRequest]
       /\ Send(AbortNotice)

\* fail(): the slot state is cleared and the Host told.  Counting the notice
\* it sends as a first try.
Failed(d) ==
  [d EXCEPT !.phase = "Cancelling", !.acked = FALSE,
            !.tries = IF d.id = NoIdentity THEN 0 ELSE 1]

Fail ==
  /\ dev' = Failed(dev)
  /\ slots' = IF Matches(slots, dev.id) THEN ClearPlayback(slots) ELSE slots
  /\ Send(AbortNotice)
  /\ UNCHANGED <<speaker, route, drained>>

-----------------------------------------------------------------------------
(* Keys and routes.                                                        *)

\* S1 to S4 pressed.  Without a route there is no recording, but a playback
\* still gives way; while a slot is recorded the press is rejected.
PressPtt(k) ==
  /\ ~Capturing(slots)
  /\ IF route # 0
     THEN /\ captures < MaxCaptures
          /\ captures' = captures + 1
          /\ slots' = PttPressed(slots, k, route)
     ELSE /\ slots.phase # "Idle"
          /\ slots' = ClearPlayback(slots)
          /\ UNCHANGED captures
  /\ Preempt(IF route # 0 THEN NoIdentity ELSE slots.id)
  /\ UNCHANGED <<speaker, route, lives, boot, deviceFaults, drained>>

ReleasePtt ==
  /\ Capturing(slots)
  /\ slots' = PttReleased(slots)
  /\ UNCHANGED <<dev, speaker, route, budget, drained, net>>

\* S5 to S8 pressed.  A playback of another slot is preempted and the request
\* kept back until the cancellation is over; a request that was never answered
\* is dropped for the new one.
PressPlay(k) ==
  /\ route # 0
  /\ PlayAccepted(slots, k)
  /\ slots.requests < MaxPresses
  /\ slots' = PlayPressed(slots, k, route)
  /\ LET r == NextRequest(slots, k, route)
     IN  IF dev.phase \in {"Idle", "AwaitBegin"}
         THEN dev' = AskedFor(r) /\ Send({EIPR(r)})
         ELSE IF dev.phase = "Cancelling"
         THEN dev' = [dev EXCEPT !.deferred = r] /\ UNCHANGED net
         ELSE /\ dev' = [dev EXCEPT !.phase = "Cancelling", !.tries = 0,
                                    !.acked = FALSE, !.deferred = r]
              /\ Send(AbortNotice)
  /\ UNCHANGED <<speaker, route, budget, drained>>

\* request() finds no usable Wi-Fi lease or socket: nothing is asked for.
PressPlayInVain(k) ==
  /\ route # 0
  /\ PlayAccepted(slots, k)
  /\ slots.requests < MaxPresses
  /\ dev.phase \in {"Idle", "AwaitBegin"}
  /\ DeviceFault
  /\ slots' = PlayPressed(slots, k, route)
  /\ dev' = Resting
  /\ UNCHANGED <<speaker, route, lives, boot, captures, drained, net>>

\* reconcile_codex_route_lifetime: the route is lost, or another found.  The
\* generation of the Wi-Fi service starts at random with a boot, is advanced by
\* every change the link sees and wraps, so the loop may find any of them.
LoseRoute == route # 0 /\ route' = 0 /\ UNCHANGED lives

FindRoute(g) ==
  /\ routes < MaxRoutes
  /\ route # 0 => g # Generation(route)
  /\ route' = routes + 1
  /\ lives' = Append(lives, [boot |-> boot, generation |-> g])

Reroute ==
  /\ LoseRoute \/ \E g \in Generations : FindRoute(g)
  /\ slots' = IF route = 0 THEN slots ELSE Disconnected(slots, route)
  /\ IF slots.phase # "Idle" /\ slots'.phase = "Idle"
     THEN Preempt(slots.id)
     ELSE UNCHANGED <<dev, net>>
  /\ UNCHANGED <<speaker, boot, captures, deviceFaults, drained>>

\* Power is lost: the request counter starts over, and the generation with a
\* random draw.
Reboot ==
  /\ DeviceFault
  /\ dev' = Resting
  /\ slots' = SlotsInit
  /\ speaker' = "quiet"
  /\ route' = 0
  /\ boot' = boot + 1
  /\ UNCHANGED <<lives, captures, drained, net>>

-----------------------------------------------------------------------------
(* Datagrams from the Host.                                                *)

\* handle_begin, the first one for the request.
ReceiveBegin(m) ==
  /\ m \in Sent("EIPB")
  /\ dev.phase = "AwaitBegin"
  /\ RequestOf(m.id) = dev.req
  /\ CanBegin(slots, m.id)
  /\ slots' = Begun(slots, m.id)
  /\ dev' = [dev EXCEPT !.phase = "Receiving", !.id = m.id, !.received = 0]
  /\ Send({EIPA(m.id, Taken, 0)})
  /\ UNCHANGED <<speaker, route, budget, drained>>

\* handle_begin without memory for the audio, or unable to answer.
ReceiveBeginFails(m) ==
  /\ m \in Sent("EIPB")
  /\ dev.phase = "AwaitBegin"
  /\ RequestOf(m.id) = dev.req
  /\ CanBegin(slots, m.id)
  /\ DeviceFault
  /\ slots' = ClearPlayback(Begun(slots, m.id))
  /\ dev' = Failed([dev EXCEPT !.id = m.id])
  /\ Send({EIPA(m.id, Abort, 0)})
  /\ UNCHANGED <<speaker, route, lives, boot, captures, drained>>

\* handle_begin again: acknowledged again, as far as the audio has come.
ReceiveBeginAgain(m) ==
  /\ m \in Sent("EIPB")
  /\ dev.phase \in {"Receiving", "Playing"}
  /\ m.id = dev.id
  /\ Send({Ack(Taken)})
  /\ UNCHANGED deviceVars

NextChunk(m) == m.offset = dev.received

\* The speaker starts once this much is buffered.
Buffered(received) == received >= Prebuffer \/ received = Total

\* handle_data with the chunk that comes next.
ReceiveData(m) ==
  /\ m \in Sent("EIPD")
  /\ m.id = dev.id
  /\ dev.phase \in {"Receiving", "Playing"}
  /\ NextChunk(m)
  /\ CanAcceptFrame(slots, dev.id, dev.received)
  /\ LET received == dev.received + 1
         starts == dev.phase = "Receiving" /\ Buffered(received)
         framed == FrameAccepted(slots)
         started == IF starts THEN Started(framed) ELSE framed
     IN  /\ dev' = [dev EXCEPT !.received = received,
                               !.phase = IF starts THEN "Playing" ELSE @]
         /\ slots' = IF received = Total THEN Completed(started) ELSE started
         /\ speaker' = IF starts THEN "busy" ELSE speaker
         /\ Send({EIPA(dev.id, Taken, received)})
  /\ UNCHANGED <<route, budget, drained>>

\* handle_data: the answer cannot be sent, or the speaker does not start once
\* it was.
ReceiveDataFails(m) ==
  /\ m \in Sent("EIPD")
  /\ m.id = dev.id
  /\ dev.phase \in {"Receiving", "Playing"}
  /\ NextChunk(m)
  /\ DeviceFault
  /\ dev' = Failed([dev EXCEPT !.received = @ + 1])
  /\ slots' = ClearPlayback(slots)
  /\ \E answered \in BOOLEAN :
       Send({EIPA(dev.id, Abort, 0)}
              \cup (IF answered THEN {EIPA(dev.id, Taken, dev.received + 1)}
                                ELSE {}))
  /\ UNCHANGED <<speaker, route, lives, boot, captures, drained>>

\* handle_data with an earlier chunk: acknowledged again, even after the end.
ReceiveOldData(m) ==
  /\ m \in Sent("EIPD")
  /\ m.id = dev.id
  /\ dev.phase \in {"Receiving", "Playing", "FinishedPendingAck"}
  /\ m.offset < dev.received
  /\ Send({Ack(Taken)})
  /\ UNCHANGED deviceVars

\* handle_data beyond a gap: the Host is told where to resume.
ReceiveDataBeyondGap(m) ==
  /\ m \in Sent("EIPD")
  /\ m.id = dev.id
  /\ dev.phase \in {"Receiving", "Playing"}
  /\ m.offset > dev.received
  /\ Send({Ack(Gap)})
  /\ UNCHANGED deviceVars

\* handle_finished_ack of a committed playback.
ReceiveFinishedAck(m) ==
  /\ m \in Sent("EIPK")
  /\ m.id = dev.id
  /\ m.status = 0
  /\ dev.phase = "FinishedPendingAck"
  /\ CanAcknowledge(slots, dev.id)
  /\ slots' = ClearPlayback(slots)
  /\ dev' = Resting
  /\ UNCHANGED <<speaker, route, budget, drained, net>>

\* handle_finished_ack of a cancellation.
ReceiveCancelAck(m) ==
  /\ m \in Sent("EIPK")
  /\ m.id = dev.id
  /\ m.status = 1
  /\ dev.phase = "Cancelling"
  /\ ~dev.acked
  /\ dev' = [dev EXCEPT !.acked = TRUE]
  /\ UNCHANGED <<slots, speaker, route, budget, drained, net>>

-----------------------------------------------------------------------------
(* The speaker, and what poll() does about time.                           *)

SpeakerEnds ==
  /\ speaker = "busy"
  /\ dev.phase = "Playing"
  /\ dev.received = Total
  /\ speaker' = "ok"
  /\ drained' = drained \cup {dev.id}
  /\ UNCHANGED <<dev, slots, route, budget, net>>

SpeakerBreaks ==
  /\ speaker = "busy"
  /\ DeviceFault
  /\ speaker' = "bad"
  /\ UNCHANGED <<dev, slots, route, lives, boot, captures, drained, net>>

\* stream_cancelled_ and speaker_->poll(false) end the playing.
SpeakerStops ==
  /\ speaker = "busy"
  /\ dev.phase = "Cancelling"
  /\ speaker' = "bad"
  /\ UNCHANGED <<dev, slots, route, budget, drained, net>>

RetryRequest ==
  /\ dev.phase = "AwaitBegin"
  /\ dev.tries < MaxRequestRetries
  /\ dev' = [dev EXCEPT !.tries = @ + 1]
  /\ Send({EIPR(dev.req)})
  /\ UNCHANGED <<slots, speaker, route, budget, drained>>

BeginTimeout ==
  /\ dev.phase = "AwaitBegin"
  /\ dev.tries >= MaxRequestRetries
  /\ Fail
  /\ UNCHANGED budget

DataTimeout ==
  /\ dev.phase \in {"Receiving", "Playing"}
  /\ dev.received < Total
  /\ Fail
  /\ UNCHANGED budget

\* Mutant of SpeakerSucceeded: the result of the playing is not looked at.
SpeakerEnded == speaker # "busy"

SpeakerSucceeded == speaker = "ok"

\* The speaker is done: drained, or failed.
FinishPlaying ==
  /\ dev.phase = "Playing"
  /\ speaker # "busy"
  /\ IF SpeakerSucceeded /\ CanDrain(slots, dev.id)
     THEN /\ slots' = Drained(slots)
          /\ dev' = [dev EXCEPT !.phase = "FinishedPendingAck", !.tries = 0]
          /\ Send({EIPF(dev.id)})
          /\ UNCHANGED <<speaker, route, drained>>
     ELSE Fail
  /\ UNCHANGED budget

RetryFinished ==
  /\ dev.phase = "FinishedPendingAck"
  /\ dev.tries < MaxFinishedRetries
  /\ dev' = [dev EXCEPT !.tries = @ + 1]
  /\ Send({EIPF(dev.id)})
  /\ UNCHANGED <<slots, speaker, route, budget, drained>>

FinishedTimeout ==
  /\ dev.phase = "FinishedPendingAck"
  /\ dev.tries >= MaxFinishedRetries
  /\ Fail
  /\ UNCHANGED budget

\* The socket fails in any phase with an open one.
SocketFails ==
  /\ dev.phase \in {"AwaitBegin", "Receiving", "Playing", "FinishedPendingAck"}
  /\ DeviceFault
  /\ Fail
  /\ UNCHANGED <<lives, boot, captures>>

RetryCancel ==
  /\ dev.phase = "Cancelling"
  /\ dev.id # NoIdentity
  /\ ~dev.acked
  /\ dev.tries < MaxCancelRetries
  /\ dev' = [dev EXCEPT !.tries = @ + 1]
  /\ Send(AbortNotice)
  /\ UNCHANGED <<slots, speaker, route, budget, drained>>

\* Mutant of CancelSettled: an unanswered cancellation is never given up.
CancelAnswered == dev.id = NoIdentity \/ dev.acked

CancelSettled ==
  dev.id = NoIdentity \/ dev.acked \/ dev.tries >= MaxCancelRetries

\* The cancellation is over; the request kept back is made if its route still
\* stands.
EndCancel ==
  /\ dev.phase = "Cancelling"
  /\ speaker # "busy"
  /\ CancelSettled
  /\ LET r == dev.deferred
     IN  IF r # NoRequest /\ route # 0 /\ Generation(r.conn) = Generation(route)
         THEN dev' = AskedFor(r) /\ Send({EIPR(r)})
         ELSE dev' = Resting /\ UNCHANGED net
  /\ UNCHANGED <<slots, speaker, route, budget, drained>>

DeviceReceives ==
  \E m \in net :
    \/ ReceiveBegin(m) \/ ReceiveBeginFails(m) \/ ReceiveBeginAgain(m)
    \/ ReceiveData(m) \/ ReceiveDataFails(m) \/ ReceiveOldData(m)
    \/ ReceiveDataBeyondGap(m)
    \/ ReceiveFinishedAck(m) \/ ReceiveCancelAck(m)

\* What the main loop does by itself when time passes.
DevicePolls ==
  \/ RetryRequest \/ BeginTimeout \/ DataTimeout \/ FinishPlaying
  \/ RetryFinished \/ FinishedTimeout \/ RetryCancel \/ EndCancel

DeviceNext ==
  \/ \E k \in Slot : PressPtt(k) \/ PressPlay(k) \/ PressPlayInVain(k)
  \/ ReleasePtt
  \/ Reroute
  \/ Reboot
  \/ DeviceReceives
  \/ DevicePolls
  \/ SocketFails
  \/ SpeakerEnds \/ SpeakerBreaks \/ SpeakerStops
=============================================================================
