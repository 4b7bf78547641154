----------------------------- MODULE LanPlayback -----------------------------
(***************************************************************************)
(* Keyboard and Host together, over UDP: a play key is pressed, the Host   *)
(* streams the unread summary of that slot, the keyboard plays it and      *)
(* reports the end, and the Host marks it heard.  Either side may time     *)
(* out, be preempted, lose its route or start over at any point.           *)
(***************************************************************************)
EXTENDS LanDevice, LanHost

vars == <<net, deviceVars, hostVars>>

Init ==
  /\ net = {}
  /\ DeviceInit
  /\ HostInit

DeviceStep == DeviceNext /\ UNCHANGED hostVars
HostStep == HostNext /\ UNCHANGED deviceVars

Next == DeviceStep \/ HostStep

Spec == Init /\ [][Next]_vars

\* Both loops keep turning: time passes for the keyboard and the Host, queued
\* events and commands are handled, and a speaker told to stop stops.
\* Nothing is assumed of the network or of the keys.
Fairness ==
  /\ WF_vars(DevicePolls /\ UNCHANGED hostVars)
  /\ WF_vars((SpeakerStops \/ SpeakerEnds) /\ UNCHANGED hostVars)
  /\ WF_vars(Commands /\ UNCHANGED deviceVars)
  /\ WF_vars(Ticks /\ UNCHANGED deviceVars)
  /\ WF_vars(Events /\ UNCHANGED deviceVars)

FairSpec == Spec /\ Fairness

-----------------------------------------------------------------------------
(* Properties.                                                             *)

PendingRequests == Requests \cup {NoRequest}
KnownIdentities == Identities \cup {NoIdentity}

\* Types of both ends, and the counters inside their bounds.
TypeOK ==
  /\ dev \in [phase : DevicePhases, req : PendingRequests, id : KnownIdentities,
              received : 0..Total,
              tries : 0..(MaxRequestRetries + MaxFinishedRetries + MaxCancelRetries),
              deferred : PendingRequests, acked : BOOLEAN]
  /\ slots \in [pending : PendingRequests, requests : 0..MaxPresses,
                capture : [slot : Slot, conn : 1..MaxRoutes] \cup {NoCapture},
                phase : SlotPhases, id : KnownIdentities, next : 0..Total]
  /\ speaker \in {"quiet", "busy", "ok", "bad"}
  /\ lives \in Seq([boot : Nat, generation : Generations])
  /\ route \in 0..routes /\ routes \in 1..MaxRoutes
  /\ boot \in Nat
  /\ transfer \in Transfers \cup {NoTransfer}
  /\ active \subseteq [id : Identities, heard : BOOLEAN]

\* A summary is marked heard only after the keyboard's speaker played all of
\* its audio, whatever was lost, repeated, delayed, preempted or restarted (and both
\* ends keep their types).
HeardWasDrained == TypeOK /\ heard \subseteq drained

\* The Host never believes more than the keyboard holds: what it counts as
\* acknowledged the keyboard received, and it waits for the end only of audio
\* that arrived in full.
AckedWasReceived ==
  transfer # NoTransfer /\ dev.id = transfer.id =>
    /\ transfer.acked <= dev.received
    /\ transfer.phase \in {"DeviceFinished", "HostCommit"} => dev.received = Total

\* While a slot is recorded the keyboard neither plays nor fetches a summary:
\* a request kept back during a cancellation is forgotten too.
RecordingSilencesPlayback ==
  Capturing(slots) =>
    /\ slots.phase = "Idle"
    /\ dev.phase \in {"Idle", "Cancelling"}
    /\ dev.deferred = NoRequest

\* Slot state and transport agree on what is playing and how much of it there
\* is, so that no frame is refused and no preemption misses its playback.
SlotsAgree ==
  /\ slots.phase # "Idle" <=>
       dev.phase \in {"Receiving", "Playing", "FinishedPendingAck"}
  /\ slots.phase # "Idle" =>
       /\ slots.id = dev.id
       /\ slots.next = dev.received
       /\ slots.phase = "FinishedPendingAck" <=> dev.phase = "FinishedPendingAck"
       /\ slots.phase = "Buffering" <=> dev.phase = "Receiving"

\* What plays came over the route there is now: a begin that arrives after its
\* route was lost is refused, and losing a route ends what it brought.
PlaysOverItsRoute == slots.phase # "Idle" => slots.id.conn = route

\* A start never finds the ingress thread busy with another playback: the
\* refusal in handle_command is never needed between these two threads.
StartFindsRoom ==
  NextCommand("Start") => ~Busy

\* All ends agree: the Host's threads with each other, and the Host, the transport and the
\* slot state about the playback they share and its route.
EndsAgree == AckedWasReceived /\ SlotsAgree /\ PlaysOverItsRoute /\ StartFindsRoom

\* The random draw of a boot hit a generation of an earlier one, for which the
\* Host keeps a floor: the one case it cannot tell from a repetition.
DrawnAgain(r) ==
  \E f \in floors : /\ f.slot = r.slot
                    /\ Generation(f.conn) = Generation(r.conn)
                    /\ lives[f.conn].boot < boot

\* The next press of a play key is never taken for a repetition: the Host's
\* floor for slot and generation is behind the keyboard's own count, although
\* the count starts over with a reboot and generations wrap; only a reboot
\* that draws a generation the Host remembers is excepted.
FloorBehindKeyboard ==
  route # 0 =>
    \A k \in Slot : LET r == NextRequest(slots, k, route)
                   IN  Fresh(r) \/ DrawnAgain(r)

\* A begin or a window that is still to be sent waits for a socket that
\* refuses to send: tick neither counts nor gives up.
HeldBySocket ==
  mute /\ Busy /\ transfer.phase \in {"BeginAck", "DataAck"} /\ ~TimedOut

\* Every lease is given up or heard, or held by the Host's own socket.
ActiveEnds == (active # {}) ~> (active = {} \/ HeldBySocket)

\* The keyboard comes to rest: nobody waits for ever for an answer that was lost.
DeviceRests == (dev.phase # "Idle") ~> (dev.phase = "Idle")

\* A playback ends at both ends, whatever was lost, failed or restarted; at the
\* Host's only once its socket sends again.
PlaybacksEnd == ActiveEnds /\ DeviceRests
=============================================================================
