-------------------------- MODULE LanPlaybackProofs --------------------------
(***************************************************************************)
(* Proofs about LanPlayback, for any number of slots, chunks, presses,     *)
(* routes, retries and faults, and a network that loses, repeats and       *)
(* delays whatever it likes.                                               *)
(***************************************************************************)
EXTENDS LanPlayback, FiniteSetTheorems, SequenceTheorems, TLAPS

-----------------------------------------------------------------------------
(* The inductive invariant.                                                *)

\* A request or an identity of a route there has been, and not newer than the keyboard's
\* own count if the route was one of this boot.
Known(x) ==
  x.conn \in 1..Len(lives) /\ (lives[x.conn].boot = boot => x.gen <= slots.requests)

Lives == [boot : Nat, generation : Generations]

\* The present route is one of this boot, and no route is of a later one.
RoutesTold ==
  /\ lives \in Seq(Lives) /\ boot \in Nat
  /\ \A c \in 1..Len(lives) : lives[c].boot \in 0..boot
  /\ route # 0 => lives[route].boot = boot

Tries == 0..(MaxRequestRetries + MaxFinishedRetries + MaxCancelRetries)
Transport == [phase : DevicePhases, req : PendingRequests, id : KnownIdentities,
              received : 0..Total, tries : Tries, deferred : PendingRequests, acked : BOOLEAN]
SlotRecord == [pending : PendingRequests, requests : 0..MaxPresses,
               capture : [slot : Slot, conn : 1..MaxRoutes] \cup {NoCapture},
               phase : SlotPhases, id : KnownIdentities, next : 0..Total]

DeviceTyped ==
  /\ dev \in Transport /\ slots \in SlotRecord
  /\ speaker \in {"quiet", "busy", "ok", "bad"}
  /\ Len(lives) \in 1..MaxRoutes /\ route \in 0..Len(lives) /\ RoutesTold

\* What the keyboard asks for or plays is known, and a request that waits for its begin is
\* one of the present route.
DeviceKnows ==
  /\ dev.req # NoRequest => Known(dev.req)
  /\ dev.deferred # NoRequest => Known(dev.deferred)
  /\ dev.id # NoIdentity => Known(dev.id) /\ RequestOf(dev.id) # slots.pending
  /\ slots.pending # NoRequest => Known(slots.pending) /\ slots.pending.conn = route

\* How the transport's phase and its fields go together, and what was played to the end.
DeviceShape ==
  /\ dev.phase = "Idle" => dev = Resting
  /\ dev.phase = "AwaitBegin" => /\ dev.req # NoRequest /\ dev.deferred = NoRequest
                                 /\ dev.id = NoIdentity /\ dev.received = 0
  /\ dev.phase \in {"Receiving", "Playing", "FinishedPendingAck"} => dev.id # NoIdentity
  /\ dev.phase = "Playing" /\ speaker = "ok" => dev.id \in drained
  /\ dev.phase = "FinishedPendingAck" => dev.id \in drained

DeviceInv ==
  /\ DeviceTyped /\ DeviceKnows /\ DeviceShape
  /\ SlotsAgree /\ PlaysOverItsRoute /\ RecordingSilencesPlayback

\* A datagram tells what happened: an acknowledgement is of a request that no longer waits
\* for its begin, and of no more than the keyboard holds.
Truthful(m) ==
  /\ m.kind = "EIPR" => m.req \in Requests /\ Known(m.req)
  /\ m.kind \in {"EIPB", "EIPD", "EIPA", "EIPF"} => m.id \in Identities /\ Known(m.id)
  /\ m.kind = "EIPD" => m.offset \in 0..(Total - 1)
  /\ m.kind = "EIPA" =>
       /\ m.next \in 0..Total /\ RequestOf(m.id) # slots.pending
       /\ m.status \in {Taken, Gap} /\ m.id = dev.id => m.next <= dev.received
  /\ m.kind = "EIPF" => m.id \in drained

NetTrue == \A m \in net : Truthful(m)

\* The Host's transfer is of a known playback; once its begin was answered, the request no
\* longer waits at the keyboard, so that no second begin can set back what was received.
TransferTrue ==
  /\ transfer \in Transfers \cup {NoTransfer}
  /\ transfer # NoTransfer =>
       /\ Known(transfer.id)
       /\ transfer.phase = "BeginAck" => transfer.acked = 0
       /\ transfer.phase # "BeginAck" => RequestOf(transfer.id) # slots.pending
  /\ AckedWasReceived

Leased(id) == id \in Identities /\ Known(id) /\ id.lease \in 0..leases

Event == [kind : {"Request"}, req : Requests] \cup [kind : {"Finished", "Cancelled"}, id : Identities]
Cmd == [kind : {"Start", "FinishAck", "Cancel"}, id : Identities]
Activity == [id : Identities, heard : BOOLEAN]

EventTrue(e) ==
  /\ e.kind = "Request" => Known(e.req)
  /\ e.kind # "Request" => Leased(e.id)
  /\ e.kind = "Finished" => e.id \in drained

EventsTrue == events \in Seq(Event) /\ \A i \in DOMAIN events : EventTrue(events[i])
CommandsTrue == commands \in Seq(Cmd) /\ \A i \in DOMAIN commands : Leased(commands[i].id)

\* One playback is active at most.
ActiveTrue == /\ active = {} \/ \E a \in active : active = {a}
              /\ \A a \in active : a \in Activity /\ Leased(a.id)

HostTrue ==
  /\ leases \in Nat
  /\ EventsTrue /\ CommandsTrue /\ ActiveTrue
  /\ transfer # NoTransfer => Leased(transfer.id)
  /\ floors \subseteq Requests /\ \A f \in floors : Known(f)
  /\ heard \subseteq drained

\* A playback that is under way in the ingress thread (at 0), or will be once the command
\* at p is handled.
Live(p) == \/ p = 0 /\ transfer # NoTransfer
           \/ p \in DOMAIN commands /\ commands[p].kind = "Start"
LiveId(p) == IF p = 0 THEN transfer.id ELSE commands[p].id

\* The command at i cancels x; the daemon has x as active; the event at d is the end of x.
CancelsAt(x, i) == commands[i].kind = "Cancel" /\ commands[i].id = x
IsActive(x) == \E a \in active : a.id = x
EndsAt(x, d) == events[d].kind # "Request" /\ events[d].id = x

CancelledAfter(x, p) == \E i \in DOMAIN commands : p < i /\ CancelsAt(x, i)

\* Before the ingress thread comes to another start, it comes to the cancellation of what is
\* live now.
CancelledBefore ==
  \A p \in 0..Len(commands), j \in DOMAIN commands :
    Live(p) /\ p < j /\ commands[j].kind = "Start" =>
      \E i \in DOMAIN commands : p < i /\ i < j /\ CancelsAt(LiveId(p), i)

\* What the daemon did not start to cancel it still has as active when it comes to the next
\* request.
CancelledOrActive ==
  transfer # NoTransfer =>
    \A e \in DOMAIN events : events[e].kind = "Request" =>
      \/ CancelledAfter(transfer.id, 0)
      \/ IsActive(transfer.id) /\ \A d \in DOMAIN events : d < e => ~EndsAt(transfer.id, d)

\* A playback that was not started yet has the newest lease but for those that are cancelled
\* after it, and there is no news of it.
NotStarted ==
  \A p \in DOMAIN commands : commands[p].kind = "Start" =>
    /\ \A d \in DOMAIN events : ~EndsAt(commands[p].id, d)
    /\ IsActive(commands[p].id) \/ CancelledAfter(commands[p].id, p)
    /\ transfer # NoTransfer => transfer.id # commands[p].id
    /\ \A q \in DOMAIN commands :
         commands[q].kind = "Start" /\ commands[q].id = commands[p].id => q = p

ThreadsAgree == CancelledBefore /\ CancelledOrActive /\ NotStarted

LanInv == DeviceInv /\ NetTrue /\ TransferTrue /\ HostTrue /\ ThreadsAgree
-----------------------------------------------------------------------------
(* What a step of the keyboard does to what the Host and the network know. *)

\* What was known stays known; a request whose begin was taken does not wait again; the
\* keyboard keeps what it received, starts with a request that waited, or has nothing; and
\* what it says is true.
DeviceMoves ==
  /\ \A x \in Requests \cup Identities : Known(x) => Known(x)'
  /\ \A x \in Identities : Known(x) /\ RequestOf(x) # slots.pending => RequestOf(x) # slots'.pending
  /\ \/ dev'.id = NoIdentity
     \/ dev'.id = dev.id /\ dev'.received >= dev.received
     \/ dev'.id \in Identities /\ RequestOf(dev'.id) = slots.pending
  /\ drained \subseteq drained'
  /\ \A m \in net' : m \in net \/ Truthful(m)'

LEMMA DeviceMovesOn ==
  ASSUME LanInv, DeviceInv', DeviceMoves, UNCHANGED hostVars
  PROVE  LanInv'
  <1>1. dev \in Transport /\ dev.received \in 0..Total /\ dev'.received \in 0..Total
    BY DEF LanInv, DeviceInv, DeviceTyped, Transport
  <1>2. ASSUME NEW x \in Requests \cup Identities, Known(x) PROVE Known(x)'
    BY <1>2 DEF DeviceMoves
  <1>3. NetTrue'
    <2> SUFFICES ASSUME NEW m \in net' PROVE Truthful(m)'
      BY DEF NetTrue
    <2>1. CASE m \in net
      <3>1. Truthful(m)
        BY <2>1 DEF LanInv, NetTrue
      <3>2. CASE m.kind = "EIPA"
        <4>1. m.id \in Identities /\ Known(m.id) /\ m.next \in 0..Total
              /\ RequestOf(m.id) # slots.pending
              /\ (m.status \in {Taken, Gap} /\ m.id = dev.id => m.next <= dev.received)
          BY <3>1, <3>2 DEF Truthful
        <4>2. Known(m.id)' /\ RequestOf(m.id) # slots'.pending
          BY <4>1 DEF DeviceMoves
        <4>3. m.status \in {Taken, Gap} /\ m.id = dev'.id => m.next <= dev'.received
          BY <1>1, <4>1, LanWireSentinels, TotalAssumption DEF DeviceMoves
        <4> QED BY <3>2, <4>1, <4>2, <4>3 DEF Truthful
      <3>3. CASE m.kind # "EIPA"
        BY <1>2, <3>1, <3>3 DEF Truthful, DeviceMoves
      <3> QED BY <3>2, <3>3
    <2>2. CASE m \notin net
      BY <2>2 DEF DeviceMoves
    <2> QED BY <2>1, <2>2
  <1>4. TransferTrue'
    <2>1. transfer' = transfer
      BY DEF hostVars
    <2>2. CASE transfer = NoTransfer
      BY <2>1, <2>2 DEF TransferTrue, AckedWasReceived
    <2>3. CASE transfer # NoTransfer
      <3>1. /\ transfer \in Transfers /\ Known(transfer.id)
            /\ transfer.phase = "BeginAck" => transfer.acked = 0
            /\ transfer.phase # "BeginAck" => RequestOf(transfer.id) # slots.pending
            /\ dev.id = transfer.id =>
                 /\ transfer.acked <= dev.received
                 /\ transfer.phase \in {"DeviceFinished", "HostCommit"} => dev.received = Total
        BY <2>3 DEF LanInv, TransferTrue, AckedWasReceived
      <3>2. transfer.id \in Identities /\ transfer.acked \in 0..Total
        BY <3>1 DEF Transfers
      <3>3. Known(transfer.id)'
        BY <1>2, <2>1, <3>1, <3>2 DEF Known
      <3>4. transfer.phase # "BeginAck" => RequestOf(transfer.id) # slots'.pending
        BY <3>1, <3>2 DEF DeviceMoves
      <3>5. dev'.id = transfer.id =>
              /\ transfer.acked <= dev'.received
              /\ transfer.phase \in {"DeviceFinished", "HostCommit"} => dev'.received = Total
        <4>1. CASE dev'.id = NoIdentity
          BY <3>2, <4>1, LanWireSentinels
        <4>2. CASE dev'.id = dev.id /\ dev'.received >= dev.received
          BY <1>1, <3>1, <3>2, <4>2, TotalAssumption
        <4>3. CASE RequestOf(dev'.id) = slots.pending
          BY <1>1, <3>1, <3>2, <4>3, TotalAssumption
        <4> QED BY <4>1, <4>2, <4>3 DEF DeviceMoves
      <3> QED BY <2>1, <3>1, <3>3, <3>4, <3>5 DEF TransferTrue, AckedWasReceived
    <2> QED BY <2>2, <2>3
  <1>5. HostTrue'
    <2>1. ASSUME NEW x, Leased(x) PROVE Leased(x)'
      BY <1>2, <2>1 DEF Leased, hostVars
    <2>2. ASSUME NEW e \in Event, EventTrue(e) PROVE EventTrue(e)'
      <3>1. e.kind = "Request" => e.req \in Requests
        BY DEF Event
      <3> QED BY <1>2, <2>1, <2>2, <3>1 DEF EventTrue, DeviceMoves
    <2>3. events' = events /\ commands' = commands
      BY DEF hostVars
    <2>4. (\A i \in DOMAIN events : EventTrue(events[i]))'
      <3> SUFFICES ASSUME NEW i \in DOMAIN events' PROVE EventTrue(events[i])'
        OBVIOUS
      <3>1. PICK e : e = events[i]
        OBVIOUS
      <3>2. e \in Event /\ EventTrue(e)
        BY <2>3, <3>1, ElementOfSeq, LenProperties DEF LanInv, HostTrue, EventsTrue
      <3>3. EventTrue(e)'
        BY <2>2, <3>2
      <3> QED BY <2>3, <3>1, <3>3
    <2>5. (\A i \in DOMAIN commands : Leased(commands[i].id))'
      <3> SUFFICES ASSUME NEW i \in DOMAIN commands' PROVE Leased(commands[i].id)'
        OBVIOUS
      <3>1. PICK x : x = commands[i].id
        OBVIOUS
      <3>2. Leased(x)'
        BY <2>1, <2>3, <3>1 DEF LanInv, HostTrue, CommandsTrue
      <3> QED BY <2>3, <3>1, <3>2
    <2>6. \A a \in active : a \in Activity /\ Leased(a.id)'
      BY <2>1 DEF LanInv, HostTrue, ActiveTrue
    <2>7. transfer # NoTransfer => Leased(transfer.id)'
      BY <2>1 DEF LanInv, HostTrue, hostVars
    <2>8. \A f \in floors : Known(f)'
      BY <1>2 DEF LanInv, HostTrue
    <2> QED
      BY <2>4, <2>5, <2>6, <2>7, <2>8
         DEF LanInv, HostTrue, EventsTrue, CommandsTrue, ActiveTrue, DeviceMoves, hostVars
  <1>6. ThreadsAgree'
    BY DEF LanInv, ThreadsAgree, CancelledBefore, CancelledOrActive, NotStarted, Live, LiveId,
           CancelsAt, CancelledAfter, IsActive, EndsAt, hostVars
  <1> QED BY <1>3, <1>4, <1>5, <1>6 DEF LanInv
-----------------------------------------------------------------------------
(* What the keyboard says, and the steps that leave route and count alone. *)

LEMMA SayAck ==
  ASSUME DeviceInv', NEW id, id = dev'.id, id # NoIdentity, NEW status, NEW n \in 0..Total,
         status \in {Taken, Gap} => n <= dev'.received
  PROVE  Truthful(EIPA(id, status, n))'
  <1>1. id \in Identities /\ Known(id)' /\ RequestOf(id) # slots'.pending
    BY DEF DeviceInv, DeviceTyped, Transport, KnownIdentities, DeviceKnows
  <1> QED BY <1>1 DEF Truthful, EIPA

LEMMA SayRequest ==
  ASSUME DeviceInv', NEW r, r = dev'.req, r # NoRequest
  PROVE  Truthful(EIPR(r))'
  <1>1. r \in Requests /\ Known(r)'
    BY DEF DeviceInv, DeviceTyped, Transport, PendingRequests, DeviceKnows
  <1> QED BY <1>1 DEF Truthful, EIPR

LEMMA SayFinished ==
  ASSUME DeviceInv', NEW id, id = dev'.id, dev'.phase = "FinishedPendingAck"
  PROVE  Truthful(EIPF(id))'
  <1>1. id # NoIdentity /\ id \in drained'
    BY DEF DeviceInv, DeviceShape
  <1>2. id \in Identities /\ Known(id)'
    BY <1>1 DEF DeviceInv, DeviceTyped, Transport, KnownIdentities, DeviceKnows
  <1> QED BY <1>1, <1>2 DEF Truthful, EIPF

LEMMA SayAbort ==
  ASSUME DeviceInv', NEW m \in AbortNotice, dev'.id = dev.id
  PROVE  Truthful(m)'
  <1>1. dev.id # NoIdentity /\ m = EIPA(dev.id, Abort, 0)
    BY DEF AbortNotice
  <1>2. PICK id : id = dev.id
    OBVIOUS
  <1>3. 0 \in 0..Total /\ Abort \notin {Taken, Gap}
    BY TotalAssumption DEF Abort, Taken, Gap
  <1>4. Truthful(EIPA(id, Abort, 0))'
    BY <1>1, <1>2, <1>3, SayAck
  <1> QED BY <1>1, <1>2, <1>4

\* A step within a route.
Quiet ==
  /\ UNCHANGED <<route, lives, boot>>
  /\ slots'.requests = slots.requests /\ slots'.pending \in {slots.pending, NoRequest}
  /\ dev'.id = NoIdentity \/ (dev'.id = dev.id /\ dev'.received >= dev.received)
  /\ drained \subseteq drained'

LEMMA QuietMoves ==
  ASSUME Quiet, \A m \in net' : m \in net \/ Truthful(m)'
  PROVE  DeviceMoves
  <1>1. \A x \in Requests \cup Identities : Known(x) => Known(x)'
    BY DEF Known, Quiet
  <1>2. \A x \in Identities : RequestOf(x) # NoRequest
    BY LanWireSentinels DEF RequestOf, Requests, Identities
  <1> QED BY <1>1, <1>2 DEF DeviceMoves, Quiet

\* The keyboard's fields, with their types.
LEMMA DeviceFields ==
  ASSUME DeviceInv
  PROVE  /\ dev.phase \in DevicePhases /\ dev.req \in PendingRequests
         /\ dev.id \in KnownIdentities /\ dev.received \in 0..Total
         /\ dev.tries \in Tries
         /\ dev.deferred \in PendingRequests /\ dev.acked \in BOOLEAN
         /\ slots.pending \in PendingRequests /\ slots.requests \in 0..MaxPresses
         /\ slots.capture \in [slot : Slot, conn : 1..MaxRoutes] \cup {NoCapture}
         /\ slots.phase \in SlotPhases /\ slots.id \in KnownIdentities /\ slots.next \in 0..Total
         /\ Len(lives) \in 1..MaxRoutes /\ route \in 0..Len(lives)
         /\ NoRequest \in PendingRequests /\ NoIdentity \in KnownIdentities
         /\ 0 \in 0..Total
         /\ 0 \in Tries
         /\ 1 \in Tries
  BY TotalAssumption, DeviceBounds
  DEF DeviceInv, DeviceTyped, Transport, SlotRecord, Tries, PendingRequests, KnownIdentities

\* The playback is cleared from the slot state; the rest of it stays.
Cleared ==
  /\ slots' \in SlotRecord /\ slots'.phase = "Idle" /\ slots'.pending = slots.pending
  /\ slots'.requests = slots.requests /\ slots'.capture = slots.capture

LEMMA PollFail ==
  ASSUME DeviceInv, Fail, UNCHANGED <<lives, boot>>,
         dev.phase \in {"AwaitBegin", "Receiving", "Playing", "FinishedPendingAck"}
  PROVE  DeviceInv' /\ DeviceMoves
  <1>0. /\ dev' = [dev EXCEPT !.phase = "Cancelling", !.acked = FALSE,
                              !.tries = IF dev.id = NoIdentity THEN 0 ELSE 1]
        /\ UNCHANGED <<speaker, route, lives, boot, drained>>
        /\ net' = net \cup AbortNotice
    BY DEF Fail, Failed, Send
  <1>1. Cleared
    <2>1. CASE slots.phase = "Idle"
      BY <2>1 DEF Fail, Matches, Cleared, DeviceInv, DeviceTyped
    <2>2. CASE slots.phase # "Idle"
      <3>1. slots' = ClearPlayback(slots)
        BY <2>2 DEF DeviceInv, SlotsAgree, Fail, Matches
      <3> QED BY <3>1, DeviceFields
              DEF Cleared, ClearPlayback, SlotRecord, SlotPhases, DeviceInv, DeviceTyped
    <2> QED BY <2>1, <2>2
  <1>2. dev' \in Transport /\ dev'.phase = "Cancelling" /\ dev'.id = dev.id
        /\ dev'.received = dev.received /\ dev'.req = dev.req /\ dev'.deferred = dev.deferred
    BY <1>0, DeviceFields DEF DeviceInv, DeviceTyped, Transport, DevicePhases
  <1>3. DeviceTyped'
    BY <1>0, <1>1, <1>2 DEF DeviceInv, DeviceTyped, RoutesTold, Cleared
  <1>4. DeviceKnows'
    BY <1>0, <1>1, <1>2 DEF DeviceInv, DeviceKnows, Cleared, Known
  <1>5. DeviceShape' /\ SlotsAgree' /\ PlaysOverItsRoute'
    BY <1>0, <1>1, <1>2 DEF DeviceInv, DeviceShape, SlotsAgree, PlaysOverItsRoute, Cleared
  <1>6. RecordingSilencesPlayback'
    BY <1>0, <1>1, <1>2 DEF DeviceInv, RecordingSilencesPlayback, Cleared, Capturing
  <1>7. DeviceInv'
    BY <1>3, <1>4, <1>5, <1>6 DEF DeviceInv
  <1>8. Quiet
    BY <1>0, <1>1, <1>2, DeviceFields DEF Quiet, Cleared
  <1> QED BY <1>0, <1>2, <1>7, <1>8, SayAbort, QuietMoves
-----------------------------------------------------------------------------
(* Steps that repeat, and the speaker.                                     *)

\* Only the count of tries, the confirmation of a cancellation and the speaker change.
Repeats ==
  /\ dev' \in Transport /\ dev'.phase = dev.phase /\ dev'.req = dev.req /\ dev'.id = dev.id
  /\ dev'.received = dev.received /\ dev'.deferred = dev.deferred
  /\ dev.phase = "Idle" => dev' = dev
  /\ UNCHANGED <<slots, route, lives, boot>> /\ drained \subseteq drained'
  /\ speaker' \in {"quiet", "busy", "ok", "bad"}
  /\ dev.phase = "Playing" /\ speaker' = "ok" => speaker = "ok" \/ dev.id \in drained'

LEMMA RepeatKeeps ==
  ASSUME DeviceInv, Repeats
  PROVE  DeviceInv' /\ Quiet
  <1>1. DeviceTyped'
    BY DEF DeviceInv, DeviceTyped, RoutesTold, Repeats
  <1>2. DeviceKnows'
    BY DEF DeviceInv, DeviceKnows, Repeats, Known
  <1>3. DeviceShape'
    BY DEF DeviceInv, DeviceShape, Repeats
  <1>4. SlotsAgree' /\ PlaysOverItsRoute' /\ RecordingSilencesPlayback'
    BY DEF DeviceInv, SlotsAgree, PlaysOverItsRoute, RecordingSilencesPlayback, Repeats
  <1>5. Quiet
    BY DeviceFields DEF Repeats, Quiet
  <1> QED BY <1>1, <1>2, <1>3, <1>4, <1>5 DEF DeviceInv

LEMMA RetrySteps ==
  ASSUME DeviceInv, RetryRequest \/ RetryFinished \/ RetryCancel
  PROVE  DeviceInv' /\ DeviceMoves
  <1>1. /\ dev' = [dev EXCEPT !.tries = @ + 1] /\ dev.phase # "Idle"
        /\ UNCHANGED <<slots, speaker, route, budget, drained>>
        /\ dev.tries < MaxRequestRetries \/ dev.tries < MaxFinishedRetries \/ dev.tries < MaxCancelRetries
    BY DEF RetryRequest, RetryFinished, RetryCancel
  <1>2. dev.tries + 1 \in Tries
    <2>1. dev.tries \in Tries
      BY DeviceFields
    <2> QED BY <1>1, <2>1, DeviceBounds DEF Tries
  <1>3. dev' \in Transport
    BY <1>1, <1>2 DEF DeviceInv, DeviceTyped, Transport
  <1>4. Repeats
    BY <1>1, <1>3 DEF DeviceInv, DeviceTyped, Transport, Repeats, budget
  <1>5. DeviceInv' /\ Quiet
    BY <1>4, RepeatKeeps
  <1>6. \A m \in net' : m \in net \/ Truthful(m)'
    <2>1. CASE RetryRequest
      <3>1. PICK r : r = dev.req
        OBVIOUS
      <3>2. r # NoRequest /\ r = dev'.req /\ net' = net \cup {EIPR(r)}
        BY <1>4, <2>1, <3>1 DEF RetryRequest, Send, DeviceInv, DeviceShape, Repeats
      <3> QED BY <1>5, <3>2, SayRequest
    <2>2. CASE RetryFinished
      <3>1. PICK id : id = dev.id
        OBVIOUS
      <3>2. id = dev'.id /\ dev'.phase = "FinishedPendingAck" /\ net' = net \cup {EIPF(id)}
        BY <1>4, <2>2, <3>1 DEF RetryFinished, Send, Repeats
      <3> QED BY <1>5, <3>2, SayFinished
    <2>3. CASE RetryCancel
      <3>1. net' = net \cup AbortNotice /\ dev'.id = dev.id
        BY <1>4, <2>3 DEF RetryCancel, Send, Repeats
      <3> QED BY <1>5, <3>1, SayAbort
    <2> QED BY <2>1, <2>2, <2>3
  <1> QED BY <1>5, <1>6, QuietMoves

LEMMA SpeakerSteps ==
  ASSUME DeviceInv, SpeakerEnds \/ SpeakerBreaks \/ SpeakerStops
  PROVE  DeviceInv' /\ DeviceMoves
  <1>1. Repeats /\ net' = net
    BY DEF SpeakerEnds, SpeakerBreaks, SpeakerStops, Repeats, DeviceInv, DeviceTyped, budget
  <1> QED BY <1>1, RepeatKeeps, QuietMoves

\* handle_begin, handle_data and handle_finished_ack where they only answer.
LEMMA AnswerSteps ==
  ASSUME DeviceInv, NEW m,
         ReceiveBeginAgain(m) \/ ReceiveOldData(m) \/ ReceiveDataBeyondGap(m)
  PROVE  DeviceInv' /\ DeviceMoves
  <1>1. /\ UNCHANGED deviceVars
        /\ dev.phase \in {"Receiving", "Playing", "FinishedPendingAck"}
        /\ \E status \in {Taken, Gap} : net' = net \cup {EIPA(dev.id, status, dev.received)}
    BY DEF ReceiveBeginAgain, ReceiveOldData, ReceiveDataBeyondGap, Ack, Send
  <1>2. Repeats
    BY <1>1 DEF Repeats, DeviceInv, DeviceTyped, deviceVars
  <1>3. DeviceInv' /\ Quiet
    BY <1>2, RepeatKeeps
  <1>4. PICK status \in {Taken, Gap} : net' = net \cup {EIPA(dev.id, status, dev.received)}
    BY <1>1
  <1>5. PICK id, n : id = dev.id /\ n = dev.received
    OBVIOUS
  <1>6. id = dev'.id /\ id # NoIdentity /\ n \in 0..Total /\ n <= dev'.received
    BY <1>1, <1>2, <1>5, DeviceFields DEF Repeats, DeviceInv, DeviceShape
  <1>7. Truthful(EIPA(id, status, n))'
    BY <1>3, <1>6, SayAck
  <1> QED BY <1>3, <1>4, <1>5, <1>7, QuietMoves

LEMMA ReceiveCancelAckStep ==
  ASSUME DeviceInv, NEW m, ReceiveCancelAck(m)
  PROVE  DeviceInv' /\ DeviceMoves
  <1>1. Repeats /\ net' = net
    BY DEF ReceiveCancelAck, Repeats, DeviceInv, DeviceTyped, Transport, budget
  <1> QED BY <1>1, RepeatKeeps, QuietMoves

\* The transport comes to rest: the confirmed end of a playback, or the end of a
\* cancellation, with the request kept back or without one.
LEMMA EndSteps ==
  ASSUME DeviceInv, EndCancel \/ \E m \in net : ReceiveFinishedAck(m)
  PROVE  DeviceInv' /\ DeviceMoves
  <1>1. /\ UNCHANGED <<speaker, route, lives, boot, drained>> /\ Cleared
        /\ \/ dev' = Resting /\ net' = net
           \/ /\ dev.phase = "Cancelling" /\ dev.deferred # NoRequest /\ slots' = slots
              /\ dev' = AskedFor(dev.deferred) /\ net' = net \cup {EIPR(dev.deferred)}
    <2>1. CASE EndCancel
      BY <2>1 DEF EndCancel, Cleared, DeviceInv, DeviceTyped, SlotsAgree, Send, budget
    <2>2. ASSUME NEW m \in net, ReceiveFinishedAck(m)
          PROVE  /\ UNCHANGED <<speaker, route, lives, boot, drained>> /\ Cleared
                 /\ dev' = Resting /\ net' = net
      BY <2>2, DeviceFields DEF ReceiveFinishedAck, Cleared, ClearPlayback, SlotRecord, SlotPhases,
                  DeviceInv, DeviceTyped, budget
    <2> QED BY <2>1, <2>2
  <1>2. CASE dev' = Resting /\ net' = net
    <2>1. dev' \in Transport /\ dev'.phase = "Idle" /\ dev'.req = NoRequest
          /\ dev'.id = NoIdentity /\ dev'.deferred = NoRequest
      BY <1>2, DeviceFields DEF Resting, Transport, DevicePhases
    <2>2. DeviceTyped'
      BY <1>1, <2>1 DEF DeviceInv, DeviceTyped, RoutesTold, Cleared
    <2>3. DeviceKnows'
      BY <1>1, <2>1 DEF DeviceInv, DeviceKnows, Cleared, Known
    <2>4. DeviceShape' /\ SlotsAgree' /\ PlaysOverItsRoute'
      BY <1>1, <1>2, <2>1 DEF DeviceInv, DeviceShape, SlotsAgree, PlaysOverItsRoute, Cleared, Resting
    <2>5. RecordingSilencesPlayback'
      BY <1>1, <2>1 DEF DeviceInv, RecordingSilencesPlayback, Cleared, Capturing
    <2>6. Quiet
      BY <1>1, <2>1 DEF Quiet, Cleared
    <2> QED BY <1>2, <2>2, <2>3, <2>4, <2>5, <2>6, QuietMoves DEF DeviceInv
  <1>3. CASE /\ dev.phase = "Cancelling" /\ dev.deferred # NoRequest /\ slots' = slots
             /\ dev' = AskedFor(dev.deferred) /\ net' = net \cup {EIPR(dev.deferred)}
    <2>1. dev' \in Transport /\ dev'.phase = "AwaitBegin" /\ dev'.req = dev.deferred
          /\ dev'.id = NoIdentity /\ dev'.deferred = NoRequest /\ dev'.received = 0
      BY <1>3, DeviceFields DEF AskedFor, Resting, Transport, DevicePhases
    <2>2. DeviceTyped'
      BY <1>1, <2>1 DEF DeviceInv, DeviceTyped, RoutesTold, Cleared
    <2>3. DeviceKnows'
      BY <1>1, <1>3, <2>1 DEF DeviceInv, DeviceKnows, Known
    <2>4. DeviceShape' /\ SlotsAgree' /\ PlaysOverItsRoute'
      BY <1>1, <1>3, <2>1 DEF DeviceInv, DeviceShape, SlotsAgree, PlaysOverItsRoute, Cleared
    <2>5. RecordingSilencesPlayback'
      BY <1>1, <1>3, <2>1 DEF DeviceInv, RecordingSilencesPlayback, Cleared, Capturing
    <2>6. Quiet
      BY <1>1, <2>1 DEF Quiet, Cleared
    <2>7. DeviceInv'
      BY <2>2, <2>3, <2>4, <2>5 DEF DeviceInv
    <2>8. PICK r : r = dev.deferred
      OBVIOUS
    <2>9. Truthful(EIPR(r))'
      BY <1>3, <2>1, <2>7, <2>8, SayRequest
    <2> QED BY <1>3, <2>6, <2>7, <2>8, <2>9, QuietMoves
  <1> QED BY <1>1, <1>2, <1>3
-----------------------------------------------------------------------------
(* The begin, the audio and its end.                                       *)

LEMMA FinishPlayingStep ==
  ASSUME DeviceInv, FinishPlaying
  PROVE  DeviceInv' /\ DeviceMoves
  <1>1. CASE Fail
    <2>1. dev.phase = "Playing" /\ UNCHANGED <<lives, boot>>
      BY DEF FinishPlaying, budget
    <2> QED BY <1>1, <2>1, PollFail
  <1>2. CASE ~Fail
    <2>1. /\ dev.phase = "Playing" /\ speaker = "ok" /\ CanDrain(slots, dev.id)
          /\ slots' = [slots EXCEPT !.phase = "FinishedPendingAck"]
          /\ dev' = [dev EXCEPT !.phase = "FinishedPendingAck", !.tries = 0]
          /\ net' = net \cup {EIPF(dev.id)}
          /\ UNCHANGED <<speaker, route, lives, boot, drained>>
      BY <1>2 DEF FinishPlaying, SpeakerSucceeded, Drained, Send, budget
    <2>2. /\ dev' \in Transport /\ dev'.phase = "FinishedPendingAck" /\ dev'.req = dev.req
          /\ dev'.id = dev.id /\ dev'.deferred = dev.deferred /\ dev'.received = dev.received
      BY <2>1, DeviceFields DEF DeviceInv, DeviceTyped, Transport, DevicePhases
    <2>3. /\ slots' \in SlotRecord /\ slots'.phase = "FinishedPendingAck" /\ slots'.id = slots.id
          /\ slots'.next = slots.next /\ slots'.pending = slots.pending
          /\ slots'.requests = slots.requests /\ slots'.capture = slots.capture
          /\ slots.phase = "TransferComplete" /\ slots.id = dev.id
      BY <2>1, DeviceFields DEF DeviceInv, DeviceTyped, SlotRecord, SlotPhases, CanDrain, Matches
    <2>4. DeviceTyped'
      BY <2>1, <2>2, <2>3 DEF DeviceInv, DeviceTyped, RoutesTold
    <2>5. DeviceKnows'
      BY <2>1, <2>2, <2>3 DEF DeviceInv, DeviceKnows, Known
    <2>6. DeviceShape' /\ SlotsAgree' /\ PlaysOverItsRoute'
      BY <2>1, <2>2, <2>3 DEF DeviceInv, DeviceShape, SlotsAgree, PlaysOverItsRoute
    <2>7. RecordingSilencesPlayback'
      BY <2>1, <2>2, <2>3 DEF DeviceInv, RecordingSilencesPlayback, Capturing
    <2>8. DeviceInv'
      BY <2>4, <2>5, <2>6, <2>7 DEF DeviceInv
    <2>9. Quiet
      BY <2>1, <2>2, <2>3, DeviceFields DEF Quiet
    <2>10. PICK id : id = dev.id
      OBVIOUS
    <2>11. Truthful(EIPF(id))'
      BY <2>2, <2>8, <2>10, SayFinished
    <2> QED BY <2>1, <2>8, <2>9, <2>10, <2>11, QuietMoves
  <1> QED BY <1>1, <1>2

\* A begin is of the request that waits; nothing was ever acknowledged of its playback.
LEMMA BeginSteps ==
  ASSUME DeviceInv, NetTrue, NEW m \in net, ReceiveBegin(m) \/ ReceiveBeginFails(m)
  PROVE  DeviceInv' /\ DeviceMoves
  <1>1. /\ m.kind = "EIPB" /\ dev.phase = "AwaitBegin"
        /\ ~Capturing(slots) /\ slots.phase = "Idle" /\ slots.pending = RequestOf(m.id)
        /\ UNCHANGED <<speaker, route, lives, boot, drained>>
    BY DEF ReceiveBegin, ReceiveBeginFails, CanBegin, Sent, budget
  <1>2. m.id \in Identities /\ Known(m.id) /\ m.id # NoIdentity /\ RequestOf(m.id) \in Requests
        /\ RequestOf(m.id) # NoRequest /\ m.id \in KnownIdentities
    BY <1>1, LanWireSentinels
       DEF NetTrue, Truthful, RequestOf, Identities, Requests, KnownIdentities
  <1>3. m.id.conn = route
    BY <1>1, <1>2 DEF DeviceInv, DeviceKnows, RequestOf
  <1>4. dev \in Transport /\ slots \in SlotRecord
    BY DEF DeviceInv, DeviceTyped
  <1>5. /\ dev' \in Transport /\ dev'.id = m.id /\ dev'.received = 0
        /\ dev'.req = dev.req /\ dev'.deferred = dev.deferred
        /\ dev'.phase \in {"Receiving", "Cancelling"}
        /\ slots' \in SlotRecord /\ slots'.pending = NoRequest
        /\ slots'.requests = slots.requests /\ slots'.capture = slots.capture
        /\ IF dev'.phase = "Receiving"
           THEN slots'.phase = "Buffering" /\ slots'.id = m.id /\ slots'.next = 0
           ELSE slots'.phase = "Idle"
        /\ \E status \in {Taken, Abort} : net' = net \cup {EIPA(m.id, status, 0)}
    <2>1. CASE ReceiveBegin(m)
      <3>1. /\ dev' = [dev EXCEPT !.phase = "Receiving", !.id = m.id, !.received = 0]
            /\ slots' = [slots EXCEPT !.pending = NoRequest, !.phase = "Buffering",
                                      !.id = m.id, !.next = 0]
            /\ net' = net \cup {EIPA(m.id, Taken, 0)}
        BY <2>1 DEF ReceiveBegin, Begun, Send
      <3> QED BY <1>2, <1>4, <3>1, DeviceFields DEF Transport, SlotRecord, DevicePhases, SlotPhases
    <2>2. CASE ReceiveBeginFails(m)
      <3>1. /\ dev' = Failed([dev EXCEPT !.id = m.id])
            /\ slots' = ClearPlayback(Begun(slots, m.id))
            /\ net' = net \cup {EIPA(m.id, Abort, 0)}
        BY <2>2 DEF ReceiveBeginFails, Send
      <3>2. dev.received = 0
        BY <1>1 DEF DeviceInv, DeviceShape
      <3>3. PICK d : d = [dev EXCEPT !.id = m.id]
        OBVIOUS
      <3>4. d \in Transport /\ d.id = m.id /\ d.received = 0 /\ d.req = dev.req
            /\ d.deferred = dev.deferred
        BY <1>2, <1>4, <3>2, <3>3 DEF Transport
      <3>5. dev' \in Transport /\ dev'.id = m.id /\ dev'.received = 0 /\ dev'.req = dev.req
            /\ dev'.deferred = dev.deferred /\ dev'.phase = "Cancelling"
        BY <3>1, <3>3, <3>4, DeviceFields DEF Failed, Transport, DevicePhases
      <3>6. PICK s : s = [slots EXCEPT !.pending = NoRequest, !.phase = "Buffering",
                                       !.id = m.id, !.next = 0]
        OBVIOUS
      <3>7. s \in SlotRecord /\ s.pending = NoRequest /\ s.requests = slots.requests
            /\ s.capture = slots.capture
        BY <1>2, <1>4, <3>6, DeviceFields DEF SlotRecord, SlotPhases
      <3>8. slots' = [s EXCEPT !.phase = "Idle", !.id = NoIdentity, !.next = 0]
        BY <3>1, <3>6 DEF ClearPlayback, Begun
      <3>9. slots' \in SlotRecord /\ slots'.pending = NoRequest /\ slots'.requests = slots.requests
            /\ slots'.capture = slots.capture /\ slots'.phase = "Idle"
        BY <3>7, <3>8, DeviceFields DEF SlotRecord, SlotPhases
      <3> QED BY <3>1, <3>5, <3>9
    <2> QED BY <2>1, <2>2
  <1>6. DeviceTyped'
    BY <1>1, <1>5 DEF DeviceInv, DeviceTyped, RoutesTold
  <1>7. DeviceKnows'
    BY <1>1, <1>2, <1>5 DEF DeviceInv, DeviceKnows, Known
  <1>8. DeviceShape' /\ SlotsAgree' /\ PlaysOverItsRoute'
    BY <1>1, <1>2, <1>3, <1>5 DEF DeviceInv, DeviceShape, SlotsAgree, PlaysOverItsRoute
  <1>9. RecordingSilencesPlayback'
    BY <1>1, <1>5 DEF RecordingSilencesPlayback, Capturing
  <1>10. DeviceInv'
    BY <1>6, <1>7, <1>8, <1>9 DEF DeviceInv
  <1>11. \A x \in Requests \cup Identities : Known(x) => Known(x)'
    BY <1>1, <1>5 DEF Known
  <1>12. \A x \in Identities : RequestOf(x) # NoRequest
    BY LanWireSentinels DEF RequestOf, Requests, Identities
  <1>13. \A n \in net' : n \in net \/ Truthful(n)'
    <2>1. PICK status \in {Taken, Abort} : net' = net \cup {EIPA(m.id, status, 0)}
      BY <1>5
    <2>2. 0 \in 0..Total /\ 0 <= dev'.received
      BY <1>5, DeviceFields
    <2>3. PICK id : id = m.id
      OBVIOUS
    <2>4. Truthful(EIPA(id, status, 0))'
      BY <1>2, <1>5, <1>10, <2>2, <2>3, SayAck
    <2> QED BY <2>1, <2>3, <2>4
  <1> QED BY <1>1, <1>2, <1>5, <1>10, <1>11, <1>12, <1>13 DEF DeviceMoves

LEMMA DataStep ==
  ASSUME DeviceInv, NEW m \in net, ReceiveData(m)
  PROVE  DeviceInv' /\ DeviceMoves
  <1>1. PICK n \in Nat : n = dev.received + 1
    BY DeviceFields
  <1> DEFINE starts == dev.phase = "Receiving" /\ Buffered(n)
  <1>2. dev \in Transport /\ slots \in SlotRecord /\ dev.received \in 0..Total
    BY DeviceFields DEF DeviceInv, DeviceTyped
  <1>3. /\ dev.phase \in {"Receiving", "Playing"} /\ slots.phase \in {"Buffering", "Playing"}
        /\ slots.id = dev.id /\ dev.received < Total /\ dev.received = slots.next
        /\ dev' = [dev EXCEPT !.received = n, !.phase = IF starts THEN "Playing" ELSE @]
        /\ slots' = IF n = Total THEN Completed(IF starts THEN Started(FrameAccepted(slots)) ELSE FrameAccepted(slots))
                    ELSE IF starts THEN Started(FrameAccepted(slots)) ELSE FrameAccepted(slots)
        /\ speaker' = IF starts THEN "busy" ELSE speaker
        /\ net' = net \cup {EIPA(dev.id, Taken, n)}
        /\ UNCHANGED <<route, lives, boot, drained>>
    BY <1>1 DEF ReceiveData, CanAcceptFrame, Matches, Send, budget
  <1>4. n \in 0..Total /\ (n = Total => Buffered(n)) /\ n >= dev.received
    BY <1>1, <1>2, <1>3, TotalAssumption DEF Buffered
  <1>5. slots.phase = "Buffering" <=> dev.phase = "Receiving"
    BY <1>3 DEF DeviceInv, SlotsAgree
  <1> HIDE DEF starts
  <1>6. /\ dev' \in Transport /\ dev'.received = n /\ dev'.id = dev.id /\ dev'.req = dev.req
        /\ dev'.deferred = dev.deferred
        /\ dev'.phase = IF starts THEN "Playing" ELSE dev.phase
    BY <1>2, <1>3, <1>4 DEF Transport, DevicePhases
  <1>7. PICK s : s = [slots EXCEPT !.next = n]
    OBVIOUS
  <1>8. s = FrameAccepted(slots)
    BY <1>1, <1>3, <1>7 DEF FrameAccepted
  <1>9. /\ s \in SlotRecord /\ s.next = n /\ s.id = slots.id /\ s.pending = slots.pending
        /\ s.requests = slots.requests /\ s.capture = slots.capture /\ s.phase = slots.phase
    BY <1>2, <1>4, <1>7 DEF SlotRecord
  <1>10. /\ slots' \in SlotRecord /\ slots'.next = n /\ slots'.id = slots.id
         /\ slots'.pending = slots.pending
         /\ slots'.requests = slots.requests /\ slots'.capture = slots.capture
         /\ slots'.phase = IF n = Total THEN "TransferComplete"
                           ELSE IF starts THEN "Playing" ELSE slots.phase
    <2>1. PICK t : t = IF starts THEN [s EXCEPT !.phase = "Playing"] ELSE s
      OBVIOUS
    <2>2. /\ t \in SlotRecord /\ t.next = n /\ t.id = slots.id /\ t.pending = slots.pending
          /\ t.requests = slots.requests /\ t.capture = slots.capture
          /\ t.phase = IF starts THEN "Playing" ELSE slots.phase
      BY <1>9, <2>1 DEF SlotRecord, SlotPhases
    <2>3. slots' = IF n = Total THEN [t EXCEPT !.phase = "TransferComplete"] ELSE t
      BY <1>3, <1>8, <2>1 DEF Completed, Started
    <2> QED BY <2>2, <2>3 DEF SlotRecord, SlotPhases
  <1>11. (starts => dev.phase = "Receiving") /\ (n = Total /\ dev.phase = "Receiving" => starts)
    BY <1>4 DEF starts
  <1>12. DeviceTyped'
    BY <1>3, <1>6, <1>10 DEF DeviceInv, DeviceTyped, RoutesTold
  <1>13. DeviceKnows'
    BY <1>3, <1>6, <1>10 DEF DeviceInv, DeviceKnows, Known
  <1>14. DeviceShape'
    BY <1>3, <1>6, <1>11 DEF DeviceInv, DeviceShape
  <1>15. SlotsAgree' /\ PlaysOverItsRoute'
    BY <1>3, <1>5, <1>6, <1>10, <1>11 DEF DeviceInv, SlotsAgree, PlaysOverItsRoute
  <1>16. RecordingSilencesPlayback'
    BY <1>3, <1>6, <1>10 DEF DeviceInv, RecordingSilencesPlayback, Capturing
  <1>17. DeviceInv'
    BY <1>12, <1>13, <1>14, <1>15, <1>16 DEF DeviceInv
  <1>18. Quiet
    BY <1>3, <1>4, <1>6, <1>10 DEF Quiet
  <1>19. PICK id : id = dev.id
    OBVIOUS
  <1>20. id # NoIdentity /\ n <= dev'.received
    BY <1>3, <1>4, <1>6, <1>19 DEF DeviceInv, DeviceShape
  <1>21. Truthful(EIPA(id, Taken, n))'
    BY <1>4, <1>6, <1>17, <1>19, <1>20, SayAck
  <1> QED BY <1>3, <1>17, <1>18, <1>19, <1>21, QuietMoves
LEMMA DataFailsStep ==
  ASSUME DeviceInv, NetTrue, NEW m \in net, ReceiveDataFails(m)
  PROVE  DeviceInv' /\ DeviceMoves
  <1>1. PICK n \in Nat : n = dev.received + 1
    BY DeviceFields
  <1>2. dev \in Transport /\ slots \in SlotRecord /\ dev.received \in 0..Total
    BY DeviceFields DEF DeviceInv, DeviceTyped
  <1>3. /\ m.kind = "EIPD" /\ m.offset = dev.received /\ dev.phase \in {"Receiving", "Playing"}
        /\ dev' = Failed([dev EXCEPT !.received = n]) /\ slots' = ClearPlayback(slots)
        /\ UNCHANGED <<speaker, route, lives, boot, drained>>
        /\ \/ net' = net \cup {EIPA(dev.id, Abort, 0)}
           \/ net' = net \cup {EIPA(dev.id, Abort, 0), EIPA(dev.id, Taken, n)}
    BY <1>1 DEF ReceiveDataFails, NextChunk, Sent, Send
  <1>4. n \in 0..Total
    <2>1. dev.received \in 0..(Total - 1)
      BY <1>3 DEF NetTrue, Truthful
    <2> QED BY <1>1, <2>1, TotalAssumption
  <1>5. PICK d : d = [dev EXCEPT !.received = n]
    OBVIOUS
  <1>6. /\ d \in Transport /\ d.received = n /\ d.id = dev.id /\ d.req = dev.req
        /\ d.deferred = dev.deferred
    BY <1>2, <1>4, <1>5 DEF Transport
  <1>7. /\ dev' \in Transport /\ dev'.received = n /\ dev'.id = dev.id /\ dev'.req = dev.req
        /\ dev'.deferred = dev.deferred /\ dev'.phase = "Cancelling"
    BY <1>3, <1>5, <1>6, DeviceFields DEF Failed, Transport, DevicePhases
  <1>8. Cleared
    BY <1>2, <1>3, DeviceFields DEF Cleared, ClearPlayback, SlotRecord, SlotPhases
  <1>9. DeviceTyped'
    BY <1>3, <1>7, <1>8 DEF DeviceInv, DeviceTyped, RoutesTold, Cleared
  <1>10. DeviceKnows'
    BY <1>3, <1>7, <1>8 DEF DeviceInv, DeviceKnows, Cleared, Known
  <1>11. DeviceShape' /\ SlotsAgree' /\ PlaysOverItsRoute'
    BY <1>3, <1>7, <1>8 DEF DeviceInv, DeviceShape, SlotsAgree, PlaysOverItsRoute, Cleared
  <1>12. RecordingSilencesPlayback'
    BY <1>3, <1>7, <1>8 DEF DeviceInv, RecordingSilencesPlayback, Cleared, Capturing
  <1>13. DeviceInv'
    BY <1>9, <1>10, <1>11, <1>12 DEF DeviceInv
  <1>14. Quiet
    BY <1>1, <1>2, <1>3, <1>7, <1>8 DEF Quiet, Cleared
  <1>15. PICK id : id = dev.id
    OBVIOUS
  <1>16. id # NoIdentity /\ id = dev'.id /\ n <= dev'.received /\ 0 <= dev'.received
         /\ 0 \in 0..Total
    BY <1>3, <1>4, <1>7, <1>15, DeviceFields DEF DeviceInv, DeviceShape
  <1>17. Truthful(EIPA(id, Taken, n))' /\ Truthful(EIPA(id, Abort, 0))'
    BY <1>4, <1>13, <1>16, SayAck
  <1> QED BY <1>3, <1>13, <1>14, <1>15, <1>17, QuietMoves

-----------------------------------------------------------------------------
(* Keys, routes and power.                                                 *)

\* A request that is made now is none that was known before.
LEMMA NewRequest ==
  ASSUME DeviceInv, route # 0, NEW k \in Slot, slots.requests < MaxPresses,
         NEW r, r = NextRequest(slots, k, route)
  PROVE  /\ r \in Requests /\ r # NoRequest /\ r \in PendingRequests
         /\ r.conn = route /\ r.gen = slots.requests + 1 /\ r.conn \in 1..Len(lives)
         /\ \A x \in Identities : Known(x) => RequestOf(x) # r
  <1>1. slots.requests \in Nat /\ route \in Nat /\ Len(lives) \in Nat /\ route \in 1..Len(lives)
    BY DeviceFields, DeviceBounds
  <1>2. r = [slot |-> k, gen |-> slots.requests + 1, conn |-> route]
    BY DEF NextRequest
  <1>3. PICK g \in Nat : g = slots.requests + 1
    BY <1>1
  <1>4. r \in Requests /\ r.conn = route /\ r.gen = g
    BY <1>1, <1>2, <1>3 DEF Requests
  <1>5. ASSUME NEW x \in Identities, Known(x) PROVE RequestOf(x) # r
    <2>1. RequestOf(x).gen = x.gen /\ RequestOf(x).conn = x.conn /\ x.gen \in Nat
      BY DEF RequestOf, Identities
    <2>2. x.conn = route => x.gen <= slots.requests
      BY <1>5 DEF Known, DeviceInv, DeviceTyped, RoutesTold
    <2> QED BY <1>1, <1>3, <1>4, <2>1, <2>2
  <1> QED BY <1>1, <1>3, <1>4, <1>5, LanWireSentinels DEF PendingRequests

LEMMA PressPttStep ==
  ASSUME DeviceInv, NEW k \in Slot, PressPtt(k)
  PROVE  DeviceInv' /\ DeviceMoves
  <1>1. route # 0
    <2>1. slots.phase # "Idle" => slots.id = dev.id /\ dev.id # NoIdentity /\ slots.id.conn = route
      BY DEF DeviceInv, SlotsAgree, DeviceShape, PlaysOverItsRoute
    <2>2. slots.phase # "Idle" => dev.id.conn \in 1..Len(lives)
      BY <2>1 DEF DeviceInv, DeviceKnows, Known
    <2> QED BY <2>1, <2>2, DeviceFields DEF PressPtt
  <1>2. /\ slots' = PttPressed(slots, k, route) /\ Preempt(NoIdentity)
        /\ UNCHANGED <<speaker, route, lives, boot, drained>>
    BY <1>1 DEF PressPtt
  <1>3. dev \in Transport /\ slots \in SlotRecord /\ route \in 1..MaxRoutes
    BY <1>1, DeviceFields, DeviceBounds DEF DeviceInv, DeviceTyped
  <1>4. /\ slots' \in SlotRecord /\ slots'.phase = "Idle" /\ slots'.pending = NoRequest
        /\ slots'.requests = slots.requests
    <2>1. PICK s : s = ClearPlayback(slots)
      OBVIOUS
    <2>2. s \in SlotRecord /\ s.phase = "Idle" /\ s.requests = slots.requests
      BY <1>3, <2>1, DeviceFields DEF ClearPlayback, SlotRecord, SlotPhases
    <2>3. slots' = [s EXCEPT !.pending = NoRequest, !.capture = [slot |-> k, conn |-> route]]
      BY <1>2, <2>1 DEF PttPressed
    <2> QED BY <1>3, <2>2, <2>3, DeviceFields DEF SlotRecord
  <1>5. /\ dev' \in Transport /\ dev'.phase \in {"Idle", "Cancelling"} /\ dev'.id = dev.id
        /\ dev'.received = dev.received /\ dev'.req = dev.req /\ dev'.deferred = NoRequest
        /\ dev'.phase = "Idle" => dev' = Resting
        /\ net' = net \/ net' = net \cup AbortNotice
    <2>1. CASE dev.phase = "Idle"
      BY <1>2, <1>3, <2>1 DEF Preempt, DeviceInv, DeviceShape, Resting
    <2>2. CASE dev.phase # "Idle"
      <3>1. /\ dev' = [dev EXCEPT !.phase = "Cancelling", !.tries = 0,
                                  !.acked = FALSE, !.deferred = NoRequest]
            /\ net' = net \cup AbortNotice
        BY <1>2, <2>2 DEF Preempt, Send
      <3> QED BY <1>3, <3>1, DeviceFields DEF Transport, DevicePhases
    <2> QED BY <2>1, <2>2
  <1>6. DeviceTyped'
    BY <1>2, <1>4, <1>5 DEF DeviceInv, DeviceTyped, RoutesTold
  <1>7. DeviceKnows'
    <2>1. dev.id # NoIdentity => RequestOf(dev.id) # NoRequest
      BY DeviceFields, LanWireSentinels DEF KnownIdentities, RequestOf, Requests, Identities
    <2> QED BY <1>2, <1>4, <1>5, <2>1 DEF DeviceInv, DeviceKnows, Known
  <1>8. DeviceShape' /\ SlotsAgree' /\ PlaysOverItsRoute'
    BY <1>2, <1>4, <1>5 DEF DeviceInv, DeviceShape, SlotsAgree, PlaysOverItsRoute
  <1>9. RecordingSilencesPlayback'
    BY <1>4, <1>5 DEF RecordingSilencesPlayback
  <1>10. DeviceInv'
    BY <1>6, <1>7, <1>8, <1>9 DEF DeviceInv
  <1>11. Quiet
    BY <1>2, <1>4, <1>5, DeviceFields DEF Quiet
  <1> QED BY <1>5, <1>10, <1>11, SayAbort, QuietMoves

LEMMA ReleasePttStep ==
  ASSUME DeviceInv, ReleasePtt
  PROVE  DeviceInv' /\ DeviceMoves
  <1>1. /\ slots' \in SlotRecord /\ slots'.phase = slots.phase /\ slots'.pending = slots.pending
        /\ slots'.requests = slots.requests /\ slots'.id = slots.id /\ slots'.next = slots.next
        /\ slots'.capture = NoCapture
        /\ UNCHANGED <<dev, speaker, route, lives, boot, drained, net>>
    BY DEF ReleasePtt, PttReleased, budget, DeviceInv, DeviceTyped, SlotRecord
  <1>2. DeviceTyped'
    BY <1>1 DEF DeviceInv, DeviceTyped, RoutesTold
  <1>3. DeviceKnows'
    BY <1>1 DEF DeviceInv, DeviceKnows, Known
  <1>4. DeviceShape' /\ SlotsAgree' /\ PlaysOverItsRoute'
    BY <1>1 DEF DeviceInv, DeviceShape, SlotsAgree, PlaysOverItsRoute
  <1>5. RecordingSilencesPlayback'
    BY <1>1 DEF RecordingSilencesPlayback, Capturing
  <1>6. Quiet
    BY <1>1, DeviceFields DEF Quiet
  <1> QED BY <1>1, <1>2, <1>3, <1>4, <1>5, <1>6, QuietMoves DEF DeviceInv

LEMMA PressPlaySteps ==
  ASSUME DeviceInv, NEW k \in Slot, PressPlay(k) \/ PressPlayInVain(k)
  PROVE  DeviceInv' /\ DeviceMoves
  <1>1. PICK r : r = NextRequest(slots, k, route)
    OBVIOUS
  <1>2. /\ route # 0 /\ ~Capturing(slots) /\ slots.requests < MaxPresses
        /\ slots' = PlayPressed(slots, k, route) /\ UNCHANGED <<speaker, route, lives, boot, drained>>
    BY DEF PressPlay, PressPlayInVain, PlayAccepted, budget
  <1>3. /\ r \in Requests /\ r # NoRequest /\ r \in PendingRequests
        /\ r.conn = route /\ r.gen = slots.requests + 1 /\ r.conn \in 1..Len(lives)
        /\ \A x \in Identities : Known(x) => RequestOf(x) # r
    BY <1>1, <1>2, NewRequest
  <1>4. dev \in Transport /\ slots \in SlotRecord
    BY DEF DeviceInv, DeviceTyped
  <1>5. PICK g \in 0..MaxPresses : g = slots.requests + 1
    BY <1>2, DeviceFields, DeviceBounds
  <1>6. /\ slots' \in SlotRecord /\ slots'.phase = "Idle" /\ slots'.pending = r
        /\ slots'.requests = g /\ slots'.capture = NoCapture
    <2>1. PICK s : s = ClearPlayback(slots)
      OBVIOUS
    <2>2. s \in SlotRecord /\ s.phase = "Idle" /\ s.requests = slots.requests
          /\ s.capture = NoCapture
      BY <1>2, <1>4, <2>1, DeviceFields DEF ClearPlayback, SlotRecord, SlotPhases, Capturing
    <2>3. slots' = [s EXCEPT !.pending = r, !.requests = g]
      BY <1>1, <1>2, <1>5, <2>1, <2>2 DEF PlayPressed
    <2> QED BY <1>3, <1>5, <2>2, <2>3 DEF SlotRecord
  <1>7. \A x \in Requests \cup Identities : Known(x) => Known(x)'
    <2>1. \A x \in Requests \cup Identities : x.gen \in Nat
      BY DEF Requests, Identities
    <2> QED BY <1>2, <1>5, <1>6, <2>1, DeviceFields DEF Known
  <1>8. Known(r)'
    BY <1>2, <1>3, <1>5, <1>6 DEF Known
  <1>9. /\ dev' \in Transport /\ dev'.phase \in {"Idle", "AwaitBegin", "Cancelling"}
        /\ dev'.req \in {dev.req, r, NoRequest} /\ dev'.deferred \in {r, NoRequest}
        /\ \/ dev'.id = NoIdentity
           \/ dev'.id = dev.id /\ dev'.received = dev.received
        /\ dev'.phase = "Idle" => dev' = Resting
        /\ dev'.phase = "AwaitBegin" => /\ dev'.req = r /\ dev'.deferred = NoRequest
                                        /\ dev'.id = NoIdentity /\ dev'.received = 0
        /\ \/ net' = net
           \/ net' = net \cup {EIPR(r)} /\ dev'.req = r
           \/ net' = net \cup AbortNotice /\ dev'.id = dev.id
    <2>1. CASE PressPlay(k) /\ dev.phase \in {"Idle", "AwaitBegin"}
      <3>1. dev' = AskedFor(r) /\ net' = net \cup {EIPR(r)}
        BY <1>1, <2>1 DEF PressPlay, Send
      <3> QED BY <1>3, <3>1, DeviceFields DEF AskedFor, Resting, Transport, DevicePhases
    <2>2. CASE PressPlay(k) /\ dev.phase = "Cancelling"
      <3>1. dev' = [dev EXCEPT !.deferred = r] /\ net' = net
        BY <1>1, <2>2 DEF PressPlay
      <3> QED BY <1>3, <1>4, <2>2, <3>1 DEF Transport
    <2>3. CASE PressPlay(k) /\ dev.phase \notin {"Idle", "AwaitBegin", "Cancelling"}
      <3>1. /\ dev' = [dev EXCEPT !.phase = "Cancelling", !.tries = 0, !.acked = FALSE,
                                  !.deferred = r]
            /\ net' = net \cup AbortNotice
        BY <1>1, <2>3 DEF PressPlay, Send
      <3> QED BY <1>3, <1>4, <3>1, DeviceFields DEF Transport, DevicePhases
    <2>4. CASE PressPlayInVain(k)
      <3>1. dev' = Resting /\ net' = net
        BY <2>4 DEF PressPlayInVain
      <3> QED BY <3>1, DeviceFields DEF Resting, Transport, DevicePhases
    <2> QED BY <2>1, <2>2, <2>3, <2>4
  <1>10. DeviceTyped'
    BY <1>2, <1>6, <1>9 DEF DeviceInv, DeviceTyped, RoutesTold
  <1>11. DeviceKnows'
    <2>1. dev'.req # NoRequest => Known(dev.req)'
      <3>1. PICK q : q = dev'.req
        OBVIOUS
      <3>2. q # NoRequest => Known(q)'
        BY <1>7, <1>8, <1>9, <3>1, DeviceFields DEF DeviceInv, DeviceKnows, PendingRequests
      <3> QED BY <3>1, <3>2 DEF Known
    <2>2. dev'.deferred # NoRequest => Known(dev.deferred)'
      BY <1>8, <1>9 DEF Known
    <2>3. dev'.id # NoIdentity => Known(dev.id)' /\ RequestOf(dev'.id) # r
      <3>1. PICK q : q = dev'.id
        OBVIOUS
      <3>2. q # NoIdentity => q \in Identities /\ Known(q) /\ Known(q)'
        BY <1>7, <1>9, <3>1, DeviceFields DEF DeviceInv, DeviceKnows, KnownIdentities
      <3> QED BY <1>3, <3>1, <3>2 DEF Known
    <2> QED BY <1>2, <1>3, <1>6, <1>8, <2>1, <2>2, <2>3 DEF DeviceKnows, Known
  <1>12. DeviceShape' /\ SlotsAgree' /\ PlaysOverItsRoute'
    BY <1>2, <1>3, <1>6, <1>9 DEF DeviceInv, DeviceShape, SlotsAgree, PlaysOverItsRoute
  <1>13. RecordingSilencesPlayback'
    BY <1>6 DEF RecordingSilencesPlayback, Capturing
  <1>14. DeviceInv'
    BY <1>10, <1>11, <1>12, <1>13 DEF DeviceInv
  <1>15. \A m \in net' : m \in net \/ Truthful(m)'
    BY <1>3, <1>9, <1>14, SayAbort, SayRequest
  <1>16. dev'.id = NoIdentity \/ (dev'.id = dev.id /\ dev'.received >= dev.received)
    BY <1>9, DeviceFields
  <1> QED BY <1>2, <1>3, <1>6, <1>7, <1>14, <1>15, <1>16 DEF DeviceMoves

\* A new route adds a lifetime of this boot.
LEMMA RerouteStep ==
  ASSUME DeviceInv, Reroute
  PROVE  DeviceInv' /\ DeviceMoves
  <1>1. dev \in Transport /\ slots \in SlotRecord /\ Len(lives) \in 1..MaxRoutes /\ route \in 0..Len(lives)
    BY DEF DeviceInv, DeviceTyped
  <1>2. /\ UNCHANGED <<speaker, drained>> /\ Len(lives') \in 1..MaxRoutes /\ route' \in 0..Len(lives')
        /\ Len(lives') >= Len(lives) /\ boot' = boot /\ RoutesTold'
        /\ \A c \in 1..Len(lives) : lives'[c] = lives[c]
    <2>1. RoutesTold
      BY DEF DeviceInv, DeviceTyped
    <2>2. UNCHANGED <<speaker, drained, boot>>
      BY DEF Reroute
    <2>3. CASE LoseRoute
      BY <1>1, <2>1, <2>2, <2>3 DEF LoseRoute, RoutesTold
    <2>4. ASSUME NEW g \in Generations, FindRoute(g)
          PROVE  /\ Len(lives') \in 1..MaxRoutes /\ route' \in 0..Len(lives')
                 /\ Len(lives') >= Len(lives) /\ RoutesTold'
                 /\ \A c \in 1..Len(lives) : lives'[c] = lives[c]
      <3>1. PICK l \in Lives : l = [boot |-> boot, generation |-> g]
        BY <2>1 DEF RoutesTold, Lives
      <3>2. lives' = Append(lives, l) /\ route' = Len(lives) + 1 /\ Len(lives) < MaxRoutes
        BY <2>4, <3>1 DEF FindRoute, routes
      <3>3. /\ lives' \in Seq(Lives) /\ Len(lives') = Len(lives) + 1
            /\ \A c \in 1..Len(lives) : lives'[c] = lives[c]
            /\ lives'[Len(lives) + 1] = l
        BY <2>1, <3>2, AppendProperties DEF RoutesTold
      <3>4. \A c \in 1..Len(lives') : lives'[c].boot \in 0..boot
        BY <1>1, <2>1, <3>1, <3>3, DeviceBounds DEF RoutesTold
      <3> QED BY <1>1, <2>1, <2>2, <3>1, <3>2, <3>3, <3>4, DeviceBounds DEF RoutesTold
    <2> QED BY <1>1, <2>2, <2>3, <2>4 DEF Reroute, LoseRoute
  <1>3. \A x \in Requests \cup Identities : slots'.requests = slots.requests /\ Known(x) => Known(x)'
    BY <1>1, <1>2, DeviceBounds DEF Known
  <1>4. slots.phase # "Idle" => /\ slots.id = dev.id /\ slots.id.conn = route /\ route # 0
                                /\ dev.phase # "Idle"
    <2>1. slots.phase # "Idle" => /\ slots.id = dev.id /\ dev.id # NoIdentity
                                  /\ slots.id.conn = route /\ dev.phase # "Idle"
      BY DEF DeviceInv, SlotsAgree, DeviceShape, PlaysOverItsRoute
    <2>2. slots.phase # "Idle" => dev.id.conn \in 1..Len(lives)
      BY <2>1 DEF DeviceInv, DeviceKnows, Known
    <2> QED BY <1>1, <2>1, <2>2
  <1>5. slots.pending # NoRequest => slots.pending.conn = route /\ route # 0
    BY <1>1 DEF DeviceInv, DeviceKnows, Known
  <1>6. /\ slots' \in SlotRecord /\ slots'.phase = "Idle" /\ slots'.pending = NoRequest
        /\ slots'.requests = slots.requests /\ slots'.capture \in {slots.capture, NoCapture}
    <2>1. CASE route = 0
      BY <1>1, <1>4, <1>5, <2>1 DEF Reroute
    <2>2. CASE route # 0
      <3>1. PICK t : t = IF slots.phase # "Idle" THEN ClearPlayback(slots) ELSE slots
        OBVIOUS
      <3>2. /\ t \in SlotRecord /\ t.phase = "Idle" /\ t.pending = slots.pending
            /\ t.requests = slots.requests /\ t.capture = slots.capture
        BY <1>1, <3>1, DeviceFields DEF ClearPlayback, SlotRecord, SlotPhases
      <3>3. PICK c : c = IF t.capture # NoCapture /\ t.capture.conn = route THEN NoCapture
                         ELSE t.capture
        OBVIOUS
      <3>4. slots' = [t EXCEPT !.capture = c, !.pending = NoRequest]
        BY <1>4, <1>5, <2>2, <3>1, <3>2, <3>3 DEF Reroute, Disconnected, SlotRecord
      <3> QED BY <3>2, <3>3, <3>4, DeviceFields DEF SlotRecord
    <2> QED BY <2>1, <2>2
  <1>7. \/ slots.phase = "Idle" /\ dev' = dev /\ net' = net
        \/ /\ dev' = [dev EXCEPT !.phase = "Cancelling", !.tries = 0,
                                 !.acked = FALSE, !.deferred = NoRequest]
           /\ net' = net \cup AbortNotice
    BY <1>4, <1>6 DEF Reroute, Preempt, Send
  <1>8. /\ dev' \in Transport /\ dev'.id = dev.id /\ dev'.received = dev.received
        /\ dev'.req = dev.req /\ dev'.deferred \in {dev.deferred, NoRequest}
        /\ dev' # dev => dev'.phase = "Cancelling"
        /\ dev'.phase \notin {"Receiving", "Playing", "FinishedPendingAck"}
    BY <1>1, <1>7, DeviceFields DEF Transport, DevicePhases, DeviceInv, SlotsAgree
  <1>9. DeviceTyped'
    BY <1>2, <1>6, <1>8 DEF DeviceInv, DeviceTyped, RoutesTold
  <1>10. DeviceKnows'
    <2>1. ASSUME NEW x \in Requests \cup Identities, Known(x) PROVE Known(x)'
      BY <1>3, <1>6, <2>1
    <2>2. PICK q, e, d : q = dev.req /\ e = dev.deferred /\ d = dev.id
      OBVIOUS
    <2>3. /\ q # NoRequest => Known(q)'
          /\ e # NoRequest => Known(e)'
          /\ d # NoIdentity => d \in Identities /\ Known(d)'
      BY <2>1, <2>2, DeviceFields DEF DeviceInv, DeviceKnows, PendingRequests, KnownIdentities
    <2>4. d # NoIdentity => RequestOf(d) # NoRequest
      BY <2>3, LanWireSentinels DEF RequestOf, Requests, Identities
    <2> QED BY <1>6, <1>8, <2>2, <2>3, <2>4 DEF DeviceKnows, Known
  <1>11. DeviceShape' /\ SlotsAgree' /\ PlaysOverItsRoute'
    BY <1>2, <1>6, <1>8 DEF DeviceInv, DeviceShape, SlotsAgree, PlaysOverItsRoute
  <1>12. RecordingSilencesPlayback'
    BY <1>6, <1>7, <1>8 DEF DeviceInv, RecordingSilencesPlayback, Capturing
  <1>13. DeviceInv'
    BY <1>9, <1>10, <1>11, <1>12 DEF DeviceInv
  <1>14. \A m \in net' : m \in net \/ Truthful(m)'
    BY <1>7, <1>8, <1>13, SayAbort
  <1>15. \A x \in Identities : RequestOf(x) # slots'.pending
    BY <1>6, LanWireSentinels DEF RequestOf, Requests, Identities
  <1> QED BY <1>2, <1>3, <1>6, <1>8, <1>13, <1>14, <1>15, DeviceFields DEF DeviceMoves

LEMMA RebootStep ==
  ASSUME DeviceInv, Reboot
  PROVE  DeviceInv' /\ DeviceMoves
  <1>1. /\ dev' = Resting /\ slots' = SlotsInit /\ speaker' = "quiet" /\ route' = 0
        /\ boot' = boot + 1 /\ UNCHANGED <<lives, drained, net>>
    BY DEF Reboot
  <1>2. /\ dev' \in Transport /\ dev'.phase = "Idle" /\ dev'.req = NoRequest
        /\ dev'.id = NoIdentity /\ dev'.deferred = NoRequest
        /\ slots' \in SlotRecord /\ slots'.phase = "Idle" /\ slots'.pending = NoRequest
        /\ slots'.capture = NoCapture
    BY <1>1, DeviceFields, DeviceBounds
       DEF Resting, SlotsInit, Transport, SlotRecord, DevicePhases, SlotPhases
  <1>3. DeviceTyped' /\ DeviceKnows'
    <2>1. RoutesTold'
      BY <1>1 DEF DeviceInv, DeviceTyped, RoutesTold
    <2> QED BY <1>1, <1>2, <2>1, DeviceFields DEF DeviceTyped, DeviceKnows
  <1>4. DeviceShape' /\ SlotsAgree' /\ PlaysOverItsRoute' /\ RecordingSilencesPlayback'
    BY <1>1, <1>2
       DEF DeviceShape, SlotsAgree, PlaysOverItsRoute, RecordingSilencesPlayback, Capturing
  <1>5. \A x \in Requests \cup Identities : Known(x) => Known(x)'
    BY <1>1, DeviceFields DEF Known, DeviceInv, DeviceTyped, RoutesTold
  <1>6. \A x \in Identities : RequestOf(x) # slots'.pending
    BY <1>2, LanWireSentinels DEF RequestOf, Requests, Identities
  <1> QED BY <1>1, <1>2, <1>3, <1>4, <1>5, <1>6 DEF DeviceInv, DeviceMoves
LEMMA DeviceStepKeeps ==
  ASSUME LanInv, DeviceStep
  PROVE  LanInv'
  <1>1. DeviceInv /\ NetTrue /\ DeviceNext /\ UNCHANGED hostVars
    BY DEF LanInv, DeviceStep
  <1> SUFFICES DeviceInv' /\ DeviceMoves
    BY <1>1, DeviceMovesOn
  <1>2. ASSUME NEW k \in Slot, PressPtt(k) \/ PressPlay(k) \/ PressPlayInVain(k)
        PROVE  DeviceInv' /\ DeviceMoves
    BY <1>1, <1>2, PressPttStep, PressPlaySteps
  <1>3. CASE ReleasePtt
    BY <1>1, <1>3, ReleasePttStep
  <1>4. CASE Reroute
    BY <1>1, <1>4, RerouteStep
  <1>5. CASE Reboot
    BY <1>1, <1>5, RebootStep
  <1>6. CASE DeviceReceives
    <2>1. PICK m \in net :
            \/ ReceiveBegin(m) \/ ReceiveBeginFails(m) \/ ReceiveBeginAgain(m)
            \/ ReceiveData(m) \/ ReceiveDataFails(m) \/ ReceiveOldData(m)
            \/ ReceiveDataBeyondGap(m)
            \/ ReceiveFinishedAck(m) \/ ReceiveCancelAck(m)
      BY <1>6 DEF DeviceReceives
    <2> QED BY <1>1, <2>1, BeginSteps, AnswerSteps, DataStep, DataFailsStep, EndSteps,
               ReceiveCancelAckStep
  <1>7. CASE DevicePolls \/ SocketFails
    <2>1. CASE BeginTimeout \/ DataTimeout \/ FinishedTimeout \/ SocketFails
      <3>1. /\ Fail /\ UNCHANGED <<lives, boot>>
            /\ dev.phase \in {"AwaitBegin", "Receiving", "Playing", "FinishedPendingAck"}
        BY <2>1 DEF BeginTimeout, DataTimeout, FinishedTimeout, SocketFails, budget
      <3> QED BY <1>1, <3>1, PollFail
    <2>2. CASE RetryRequest \/ RetryFinished \/ RetryCancel
      BY <1>1, <2>2, RetrySteps
    <2>3. CASE FinishPlaying
      BY <1>1, <2>3, FinishPlayingStep
    <2>4. CASE EndCancel
      BY <1>1, <2>4, EndSteps
    <2> QED BY <1>7, <2>1, <2>2, <2>3, <2>4 DEF DevicePolls
  <1>8. CASE SpeakerEnds \/ SpeakerBreaks \/ SpeakerStops
    BY <1>1, <1>8, SpeakerSteps
  <1> QED BY <1>1, <1>2, <1>3, <1>4, <1>5, <1>6, <1>7, <1>8 DEF DeviceNext
-----------------------------------------------------------------------------
(* Steps of the Host: the keyboard stays as it is.                         *)

LEMMA HostStill ==
  ASSUME LanInv, UNCHANGED deviceVars
  PROVE  /\ DeviceInv' /\ \A x : Known(x)' <=> Known(x)
         /\ \A m : Truthful(m) => Truthful(m)'
         /\ leases' >= leases /\ leases' \in Nat => \A x : Leased(x) => Leased(x)'
  <1>1. UNCHANGED <<dev, slots, speaker, route, lives, boot, drained>>
    BY DEF deviceVars
  <1>2. DeviceInv'
    BY <1>1 DEF LanInv, DeviceInv, DeviceTyped, RoutesTold, DeviceKnows, DeviceShape, SlotsAgree,
                PlaysOverItsRoute, RecordingSilencesPlayback, Known
  <1>3. \A x : Known(x)' <=> Known(x)
    BY <1>1 DEF Known
  <1>4. \A m : Truthful(m) => Truthful(m)'
    BY <1>1, <1>3 DEF Truthful
  <1>5. leases' >= leases /\ leases' \in Nat => \A x : Leased(x) => Leased(x)'
    BY <1>3 DEF Leased, LanInv, HostTrue
  <1> QED BY <1>2, <1>3, <1>4, <1>5

\* The first element and the rest of a queue, and a queue with one element more.
LEMMA QueueTail ==
  ASSUME NEW S, NEW q \in Seq(S), q # <<>>
  PROVE  /\ Tail(q) \in Seq(S) /\ Len(q) \in Nat \ {0} /\ DOMAIN q = 1..Len(q)
         /\ DOMAIN Tail(q) = 1..(Len(q) - 1) /\ Len(Tail(q)) = Len(q) - 1
         /\ \A i \in 1..(Len(q) - 1) : Tail(q)[i] = q[i + 1]
         /\ Head(q) = q[1] /\ Head(q) \in S /\ 1 \in DOMAIN q
  <1>1. Len(q) \in Nat /\ DOMAIN q = 1..Len(q) /\ Len(q) # 0
    BY LenProperties, EmptySeq
  <1>2. /\ Head(q) \in S /\ Tail(q) \in Seq(S) /\ Len(Tail(q)) = Len(q) - 1
        /\ \A i \in 1..Len(Tail(q)) : Tail(q)[i] = q[i + 1]
    BY HeadTailProperties
  <1>3. DOMAIN Tail(q) = 1..Len(Tail(q))
    BY <1>2, LenProperties
  <1>4. Head(q) = q[1]
    BY <1>1
  <1> QED BY <1>1, <1>2, <1>3, <1>4

LEMMA QueueAppend ==
  ASSUME NEW S, NEW q \in Seq(S), NEW x \in S
  PROVE  /\ Append(q, x) \in Seq(S) /\ Len(q) \in Nat /\ DOMAIN q = 1..Len(q)
         /\ DOMAIN Append(q, x) = 1..(Len(q) + 1) /\ Append(q, x)[Len(q) + 1] = x
         /\ Len(Append(q, x)) = Len(q) + 1
         /\ \A i \in 1..Len(q) : Append(q, x)[i] = q[i]
  <1>1. Len(q) \in Nat /\ DOMAIN q = 1..Len(q)
    BY LenProperties
  <1>2. /\ Append(q, x) \in Seq(S) /\ Len(Append(q, x)) = Len(q) + 1
        /\ Append(q, x)[Len(q) + 1] = x
        /\ \A i \in 1..Len(q) : Append(q, x)[i] = q[i]
    BY AppendProperties
  <1>3. DOMAIN Append(q, x) = 1..Len(Append(q, x))
    BY <1>2, LenProperties
  <1> QED BY <1>1, <1>2, <1>3

LEMMA EventsAppended ==
  ASSUME LanInv, UNCHANGED <<deviceVars, leases>>, NEW e \in Event, EventTrue(e),
         events' = Append(events, e)
  PROVE  /\ EventsTrue' /\ Len(events) \in Nat /\ DOMAIN events = 1..Len(events)
         /\ DOMAIN events' = 1..(Len(events) + 1) /\ events'[Len(events) + 1] = e
         /\ \A i \in 1..Len(events) : events'[i] = events[i]
  <1>1. events \in Seq(Event) /\ \A i \in DOMAIN events : EventTrue(events[i])
    BY DEF LanInv, HostTrue, EventsTrue
  <1>2. /\ events' \in Seq(Event) /\ Len(events) \in Nat /\ DOMAIN events = 1..Len(events)
        /\ DOMAIN events' = 1..(Len(events) + 1) /\ events'[Len(events) + 1] = e
        /\ \A i \in 1..Len(events) : events'[i] = events[i]
    BY <1>1, QueueAppend
  <1>3. \A x : EventTrue(x) => EventTrue(x)'
    <2>1. leases' >= leases /\ leases' \in Nat
      BY DEF LanInv, HostTrue
    <2> QED BY <2>1, HostStill DEF EventTrue, deviceVars
  <1>4. (\A i \in DOMAIN events : EventTrue(events[i]))'
    <2> SUFFICES ASSUME NEW i \in DOMAIN events' PROVE EventTrue(events[i])'
      OBVIOUS
    <2>1. PICK x : x = events'[i]
      OBVIOUS
    <2>2. i \in 1..Len(events) \/ i = Len(events) + 1
      BY <1>2
    <2>3. EventTrue(x)
      BY <1>1, <1>2, <2>1, <2>2
    <2> QED BY <1>3, <2>1, <2>3 DEF EventTrue, Leased, Known
  <1> QED BY <1>2, <1>4 DEF EventsTrue

\* The transfer goes on, or ends.
Follows == \/ transfer' = NoTransfer
           \/ transfer # NoTransfer /\ transfer'.id = transfer.id

\* The daemon's side stays as it is.
DaemonStill == UNCHANGED <<commands, active, leases, heard>>

LEMMA DaemonStillTrue ==
  ASSUME LanInv, UNCHANGED deviceVars, DaemonStill, Follows, EventsTrue',
         floors' = floors \/ (floors' \subseteq Requests /\ \A f \in floors' : Known(f))
  PROVE  HostTrue'
  <1>1. leases' \in Nat /\ leases' >= leases
    BY DEF DaemonStill, LanInv, HostTrue
  <1>2. (\A x : Leased(x) => Leased(x)') /\ \A x : Known(x)' <=> Known(x)
    BY <1>1, HostStill
  <1>3. CommandsTrue'
    <2> SUFFICES ASSUME NEW i \in DOMAIN commands' PROVE Leased(commands[i].id)'
      BY DEF CommandsTrue, DaemonStill, LanInv, HostTrue
    <2>1. PICK x : x = commands[i].id
      OBVIOUS
    <2>2. Leased(x)'
      BY <1>2, <2>1 DEF DaemonStill, LanInv, HostTrue, CommandsTrue
    <2> QED BY <2>1, <2>2 DEF DaemonStill
  <1>4. ActiveTrue'
    BY <1>2 DEF ActiveTrue, DaemonStill, LanInv, HostTrue
  <1>5. transfer' # NoTransfer => Leased(transfer.id)'
    <2>1. PICK x : x = transfer.id
      OBVIOUS
    <2>2. transfer # NoTransfer => Leased(x)'
      BY <1>2, <2>1 DEF LanInv, HostTrue
    <2> QED BY <2>1, <2>2 DEF Follows, Leased, Known
  <1> QED BY <1>1, <1>2, <1>3, <1>4, <1>5 DEF HostTrue, DaemonStill, LanInv, deviceVars
-----------------------------------------------------------------------------
(* The ingress thread: datagrams and time.                                 *)

\* Only ends of the transfer in progress are added to the events.
EndsAdded ==
  /\ Len(events) \in Nat /\ DOMAIN events = 1..Len(events)
  /\ \A i \in DOMAIN events : i \in DOMAIN events' /\ events'[i] = events[i]
  /\ \A i \in DOMAIN events' : i \in DOMAIN events \/
       /\ i \in Nat /\ i > Len(events)
       /\ events'[i].kind # "Request" => transfer # NoTransfer /\ events'[i].id = transfer.id
       /\ events'[i].kind = "Request" => transfer' = NoTransfer

\* Whatever the transfer is told as its end, the threads go on agreeing: a request that is
\* queued after it finds no transfer.
LEMMA ThreadStill ==
  ASSUME ThreadsAgree, DaemonStill, Follows, EndsAdded
  PROVE  ThreadsAgree'
  <1>1. commands' = commands /\ active' = active
    BY DEF DaemonStill
  <1>2. ASSUME NEW p \in 0..Len(commands)', Live(p)' PROVE Live(p) /\ LiveId(p)' = LiveId(p)
    BY <1>1, <1>2 DEF Live, LiveId, Follows
  <1>3. CancelledBefore'
    BY <1>1, <1>2 DEF ThreadsAgree, CancelledBefore, CancelsAt
  <1>4. CancelledOrActive'
    <2> SUFFICES ASSUME transfer' # NoTransfer, NEW e \in DOMAIN events',
                        events'[e].kind = "Request"
                 PROVE  \/ CancelledAfter(transfer.id, 0)'
                        \/ /\ IsActive(transfer.id)'
                           /\ \A d \in DOMAIN events' : d < e => ~EndsAt(transfer.id, d)'
      BY DEF CancelledOrActive
    <2>1. transfer # NoTransfer /\ transfer'.id = transfer.id
      BY DEF Follows
    <2>2. e \in DOMAIN events /\ events[e].kind = "Request"
      BY DEF EndsAdded
    <2>3. \/ CancelledAfter(transfer.id, 0)
          \/ /\ IsActive(transfer.id)
             /\ \A d \in DOMAIN events : d < e => ~EndsAt(transfer.id, d)
      BY <2>1, <2>2 DEF ThreadsAgree, CancelledOrActive
    <2>4. \A d \in DOMAIN events' : d < e => d \in DOMAIN events /\ events'[d] = events[d]
      BY <2>2 DEF EndsAdded
    <2> QED BY <1>1, <2>1, <2>3, <2>4 DEF CancelledAfter, CancelsAt, IsActive, EndsAt
  <1>5. NotStarted'
    <2> SUFFICES ASSUME NEW p \in DOMAIN commands, commands[p].kind = "Start"
                 PROVE  /\ \A d \in DOMAIN events' : ~EndsAt(commands[p].id, d)'
                        /\ IsActive(commands[p].id)' \/ CancelledAfter(commands[p].id, p)'
                        /\ transfer' # NoTransfer => transfer'.id # commands[p].id
                        /\ \A q \in DOMAIN commands :
                             commands[q].kind = "Start" /\ commands[q].id = commands[p].id => q = p
      BY <1>1 DEF NotStarted
    <2>1. /\ \A d \in DOMAIN events : ~EndsAt(commands[p].id, d)
          /\ IsActive(commands[p].id) \/ CancelledAfter(commands[p].id, p)
          /\ transfer # NoTransfer => transfer.id # commands[p].id
          /\ \A q \in DOMAIN commands :
               commands[q].kind = "Start" /\ commands[q].id = commands[p].id => q = p
      BY DEF ThreadsAgree, NotStarted
    <2>2. \A d \in DOMAIN events' : ~EndsAt(commands[p].id, d)'
      BY <1>1, <2>1 DEF EndsAt, EndsAdded
    <2>3. IsActive(commands[p].id)' \/ CancelledAfter(commands[p].id, p)'
      BY <1>1, <2>1 DEF CancelledAfter, CancelsAt, IsActive
    <2> QED BY <2>1, <2>2, <2>3 DEF Follows
  <1> QED BY <1>3, <1>4, <1>5 DEF ThreadsAgree

\* The transfer's fields, with their types.
LEMMA TransferFields ==
  ASSUME LanInv, Busy
  PROVE  /\ transfer \in Transfers /\ transfer # NoTransfer
         /\ transfer.id \in Identities /\ Known(transfer.id) /\ Leased(transfer.id)
         /\ transfer.phase \in HostPhases /\ transfer.acked \in 0..Total
         /\ transfer.sent \in 0..Total /\ transfer.tries \in 0..MaxRetries
         /\ transfer.phase = "BeginAck" => transfer.acked = 0
         /\ transfer.phase # "BeginAck" => RequestOf(transfer.id) # slots.pending
  BY DEF LanInv, HostTrue, TransferTrue, Transfers, Busy

\* The Host has nothing to believe once the transfer is over.
LEMMA TransferOver ==
  ASSUME LanInv, UNCHANGED deviceVars, transfer' = NoTransfer
  PROVE  TransferTrue'
  BY DEF TransferTrue, AckedWasReceived

\* The ingress thread turns to its transfer, and says nothing to the daemon.
LEMMA TransferStep ==
  ASSUME LanInv, UNCHANGED deviceVars, DaemonStill, Follows,
         UNCHANGED <<events, floors>>, TransferTrue',
         \A m \in net' : m \in net \/ Truthful(m)
  PROVE  LanInv'
  <1>1. NetTrue'
    <2>1. \A m \in net' : Truthful(m)
      BY DEF LanInv, NetTrue
    <2> QED BY <2>1, HostStill DEF NetTrue
  <1>2. EventsTrue'
    <2>1. \A x : EventTrue(x) => EventTrue(x)'
      <3>1. leases' >= leases /\ leases' \in Nat
        BY DEF DaemonStill, LanInv, HostTrue
      <3> QED BY <3>1, HostStill DEF EventTrue, deviceVars
    <2> SUFFICES ASSUME NEW i \in DOMAIN events' PROVE EventTrue(events[i])'
      BY DEF EventsTrue, LanInv, HostTrue
    <2>2. PICK e : e = events[i]
      OBVIOUS
    <2>3. EventTrue(e)'
      BY <2>1, <2>2 DEF LanInv, HostTrue, EventsTrue
    <2> QED BY <2>2, <2>3
  <1>3. HostTrue'
    BY <1>2, DaemonStillTrue
  <1>4. EndsAdded
    BY LenProperties DEF EndsAdded, LanInv, HostTrue, EventsTrue
  <1>5. ThreadsAgree'
    BY <1>4, ThreadStill DEF LanInv
  <1> QED BY <1>1, <1>3, <1>5, HostStill DEF LanInv

\* The transfer is told to the daemon as ended.
LEMMA TellStep ==
  ASSUME LanInv, UNCHANGED deviceVars, DaemonStill, Follows, Busy, floors' = floors,
         NEW kind \in {"Finished", "Cancelled"}, Tell(Ends(kind, transfer.id)),
         kind = "Finished" => transfer.id \in drained, TransferTrue',
         \A m \in net' : m \in net \/ Truthful(m)
  PROVE  LanInv'
  <1>1. NetTrue'
    <2>1. \A m \in net' : Truthful(m)
      BY DEF LanInv, NetTrue
    <2> QED BY <2>1, HostStill DEF NetTrue
  <1>2. PICK e : e = Ends(kind, transfer.id)
    OBVIOUS
  <1>3. e \in Event /\ EventTrue(e) /\ e.kind # "Request" /\ e.id = transfer.id
        /\ events' = Append(events, e)
    BY <1>2, TransferFields DEF Ends, Event, EventTrue, Tell
  <1>4. /\ EventsTrue' /\ Len(events) \in Nat /\ DOMAIN events = 1..Len(events)
        /\ DOMAIN events' = 1..(Len(events) + 1) /\ events'[Len(events) + 1] = e
        /\ \A i \in 1..Len(events) : events'[i] = events[i]
    BY <1>3, EventsAppended DEF DaemonStill
  <1>5. HostTrue'
    BY <1>4, DaemonStillTrue
  <1>6. EndsAdded
    BY <1>3, <1>4 DEF EndsAdded, Busy
  <1>7. ThreadsAgree'
    BY <1>6, ThreadStill DEF LanInv
  <1> QED BY <1>1, <1>5, <1>7, HostStill DEF LanInv
LEMMA WindowSent ==
  ASSUME LanInv, UNCHANGED deviceVars, DaemonStill, UNCHANGED <<events, floors>>, Busy,
         NEW from \in 0..Total, NEW tries \in 0..MaxRetries, SendWindow(from, tries),
         dev.id = transfer.id => from <= dev.received,
         RequestOf(transfer.id) # slots.pending
  PROVE  LanInv'
  <1>1. PICK end : end = WindowEnd(from)
    OBVIOUS
  <1>2. end \in 0..Total
    BY <1>1, WindowAssumption, TotalAssumption DEF WindowEnd
  <1>3. /\ transfer' = [transfer EXCEPT !.phase = "DataAck", !.acked = from, !.sent = end,
                                        !.tries = tries]
        /\ net' = net \cup Chunks(transfer.id, from, end)
    BY <1>1 DEF SendWindow, Send
  <1>4. /\ transfer' \in Transfers /\ transfer'.id = transfer.id /\ transfer'.acked = from
        /\ transfer'.phase = "DataAck"
    BY <1>2, <1>3, TransferFields DEF Transfers, HostPhases
  <1>5. UNCHANGED <<dev, slots, route, lives, boot>>
    BY DEF deviceVars
  <1>6. TransferTrue'
    BY <1>4, <1>5, TransferFields DEF TransferTrue, AckedWasReceived, Known
  <1>7. \A m \in net' : m \in net \/ Truthful(m)
    <2> SUFFICES ASSUME NEW i \in from..(end - 1) PROVE Truthful(EIPD(transfer.id, i))
      BY <1>3 DEF Chunks
    <2>1. i \in 0..(Total - 1)
      BY <1>2, TotalAssumption
    <2> QED BY <2>1, TransferFields DEF Truthful, EIPD
  <1>8. Follows
    BY <1>4 DEF Follows, Busy
  <1> QED BY <1>6, <1>7, <1>8, TransferStep

\* What an acknowledgement of the transfer in progress says is true.
LEMMA AnswerTrue ==
  ASSUME LanInv, NEW m, NEW status \in {Taken, Gap, Abort}, Answers(m, status)
  PROVE  /\ m \in net /\ Busy /\ m.id = transfer.id /\ m.next \in 0..Total
         /\ RequestOf(transfer.id) # slots.pending
         /\ status \in {Taken, Gap} /\ dev.id = transfer.id => m.next <= dev.received
  <1>1. m \in net /\ m.kind = "EIPA" /\ Busy /\ m.id = transfer.id /\ m.status = status
    BY DEF Answers, Sent
  <1>2. Truthful(m)
    BY <1>1 DEF LanInv, NetTrue
  <1> QED BY <1>1, <1>2 DEF Truthful

LEMMA AckSteps ==
  ASSUME LanInv, UNCHANGED deviceVars, NEW m, HostBeginAck(m) \/ HostDataAck(m)
  PROVE  LanInv'
  <1>1. /\ Answers(m, Taken) /\ DaemonStill /\ UNCHANGED <<events, floors>>
    BY DEF HostBeginAck, HostDataAck, DaemonStill, daemonVars
  <1>2. /\ Busy /\ m.id = transfer.id /\ m.next \in 0..Total
        /\ RequestOf(transfer.id) # slots.pending
        /\ dev.id = transfer.id => m.next <= dev.received
    BY <1>1, AnswerTrue
  <1>3. 0 \in 0..Total /\ 0 \in 0..MaxRetries /\ (dev.id = transfer.id => 0 <= dev.received)
    BY TotalAssumption, HostBounds, DeviceFields DEF LanInv
  <1>4. CASE SendWindow(0, 0)
    BY <1>1, <1>2, <1>3, <1>4, WindowSent
  <1>5. CASE SendWindow(m.next, 0)
    BY <1>1, <1>2, <1>3, <1>5, WindowSent
  <1>6. CASE /\ HostDataAck(m) /\ net' = net
             /\ \/ transfer' = [transfer EXCEPT !.acked = m.next, !.tries = 0]
                \/ /\ m.next = Total
                   /\ transfer' = [transfer EXCEPT !.phase = "DeviceFinished",
                                                   !.acked = m.next, !.tries = 0]
    <2>1. transfer.phase = "DataAck" /\ UNCHANGED <<dev, slots, route, lives, boot>>
      BY <1>6 DEF HostDataAck, deviceVars
    <2>2. /\ transfer' \in Transfers /\ transfer'.id = transfer.id /\ transfer'.acked = m.next
          /\ transfer'.phase \in {"DataAck", "DeviceFinished"}
          /\ transfer'.phase = "DeviceFinished" => m.next = Total
      BY <1>2, <1>3, <1>6, <2>1, TransferFields DEF Transfers, HostPhases
    <2>3. dev.received \in 0..Total
      BY DeviceFields DEF LanInv
    <2>4. dev'.id = transfer'.id =>
            /\ transfer'.acked <= dev'.received
            /\ transfer'.phase \in {"DeviceFinished", "HostCommit"} => dev'.received = Total
      BY <1>2, <2>1, <2>2, <2>3, TotalAssumption
    <2>5. TransferTrue'
      BY <1>2, <2>1, <2>2, <2>4, TransferFields DEF TransferTrue, AckedWasReceived, Known
    <2>6. Follows
      BY <1>2, <2>2 DEF Follows, Busy
    <2> QED BY <1>1, <1>6, <2>5, <2>6, TransferStep
  <1> QED BY <1>4, <1>5, <1>6 DEF HostBeginAck, HostDataAck

LEMMA GiveUpStep ==
  ASSUME LanInv, UNCHANGED deviceVars, Busy, GiveUp, DaemonStill, floors' = floors,
         \A m \in net' : m \in net \/ Truthful(m)
  PROVE  LanInv'
  <1>1. transfer' = NoTransfer /\ Tell(Ends("Cancelled", transfer.id))
    BY DEF GiveUp
  <1>2. TransferTrue' /\ Follows
    BY <1>1, TransferOver DEF Follows
  <1> QED BY <1>1, <1>2, TellStep

LEMMA EndingSteps ==
  ASSUME LanInv, UNCHANGED deviceVars,
         \/ Timeout
         \/ \E m \in net : HostStaleGap(m) \/ HostAbort(m)
  PROVE  LanInv'
  <1>1. /\ Busy /\ GiveUp /\ DaemonStill /\ floors' = floors
        /\ \A m \in net' : m \in net \/ m.kind = "EIPK"
    <2>1. CASE Timeout
      BY <2>1 DEF Timeout, DaemonStill, daemonVars
    <2>2. ASSUME NEW m \in net, HostStaleGap(m) \/ HostAbort(m)
          PROVE  /\ Busy /\ GiveUp /\ DaemonStill /\ floors' = floors
                 /\ \A n \in net' : n \in net \/ n.kind = "EIPK"
      BY <2>2 DEF HostStaleGap, HostAbort, Answers, Send, EIPK, DaemonStill, daemonVars
    <2> QED BY <2>1, <2>2
  <1>2. \A m \in net' : m \in net \/ Truthful(m)
    BY <1>1 DEF Truthful
  <1> QED BY <1>1, <1>2, GiveUpStep

\* A window sent in part is of a known playback.
LEMMA SendFailsStep ==
  ASSUME LanInv, UNCHANGED deviceVars, NEW m, SendFails(m)
  PROVE  LanInv'
  <1>1. /\ Answers(m, Taken) \/ Answers(m, Gap)
        /\ GiveUp /\ DaemonStill /\ floors' = floors
    BY DEF SendFails, AsksForWindow, DaemonStill, daemonVars
  <1>2. Busy /\ m.next \in 0..Total
    BY <1>1, AnswerTrue
  <1>3. PICK end \in m.next..(WindowEnd(m.next) - 1) :
          net' = net \cup Chunks(transfer.id, m.next, end)
    BY DEF SendFails, Send
  <1>4. WindowEnd(m.next) \in 0..Total
    BY <1>2, WindowAssumption, TotalAssumption DEF WindowEnd
  <1>5. ASSUME NEW i \in m.next..(end - 1) PROVE Truthful(EIPD(transfer.id, i))
    <2>1. i \in 0..(Total - 1)
      BY <1>2, <1>3, <1>4, TotalAssumption
    <2> QED BY <1>2, <2>1, TransferFields DEF Truthful, EIPD
  <1>6. \A n \in net' : n \in net \/ Truthful(n)
    BY <1>3, <1>5 DEF Chunks
  <1> QED BY <1>1, <1>2, <1>6, GiveUpStep

LEMMA GapStep ==
  ASSUME LanInv, UNCHANGED deviceVars, NEW m, HostGap(m)
  PROVE  LanInv'
  <1>1. /\ Answers(m, Gap) /\ DaemonStill /\ floors' = floors
    BY DEF HostGap, DaemonStill, daemonVars
  <1>2. /\ Busy /\ m.id = transfer.id /\ m.next \in 0..Total
        /\ RequestOf(transfer.id) # slots.pending
        /\ dev.id = transfer.id => m.next <= dev.received
    BY <1>1, AnswerTrue
  <1>3. CASE GiveUp /\ net' = net
    BY <1>1, <1>2, <1>3, GiveUpStep
  <1>4. CASE SendWindow(m.next, 0) /\ events' = events
    <2>1. 0 \in 0..MaxRetries
      BY HostBounds
    <2> QED BY <1>1, <1>2, <1>4, <2>1, WindowSent
  <1>5. CASE /\ transfer.tries < MaxRetries /\ SendWindow(m.next, transfer.tries + 1)
             /\ events' = events
    <2>1. transfer.tries + 1 \in 0..MaxRetries
      BY <1>2, <1>5, HostBounds, TransferFields
    <2> QED BY <1>1, <1>2, <1>5, <2>1, WindowSent
  <1> QED BY <1>3, <1>4, <1>5 DEF HostGap

LEMMA RetryStep ==
  ASSUME LanInv, UNCHANGED deviceVars, Retry
  PROVE  LanInv'
  <1>1. /\ Busy /\ DaemonStill /\ UNCHANGED <<events, floors>> /\ transfer.tries < MaxRetries
        /\ transfer' = [transfer EXCEPT !.tries = @ + 1]
        /\ \/ net' = net \cup {EIPB(transfer.id)}
           \/ net' = net \cup Chunks(transfer.id, transfer.acked, transfer.sent)
    BY DEF Retry, DaemonStill, daemonVars, Send
  <1>2. transfer.tries + 1 \in 0..MaxRetries
    BY <1>1, HostBounds, TransferFields
  <1>3. /\ transfer' \in Transfers /\ transfer'.id = transfer.id /\ transfer'.phase = transfer.phase
        /\ transfer'.acked = transfer.acked
    BY <1>1, <1>2, TransferFields DEF Transfers
  <1>4. UNCHANGED <<dev, slots, route, lives, boot>>
    BY DEF deviceVars
  <1>5. AckedWasReceived
    BY DEF LanInv, TransferTrue
  <1>6. TransferTrue'
    BY <1>1, <1>3, <1>4, <1>5, TransferFields DEF TransferTrue, AckedWasReceived, Known
  <1>7. Truthful(EIPB(transfer.id))
    BY <1>1, TransferFields DEF Truthful, EIPB
  <1>8. ASSUME NEW i \in transfer.acked..(transfer.sent - 1) PROVE Truthful(EIPD(transfer.id, i))
    <2>1. i \in 0..(Total - 1)
      BY <1>1, TransferFields, TotalAssumption
    <2> QED BY <1>1, <2>1, TransferFields DEF Truthful, EIPD
  <1>9. \A m \in net' : m \in net \/ Truthful(m)
    BY <1>1, <1>7, <1>8 DEF Chunks
  <1>10. Follows
    BY <1>1, <1>3 DEF Follows, Busy
  <1> QED BY <1>1, <1>6, <1>9, <1>10, TransferStep

LEMMA QuietHostSteps ==
  ASSUME LanInv, UNCHANGED deviceVars,
         Expire \/ Mute \/ Unmute \/ \E m \in net : HostConfirmsAgain(m)
  PROVE  LanInv'
  <1>1. /\ UNCHANGED <<transfer, events, floors>> /\ DaemonStill
        /\ \A m \in net' : m \in net \/ m.kind = "EIPK"
    <2>1. CASE Expire \/ Mute \/ Unmute
      BY <2>1 DEF Expire, Mute, Unmute, DaemonStill, threadVars, daemonVars
    <2>2. ASSUME NEW m \in net, HostConfirmsAgain(m)
          PROVE  /\ UNCHANGED <<transfer, events, floors>> /\ DaemonStill
                 /\ \A n \in net' : n \in net \/ n.kind = "EIPK"
      BY <2>2 DEF HostConfirmsAgain, hostVars, Send, EIPK, DaemonStill
    <2> QED BY <2>1, <2>2
  <1>2. TransferTrue'
    BY <1>1 DEF LanInv, TransferTrue, AckedWasReceived, Known, deviceVars
  <1>3. Follows
    BY <1>1 DEF Follows
  <1>4. \A m \in net' : m \in net \/ Truthful(m)
    BY <1>1 DEF Truthful
  <1> QED BY <1>1, <1>2, <1>3, <1>4, TransferStep

\* ingest, EIPF: what the daemon is told as finished was played to the end.
LEMMA FinishedStep ==
  ASSUME LanInv, UNCHANGED deviceVars, NEW m, HostFinished(m)
  PROVE  LanInv'
  <1>1. /\ m \in net /\ m.kind = "EIPF" /\ Busy /\ m.id = transfer.id
        /\ transfer.phase \in {"DeviceFinished", "HostCommit"}
        /\ transfer' = [transfer EXCEPT !.phase = "HostCommit"]
        /\ Tell(Ends("Finished", transfer.id)) /\ DaemonStill /\ floors' = floors /\ net' = net
    BY DEF HostFinished, Sent, DaemonStill, daemonVars
  <1>2. transfer.id \in drained
    BY <1>1 DEF LanInv, NetTrue, Truthful
  <1>3. /\ transfer' \in Transfers /\ transfer'.id = transfer.id /\ transfer'.phase = "HostCommit"
        /\ transfer'.acked = transfer.acked
    BY <1>1, TransferFields DEF Transfers, HostPhases
  <1>4. UNCHANGED <<dev, slots, route, lives, boot>>
    BY DEF deviceVars
  <1>5. AckedWasReceived
    BY DEF LanInv, TransferTrue
  <1>6. TransferTrue'
    BY <1>1, <1>3, <1>4, <1>5, TransferFields DEF TransferTrue, AckedWasReceived, Known, Busy
  <1>7. Follows
    BY <1>1, <1>3 DEF Follows, Busy
  <1> QED BY <1>1, <1>2, <1>6, <1>7, TellStep
\* ingest, EIPR: the transfer in progress is over before the daemon sees the request.
LEMMA RequestStep ==
  ASSUME LanInv, UNCHANGED deviceVars, NEW m, HostRequest(m)
  PROVE  LanInv'
  <1>1. /\ m \in net /\ m.kind = "EIPR" /\ floors' = Raised(m.req) /\ transfer' = NoTransfer
        /\ DaemonStill /\ net' = net
    BY DEF HostRequest, Sent, DaemonStill, daemonVars
  <1>2. m.req \in Requests /\ Known(m.req)
    BY <1>1 DEF LanInv, NetTrue, Truthful
  <1>3. floors' \subseteq Requests /\ \A f \in floors' : Known(f)
    BY <1>1, <1>2 DEF Raised, LanInv, HostTrue
  <1>4. PICK e : e = Ends("Cancelled", transfer.id)
    OBVIOUS
  <1>5. Busy => e \in Event /\ EventTrue(e) /\ e.kind = "Cancelled" /\ e.id = transfer.id
    BY <1>4, TransferFields DEF Ends, Event, EventTrue
  <1>6. PICK r : r = Asks(m.req)
    OBVIOUS
  <1>7. r \in Event /\ EventTrue(r) /\ r.kind = "Request"
    BY <1>2, <1>6 DEF Asks, Event, EventTrue
  <1>8. events \in Seq(Event) /\ \A i \in DOMAIN events : EventTrue(events[i])
    BY DEF LanInv, HostTrue, EventsTrue
  <1>9. PICK q : q = IF Busy THEN Append(events, e) ELSE events
    OBVIOUS
  <1>10. /\ q \in Seq(Event) /\ Len(events) \in Nat /\ DOMAIN events = 1..Len(events)
         /\ DOMAIN q = 1..Len(q) /\ Len(q) \in Nat /\ Len(q) >= Len(events)
         /\ \A i \in 1..Len(events) : q[i] = events[i]
         /\ \A i \in 1..Len(q) : i \in 1..Len(events) \/ (Busy /\ q[i] = e)
    <2>1. CASE Busy
      <3>1. q = Append(events, e) /\ e \in Event
        BY <1>5, <1>9, <2>1
      <3> QED BY <1>8, <2>1, <3>1, QueueAppend
    <2>2. CASE ~Busy
      BY <1>8, <1>9, <2>2, LenProperties
    <2> QED BY <2>1, <2>2
  <1>11. events' = Append(q, r)
    <2>1. events' = events \o (IF Busy THEN <<e>> ELSE <<>>) \o <<r>>
      BY <1>4, <1>6 DEF HostRequest
    <2>2. CASE Busy
      <3>1. events \o <<e>> = Append(events, e)
        BY <1>5, <1>8, <2>2, AppendIsConcat
      <3>2. q = events \o <<e>>
        BY <1>9, <2>2, <3>1
      <3>3. q \o <<r>> = Append(q, r)
        BY <1>7, <1>10, AppendIsConcat
      <3> QED BY <2>1, <2>2, <3>2, <3>3
    <2>3. CASE ~Busy
      <3>1. events \o <<>> = events
        BY <1>8, ConcatEmptySeq
      <3>2. events \o <<r>> = Append(events, r)
        BY <1>7, <1>8, AppendIsConcat
      <3> QED BY <1>9, <2>1, <2>3, <3>1, <3>2
    <2> QED BY <2>2, <2>3
  <1>12. /\ events' \in Seq(Event) /\ DOMAIN events' = 1..(Len(q) + 1)
         /\ events'[Len(q) + 1] = r /\ \A i \in 1..Len(q) : events'[i] = q[i]
    BY <1>7, <1>10, <1>11, QueueAppend
  <1>13. EndsAdded
    <2>1. \A i \in DOMAIN events : i \in DOMAIN events' /\ events'[i] = events[i]
      BY <1>10, <1>12
    <2>2. \A i \in DOMAIN events' : i \in 1..Len(events) \/ (Busy /\ events'[i] = e) \/ events'[i] = r
      BY <1>10, <1>12
    <2>3. \A i \in DOMAIN events' : i \in Nat /\ (i \in 1..Len(events) \/ i > Len(events))
      BY <1>10, <1>12
    <2> QED BY <1>1, <1>5, <1>7, <1>10, <2>1, <2>2, <2>3 DEF EndsAdded, Busy
  <1>14. EventsTrue'
    <2> SUFFICES ASSUME NEW i \in DOMAIN events' PROVE EventTrue(events[i])'
      BY <1>12 DEF EventsTrue
    <2>1. PICK x : x = events'[i]
      OBVIOUS
    <2>2. i \in 1..Len(q) \/ i = Len(q) + 1
      BY <1>10, <1>12
    <2>3. EventTrue(x)
      BY <1>5, <1>7, <1>8, <1>10, <1>12, <2>1, <2>2
    <2>4. leases' >= leases /\ leases' \in Nat
      BY <1>1 DEF DaemonStill, LanInv, HostTrue
    <2>5. EventTrue(x)'
      BY <2>3, <2>4, HostStill DEF EventTrue, deviceVars
    <2> QED BY <2>1, <2>5 DEF EventTrue, Leased, Known
  <1>15. Follows /\ TransferTrue'
    BY <1>1, TransferOver DEF Follows
  <1>16. HostTrue'
    BY <1>1, <1>3, <1>14, <1>15, DaemonStillTrue
  <1>17. ThreadsAgree'
    BY <1>1, <1>13, <1>15, ThreadStill DEF LanInv
  <1>18. NetTrue'
    BY <1>1, HostStill DEF LanInv, NetTrue
  <1> QED BY <1>15, <1>16, <1>17, <1>18, HostStill DEF LanInv
-----------------------------------------------------------------------------
(* The ingress thread: commands.                                           *)

\* A start is never refused: the cancellation of what is live comes before it.
LEMMA StartsFindRoom ==
  ASSUME LanInv
  PROVE  StartFindsRoom
  <1> SUFFICES ASSUME commands # <<>>, Head(commands).kind = "Start", transfer # NoTransfer
               PROVE  FALSE
    BY DEF StartFindsRoom, NextCommand, Busy
  <1>1. commands \in Seq(Cmd)
    BY DEF LanInv, HostTrue, CommandsTrue
  <1>2. Len(commands) \in Nat /\ DOMAIN commands = 1..Len(commands) /\ 1 \in DOMAIN commands
        /\ Head(commands) = commands[1]
    BY <1>1, QueueTail
  <1>3. Live(0) /\ 0 \in 0..Len(commands)
    BY <1>2 DEF Live
  <1>4. \E i \in DOMAIN commands : 0 < i /\ i < 1
    BY <1>2, <1>3 DEF LanInv, ThreadsAgree, CancelledBefore
  <1> QED BY <1>2, <1>4

\* The first command is taken.  The transfer ends, or stays because the command was not its
\* cancellation, or it is the one the command starts; a start that fails is told.
Popped ==
  /\ commands # <<>> /\ commands' = Tail(commands) /\ active' = active
  /\ \/ transfer' = NoTransfer /\ events' = events
     \/ /\ transfer # NoTransfer /\ transfer'.id = transfer.id /\ events' = events
        /\ ~CancelsAt(transfer.id, 1)
     \/ /\ commands[1].kind = "Start" /\ transfer'.id = commands[1].id /\ events' = events
     \/ /\ commands[1].kind = "Start" /\ transfer' = NoTransfer
        /\ \E e \in Event : /\ events' = Append(events, e) /\ e.kind = "Cancelled"
                            /\ e.id = commands[1].id

LEMMA PoppedAgrees ==
  ASSUME ThreadsAgree, EventsTrue, CommandsTrue, Popped
  PROVE  ThreadsAgree'
  <1>1. commands \in Seq(Cmd) /\ events \in Seq(Event)
    BY DEF CommandsTrue, EventsTrue
  <1>2. PICK n \in Nat : n = Len(commands)
    BY <1>1, LenProperties
  <1>3. /\ n # 0 /\ DOMAIN commands = 1..n /\ DOMAIN commands' = 1..(n - 1)
        /\ Len(commands)' = n - 1
        /\ \A i \in 1..(n - 1) : commands'[i] = commands[i + 1]
    BY <1>1, <1>2, QueueTail DEF Popped
  <1>4. active' = active
    BY DEF Popped
  <1>5. /\ \A d \in DOMAIN events' :
             \/ d \in DOMAIN events /\ events'[d] = events[d]
             \/ /\ commands[1].kind = "Start" /\ events'[d].id = commands[1].id
                /\ events'[d].kind # "Request"
        /\ transfer' # NoTransfer => events' = events
    <2>1. CASE events' = events
      BY <2>1
    <2>2. ASSUME NEW e \in Event, events' = Append(events, e), e.kind = "Cancelled",
                 e.id = commands[1].id, commands[1].kind = "Start"
          PROVE  \A d \in DOMAIN events' :
                    \/ d \in DOMAIN events /\ events'[d] = events[d]
                    \/ /\ commands[1].kind = "Start" /\ events'[d].id = commands[1].id
                       /\ events'[d].kind # "Request"
      <3>1. /\ Len(events) \in Nat /\ DOMAIN events = 1..Len(events)
            /\ DOMAIN events' = 1..(Len(events) + 1) /\ events'[Len(events) + 1] = e
            /\ \A i \in 1..Len(events) : events'[i] = events[i]
        BY <1>1, <2>2, QueueAppend
      <3> QED BY <2>2, <3>1
    <2> QED BY <2>1, <2>2 DEF Popped
  <1>6. ASSUME NEW p \in 0..(n - 1), Live(p)'
        PROVE  \E o \in 0..n :
                 /\ Live(o) /\ LiveId(o) = LiveId(p)'
                 /\ p > 0 => o = p + 1
                 /\ p = 0 => \/ o = 1 /\ commands[1].kind = "Start"
                             \/ o = 0 /\ ~CancelsAt(transfer.id, 1)
    <2>1. CASE p > 0
      BY <1>2, <1>3, <1>6, <2>1 DEF Live, LiveId
    <2>2. CASE p = 0
      <3>1. transfer' # NoTransfer
        BY <1>3, <1>6, <2>2 DEF Live
      <3>2. CASE commands[1].kind = "Start" /\ transfer'.id = commands[1].id
        BY <1>2, <1>3, <2>2, <3>2 DEF Live, LiveId
      <3>3. CASE transfer # NoTransfer /\ transfer'.id = transfer.id /\ ~CancelsAt(transfer.id, 1)
        BY <1>2, <2>2, <3>3 DEF Live, LiveId
      <3> QED BY <3>1, <3>2, <3>3 DEF Popped
    <2> QED BY <2>1, <2>2
  <1>7. CancelledBefore'
    <2> SUFFICES ASSUME NEW p \in 0..(n - 1), NEW j \in 1..(n - 1), Live(p)', p < j,
                        commands'[j].kind = "Start"
                 PROVE  \E i \in 1..(n - 1) : p < i /\ i < j /\ (CancelsAt(LiveId(p), i))'
      BY <1>3 DEF CancelledBefore
    <2>1. PICK o \in 0..n : /\ Live(o) /\ LiveId(o) = LiveId(p)'
                            /\ p > 0 => o = p + 1
                            /\ p = 0 => \/ o = 1 /\ commands[1].kind = "Start"
                                        \/ o = 0 /\ ~CancelsAt(transfer.id, 1)
      BY <1>6
    <2>2. j + 1 \in 1..n /\ o < j + 1 /\ commands[j + 1].kind = "Start"
      BY <1>2, <1>3, <2>1
    <2>3. PICK i \in 1..n : o < i /\ i < j + 1 /\ CancelsAt(LiveId(o), i)
      BY <1>2, <1>3, <2>1, <2>2 DEF ThreadsAgree, CancelledBefore
    <2>4. p + 1 < i
      <3>1. CASE p > 0
        BY <2>1, <2>3, <3>1
      <3>2. CASE p = 0 /\ o = 1
        BY <2>3, <3>2
      <3>3. CASE p = 0 /\ o = 0 /\ ~CancelsAt(transfer.id, 1)
        BY <2>3, <3>3 DEF LiveId
      <3> QED BY <2>1, <3>1, <3>2, <3>3
    <2>5. i - 1 \in 1..(n - 1) /\ p < i - 1 /\ i - 1 < j /\ commands'[i - 1] = commands[i]
      BY <1>3, <2>2, <2>3, <2>4
    <2>6. (CancelsAt(LiveId(p), i - 1))'
      BY <2>1, <2>3, <2>5 DEF CancelsAt
    <2> QED BY <2>5, <2>6
  <1>8. ASSUME NEW x, NEW p \in 0..(n - 1), NEW o \in Int, o >= p + 1, CancelledAfter(x, o)
        PROVE  CancelledAfter(x, p)'
    <2>1. PICK i \in 1..n : o < i /\ CancelsAt(x, i)
      BY <1>3, <1>8 DEF CancelledAfter
    <2>2. i - 1 \in 1..(n - 1) /\ p < i - 1 /\ commands'[i - 1] = commands[i]
      BY <1>3, <1>8, <2>1
    <2> QED BY <1>3, <2>1, <2>2 DEF CancelledAfter, CancelsAt
  <1>9. CancelledOrActive'
    <2> SUFFICES ASSUME transfer' # NoTransfer, NEW e \in DOMAIN events',
                        events'[e].kind = "Request", NEW x, x = transfer'.id
                 PROVE  \/ CancelledAfter(x, 0)'
                        \/ /\ IsActive(x)'
                           /\ \A d \in DOMAIN events' : d < e => ~EndsAt(x, d)'
      BY DEF CancelledOrActive, CancelledAfter, CancelsAt, IsActive, EndsAt
    <2>1. events' = events
      BY <1>5
    <2>2. CASE commands[1].kind = "Start" /\ transfer'.id = commands[1].id
      <3>1. /\ \A d \in DOMAIN events : ~EndsAt(x, d)
            /\ IsActive(x) \/ CancelledAfter(x, 1)
        BY <1>3, <2>2 DEF ThreadsAgree, NotStarted
      <3>2. 0 \in 0..(n - 1)
        BY <1>3
      <3>3. IsActive(x)' \/ CancelledAfter(x, 0)'
        BY <1>4, <1>8, <3>1, <3>2 DEF IsActive
      <3> QED BY <2>1, <3>1, <3>3 DEF EndsAt
    <2>3. CASE transfer # NoTransfer /\ transfer'.id = transfer.id /\ ~CancelsAt(transfer.id, 1)
      <3>1. \/ CancelledAfter(x, 0)
            \/ /\ IsActive(x)
               /\ \A d \in DOMAIN events : d < e => ~EndsAt(x, d)
        BY <2>1, <2>3 DEF ThreadsAgree, CancelledOrActive
      <3>2. CancelledAfter(x, 0) => CancelledAfter(x, 1)
        BY <1>3, <2>3 DEF CancelledAfter
      <3>3. 0 \in 0..(n - 1)
        BY <1>3
      <3>4. CancelledAfter(x, 1) => CancelledAfter(x, 0)'
        BY <1>8, <3>3
      <3> QED BY <1>4, <2>1, <3>1, <3>2, <3>4 DEF IsActive, EndsAt
    <2> QED BY <2>2, <2>3 DEF Popped
  <1>10. NotStarted'
    <2> SUFFICES ASSUME NEW p \in 1..(n - 1), commands'[p].kind = "Start",
                        NEW x, x = commands'[p].id
                 PROVE  /\ \A d \in DOMAIN events' : ~EndsAt(x, d)'
                        /\ IsActive(x)' \/ CancelledAfter(x, p)'
                        /\ transfer' # NoTransfer => transfer'.id # x
                        /\ \A q \in 1..(n - 1) :
                             commands'[q].kind = "Start" /\ commands'[q].id = x => q = p
      BY <1>3 DEF NotStarted, CancelledAfter, CancelsAt, IsActive, EndsAt
    <2>1. p + 1 \in 1..n /\ commands[p + 1] = commands'[p] /\ 1 \in 1..n /\ p + 1 # 1
      BY <1>3
    <2>2. /\ \A d \in DOMAIN events : ~EndsAt(x, d)
          /\ IsActive(x) \/ CancelledAfter(x, p + 1)
          /\ transfer # NoTransfer => transfer.id # x
          /\ \A q \in 1..n : commands[q].kind = "Start" /\ commands[q].id = x => q = p + 1
      BY <1>3, <2>1 DEF ThreadsAgree, NotStarted
    <2>3. commands[1].kind = "Start" => commands[1].id # x
      BY <2>1, <2>2
    <2>4. \A d \in DOMAIN events' : ~EndsAt(x, d)'
      BY <1>5, <2>2, <2>3 DEF EndsAt
    <2>5. CancelledAfter(x, p + 1) => CancelledAfter(x, p)'
      <3>1. p \in 0..(n - 1) /\ p + 1 \in Int /\ p + 1 >= p + 1
        OBVIOUS
      <3> QED BY <1>8, <3>1
    <2>6. IsActive(x)' \/ CancelledAfter(x, p)'
      BY <1>4, <2>2, <2>5 DEF IsActive
    <2>7. transfer' # NoTransfer => transfer'.id # x
      BY <2>2, <2>3 DEF Popped
    <2>8. ASSUME NEW q \in 1..(n - 1), commands'[q].kind = "Start", commands'[q].id = x
          PROVE  q = p
      <3>1. q + 1 \in 1..n /\ commands[q + 1] = commands'[q]
        BY <1>3
      <3>2. q + 1 = p + 1
        BY <2>2, <2>8, <3>1
      <3> QED BY <3>2
    <2> QED BY <2>4, <2>6, <2>7, <2>8
  <1> QED BY <1>7, <1>9, <1>10 DEF ThreadsAgree
LEMMA PoppedTrue ==
  ASSUME LanInv, UNCHANGED deviceVars, Popped, UNCHANGED <<leases, heard, floors>>
  PROVE  HostTrue'
  <1>1. leases' \in Nat /\ leases' >= leases
    BY DEF LanInv, HostTrue
  <1>2. (\A x : Leased(x) => Leased(x)') /\ \A x : Known(x)' <=> Known(x)
    BY <1>1, HostStill
  <1>3. commands \in Seq(Cmd) /\ \A i \in DOMAIN commands : Leased(commands[i].id)
    BY DEF LanInv, HostTrue, CommandsTrue
  <1>4. /\ commands' \in Seq(Cmd) /\ Len(commands) \in Nat \ {0} /\ DOMAIN commands = 1..Len(commands)
        /\ DOMAIN commands' = 1..(Len(commands) - 1) /\ 1 \in DOMAIN commands
        /\ \A i \in 1..(Len(commands) - 1) : commands'[i] = commands[i + 1]
    BY <1>3, QueueTail DEF Popped
  <1>5. CommandsTrue'
    <2> SUFFICES ASSUME NEW i \in DOMAIN commands' PROVE Leased(commands[i].id)'
      BY <1>4 DEF CommandsTrue
    <2>1. PICK x : x = commands'[i].id
      OBVIOUS
    <2>2. i + 1 \in DOMAIN commands /\ commands[i + 1] = commands'[i]
      BY <1>4
    <2>3. Leased(x)'
      BY <1>2, <1>3, <2>1, <2>2
    <2> QED BY <2>1, <2>3 DEF Leased, Known
  <1>6. ActiveTrue'
    BY <1>2 DEF ActiveTrue, Popped, LanInv, HostTrue
  <1>7. transfer' # NoTransfer => Leased(transfer.id)'
    <2>1. PICK x : x = transfer'.id
      OBVIOUS
    <2>2. transfer' # NoTransfer => Leased(x)
      BY <1>3, <1>4, <2>1 DEF Popped, LanInv, HostTrue
    <2> QED BY <1>2, <2>1, <2>2 DEF Leased, Known
  <1>8. EventsTrue'
    <2>1. \A x : EventTrue(x) => EventTrue(x)'
      BY <1>1, HostStill DEF EventTrue, deviceVars
    <2>2. CASE events' = events
      <3> SUFFICES ASSUME NEW i \in DOMAIN events' PROVE EventTrue(events[i])'
        BY <2>2 DEF EventsTrue, LanInv, HostTrue
      <3>1. PICK e : e = events[i]
        OBVIOUS
      <3>2. EventTrue(e)'
        BY <2>1, <2>2, <3>1 DEF LanInv, HostTrue, EventsTrue
      <3> QED BY <2>2, <3>1, <3>2
    <2>3. ASSUME NEW e \in Event, events' = Append(events, e), e.kind = "Cancelled",
                 e.id = commands[1].id
          PROVE  EventsTrue'
      <3>1. EventTrue(e)
        BY <1>3, <1>4, <2>3 DEF EventTrue
      <3> QED BY <2>3, <3>1, EventsAppended
    <2> QED BY <2>2, <2>3 DEF Popped
  <1> QED BY <1>1, <1>2, <1>5, <1>6, <1>7, <1>8 DEF HostTrue, LanInv, deviceVars

LEMMA PoppedKeeps ==
  ASSUME LanInv, UNCHANGED deviceVars, Popped, UNCHANGED <<leases, heard, floors>>,
         TransferTrue', \A m \in net' : m \in net \/ Truthful(m)
  PROVE  LanInv'
  <1>1. NetTrue'
    <2>1. \A m \in net' : Truthful(m)
      BY DEF LanInv, NetTrue
    <2> QED BY <2>1, HostStill DEF NetTrue
  <1>2. ThreadsAgree'
    BY PoppedAgrees DEF LanInv, HostTrue
  <1> QED BY <1>1, <1>2, PoppedTrue, HostStill DEF LanInv

\* handle_command: Start.
LEMMA StartSteps ==
  ASSUME LanInv, UNCHANGED deviceVars, HandleStart \/ HandleStartFails
  PROVE  LanInv'
  <1>1. /\ commands # <<>> /\ Head(commands).kind = "Start" /\ commands' = Tail(commands)
        /\ ~Busy /\ UNCHANGED <<leases, heard, floors, active>>
    BY StartsFindRoom
       DEF StartFindsRoom, HandleStart, HandleStartFails, NextCommand, daemonVars, threadVars
  <1>2. PICK id : id = Head(commands).id
    OBVIOUS
  <1>3. /\ Head(commands) = commands[1] /\ Head(commands) \in Cmd /\ 1 \in DOMAIN commands
    BY <1>1, QueueTail DEF LanInv, HostTrue, CommandsTrue
  <1>4. id \in Identities /\ Known(id) /\ Leased(id)
    BY <1>2, <1>3 DEF LanInv, HostTrue, CommandsTrue, Leased
  <1>5. CASE HandleStart
    <2>1. /\ transfer' = [id |-> id, phase |-> "BeginAck", acked |-> 0, sent |-> 0, tries |-> 0]
          /\ net' = net \cup {EIPB(id)} /\ events' = events
      BY <1>1, <1>2, <1>5 DEF HandleStart, Send
    <2>2. /\ transfer' \in Transfers /\ transfer'.id = id /\ transfer'.phase = "BeginAck"
          /\ transfer'.acked = 0
      BY <1>4, <2>1, TotalAssumption, HostBounds DEF Transfers, HostPhases
    <2>3. dev'.received \in 0..Total /\ UNCHANGED <<dev, slots, route, lives, boot>>
      BY DeviceFields DEF LanInv, deviceVars
    <2>4. TransferTrue'
      BY <1>4, <2>2, <2>3 DEF TransferTrue, AckedWasReceived, Known
    <2>5. Truthful(EIPB(id))
      BY <1>4 DEF Truthful, EIPB
    <2>6. Popped
      BY <1>1, <1>2, <1>3, <2>1, <2>2 DEF Popped
    <2> QED BY <1>1, <2>1, <2>4, <2>5, <2>6, PoppedKeeps
  <1>6. CASE HandleStartFails
    <2>1. events' = Append(events, Ends("Cancelled", id)) /\ UNCHANGED <<transfer, net>>
      BY <1>2, <1>6 DEF HandleStartFails, Tell, threadVars
    <2>2. PICK e : e = Ends("Cancelled", id)
      OBVIOUS
    <2>3. e \in Event /\ e.kind = "Cancelled" /\ e.id = id
      BY <1>4, <2>2 DEF Ends, Event
    <2>4. Popped
      BY <1>1, <1>2, <1>3, <2>1, <2>2, <2>3 DEF Popped, Busy
    <2>5. TransferTrue'
      BY <1>1, <2>1, TransferOver DEF Busy
    <2> QED BY <1>1, <2>1, <2>4, <2>5, PoppedKeeps
  <1> QED BY <1>5, <1>6

\* handle_command: FinishAck and Cancel.
LEMMA SettleSteps ==
  ASSUME LanInv, UNCHANGED deviceVars,
         HandleFinishAck \/ HandleFinishAckFails \/ HandleCancel
  PROVE  LanInv'
  <1>1. /\ commands # <<>> /\ commands' = Tail(commands) /\ events' = events
        /\ UNCHANGED <<leases, heard, floors, active>>
    BY DEF HandleFinishAck, HandleFinishAckFails, HandleCancel, NextCommand, daemonVars, threadVars
  <1>2. Head(commands) = commands[1] /\ Head(commands) \in Cmd
    BY <1>1, QueueTail DEF LanInv, HostTrue, CommandsTrue
  <1>3. /\ transfer' = NoTransfer \/ transfer' = transfer
        /\ transfer # NoTransfer /\ CancelsAt(transfer.id, 1) => transfer' = NoTransfer
        /\ \A m \in net' : m \in net \/ m.kind = "EIPK"
    <2>1. CASE HandleFinishAck
      BY <1>2, <2>1 DEF HandleFinishAck, NextCommand, CancelsAt, Send, EIPK
    <2>2. CASE HandleFinishAckFails
      BY <1>2, <2>2 DEF HandleFinishAckFails, NextCommand, CancelsAt, threadVars
    <2>3. CASE HandleCancel
      BY <1>2, <2>3 DEF HandleCancel, CancelsAt, Busy
    <2> QED BY <2>1, <2>2, <2>3
  <1>4. TransferTrue'
    <2>1. CASE transfer' = NoTransfer
      BY <2>1, TransferOver
    <2>2. CASE transfer' = transfer
      BY <2>2 DEF LanInv, TransferTrue, AckedWasReceived, Known, deviceVars
    <2> QED BY <1>3, <2>1, <2>2
  <1>5. Popped
    BY <1>1, <1>3 DEF Popped
  <1>6. \A m \in net' : m \in net \/ Truthful(m)
    BY <1>3 DEF Truthful
  <1> QED BY <1>1, <1>4, <1>5, <1>6, PoppedKeeps
-----------------------------------------------------------------------------
(* The daemon loop.                                                        *)

\* The first event is taken.  What was active stays so, is cancelled, or was told to have
\* ended; a start is for a request, for a playback nobody has heard of, and comes after the
\* cancellation of everything that was active.
DaemonTurns ==
  /\ events # <<>> /\ events' = Tail(events) /\ transfer' = transfer
  /\ commands' \in Seq(Cmd) /\ Len(commands') >= Len(commands)
  /\ \A i \in DOMAIN commands : commands'[i] = commands[i]
  /\ \A x : IsActive(x) =>
       \/ IsActive(x)' \/ EndsAt(x, 1)
       \/ \E i \in DOMAIN commands' : i > Len(commands) /\ CancelsAt(x, i)'
  /\ \A j \in DOMAIN commands' : j > Len(commands) /\ commands'[j].kind = "Start" =>
       /\ events[1].kind = "Request"
       /\ \A x : IsActive(x) =>
            \E i \in DOMAIN commands' : Len(commands) < i /\ i < j /\ CancelsAt(x, i)'
       /\ \A d \in DOMAIN events : ~EndsAt(commands'[j].id, d)
       /\ transfer # NoTransfer => transfer.id # commands'[j].id
       /\ \A q \in DOMAIN commands : commands[q].id # commands'[j].id
       /\ \E a \in active' : a.id = commands'[j].id
       /\ \A q \in DOMAIN commands' : q > Len(commands) /\ commands'[q].kind = "Start" => q = j

LEMMA DaemonAgrees ==
  ASSUME ThreadsAgree, EventsTrue, CommandsTrue, DaemonTurns
  PROVE  ThreadsAgree'
  <1>1. commands \in Seq(Cmd) /\ events \in Seq(Event) /\ commands' \in Seq(Cmd)
    BY DEF CommandsTrue, EventsTrue, DaemonTurns
  <1>2. PICK n \in Nat, k \in Nat, v \in Nat :
          n = Len(commands) /\ k = Len(commands') /\ v = Len(events)
    BY <1>1, LenProperties
  <1>3. /\ DOMAIN commands = 1..n /\ DOMAIN commands' = 1..k /\ k >= n
        /\ \A i \in 1..n : commands'[i] = commands[i]
    BY <1>1, <1>2, LenProperties DEF DaemonTurns
  <1>4. /\ v # 0 /\ DOMAIN events = 1..v /\ DOMAIN events' = 1..(v - 1)
        /\ \A i \in 1..(v - 1) : events'[i] = events[i + 1]
    BY <1>1, <1>2, QueueTail DEF DaemonTurns
  <1>5. transfer' = transfer
    BY DEF DaemonTurns
  <1>6. ASSUME NEW x, NEW p \in 0..n, CancelledAfter(x, p)
        PROVE  \E i \in 1..n : p < i /\ CancelsAt(x, i)'
    BY <1>3, <1>6 DEF CancelledAfter, CancelsAt
  <1>7. ASSUME NEW x, NEW p \in 0..n, IsActive(x), ~EndsAt(x, 1)
        PROVE  IsActive(x)' \/ CancelledAfter(x, p)'
    <2>1. IsActive(x)' \/ \E i \in 1..k : i > n /\ CancelsAt(x, i)'
      BY <1>2, <1>3, <1>7 DEF DaemonTurns
    <2> QED BY <1>3, <2>1 DEF CancelledAfter
  <1>8. ASSUME NEW x, NEW p \in 0..n, CancelledAfter(x, p) PROVE CancelledAfter(x, p)'
    BY <1>3, <1>6, <1>8 DEF CancelledAfter
  <1>9. ASSUME NEW j \in 1..k, j > n, commands'[j].kind = "Start"
        PROVE  /\ events[1].kind = "Request"
               /\ \A x : IsActive(x) => \E i \in 1..k : n < i /\ i < j /\ CancelsAt(x, i)'
               /\ \A d \in 1..v : ~EndsAt(commands'[j].id, d)
               /\ transfer # NoTransfer => transfer.id # commands'[j].id
               /\ \A q \in 1..n : commands[q].id # commands'[j].id
               /\ \E a \in active' : a.id = commands'[j].id
               /\ \A q \in 1..k : q > n /\ commands'[q].kind = "Start" => q = j
    BY <1>2, <1>3, <1>4, <1>9 DEF DaemonTurns
  <1>10. ASSUME NEW p \in 0..n, Live(p)' PROVE Live(p) /\ LiveId(p)' = LiveId(p)
    BY <1>3, <1>5, <1>10 DEF Live, LiveId
  <1>11. CancelledBefore'
    <2> SUFFICES ASSUME NEW p \in 0..k, NEW j \in 1..k, Live(p)', p < j,
                        commands'[j].kind = "Start", NEW x, x = LiveId(p)'
                 PROVE  \E i \in 1..k : p < i /\ i < j /\ CancelsAt(x, i)'
      BY <1>2, <1>3 DEF CancelledBefore, CancelsAt
    <2>1. CASE j <= n
      <3>1. Live(p) /\ LiveId(p) = x /\ p \in 0..n /\ j \in 1..n /\ commands[j].kind = "Start"
        BY <1>3, <1>10, <2>1
      <3>2. PICK i \in 1..n : p < i /\ i < j /\ CancelsAt(x, i)
        BY <1>2, <1>3, <3>1 DEF ThreadsAgree, CancelledBefore
      <3> QED BY <1>3, <3>2 DEF CancelsAt
    <2>2. CASE j > n /\ p > n
      <3>1. commands'[p].kind = "Start" /\ p \in 1..k
        BY <1>3, <2>2 DEF Live
      <3> QED BY <1>9, <2>2, <3>1
    <2>3. CASE j > n /\ p <= n
      <3>1. Live(p) /\ LiveId(p) = x /\ p \in 0..n
        BY <1>10, <2>3
      <3>2. IsActive(x) \/ CancelledAfter(x, p)
        <4>1. CASE p = 0
          <5>1. transfer # NoTransfer /\ x = transfer.id /\ 1 \in DOMAIN events
            BY <1>3, <1>4, <3>1, <4>1 DEF Live, LiveId
          <5> QED BY <1>9, <2>3, <4>1, <5>1 DEF ThreadsAgree, CancelledOrActive
        <4>2. CASE p # 0
          BY <1>3, <3>1, <4>2 DEF Live, LiveId, ThreadsAgree, NotStarted
        <4> QED BY <4>1, <4>2
      <3>3. CASE IsActive(x)
        BY <1>9, <2>3, <3>1, <3>3
      <3>4. CASE CancelledAfter(x, p)
        <4>1. PICK i \in 1..n : p < i /\ CancelsAt(x, i)'
          BY <1>6, <3>1, <3>4
        <4> QED BY <1>3, <2>3, <4>1
      <3> QED BY <3>2, <3>3, <3>4
    <2> QED BY <1>3, <2>1, <2>2, <2>3
  <1>12. CancelledOrActive'
    <2> SUFFICES ASSUME transfer # NoTransfer, NEW e \in 1..(v - 1), events'[e].kind = "Request",
                        NEW x, x = transfer.id
                 PROVE  \/ CancelledAfter(x, 0)'
                        \/ IsActive(x)' /\ \A d \in 1..(v - 1) : d < e => ~EndsAt(x, d)'
      BY <1>4, <1>5 DEF CancelledOrActive, CancelledAfter, CancelsAt, IsActive, EndsAt
    <2>1. e + 1 \in 1..v /\ events[e + 1].kind = "Request" /\ 1 \in 1..v /\ 1 < e + 1
      BY <1>4
    <2>2. \/ CancelledAfter(x, 0)
          \/ IsActive(x) /\ \A d \in 1..v : d < e + 1 => ~EndsAt(x, d)
      BY <1>4, <2>1 DEF ThreadsAgree, CancelledOrActive
    <2>3. CASE CancelledAfter(x, 0)
      BY <1>8, <2>3
    <2>4. CASE IsActive(x) /\ \A d \in 1..v : d < e + 1 => ~EndsAt(x, d)
      <3>1. IsActive(x)' \/ CancelledAfter(x, 0)'
        BY <1>7, <2>1, <2>4
      <3>2. ASSUME NEW d \in 1..(v - 1), d < e PROVE ~EndsAt(x, d)'
        <4>1. d + 1 \in 1..v /\ d + 1 < e + 1 /\ events'[d] = events[d + 1]
          BY <1>4, <3>2
        <4> QED BY <2>4, <4>1 DEF EndsAt
      <3> QED BY <3>1, <3>2
    <2> QED BY <2>2, <2>3, <2>4
  <1>13. NotStarted'
    <2> SUFFICES ASSUME NEW p \in 1..k, commands'[p].kind = "Start", NEW x, x = commands'[p].id
                 PROVE  /\ \A d \in 1..(v - 1) : ~EndsAt(x, d)'
                        /\ IsActive(x)' \/ CancelledAfter(x, p)'
                        /\ transfer # NoTransfer => transfer.id # x
                        /\ \A q \in 1..k : commands'[q].kind = "Start" /\ commands'[q].id = x => q = p
      <3> SUFFICES ASSUME NEW p \in 1..k, commands'[p].kind = "Start"
                   PROVE  /\ \A d \in 1..(v - 1) : ~EndsAt(commands[p].id, d)'
                          /\ IsActive(commands[p].id)' \/ CancelledAfter(commands[p].id, p)'
                          /\ transfer # NoTransfer => transfer.id # commands'[p].id
                          /\ \A q \in 1..k : commands'[q].kind = "Start" /\ commands'[q].id = commands'[p].id
                                              => q = p
        BY <1>3, <1>4, <1>5 DEF NotStarted
      <3>1. PICK x : x = commands'[p].id
        OBVIOUS
      <3>2. /\ \A d \in 1..(v - 1) : ~EndsAt(x, d)'
            /\ IsActive(x)' \/ CancelledAfter(x, p)'
            /\ transfer # NoTransfer => transfer.id # x
            /\ \A q \in 1..k : commands'[q].kind = "Start" /\ commands'[q].id = x => q = p
        BY <3>1
      <3> QED BY <3>1, <3>2 DEF CancelledAfter, CancelsAt, IsActive, EndsAt
    <2>1. ASSUME \A d \in 1..v : ~EndsAt(x, d), NEW d \in 1..(v - 1) PROVE ~EndsAt(x, d)'
      <3>1. d + 1 \in 1..v /\ events'[d] = events[d + 1]
        BY <1>4
      <3> QED BY <2>1, <3>1 DEF EndsAt
    <2>2. CASE p <= n
      <3>1. p \in 1..n /\ commands[p].kind = "Start" /\ x = commands[p].id
        BY <1>3, <2>2
      <3>2. /\ \A d \in 1..v : ~EndsAt(x, d)
            /\ IsActive(x) \/ CancelledAfter(x, p)
            /\ transfer # NoTransfer => transfer.id # x
            /\ \A q \in 1..n : commands[q].kind = "Start" /\ commands[q].id = x => q = p
        BY <1>3, <1>4, <3>1 DEF ThreadsAgree, NotStarted
      <3>3. p \in 0..n /\ 1 \in 1..v
        BY <1>4, <3>1
      <3>4. IsActive(x)' \/ CancelledAfter(x, p)'
        BY <1>7, <1>8, <3>2, <3>3
      <3>5. ASSUME NEW q \in 1..k, commands'[q].kind = "Start", commands'[q].id = x PROVE q = p
        <4>1. CASE q <= n
          BY <1>3, <3>2, <3>5, <4>1
        <4>2. CASE q > n
          BY <1>9, <3>1, <3>5, <4>2
        <4> QED BY <1>3, <4>1, <4>2
      <3> QED BY <2>1, <3>2, <3>4, <3>5
    <2>3. CASE p > n
      <3>1. /\ \A d \in 1..v : ~EndsAt(x, d)
            /\ transfer # NoTransfer => transfer.id # x
            /\ \A q \in 1..n : commands[q].id # x
            /\ \E a \in active' : a.id = x
            /\ \A q \in 1..k : q > n /\ commands'[q].kind = "Start" => q = p
        BY <1>9, <2>3
      <3>2. ASSUME NEW q \in 1..k, commands'[q].kind = "Start", commands'[q].id = x PROVE q = p
        <4>1. CASE q <= n
          BY <1>3, <3>1, <3>2, <4>1
        <4>2. CASE q > n
          BY <3>1, <3>2, <4>2
        <4> QED BY <1>3, <4>1, <4>2
      <3>3. IsActive(x)'
        BY <3>1 DEF IsActive
      <3> QED BY <2>1, <3>1, <3>2, <3>3
    <2> QED BY <1>3, <2>2, <2>3
  <1> QED BY <1>11, <1>12, <1>13 DEF ThreadsAgree
\* CancelAll, of the one playback that may be active.
LEMMA CancelAllIs ==
  ASSUME ActiveTrue
  PROVE  \/ active = {} /\ CancelAll = <<>>
         \/ \E a \in active : active = {a} /\ CancelAll = <<Command("Cancel", a.id)>>
  <1>1. CASE active = {}
    <2>1. {Command("Cancel", a.id) : a \in active} = {} /\ Cardinality({}) = 0
      BY <1>1, FS_EmptySet
    <2>2. <<>> \in [1..0 -> {}] /\ IsInjective(<<>>) /\ \A f \in [1..0 -> {}] : f = <<>>
      BY DEF IsInjective
    <2>3. CancelAll = CHOOSE f \in [1..0 -> {}] : IsInjective(f)
      BY <2>1 DEF CancelAll, SetToSeq
    <2> QED BY <1>1, <2>2, <2>3
  <1>2. CASE active # {}
    <2>1. PICK a \in active : active = {a}
      BY <1>2 DEF ActiveTrue
    <2>2. PICK c : c = Command("Cancel", a.id)
      OBVIOUS
    <2>3. {Command("Cancel", b.id) : b \in active} = {c} /\ Cardinality({c}) = 1
      BY <2>1, <2>2, FS_Singleton
    <2>4. <<c>> \in [1..1 -> {c}] /\ IsInjective(<<c>>) /\ \A f \in [1..1 -> {c}] : f = <<c>>
      BY DEF IsInjective
    <2>5. CancelAll = CHOOSE f \in [1..1 -> {c}] : IsInjective(f)
      BY <2>3 DEF CancelAll, SetToSeq
    <2>6. CancelAll = <<c>>
      BY <2>4, <2>5
    <2> QED BY <2>1, <2>2, <2>6
  <1> QED BY <1>1, <1>2

\* A queue of commands for playbacks that were leased.
LeasedQueue(q) == q \in Seq(Cmd) /\ \A i \in DOMAIN q : Leased(q[i].id)

LEMMA LeasedAppend ==
  ASSUME NEW q, LeasedQueue(q)', NEW c \in Cmd, Leased(c.id)'
  PROVE  LeasedQueue(Append(q, c))'
  <1>1. q \in Seq(Cmd)
    BY DEF LeasedQueue
  <1>2. /\ Append(q, c) \in Seq(Cmd) /\ Len(q) \in Nat /\ DOMAIN q = 1..Len(q)
        /\ DOMAIN Append(q, c) = 1..(Len(q) + 1) /\ Append(q, c)[Len(q) + 1] = c
        /\ \A i \in 1..Len(q) : Append(q, c)[i] = q[i]
    BY <1>1, QueueAppend
  <1>3. ASSUME NEW i \in DOMAIN Append(q, c) PROVE Leased(Append(q, c)[i].id)'
    <2>1. CASE i = Len(q) + 1
      BY <1>2, <2>1
    <2>2. CASE i # Len(q) + 1
      <3>1. i \in DOMAIN q /\ Append(q, c)[i] = q[i]
        BY <1>2, <1>3, <2>2
      <3>2. Leased(q[i].id)'
        BY <3>1 DEF LeasedQueue
      <3> QED BY <3>1, <3>2
    <2> QED BY <2>1, <2>2
  <1> QED BY <1>2, <1>3 DEF LeasedQueue

\* The daemon takes an event; what it commands is for playbacks that were leased.
LEMMA DaemonKeeps ==
  ASSUME LanInv, UNCHANGED <<deviceVars, net, floors>>, DaemonTurns, leases' \in Nat,
         leases' >= leases, NEW q, q = commands', LeasedQueue(q)', ActiveTrue',
         heard' \subseteq drained
  PROVE  LanInv'
  <1>1. (\A x : Leased(x) => Leased(x)') /\ \A x : Known(x)' <=> Known(x)
    BY HostStill
  <1>2. transfer' = transfer /\ events # <<>> /\ events' = Tail(events)
    BY DEF DaemonTurns
  <1>3. TransferTrue'
    BY <1>2 DEF LanInv, TransferTrue, AckedWasReceived, Known, deviceVars
  <1>4. NetTrue'
    BY HostStill DEF LanInv, NetTrue
  <1>5. CommandsTrue'
    BY DEF CommandsTrue, LeasedQueue
  <1>6. EventsTrue'
    <2>1. events \in Seq(Event) /\ \A i \in DOMAIN events : EventTrue(events[i])
      BY DEF LanInv, HostTrue, EventsTrue
    <2>2. /\ events' \in Seq(Event) /\ Len(events) \in Nat \ {0} /\ DOMAIN events = 1..Len(events)
          /\ DOMAIN events' = 1..(Len(events) - 1)
          /\ \A i \in 1..(Len(events) - 1) : events'[i] = events[i + 1]
      BY <1>2, <2>1, QueueTail
    <2> SUFFICES ASSUME NEW i \in DOMAIN events' PROVE EventTrue(events[i])'
      BY <2>2 DEF EventsTrue
    <2>3. PICK e : e = events'[i]
      OBVIOUS
    <2>4. i + 1 \in DOMAIN events /\ events[i + 1] = e
      BY <2>2, <2>3
    <2>5. EventTrue(e)'
      BY <1>1, <2>1, <2>4 DEF EventTrue, deviceVars
    <2> QED BY <2>3, <2>5
  <1>7. transfer' # NoTransfer => Leased(transfer.id)'
    <2>1. PICK x : x = transfer.id
      OBVIOUS
    <2>2. transfer # NoTransfer => Leased(x)'
      BY <1>1, <2>1 DEF LanInv, HostTrue
    <2> QED BY <1>2, <2>1, <2>2
  <1>8. HostTrue'
    BY <1>1, <1>5, <1>6, <1>7 DEF LanInv, HostTrue, deviceVars
  <1>9. ThreadsAgree'
    BY DaemonAgrees DEF LanInv, HostTrue
  <1> QED BY <1>3, <1>4, <1>8, <1>9, HostStill DEF LanInv
\* The first event, and the queues as they are.
LEMMA DaemonStarts ==
  ASSUME LanInv, UNCHANGED deviceVars, leases' \in Nat, leases' >= leases, events # <<>>
  PROVE  /\ Head(events) = events[1] /\ Head(events) \in Event /\ EventTrue(Head(events))
         /\ 1 \in DOMAIN events
         /\ commands \in Seq(Cmd) /\ Len(commands) \in Nat /\ DOMAIN commands = 1..Len(commands)
         /\ LeasedQueue(commands)
         /\ \A q : LeasedQueue(q) => LeasedQueue(q)'
  <1>1. events \in Seq(Event) /\ \A i \in DOMAIN events : EventTrue(events[i])
    BY DEF LanInv, HostTrue, EventsTrue
  <1>2. Head(events) = events[1] /\ Head(events) \in Event /\ 1 \in DOMAIN events
    BY <1>1, QueueTail
  <1>3. LeasedQueue(commands)
    BY DEF LanInv, HostTrue, CommandsTrue, LeasedQueue
  <1>4. commands \in Seq(Cmd) /\ Len(commands) \in Nat /\ DOMAIN commands = 1..Len(commands)
    BY LenProperties DEF LanInv, HostTrue, CommandsTrue
  <1>5. \A q : LeasedQueue(q) => LeasedQueue(q)'
    BY HostStill DEF LeasedQueue
  <1> QED BY <1>1, <1>2, <1>3, <1>4, <1>5

\* No command is added, or the confirmation of a finish.
LEMMA DaemonAnswers ==
  ASSUME LanInv, UNCHANGED deviceVars, events # <<>>, events' = Tail(events),
         UNCHANGED <<transfer, leases>>, NEW id, Leased(id),
         commands' = commands \/ commands' = Append(commands, Command("FinishAck", id)),
         \A x : IsActive(x) => IsActive(x)' \/ EndsAt(x, 1)
  PROVE  DaemonTurns /\ \E q : q = commands' /\ LeasedQueue(q)'
  <1>1. leases' \in Nat /\ leases' >= leases
    BY DEF LanInv, HostTrue
  <1>2. /\ commands \in Seq(Cmd) /\ Len(commands) \in Nat /\ DOMAIN commands = 1..Len(commands)
        /\ LeasedQueue(commands) /\ \A q : LeasedQueue(q) => LeasedQueue(q)'
    BY <1>1, DaemonStarts
  <1>3. PICK c : c = Command("FinishAck", id)
    OBVIOUS
  <1>4. c \in Cmd /\ c.kind = "FinishAck" /\ c.id = id
    BY <1>3 DEF Command, Cmd, Leased
  <1>5. Leased(c.id)'
    BY <1>1, <1>4, HostStill
  <1>6. CASE commands' = commands
    <2>1. PICK q : q = commands
      OBVIOUS
    <2>2. LeasedQueue(q)'
      BY <1>2, <2>1
    <2>3. DaemonTurns
      BY <1>2, <1>6 DEF DaemonTurns
    <2> QED BY <1>6, <2>1, <2>2, <2>3
  <1>7. CASE commands' = Append(commands, c)
    <2>1. PICK q : q = commands
      OBVIOUS
    <2>2. LeasedQueue(q)'
      BY <1>2, <2>1
    <2>3. LeasedQueue(Append(q, c))'
      BY <1>4, <1>5, <2>2, LeasedAppend
    <2>4. /\ commands' \in Seq(Cmd) /\ DOMAIN commands' = 1..(Len(commands) + 1)
          /\ commands'[Len(commands) + 1] = c /\ Len(commands') = Len(commands) + 1
          /\ \A i \in 1..Len(commands) : commands'[i] = commands[i]
      <3>1. /\ Append(q, c) \in Seq(Cmd) /\ DOMAIN Append(q, c) = 1..(Len(q) + 1)
            /\ Append(q, c)[Len(q) + 1] = c /\ Len(Append(q, c)) = Len(q) + 1
            /\ \A i \in 1..Len(q) : Append(q, c)[i] = q[i]
        BY <1>2, <1>4, <2>1, QueueAppend
      <3>2. commands' = Append(q, c)
        BY <1>7, <2>1
      <3> QED BY <2>1, <3>1, <3>2
    <2>5. \A j \in DOMAIN commands' : j > Len(commands) => commands'[j].kind # "Start"
      BY <1>2, <1>4, <2>4
    <2>6. DaemonTurns
      BY <1>2, <2>4, <2>5 DEF DaemonTurns
    <2> QED BY <1>7, <2>1, <2>3, <2>6
  <1> QED BY <1>3, <1>6, <1>7

\* handle_lan_playback_event: Finished and Cancelled.
LEMMA CommitSteps ==
  ASSUME LanInv, UNCHANGED deviceVars, CommitFinished \/ CommitFinishedUnclean \/ CommitCancelled
  PROVE  LanInv'
  <1>1. /\ events # <<>> /\ events' = Tail(events) /\ Head(events).kind # "Request"
        /\ UNCHANGED <<transfer, leases, net, floors>>
    BY DEF CommitFinished, CommitFinishedUnclean, CommitCancelled, NextEvent, threadVars
  <1>2. leases' \in Nat /\ leases' >= leases
    BY <1>1 DEF LanInv, HostTrue
  <1>3. PICK id : id = Head(events).id
    OBVIOUS
  <1>4. /\ events[1].kind # "Request" /\ events[1].id = id /\ Leased(id)
        /\ Head(events).kind = "Finished" => id \in drained
    BY <1>1, <1>2, <1>3, DaemonStarts DEF EventTrue
  <1>5. \A x : Leased(x) => Leased(x)'
    BY <1>2, HostStill
  <1>6. /\ active = {} \/ \E a \in active : active = {a}
        /\ \A a \in active : a \in Activity /\ Leased(a.id)
    BY DEF LanInv, HostTrue, ActiveTrue
  <1>7. /\ active' \subseteq {a \in active : a.id # id}
           \/ active' = active
           \/ active' = {[a EXCEPT !.heard = TRUE] : a \in active}
        /\ \A a \in active : a.id # id => a \in active'
        /\ commands' = commands \/ commands' = Append(commands, Command("FinishAck", id))
        /\ heard' \subseteq drained
    <2>1. heard \subseteq drained
      BY DEF LanInv, HostTrue
    <2>2. CASE CommitCancelled
      BY <1>3, <2>1, <2>2 DEF CommitCancelled
    <2>3. CASE CommitFinished
      BY <1>3, <1>4, <2>1, <2>3 DEF CommitFinished, NextEvent
    <2>4. CASE CommitFinishedUnclean
      <3>1. PICK a \in active : active = {a} /\ a.id = id
        BY <1>3, <1>6, <2>4 DEF CommitFinishedUnclean
      <3>2. {b \in active : b.id = id} = active
        BY <3>1
      <3>3. active' = {[b EXCEPT !.heard = TRUE] : b \in active}
        BY <1>3, <2>4, <3>2 DEF CommitFinishedUnclean
      <3>4. heard' \subseteq drained
        BY <1>3, <1>4, <2>1, <2>4 DEF CommitFinishedUnclean, NextEvent
      <3>5. commands' = commands
        BY <2>4 DEF CommitFinishedUnclean
      <3> QED BY <3>1, <3>3, <3>4, <3>5
    <2> QED BY <2>2, <2>3, <2>4
  <1>8. \A x : IsActive(x) => IsActive(x)' \/ EndsAt(x, 1)
    BY <1>4, <1>7 DEF IsActive, EndsAt
  <1>9. ActiveTrue'
    <2>1. CASE active' = {[a EXCEPT !.heard = TRUE] : a \in active}
      <3>1. \A a \in active : [a EXCEPT !.heard = TRUE] \in Activity
                              /\ [a EXCEPT !.heard = TRUE].id = a.id
        BY <1>6 DEF Activity
      <3>2. \A b \in active' : b \in Activity /\ Leased(b.id)'
        BY <1>5, <1>6, <2>1, <3>1
      <3>3. active' = {} \/ \E b \in active' : active' = {b}
        <4>1. CASE active = {}
          BY <2>1, <4>1
        <4>2. ASSUME NEW a \in active, active = {a} PROVE \E b \in active' : active' = {b}
          <5>1. active' = {[a EXCEPT !.heard = TRUE]}
            BY <2>1, <4>2
          <5> QED BY <5>1
        <4> QED BY <1>6, <4>1, <4>2
      <3> QED BY <3>2, <3>3 DEF ActiveTrue
    <2>2. CASE active' \subseteq active
      <3>1. \A b \in active' : b \in Activity /\ Leased(b.id)'
        BY <1>5, <1>6, <2>2
      <3>2. active' = {} \/ \E b \in active' : active' = {b}
        BY <1>6, <2>2
      <3> QED BY <3>1, <3>2 DEF ActiveTrue
    <2> QED BY <1>7, <2>1, <2>2
  <1>10. DaemonTurns /\ \E q : q = commands' /\ LeasedQueue(q)'
    BY <1>1, <1>4, <1>7, <1>8, DaemonAnswers
  <1> QED BY <1>1, <1>2, <1>7, <1>9, <1>10, DaemonKeeps
\* The commands, with the cancellation of what is active.
LEMMA CancelsActive ==
  ASSUME LanInv, UNCHANGED deviceVars, leases' \in Nat, leases' >= leases, events # <<>>
  PROVE  \E q \in Seq(Cmd) :
           /\ q = commands \o CancelAll /\ LeasedQueue(q)'
           /\ Len(q) \in Nat /\ DOMAIN q = 1..Len(q) /\ Len(q) >= Len(commands)
           /\ \A i \in 1..Len(commands) : q[i] = commands[i]
           /\ \A i \in 1..Len(q) : i > Len(commands) => q[i].kind = "Cancel"
           /\ \A x : IsActive(x) =>
                \E i \in 1..Len(q) : i > Len(commands) /\ q[i].kind = "Cancel" /\ q[i].id = x
  <1>1. /\ commands \in Seq(Cmd) /\ Len(commands) \in Nat /\ DOMAIN commands = 1..Len(commands)
        /\ LeasedQueue(commands) /\ \A q : LeasedQueue(q) => LeasedQueue(q)'
    BY DaemonStarts
  <1>2. PICK k : k = commands
    OBVIOUS
  <1>3. LeasedQueue(k)'
    BY <1>1, <1>2
  <1>4. CASE active = {} /\ CancelAll = <<>>
    <2>1. k \o <<>> = k
      BY <1>1, <1>2, ConcatEmptySeq
    <2>2. \A x : ~IsActive(x)
      BY <1>4 DEF IsActive
    <2>3. \A i \in 1..Len(k) : ~(i > Len(k))
      BY <1>1, <1>2
    <2> k \in Seq(Cmd)
      BY <1>1, <1>2
    <2> WITNESS k \in Seq(Cmd)
    <2> QED BY <1>1, <1>2, <1>3, <1>4, <2>1, <2>2, <2>3
  <1>5. ASSUME NEW a \in active, active = {a}, CancelAll = <<Command("Cancel", a.id)>>
        PROVE  \E q \in Seq(Cmd) :
           /\ q = commands \o CancelAll /\ LeasedQueue(q)'
           /\ Len(q) \in Nat /\ DOMAIN q = 1..Len(q) /\ Len(q) >= Len(commands)
           /\ \A i \in 1..Len(commands) : q[i] = commands[i]
           /\ \A i \in 1..Len(q) : i > Len(commands) => q[i].kind = "Cancel"
           /\ \A x : IsActive(x) =>
                \E i \in 1..Len(q) : i > Len(commands) /\ q[i].kind = "Cancel" /\ q[i].id = x
    <2>1. PICK c : c = Command("Cancel", a.id)
      OBVIOUS
    <2>2. a \in Activity /\ Leased(a.id)
      BY DEF LanInv, HostTrue, ActiveTrue
    <2>3. c \in Cmd /\ c.kind = "Cancel" /\ c.id = a.id
      BY <2>1, <2>2 DEF Command, Cmd, Activity
    <2>4. Leased(c.id)'
      BY <2>2, <2>3, HostStill
    <2>5. PICK q : q = Append(k, c)
      OBVIOUS
    <2>6. LeasedQueue(q)'
      BY <1>3, <2>3, <2>4, <2>5, LeasedAppend
    <2>7. q = commands \o CancelAll
      BY <1>1, <1>2, <1>5, <2>1, <2>3, <2>5, AppendIsConcat
    <2>8. /\ q \in Seq(Cmd) /\ Len(k) \in Nat /\ DOMAIN q = 1..(Len(k) + 1)
          /\ q[Len(k) + 1] = c /\ Len(q) = Len(k) + 1
          /\ \A i \in 1..Len(k) : q[i] = k[i]
      BY <1>1, <1>2, <2>3, <2>5, QueueAppend
    <2>9. \A i \in 1..Len(q) : i > Len(k) => q[i].kind = "Cancel"
      BY <2>3, <2>8
    <2>10. \A x : IsActive(x) => x = a.id
      BY <1>5 DEF IsActive
    <2>11. Len(k) + 1 \in 1..Len(q) /\ Len(k) + 1 > Len(k)
      BY <2>8
    <2>12. \A x : IsActive(x) =>
             \E i \in 1..Len(q) : i > Len(k) /\ q[i].kind = "Cancel" /\ q[i].id = x
      BY <2>3, <2>8, <2>10, <2>11
    <2>13. Len(q) >= Len(k) /\ Len(q) \in Nat
      BY <2>8
    <2> q \in Seq(Cmd)
      BY <2>8
    <2> WITNESS q \in Seq(Cmd)
    <2> QED BY <1>2, <2>6, <2>7, <2>8, <2>9, <2>12, <2>13
  <1> QED BY <1>4, <1>5, CancelAllIs DEF LanInv, HostTrue

\* A playback with a new lease is known to nobody.
LEMMA NewLease ==
  ASSUME LanInv, NEW id, id.lease = leases + 1
  PROVE  /\ \A d \in DOMAIN events : ~EndsAt(id, d)
         /\ transfer # NoTransfer => transfer.id # id
         /\ \A q \in DOMAIN commands : commands[q].id # id
  <1>1. \A x : Leased(x) => x # id
    BY DEF Leased, LanInv, HostTrue
  <1> QED BY <1>1 DEF EndsAt, LanInv, HostTrue, EventsTrue, EventTrue, CommandsTrue

\* begin_lan_playback.
LEMMA BeginPlaybackStep ==
  ASSUME LanInv, UNCHANGED deviceVars, BeginPlayback
  PROVE  LanInv'
  <1>1. /\ events # <<>> /\ events' = Tail(events) /\ Head(events).kind = "Request"
        /\ UNCHANGED <<transfer, heard, net, floors>>
    BY DEF BeginPlayback, NextEvent, threadVars
  <1>2. leases \in Nat /\ leases' \in Nat /\ leases' >= leases
    BY DEF BeginPlayback, LanInv, HostTrue
  <1>3. PICK r : r = Head(events).req
    OBVIOUS
  <1>4. /\ events[1].kind = "Request" /\ r \in Requests /\ Known(r)
        /\ commands \in Seq(Cmd) /\ Len(commands) \in Nat /\ DOMAIN commands = 1..Len(commands)
        /\ LeasedQueue(commands) /\ \A q : LeasedQueue(q) => LeasedQueue(q)'
    BY <1>1, <1>2, <1>3, DaemonStarts DEF Event, EventTrue
  <1>5. heard' \subseteq drained
    BY <1>1 DEF LanInv, HostTrue
  <1>6. PICK id : id = IdentityFor(r, leases + 1)
    OBVIOUS
  <1>7. id \in Identities /\ id.lease = leases + 1 /\ id.gen = r.gen /\ id.conn = r.conn
    BY <1>2, <1>4, <1>6 DEF IdentityFor, Requests, Identities
  <1>8. Known(id)
    BY <1>4, <1>7 DEF Known
  <1>9. PICK q \in Seq(Cmd) :
           /\ q = commands \o CancelAll /\ LeasedQueue(q)'
           /\ Len(q) \in Nat /\ DOMAIN q = 1..Len(q) /\ Len(q) >= Len(commands)
           /\ \A i \in 1..Len(commands) : q[i] = commands[i]
           /\ \A i \in 1..Len(q) : i > Len(commands) => q[i].kind = "Cancel"
           /\ \A x : IsActive(x) =>
                \E i \in 1..Len(q) : i > Len(commands) /\ q[i].kind = "Cancel" /\ q[i].id = x
    BY <1>1, <1>2, CancelsActive
  <1>10. CASE UNCHANGED <<active, leases, commands>>
    <2>1. PICK k : k = commands
      OBVIOUS
    <2>2. LeasedQueue(k)'
      BY <1>4, <2>1
    <2>3. DaemonTurns
      BY <1>1, <1>4, <1>10 DEF DaemonTurns, IsActive
    <2>4. ActiveTrue'
      BY <1>2, <1>10, HostStill DEF LanInv, HostTrue, ActiveTrue
    <2> QED BY <1>1, <1>2, <1>5, <1>10, <2>1, <2>2, <2>3, <2>4, DaemonKeeps
  <1>11. CASE active' = {} /\ commands' = q
    <2>1. \A x : IsActive(x) => \E i \in DOMAIN commands' : i > Len(commands) /\ CancelsAt(x, i)'
      BY <1>9, <1>11 DEF CancelsAt
    <2>2. \A j \in DOMAIN commands' : j > Len(commands) => commands'[j].kind # "Start"
      BY <1>9, <1>11
    <2>3. DaemonTurns
      BY <1>1, <1>4, <1>9, <1>11, <2>1, <2>2 DEF DaemonTurns
    <2>4. ActiveTrue'
      BY <1>11 DEF ActiveTrue
    <2> QED BY <1>1, <1>2, <1>5, <1>9, <1>11, <2>3, <2>4, DaemonKeeps
  <1>12. CASE /\ active' = {[id |-> id, heard |-> FALSE]} /\ leases' = leases + 1
              /\ commands' = q \o <<Command("Start", id)>>
    <2>1. PICK c : c = Command("Start", id)
      OBVIOUS
    <2>2. c \in Cmd /\ c.kind = "Start" /\ c.id = id
      BY <1>7, <2>1 DEF Command, Cmd
    <2>3. Known(id)'
      BY <1>8, HostStill
    <2>4. leases + 1 \in 0..leases' /\ leases' \in Nat
      BY <1>2, <1>12
    <2>5. Leased(id)'
      BY <1>7, <2>3, <2>4 DEF Leased
    <2>6. commands' = Append(q, c)
      BY <1>12, <2>1, <2>2, AppendIsConcat
    <2>7. PICK k : k = Append(q, c)
      OBVIOUS
    <2>8. LeasedQueue(k)'
      BY <1>9, <2>2, <2>5, <2>7, LeasedAppend
    <2>9. PICK m \in Nat, n \in Nat : m = Len(q) /\ n = Len(commands) /\ n <= m
      BY <1>4, <1>9
    <2>10. /\ commands' \in Seq(Cmd) /\ Len(commands') = m + 1 /\ DOMAIN commands' = 1..(m + 1)
           /\ commands'[m + 1] = c /\ \A i \in 1..m : commands'[i] = q[i]
      BY <2>2, <2>6, <2>9, QueueAppend
    <2>11. ASSUME NEW j \in 1..(m + 1), j > n, commands'[j].kind = "Start"
           PROVE  j = m + 1
      <3> SUFFICES ASSUME j # m + 1 PROVE FALSE
        OBVIOUS
      <3>1. j \in 1..m
        OBVIOUS
      <3>2. q[j].kind = "Cancel" /\ commands'[j] = q[j]
        BY <1>9, <2>9, <2>10, <2>11, <3>1
      <3> QED BY <2>11, <3>2
    <2>12. ASSUME NEW x, IsActive(x)
           PROVE  \E i \in 1..(m + 1) : n < i /\ i < m + 1 /\ CancelsAt(x, i)'
      <3>1. PICK i \in 1..m : i > n /\ q[i].kind = "Cancel" /\ q[i].id = x
        BY <1>9, <2>9, <2>12
      <3> QED BY <2>10, <3>1 DEF CancelsAt
    <2>13. /\ \A d \in DOMAIN events : ~EndsAt(id, d)
           /\ transfer # NoTransfer => transfer.id # id
           /\ \A p \in DOMAIN commands : commands[p].id # id
      BY <1>7, NewLease
    <2>14. \E a \in active' : a.id = id
      BY <1>12
    <2>15. DaemonTurns
      <3>1. \A i \in DOMAIN commands : commands'[i] = commands[i]
        BY <1>4, <1>9, <2>9, <2>10
      <3>2. \A x : IsActive(x) =>
              \E i \in DOMAIN commands' : i > Len(commands) /\ CancelsAt(x, i)'
        BY <2>9, <2>10, <2>12
      <3>3. ASSUME NEW j \in DOMAIN commands', j > Len(commands), commands'[j].kind = "Start"
            PROVE  /\ \A x : IsActive(x) => \E i \in DOMAIN commands' :
                        Len(commands) < i /\ i < j /\ CancelsAt(x, i)'
                   /\ commands'[j].id = id
                   /\ \A p \in DOMAIN commands' :
                        p > Len(commands) /\ commands'[p].kind = "Start" => p = j
        <4>1. j = m + 1
          BY <2>9, <2>10, <2>11, <3>3
        <4> QED BY <2>2, <2>9, <2>10, <2>11, <2>12, <4>1
      <3> QED BY <1>1, <1>4, <2>9, <2>10, <2>13, <2>14, <3>1, <3>2, <3>3 DEF DaemonTurns
    <2>16. ActiveTrue'
      BY <1>7, <1>12, <2>5 DEF ActiveTrue, Activity
    <2> QED BY <1>1, <1>2, <1>5, <2>6, <2>7, <2>8, <2>15, <2>16, DaemonKeeps
  <1> QED
    BY <1>3, <1>6, <1>9, <1>10, <1>11, <1>12 DEF BeginPlayback

\* The Host starts over: the network and the keyboard still know what they knew.
LEMMA RestartStep ==
  ASSUME LanInv, UNCHANGED deviceVars, Restart
  PROVE  LanInv'
  <1>1. /\ transfer' = NoTransfer /\ floors' = {} /\ events' = <<>> /\ commands' = <<>>
        /\ active' = {} /\ UNCHANGED <<leases, heard, net>>
    BY DEF Restart
  <1>2. DOMAIN events' = {} /\ DOMAIN commands' = {} /\ Len(commands') = 0
    BY <1>1
  <1>3. HostTrue'
    BY <1>1, <1>2 DEF LanInv, HostTrue, EventsTrue, CommandsTrue, ActiveTrue, deviceVars
  <1>4. ThreadsAgree'
    BY <1>1, <1>2 DEF ThreadsAgree, CancelledBefore, CancelledOrActive, NotStarted
  <1>5. NetTrue'
    BY <1>1, HostStill DEF LanInv, NetTrue
  <1> QED BY <1>1, <1>3, <1>4, <1>5, TransferOver, HostStill DEF LanInv
-----------------------------------------------------------------------------
(* The theorems.                                                           *)

LEMMA HostStepKeeps ==
  ASSUME LanInv, HostStep
  PROVE  LanInv'
  <1>1. HostNext /\ UNCHANGED deviceVars
    BY DEF HostStep
  <1>2. CASE HostReceives
    <2>1. PICK m \in net : \/ HostRequest(m) \/ HostBeginAck(m) \/ HostDataAck(m) \/ HostGap(m)
                           \/ HostStaleGap(m) \/ HostAbort(m) \/ HostConfirmsAgain(m)
                           \/ HostFinished(m) \/ SendFails(m)
      BY <1>2 DEF HostReceives
    <2>2. CASE HostRequest(m)
      BY <1>1, <2>2, RequestStep
    <2>3. CASE HostBeginAck(m) \/ HostDataAck(m)
      BY <1>1, <2>3, AckSteps
    <2>4. CASE HostGap(m)
      BY <1>1, <2>4, GapStep
    <2>5. CASE HostStaleGap(m) \/ HostAbort(m)
      BY <1>1, <2>5, EndingSteps
    <2>6. CASE HostConfirmsAgain(m)
      BY <1>1, <2>6, QuietHostSteps
    <2>7. CASE HostFinished(m)
      BY <1>1, <2>7, FinishedStep
    <2>8. CASE SendFails(m)
      BY <1>1, <2>8, SendFailsStep
    <2> QED BY <2>1, <2>2, <2>3, <2>4, <2>5, <2>6, <2>7, <2>8
  <1>3. CASE Commands
    BY <1>1, <1>3, StartSteps, SettleSteps DEF Commands
  <1>4. CASE Ticks \/ Expire \/ Mute \/ Unmute
    BY <1>1, <1>4, RetryStep, EndingSteps, QuietHostSteps DEF Ticks
  <1>5. CASE Events \/ CommitFinishedUnclean
    BY <1>1, <1>5, BeginPlaybackStep, CommitSteps DEF Events
  <1>6. CASE Restart
    BY <1>1, <1>6, RestartStep
  <1> QED BY <1>1, <1>2, <1>3, <1>4, <1>5, <1>6 DEF HostNext

LEMMA LanStarts ==
  ASSUME Init
  PROVE  LanInv
  <1>0. PICK g \in Generations : lives = <<[boot |-> 0, generation |-> g]>>
    BY DEF Init, DeviceInit
  <1>1. /\ net = {} /\ dev = Resting /\ slots = SlotsInit /\ speaker = "quiet"
        /\ route = 1 /\ Len(lives) = 1 /\ boot = 0 /\ lives \in Seq(Lives) /\ lives[1].boot = 0
        /\ transfer = NoTransfer /\ floors = {} /\ events = <<>>
        /\ commands = <<>> /\ active = {} /\ leases = 0 /\ heard = {} /\ drained = {}
    BY <1>0 DEF Init, DeviceInit, HostInit, Lives
  <1>2. DeviceInv
    <2>1. dev \in Transport /\ slots \in SlotRecord
      BY <1>1, TotalAssumption, DeviceBounds
         DEF Resting, SlotsInit, Transport, SlotRecord, DevicePhases, SlotPhases, Tries,
             PendingRequests, KnownIdentities
    <2>2. DeviceTyped
      BY <1>1, <2>1, DeviceBounds DEF DeviceTyped, RoutesTold
    <2>3. DeviceKnows /\ DeviceShape
      BY <1>1 DEF DeviceKnows, DeviceShape, Resting, SlotsInit
    <2>4. SlotsAgree /\ PlaysOverItsRoute /\ RecordingSilencesPlayback
      BY <1>1 DEF SlotsAgree, PlaysOverItsRoute, RecordingSilencesPlayback, Resting, SlotsInit
    <2> QED BY <2>2, <2>3, <2>4 DEF DeviceInv
  <1>3. NetTrue /\ TransferTrue
    BY <1>1 DEF NetTrue, TransferTrue, AckedWasReceived
  <1>4. DOMAIN events = {} /\ DOMAIN commands = {} /\ Len(commands) = 0
    BY <1>1
  <1>5. HostTrue
    BY <1>1, <1>4 DEF HostTrue, EventsTrue, CommandsTrue, ActiveTrue
  <1>6. ThreadsAgree
    BY <1>1, <1>4 DEF ThreadsAgree, CancelledBefore, CancelledOrActive, NotStarted
  <1> QED BY <1>2, <1>3, <1>5, <1>6 DEF LanInv

LEMMA LanStutters ==
  ASSUME LanInv, UNCHANGED vars
  PROVE  LanInv'
  <1>1. UNCHANGED <<deviceVars, hostVars, net>> /\ UNCHANGED <<transfer, events, floors>> /\ DaemonStill
    BY DEF vars, hostVars, DaemonStill
  <1>2. Follows /\ TransferTrue'
    BY <1>1 DEF Follows, LanInv, TransferTrue, AckedWasReceived, Known, deviceVars
  <1> QED BY <1>1, <1>2, TransferStep

\* Whatever is lost, repeated, delayed, preempted, timed out or restarted, the inductive
\* invariant of keyboard, network and Host holds.
THEOREM LanInvariance == Spec => []LanInv
  <1>1. Init => LanInv
    BY LanStarts
  <1>2. LanInv /\ [Next]_vars => LanInv'
    BY DeviceStepKeeps, HostStepKeeps, LanStutters DEF Next
  <1> QED BY <1>1, <1>2, PTL DEF Spec

\* The Host never believes more than the keyboard holds, the keyboard's transport and slot
\* state agree, what plays came over the present route, and the ingress thread has room for
\* every start the daemon sends it.
THEOREM AllEndsAgree == Spec => []EndsAgree
  <1>1. LanInv => EndsAgree
    BY StartsFindRoom DEF EndsAgree, LanInv, DeviceInv, TransferTrue
  <1> QED BY <1>1, LanInvariance, PTL

\* While a slot is recorded nothing plays and nothing is fetched.
THEOREM RecordingSilences == Spec => []RecordingSilencesPlayback
  <1>1. LanInv => RecordingSilencesPlayback
    BY DEF LanInv, DeviceInv
  <1> QED BY <1>1, LanInvariance, PTL

\* A summary marked heard was played to its last chunk by the keyboard's speaker.
THEOREM OnlyDrainedIsHeard == Spec => []HeardWasDrained
  <1>1. LanInv => HeardWasDrained
    <2> SUFFICES ASSUME LanInv PROVE HeardWasDrained
      OBVIOUS
    <2>1. dev \in Transport /\ slots \in SlotRecord /\ speaker \in {"quiet", "busy", "ok", "bad"}
      BY DEF LanInv, DeviceInv, DeviceTyped
    <2>2. route \in 0..routes /\ routes \in 1..MaxRoutes /\ lives \in Seq(Lives) /\ boot \in Nat
      BY DEF LanInv, DeviceInv, DeviceTyped, RoutesTold, routes
    <2>3. transfer \in Transfers \cup {NoTransfer}
      BY DEF LanInv, TransferTrue
    <2>4. active \subseteq Activity /\ heard \subseteq drained
      BY DEF LanInv, HostTrue, ActiveTrue
    <2> QED BY <2>1, <2>2, <2>3, <2>4
            DEF HeardWasDrained, TypeOK, Transport, SlotRecord, Activity, Tries, Lives
  <1> QED BY <1>1, LanInvariance, PTL

\* accept_request_generation never takes a new press for a repetition, unless a reboot drew a
\* generation of an earlier one.
THEOREM PressesAreFresh == Spec => []FloorBehindKeyboard
  <1>1. LanInv => FloorBehindKeyboard
    <2> SUFFICES ASSUME LanInv, route # 0, NEW k \in Slot, NEW r, r = NextRequest(slots, k, route)
                 PROVE  Fresh(r) \/ DrawnAgain(r)
      BY DEF FloorBehindKeyboard
    <2>1. slots.requests \in Nat /\ r.gen = slots.requests + 1
      BY DeviceFields, DeviceBounds DEF LanInv, NextRequest
    <2>2. ASSUME NEW f \in floors, SameFloor(f, r), lives[f.conn].boot = boot PROVE r.gen > f.gen
      <3>1. f.gen \in Nat /\ f.gen <= slots.requests
        BY <2>2 DEF LanInv, HostTrue, Known, Requests
      <3> QED BY <2>1, <3>1
    <2>3. ASSUME NEW f \in floors, SameFloor(f, r), lives[f.conn].boot # boot PROVE DrawnAgain(r)
      <3>1. f.conn \in 1..Len(lives)
        BY <2>3 DEF LanInv, HostTrue, Known
      <3>2. boot \in Nat /\ lives[f.conn].boot \in 0..boot
        BY <3>1 DEF LanInv, DeviceInv, DeviceTyped, RoutesTold
      <3> QED BY <2>3, <3>2 DEF DrawnAgain, SameFloor
    <2> QED BY <2>2, <2>3 DEF Fresh
  <1> QED BY <1>1, LanInvariance, PTL
=============================================================================
