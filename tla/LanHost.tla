------------------------------- MODULE LanHost -------------------------------
(***************************************************************************)
(* The Host's end of a playback: the ingress thread's ActiveLanPlayback    *)
(* (lan_voice.rs) and the daemon loop's playback handler (health.rs), two  *)
(* threads joined by an event channel and a command channel.               *)
(*                                                                         *)
(* The ledger behind the handler is SummaryLedger: here an acquisition     *)
(* yields a fresh lease or finds nothing unread, and the identities it     *)
(* marks heard are remembered.                                             *)
(***************************************************************************)
EXTENDS LanWire, SequencesExt

CONSTANTS NoTransfer,
          Window,          \* PLAYBACK_SEND_WINDOW_CHUNKS
          MaxRetries,      \* PLAYBACK_MAX_RETRIES
          MaxEvents,       \* bound: events waiting when an EIPF is repeated
          MaxHostFaults    \* bound: refusing sockets, failed cleanups, restarts

ASSUME WindowAssumption == Window \in Nat \ {0}
ASSUME HostBounds == MaxRetries \in Nat /\ MaxEvents \in Nat /\ MaxHostFaults \in Nat

VARIABLES transfer,        \* [id, phase, acked, sent, tries] or NoTransfer
          retiredFinish, retiredCancel,   \* identities still answered for
          floors,          \* accepted_requests: requests with the last
                           \* generation accepted per slot and connection
          events,          \* LanPlaybackEvent channel
          commands,        \* LanPlaybackCommand channel
          active,          \* ActiveHostPlayback map: [id, heard]
          leases,          \* leases acquired so far
          heard,           \* identities whose summary was marked heard
          mute,            \* external: the Host's socket refuses to send
          hostFaults

hostVars == <<transfer, retiredFinish, retiredCancel, floors, events, commands,
              active, leases, heard, mute, hostFaults>>
faultVars == <<mute, hostFaults>>
threadVars == <<transfer, retiredFinish, retiredCancel, floors>>
daemonVars == <<active, leases, heard>>

HostPhases == {"BeginAck", "DataAck", "DeviceFinished", "HostCommit"}
Transfers == [id : Identities, phase : HostPhases, acked : 0..Total, sent : 0..Total,
              tries : 0..MaxRetries]

ASSUME NoTransferAssumption == NoTransfer \notin Transfers

HostInit ==
  /\ transfer = NoTransfer
  /\ retiredFinish = {}
  /\ retiredCancel = {}
  /\ floors = {}
  /\ events = <<>>
  /\ commands = <<>>
  /\ active = {}
  /\ leases = 0
  /\ heard = {}
  /\ mute = FALSE
  /\ hostFaults = 0

HostFault == hostFaults < MaxHostFaults /\ hostFaults' = hostFaults + 1

Asks(r) == [kind |-> "Request", req |-> r]
Ends(kind, id) == [kind |-> kind, id |-> id]

Tell(event) == events' = Append(events, event)

Busy == transfer # NoTransfer

\* The transfer ends without having been heard.
GiveUp ==
  /\ transfer' = NoTransfer
  /\ Tell(Ends("Cancelled", transfer.id))

-----------------------------------------------------------------------------
(* Datagrams.                                                              *)

\* Mutant of SameFloor: one floor for a slot, whatever the connection.
SameSlot(f, r) == f.slot = r.slot

\* The key of accepted_requests: slot and connection generation.
SameFloor(f, r) == f.slot = r.slot /\ Generation(f.conn) = Generation(r.conn)

\* accept_request_generation.
Fresh(r) == \A f \in floors : SameFloor(f, r) => r.gen > f.gen

Raised(r) == {f \in floors : ~SameFloor(f, r)} \cup {r}

\* ingest, EIPR: a fresh request ends the transfer in progress.
HostRequest(m) ==
  /\ m \in Sent("EIPR")
  /\ Fresh(m.req)
  /\ floors' = Raised(m.req)
  /\ transfer' = NoTransfer
  /\ events' = events \o (IF Busy THEN <<Ends("Cancelled", transfer.id)>> ELSE <<>>)
                      \o <<Asks(m.req)>>
  /\ UNCHANGED <<retiredFinish, retiredCancel, commands, daemonVars, faultVars,
                 net>>

\* Mutant of WindowEnd: not clamped to the end of the audio.
WindowEndUnclamped(from) == from + Window

\* send_next_data: the window that starts at the acknowledged offset.
WindowEnd(from) == IF from + Window < Total THEN from + Window ELSE Total

Chunks(id, from, to) == {EIPD(id, i) : i \in from..(to - 1)}

SendWindow(from, tries) ==
  /\ ~mute
  /\ transfer' = [transfer EXCEPT !.phase = "DataAck", !.acked = from,
                                  !.sent = WindowEnd(from), !.tries = tries]
  /\ Send(Chunks(transfer.id, from, WindowEnd(from)))

\* accept_ack, what it reports for the transfer in progress.
Answers(m, status) ==
  /\ m \in Sent("EIPA")
  /\ Busy
  /\ m.id = transfer.id
  /\ m.status = status

\* accept_ack of a begin.
HostBeginAck(m) ==
  /\ Answers(m, Taken)
  /\ transfer.phase = "BeginAck"
  /\ m.next = 0
  /\ SendWindow(0, 0)
  /\ UNCHANGED <<retiredFinish, retiredCancel, floors, events, commands,
                 daemonVars, faultVars>>

AckInWindow(m) == m.next > transfer.acked /\ m.next <= transfer.sent

\* accept_ack of data: the next window once this one is acknowledged, the wait
\* for the speaker once everything is.
HostDataAck(m) ==
  /\ Answers(m, Taken)
  /\ transfer.phase = "DataAck"
  /\ AckInWindow(m)
  /\ IF m.next # transfer.sent
     THEN /\ transfer' = [transfer EXCEPT !.acked = m.next, !.tries = 0]
          /\ UNCHANGED net
     ELSE IF m.next = Total
     THEN /\ transfer' = [transfer EXCEPT !.phase = "DeviceFinished",
                                          !.acked = m.next, !.tries = 0]
          /\ UNCHANGED net
     ELSE SendWindow(m.next, 0)
  /\ UNCHANGED <<retiredFinish, retiredCancel, floors, events, commands,
                 daemonVars, faultVars>>

GapInWindow(m) ==
  /\ transfer.phase = "DataAck"
  /\ m.next >= transfer.acked
  /\ m.next <= transfer.sent

\* accept_ack of a gap inside the window: resumed from there, a bounded number
\* of times from the same place.
HostGap(m) ==
  /\ Answers(m, Gap)
  /\ GapInWindow(m)
  /\ IF m.next > transfer.acked
     THEN SendWindow(m.next, 0) /\ UNCHANGED events
     ELSE IF transfer.tries < MaxRetries
     THEN SendWindow(m.next, transfer.tries + 1) /\ UNCHANGED events
     ELSE GiveUp /\ UNCHANGED net
  /\ UNCHANGED <<retiredFinish, retiredCancel, floors, commands, daemonVars,
                 faultVars>>

\* accept_ack of a gap outside it: a rejection like any other.
HostStaleGap(m) ==
  /\ Answers(m, Gap)
  /\ ~GapInWindow(m)
  /\ GiveUp
  /\ UNCHANGED <<retiredFinish, retiredCancel, floors, commands, daemonVars,
                 faultVars, net>>

\* accept_ack of a cancellation: confirmed, and remembered for repetitions
\* whether the confirmation could be sent or not.
HostAbort(m) ==
  /\ Answers(m, Abort)
  /\ GiveUp
  /\ retiredCancel' = {m.id}
  /\ Send(IF mute THEN {} ELSE {EIPK(m.id, 1)})
  /\ UNCHANGED <<retiredFinish, floors, commands, daemonVars, faultVars>>

\* accept_ack and ingest, EIPF, without a transfer: what was settled before is
\* confirmed again.
HostConfirmsAgain(m) ==
  /\ ~Busy
  /\ ~mute
  /\ \/ /\ m \in Sent("EIPA")
        /\ m.status = Abort
        /\ m.id \in retiredCancel
        /\ Send({EIPK(m.id, 1)})
     \/ /\ m \in Sent("EIPF")
        /\ m.id \in retiredFinish
        /\ Send({EIPK(m.id, 0)})
  /\ UNCHANGED hostVars

\* ingest, EIPF of the playback in progress; repeated until the daemon commits.
HostFinished(m) ==
  /\ m \in Sent("EIPF")
  /\ Busy
  /\ m.id = transfer.id
  /\ transfer.phase \in {"DeviceFinished", "HostCommit"}
  /\ transfer.phase = "HostCommit" => Len(events) < MaxEvents
  /\ transfer' = [transfer EXCEPT !.phase = "HostCommit"]
  /\ Tell(Ends("Finished", m.id))
  /\ UNCHANGED <<retiredFinish, retiredCancel, floors, commands, daemonVars,
                 faultVars, net>>

-----------------------------------------------------------------------------
(* Commands and time in the ingress thread.                                *)

NextCommand(kind) == commands # <<>> /\ Head(commands).kind = kind

\* Start: refused while a transfer is in progress.
HandleStart ==
  /\ NextCommand("Start")
  /\ Busy \/ ~mute
  /\ LET id == Head(commands).id
     IN  IF Busy
         THEN Tell(Ends("Cancelled", id)) /\ UNCHANGED <<transfer, net>>
         ELSE /\ transfer' = [id |-> id, phase |-> "BeginAck", acked |-> 0,
                              sent |-> 0, tries |-> 0]
              /\ Send({EIPB(id)})
              /\ UNCHANGED events
  /\ commands' = Tail(commands)
  /\ UNCHANGED <<retiredFinish, retiredCancel, floors, daemonVars, faultVars>>

\* Start with the begin not sent.
HandleStartFails ==
  /\ NextCommand("Start")
  /\ ~Busy
  /\ mute
  /\ Tell(Ends("Cancelled", Head(commands).id))
  /\ commands' = Tail(commands)
  /\ UNCHANGED <<threadVars, daemonVars, faultVars, net>>

Commits(id) == Busy /\ transfer.id = id /\ transfer.phase = "HostCommit"

\* FinishAck: the commit is confirmed and the transfer retired.
HandleFinishAck ==
  /\ NextCommand("FinishAck")
  /\ Commits(Head(commands).id) => ~mute
  /\ LET id == Head(commands).id
     IN  IF Commits(id)
         THEN /\ Send({EIPK(id, 0)})
              /\ retiredFinish' = {id}
              /\ transfer' = NoTransfer
         ELSE UNCHANGED <<net, retiredFinish, transfer>>
  /\ commands' = Tail(commands)
  /\ UNCHANGED <<retiredCancel, floors, events, daemonVars, faultVars>>

\* FinishAck with the confirmation not sent: the transfer stays.
HandleFinishAckFails ==
  /\ NextCommand("FinishAck")
  /\ Commits(Head(commands).id)
  /\ mute
  /\ commands' = Tail(commands)
  /\ UNCHANGED <<threadVars, events, daemonVars, faultVars, net>>

\* Cancel: the transfer is dropped without a word.
HandleCancel ==
  /\ NextCommand("Cancel")
  /\ transfer' = IF Busy /\ transfer.id = Head(commands).id THEN NoTransfer
                                                            ELSE transfer
  /\ commands' = Tail(commands)
  /\ UNCHANGED <<retiredFinish, retiredCancel, floors, events, daemonVars,
                 faultVars, net>>

\* tick: begin or window sent again.  Only what was sent is counted: while the
\* socket refuses, tick changes nothing.
Retry ==
  /\ Busy
  /\ ~mute
  /\ transfer.phase \in {"BeginAck", "DataAck"}
  /\ transfer.tries < MaxRetries
  /\ transfer' = [transfer EXCEPT !.tries = @ + 1]
  /\ Send(IF transfer.phase = "BeginAck" THEN {EIPB(transfer.id)}
          ELSE Chunks(transfer.id, transfer.acked, transfer.sent))
  /\ UNCHANGED <<retiredFinish, retiredCancel, floors, events, commands,
                 daemonVars, faultVars>>

\* Mutant of TimedOut: a finished transfer is waited for without a deadline.
TimedOutSending ==
  transfer.phase \in {"BeginAck", "DataAck"} /\ transfer.tries >= MaxRetries

TimedOut ==
  \/ transfer.phase \in {"BeginAck", "DataAck"} /\ transfer.tries >= MaxRetries
  \/ transfer.phase \in {"DeviceFinished", "HostCommit"}

\* tick: retries exhausted, or the finish deadline reached.
Timeout ==
  /\ Busy
  /\ TimedOut
  /\ GiveUp
  /\ UNCHANGED <<retiredFinish, retiredCancel, floors, commands, daemonVars,
                 faultVars, net>>

\* accept_ack answers this acknowledgement with a window.
AsksForWindow(m) ==
  \/ /\ Answers(m, Taken)
     /\ transfer.phase = "BeginAck"
     /\ m.next = 0
  \/ /\ Answers(m, Taken)
     /\ transfer.phase = "DataAck"
     /\ AckInWindow(m)
     /\ m.next = transfer.sent
     /\ m.next < Total
  \/ /\ Answers(m, Gap)
     /\ GapInWindow(m)
     /\ m.next > transfer.acked \/ transfer.tries < MaxRetries

\* accept_ack, the window not sent to its end: the transfer is given up.
SendFails(m) ==
  /\ mute
  /\ AsksForWindow(m)
  /\ GiveUp
  /\ \E end \in m.next..(WindowEnd(m.next) - 1) :
       Send(Chunks(transfer.id, m.next, end))
  /\ UNCHANGED <<retiredFinish, retiredCancel, floors, commands, daemonVars,
                 faultVars>>

Mute ==
  /\ ~mute
  /\ HostFault
  /\ mute' = TRUE
  /\ UNCHANGED <<threadVars, events, commands, daemonVars, net>>

Unmute ==
  /\ mute
  /\ mute' = FALSE
  /\ UNCHANGED <<threadVars, events, commands, daemonVars, hostFaults, net>>

\* tick: confirmations are kept for a limited time.
Expire ==
  /\ \/ retiredFinish # {} /\ retiredFinish' = {} /\ UNCHANGED retiredCancel
     \/ retiredCancel # {} /\ retiredCancel' = {} /\ UNCHANGED retiredFinish
  /\ UNCHANGED <<transfer, floors, events, commands, daemonVars, faultVars, net>>

-----------------------------------------------------------------------------
(* The daemon loop.                                                        *)

NextEvent(kind) == events # <<>> /\ Head(events).kind = kind

Command(kind, id) == [kind |-> kind, id |-> id]

InProgress(r) == \E a \in active : RequestOf(a.id) = r

\* Mutant of CancelAll: what is active is only forgotten.
CancelNone == <<>>

CancelAll == SetToSeq({Command("Cancel", a.id) : a \in active})

\* begin_lan_playback: whatever was active gives way; a lease is acquired and
\* its audio handed to the ingress thread, unless nothing is unread or its
\* audio cannot be read.
BeginPlayback ==
  /\ NextEvent("Request")
  /\ events' = Tail(events)
  /\ LET r == Head(events).req
         id == IdentityFor(r, leases + 1)
     IN  IF InProgress(r)
         THEN UNCHANGED <<active, leases, commands>>
         ELSE \/ /\ active' = {}
                 /\ commands' = commands \o CancelAll
                 /\ UNCHANGED leases
              \/ /\ active' = {[id |-> id, heard |-> FALSE]}
                 /\ commands' = commands \o CancelAll \o <<Command("Start", id)>>
                 /\ leases' = leases + 1
  /\ UNCHANGED <<threadVars, heard, faultVars, net>>

\* handle_lan_playback_event, Finished: committed once, cleaned up, confirmed.
CommitFinished ==
  /\ NextEvent("Finished")
  /\ events' = Tail(events)
  /\ LET found == {a \in active : a.id = Head(events).id}
     IN  IF found = {}
         THEN UNCHANGED <<active, heard, commands>>
         ELSE /\ heard' = heard \cup {a.id : a \in found}
              /\ active' = active \ found
              /\ commands' = Append(commands, Command("FinishAck", Head(events).id))
  /\ UNCHANGED <<threadVars, leases, faultVars, net>>

\* The same with the cache cleanup failing: the playback stays active, to be
\* confirmed when the keyboard asks again.
CommitFinishedUnclean ==
  /\ NextEvent("Finished")
  /\ HostFault
  /\ events' = Tail(events)
  /\ LET found == {a \in active : a.id = Head(events).id}
     IN  /\ found # {}
         /\ heard' = heard \cup {a.id : a \in found}
         /\ active' = (active \ found) \cup {[a EXCEPT !.heard = TRUE] : a \in found}
  /\ UNCHANGED <<threadVars, commands, leases, mute, net>>

\* handle_lan_playback_event, Cancelled.
CommitCancelled ==
  /\ NextEvent("Cancelled")
  /\ events' = Tail(events)
  /\ active' = {a \in active : a.id # Head(events).id}
  /\ UNCHANGED <<threadVars, commands, leases, heard, faultVars, net>>

\* The process ends and is started again: both threads forget everything, the
\* ledger takes the leases back.
Restart ==
  /\ HostFault
  /\ transfer' = NoTransfer
  /\ retiredFinish' = {}
  /\ retiredCancel' = {}
  /\ floors' = {}
  /\ events' = <<>>
  /\ commands' = <<>>
  /\ active' = {}
  /\ UNCHANGED <<leases, heard, mute, net>>

HostReceives ==
  \E m \in net :
    \/ HostRequest(m) \/ HostBeginAck(m) \/ HostDataAck(m) \/ HostGap(m)
    \/ HostStaleGap(m) \/ HostAbort(m) \/ HostConfirmsAgain(m)
    \/ HostFinished(m) \/ SendFails(m)

Commands ==
  \/ HandleStart \/ HandleStartFails
  \/ HandleFinishAck \/ HandleFinishAckFails
  \/ HandleCancel

Events == BeginPlayback \/ CommitFinished \/ CommitCancelled

Ticks == Retry \/ Timeout

HostNext ==
  \/ HostReceives
  \/ Commands
  \/ Ticks \/ Expire
  \/ Events \/ CommitFinishedUnclean
  \/ Mute \/ Unmute
  \/ Restart
=============================================================================
