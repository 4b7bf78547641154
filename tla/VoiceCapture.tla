---------------------------- MODULE VoiceCapture ----------------------------
(***************************************************************************)
(* A recording on its way from the keyboard's microphone to a prompt: the  *)
(* keyboard streams EIAU frames over UDP and closes with EIAE, the Host's  *)
(* CaptureAssembler (lan_voice.rs) puts them together, the ASR thread      *)
(* transcribes, and the daemon enqueues the prompt.                        *)
(*                                                                         *)
(* A frame is its sequence number; what the Host cannot get it replaces by *)
(* silence.  Both are counted in frames.  Datagrams that fail their checks *)
(* are dropped before this.  The network loses, repeats and reorders.      *)
(***************************************************************************)
EXTENDS Integers, Sequences, FiniteSets, Functions

CONSTANTS Session,        \* capture identities: slot, capture, connection
          Silence,
          MaxGap,         \* MAX_CAPTURE_GAP_FRAMES
          MinFrames,      \* MIN_CAPTURE_FRAMES
          MaxFrames,      \* frames in MAX_CAPTURE_BYTES
          MaxActive,      \* MAX_ACTIVE_CAPTURES, also the queue to the ASR thread
          MaxRetired,     \* MAX_RETIRED_SESSIONS
          MaxRecorded,    \* bound: frames of one recording
          MaxSources      \* bound: sockets one recording opens

ASSUME CaptureAssumption ==
  /\ MaxGap \in Nat
  /\ MinFrames \in Nat
  /\ MaxFrames \in Nat
  /\ MaxActive \in Nat \ {0}
  /\ MaxRetired \in Nat
  /\ MaxRecorded \in Nat
  /\ MaxSources \in Nat \ {0}
  /\ Silence \notin Nat

VARIABLES mic,         \* per session: [sent, source, state] of the keyboard's
                       \* stream; source tells its sockets apart
          net,         \* EIAU and EIAE datagrams sent
          assembling,  \* ActiveCapture: session -> [pcm, source], a partial function
          retired,     \* sessions not to be opened again, oldest first
          captures,    \* captures waiting for the ASR thread
          prompts,     \* prompts waiting for the daemon
          enqueued,    \* request ids the prompt queue knows
          completed    \* every capture the assembler handed on (history)

captureVars == <<mic, net, assembling, retired, captures, prompts, enqueued, completed>>

CaptureInit ==
  /\ mic = [s \in Session |-> [sent |-> 0, source |-> 1, state |-> "recording"]]
  /\ net = {}
  /\ assembling = [s \in {} |-> <<>>]
  /\ retired = <<>>
  /\ captures = <<>>
  /\ prompts = <<>>
  /\ enqueued = {}
  /\ completed = <<>>

EIAU(s) == [kind |-> "EIAU", session |-> s, n |-> mic[s].sent, source |-> mic[s].source]
EIAE(s) == [kind |-> "EIAE", session |-> s, n |-> mic[s].sent, source |-> mic[s].source]

ingressVars == <<assembling, retired, captures, prompts, enqueued, completed>>

-----------------------------------------------------------------------------
(* The keyboard (run_audio_stream).                                        *)

SendFrame(s) ==
  /\ mic[s].state = "recording"
  /\ mic[s].sent < MaxRecorded
  /\ net' = net \cup {EIAU(s)}
  /\ mic' = [mic EXCEPT ![s].sent = @ + 1]
  /\ UNCHANGED ingressVars

\* sendto fails: the stream goes on over a new socket, from another port, with
\* the frame it could not send.
RecoverSocket(s) ==
  /\ mic[s].state = "recording"
  /\ mic[s].source < MaxSources
  /\ mic' = [mic EXCEPT ![s].source = @ + 1]
  /\ UNCHANGED <<net, ingressVars>>

\* A clean end of a recording that sent something.
SendEnd(s) ==
  /\ mic[s].state = "recording"
  /\ mic[s].sent > 0
  /\ net' = net \cup {EIAE(s)}
  /\ mic' = [mic EXCEPT ![s].state = "ended"]
  /\ UNCHANGED ingressVars

\* Any other end: no EIAE is sent.
Abandon(s) ==
  /\ mic[s].state = "recording"
  /\ mic' = [mic EXCEPT ![s].state = "abandoned"]
  /\ UNCHANGED <<net, ingressVars>>

-----------------------------------------------------------------------------
(* The assembler.                                                          *)

Retired(s) == \E i \in DOMAIN retired : retired[i] = s
Open(s) == s \in DOMAIN assembling

\* Mutant of Retire: the session is forgotten at once.
RetireNothing(s) == retired

\* retire: the oldest entry makes room.
Retire(s) ==
  IF Retired(s) THEN retired
  ELSE LET q == Append(retired, s)
       IN  IF Len(q) > MaxRetired THEN Tail(q) ELSE q

Without(s) == [t \in DOMAIN assembling \ {s} |-> assembling[t]]

WithCapture(s, capture) ==
  [t \in DOMAIN assembling \cup {s} |-> IF t = s THEN capture ELSE assembling[t]]

\* Mutant of Reject: the capture stays open.
RejectKeeping(s) ==
  /\ retired' = Retire(s)
  /\ UNCHANGED <<assembling, captures, completed>>

\* The session is over without a prompt.
Reject(s) ==
  /\ assembling' = Without(s)
  /\ retired' = Retire(s)
  /\ UNCHANGED <<captures, completed>>

Fill(pcm, missing) == pcm \o [i \in 1..missing |-> Silence]

\* complete and take_ready: long enough captures go to the ASR thread unless
\* its queue is full.
CompleteCapture(s, pcm) ==
  /\ assembling' = Without(s)
  /\ retired' = Retire(s)
  /\ IF Len(pcm) < MinFrames
     THEN UNCHANGED <<captures, completed>>
     ELSE /\ completed' = Append(completed, [session |-> s, pcm |-> pcm])
          /\ captures' = IF Len(captures) < MaxActive
                         THEN Append(captures, [session |-> s, pcm |-> pcm])
                         ELSE captures

\* Mutant of TooFar: any gap is filled.
NeverTooFar(missing) == FALSE

TooFar(missing) == missing > MaxGap

\* Mutant of TooLong: one frame more than the buffer may hold.
TooLongByOne(frames) == frames > MaxFrames + 1

TooLong(frames) == frames > MaxFrames

\* ingest of a frame: opens a capture, extends it over a bounded gap, or ends
\* it; frames from before are ignored.
ReceiveFrame(m) ==
  /\ m \in net
  /\ m.kind = "EIAU"
  /\ ~Retired(m.session)
  /\ LET s == m.session
         capture == IF Open(s) THEN assembling[s] ELSE [pcm |-> <<>>, source |-> m.source]
         missing == m.n - Len(capture.pcm)
     IN  IF ~Open(s) /\ (TooFar(m.n) \/ Cardinality(DOMAIN assembling) >= MaxActive)
         THEN Reject(s)
         ELSE IF capture.source # m.source
         THEN Reject(s)
         ELSE IF missing < 0
         THEN UNCHANGED <<assembling, retired, captures, completed>>
         ELSE IF TooFar(missing) \/ TooLong(m.n + 1)
         THEN Reject(s)
         ELSE /\ assembling' = WithCapture(s, [capture EXCEPT
                                !.pcm = Append(Fill(@, missing), m.n)])
              /\ UNCHANGED <<retired, captures, completed>>
  /\ UNCHANGED <<mic, net, prompts, enqueued>>

\* Mutant of TailMissing: one frame short.
TailMissingOffByOne(m) == m.n - Len(assembling[m.session].pcm) - 1

TailMissing(m) == m.n - Len(assembling[m.session].pcm)

\* ingest_end: what is missing at the end is silence too, and the capture is
\* complete.  An end without a capture is an error that changes nothing.
ReceiveEnd(m) ==
  /\ m \in net
  /\ m.kind = "EIAE"
  /\ ~Retired(m.session)
  /\ Open(m.session)
  /\ IF \/ assembling[m.session].source # m.source
        \/ TailMissing(m) < 0
        \/ TooLong(m.n)
        \/ TooFar(TailMissing(m))
     THEN Reject(m.session)
     ELSE CompleteCapture(m.session, Fill(assembling[m.session].pcm, TailMissing(m)))
  /\ UNCHANGED <<mic, net, prompts, enqueued>>

\* expire_incomplete: nothing arrived for CAPTURE_ABORT_TIMEOUT.
Expire(s) ==
  /\ Open(s)
  /\ Reject(s)
  /\ UNCHANGED <<mic, net, prompts, enqueued>>

-----------------------------------------------------------------------------
(* The ASR thread and the daemon.                                          *)

\* transcribe: the remote service, or the local model when it is unavailable.
Transcribe ==
  /\ captures # <<>>
  /\ captures' = Tail(captures)
  /\ prompts' = Append(prompts, Head(captures).session)
  /\ UNCHANGED <<mic, net, assembling, retired, enqueued, completed>>

\* Neither yields a usable transcript.
TranscribeFails ==
  /\ captures # <<>>
  /\ captures' = Tail(captures)
  /\ UNCHANGED <<mic, net, assembling, retired, prompts, enqueued, completed>>

\* enqueue_slot under the request id of the session.
Enqueue ==
  /\ prompts # <<>>
  /\ prompts' = Tail(prompts)
  /\ enqueued' = enqueued \cup {Head(prompts)}
  /\ UNCHANGED <<mic, net, assembling, retired, captures, completed>>

Keyboard == \E s \in Session :
  SendFrame(s) \/ RecoverSocket(s) \/ SendEnd(s) \/ Abandon(s)

Assembler ==
  \/ \E m \in net : ReceiveFrame(m) \/ ReceiveEnd(m)
  \/ \E s \in Session : Expire(s)

CaptureNext == Keyboard \/ Assembler \/ Transcribe \/ TranscribeFails \/ Enqueue

CaptureSpec == CaptureInit /\ [][CaptureNext]_captureVars

\* The ingress thread looks at the clock in every turn of its loop, the ASR
\* thread and the daemon at their queues; nothing is assumed of the network.
CaptureFairness ==
  /\ \A s \in Session : WF_captureVars(Expire(s))
  /\ WF_captureVars(Transcribe \/ TranscribeFails)
  /\ WF_captureVars(Enqueue)

FairCaptureSpec == CaptureSpec /\ CaptureFairness

-----------------------------------------------------------------------------
(* Properties.                                                             *)

Frames == (0..(MaxRecorded - 1)) \cup {Silence}

\* Types of the keyboard's, the assembler's and the threads' state.
CaptureTyped ==
  /\ mic \in [Session -> [sent : 0..MaxRecorded, source : 1..MaxSources,
                          state : {"recording", "ended", "abandoned"}]]
  /\ DOMAIN assembling \subseteq Session
  /\ \A s \in DOMAIN assembling :
       Len(assembling[s].pcm) <= MaxFrames /\ Range(assembling[s].pcm) \subseteq Frames
  /\ Len(retired) <= MaxRetired
  /\ Cardinality(DOMAIN assembling) <= MaxActive
  /\ Len(captures) <= MaxActive
  /\ enqueued \subseteq Session

\* A capture keeps the time axis of the recording: whatever order the frames
\* came in, each is at its own place or silent.
FramesInPlace ==
  \A i \in DOMAIN completed : \A n \in DOMAIN completed[i].pcm :
    completed[i].pcm[n] \in {n - 1, Silence}

\* One recording is handed on at most once, however late its frames and its
\* end are repeated.
CompletesOnce ==
  \A i, j \in DOMAIN completed :
    completed[i].session = completed[j].session => i = j

\* What goes to the ASR thread is as long as what the keyboard recorded before
\* a clean end, and goes there once; an abandoned recording never gets there.
CompletedWasEnded ==
  /\ CompletesOnce
  /\ \A i \in DOMAIN completed :
       LET c == completed[i]
       IN  mic[c.session].state = "ended" /\ mic[c.session].sent = Len(c.pcm)

SilentRun(pcm, from, to) == \A n \in from..to : pcm[n] = Silence

\* No capture with a longer hole than the bound is transcribed, however its
\* fills add up.
HolesBounded ==
  \A i \in DOMAIN completed :
    LET pcm == completed[i].pcm
    IN  \A n \in 1..(Len(pcm) - MaxGap) : ~SilentRun(pcm, n, n + MaxGap)

\* What is transcribed has the recording's time axis, with short holes at most (and
\* every part of the state its type).
TimeAxisKept == CaptureTyped /\ FramesInPlace /\ HolesBounded

\* A capture that was opened is closed, if only by the clock.
CapturesClose == \A s \in Session : (s \in DOMAIN assembling) ~> (s \notin DOMAIN assembling)
=============================================================================
