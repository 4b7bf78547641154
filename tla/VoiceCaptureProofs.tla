------------------------- MODULE VoiceCaptureProofs -------------------------
(***************************************************************************)
(* Proofs about VoiceCapture, for any number of sessions, frames, sockets  *)
(* and lost, repeated or reordered datagrams, and any values of the        *)
(* assembler's limits.                                                     *)
(***************************************************************************)
EXTENDS VoiceCapture, FiniteSetTheorems, SequenceTheorems, TLAPS

-----------------------------------------------------------------------------
(* The inductive invariant.                                                *)

Pcm == Seq(Frames)
Capture == [session : Session, pcm : Pcm]
Held == [pcm : Pcm, source : 1..MaxSources]
Mic == [sent : 0..MaxRecorded, source : 1..MaxSources,
        state : {"recording", "ended", "abandoned"}]

\* Every frame at its own place or silent, and no hole longer than the bound.
InPlace(pcm) == \A n \in DOMAIN pcm : pcm[n] \in {n - 1, Silence}
ShortHoles(pcm) == \A n \in 1..(Len(pcm) - MaxGap) : ~SilentRun(pcm, n, n + MaxGap)
Faithful(pcm) == InPlace(pcm) /\ ShortHoles(pcm)

\* A capture in progress ends with a frame that came: only then does filling the next
\* gap not lengthen a hole.
Growing(pcm) == /\ pcm \in Pcm /\ Faithful(pcm) /\ Len(pcm) <= MaxFrames
                /\ Len(pcm) > 0 => pcm[Len(pcm)] # Silence

MicTyped == mic \in [Session -> Mic]

\* A datagram says what the keyboard recorded: a frame number it has passed, or the
\* length of a recording that has ended.
NetTrue ==
  \A m \in net :
    /\ m.session \in Session /\ m.kind \in {"EIAU", "EIAE"} /\ m.n \in Nat
    /\ m.source \in 1..MaxSources
    /\ m.kind = "EIAU" => m.n < MaxRecorded
    /\ m.kind = "EIAE" => mic[m.session].state = "ended" /\ mic[m.session].sent = m.n

ActiveGood ==
  /\ DOMAIN assembling \subseteq Session
  /\ IsFiniteSet(DOMAIN assembling) /\ Cardinality(DOMAIN assembling) <= MaxActive
  /\ \A s \in DOMAIN assembling : assembling[s] \in Held /\ Growing(assembling[s].pcm)

RetiredTyped == retired \in Seq(Session) /\ Len(retired) <= MaxRetired

QueuesTyped ==
  /\ captures \in Seq(Capture) /\ Len(captures) <= MaxActive
  /\ prompts \in Seq(Session) /\ enqueued \subseteq Session

\* What was handed on is faithful, and as long as the recording that has ended.
CompletedGood ==
  /\ completed \in Seq(Capture)
  /\ \A i \in DOMAIN completed :
       /\ Faithful(completed[i].pcm)
       /\ mic[completed[i].session].state = "ended"
       /\ mic[completed[i].session].sent = Len(completed[i].pcm)

VoiceInv ==
  /\ MicTyped /\ NetTrue /\ ActiveGood /\ RetiredTyped /\ QueuesTyped /\ CompletedGood

-----------------------------------------------------------------------------
(* Filling a gap with silence.                                             *)

LEMMA FillShape ==
  ASSUME NEW pcm \in Pcm, NEW k \in Nat
  PROVE  /\ Fill(pcm, k) \in Pcm /\ Len(Fill(pcm, k)) = Len(pcm) + k
         /\ Len(pcm) \in Nat /\ DOMAIN Fill(pcm, k) = 1..(Len(pcm) + k)
         /\ \A i \in 1..Len(pcm) : Fill(pcm, k)[i] = pcm[i]
         /\ \A i \in (Len(pcm) + 1)..(Len(pcm) + k) : Fill(pcm, k)[i] = Silence
  <1> DEFINE gap == [i \in 1..k |-> Silence]
  <1>1. Silence \in Frames
    BY DEF Frames
  <1>2. gap \in Seq(Frames) /\ Len(gap) = k
    BY <1>1, IsASeq
  <1>3. Len(pcm) \in Nat
    BY LenProperties DEF Pcm
  <1> HIDE DEF gap
  <1>4. /\ pcm \o gap \in Seq(Frames) /\ Len(pcm \o gap) = Len(pcm) + k
        /\ \A i \in 1..(Len(pcm) + k) :
             (pcm \o gap)[i] = IF i <= Len(pcm) THEN pcm[i] ELSE gap[i - Len(pcm)]
    BY <1>2, ConcatProperties DEF Pcm
  <1>5. Fill(pcm, k) = pcm \o gap
    BY DEF Fill, gap
  <1>6. ASSUME NEW i \in (Len(pcm) + 1)..(Len(pcm) + k) PROVE Fill(pcm, k)[i] = Silence
    <2>1. i \in 1..(Len(pcm) + k) /\ ~(i <= Len(pcm)) /\ i - Len(pcm) \in 1..k
      BY <1>3
    <2>2. gap[i - Len(pcm)] = Silence
      BY <2>1 DEF gap
    <2> QED BY <1>4, <1>5, <2>1, <2>2
  <1>7. \A i \in 1..Len(pcm) : Fill(pcm, k)[i] = pcm[i]
    BY <1>3, <1>4, <1>5
  <1>8. DOMAIN Fill(pcm, k) = 1..(Len(pcm) + k)
    BY <1>4, <1>5, LenProperties
  <1> QED BY <1>3, <1>4, <1>5, <1>6, <1>7, <1>8 DEF Pcm

\* A bounded gap at the end of a growing capture leaves it faithful.
LEMMA FillFaithful ==
  ASSUME NEW pcm, Growing(pcm), NEW k \in Nat, k <= MaxGap
  PROVE  Faithful(Fill(pcm, k))
  <1>1. pcm \in Pcm /\ InPlace(pcm) /\ ShortHoles(pcm)
    BY DEF Growing, Faithful
  <1> DEFINE L == Len(pcm)
             f == Fill(pcm, k)
  <1>2. /\ f \in Pcm /\ Len(f) = L + k /\ L \in Nat /\ DOMAIN f = 1..(L + k)
        /\ \A i \in 1..L : f[i] = pcm[i]
        /\ \A i \in (L + 1)..(L + k) : f[i] = Silence
    BY <1>1, FillShape
  <1>3. DOMAIN pcm = 1..L /\ (L > 0 => pcm[L] # Silence) /\ MaxGap \in Nat
    BY <1>1, LenProperties, CaptureAssumption DEF Pcm, Growing
  <1> HIDE DEF L, f
  <1>4. InPlace(f)
    BY <1>1, <1>2, <1>3 DEF InPlace
  <1>5. ASSUME NEW n \in 1..(L + k - MaxGap), SilentRun(f, n, n + MaxGap) PROVE FALSE
    <2>1. CASE n + MaxGap <= L
      <3>1. n \in 1..(L - MaxGap) /\ \A i \in n..(n + MaxGap) : i \in 1..L
        BY <1>2, <1>3, <2>1
      <3>2. SilentRun(pcm, n, n + MaxGap)
        BY <1>2, <1>5, <3>1 DEF SilentRun
      <3> QED BY <1>1, <3>1, <3>2 DEF ShortHoles, L
    <2>2. CASE n + MaxGap > L
      <3>1. L \in n..(n + MaxGap) /\ L \in 1..L
        BY <1>2, <1>3, <2>2
      <3>2. f[L] = Silence /\ f[L] = pcm[L]
        BY <1>2, <1>5, <3>1 DEF SilentRun
      <3> QED BY <1>2, <1>3, <3>1, <3>2
    <2> QED BY <1>2, <1>3, <2>1, <2>2
  <1>6. ShortHoles(f)
    <2>1. \A n \in 1..(L + k - MaxGap) : ~SilentRun(f, n, n + MaxGap)
      BY <1>5 DEF SilentRun
    <2>2. Len(f) - MaxGap = L + k - MaxGap
      BY <1>2, <1>3
    <2> QED BY <2>1, <2>2 DEF ShortHoles
  <1> QED BY <1>4, <1>6 DEF Faithful, f

\* A frame after a bounded gap: it is at its place, and ends the capture.
LEMMA FrameGrows ==
  ASSUME NEW pcm, Growing(pcm), NEW k \in Nat, k <= MaxGap,
         Len(pcm) + k + 1 <= MaxFrames, Len(pcm) + k < MaxRecorded
  PROVE  Growing(Append(Fill(pcm, k), Len(pcm) + k))
  <1> DEFINE f == Fill(pcm, k)
             N == Len(pcm) + k
             q == Append(f, N)
  <1>1. f \in Pcm /\ Len(f) = N /\ N \in Nat /\ DOMAIN f = 1..N
    BY FillShape DEF Growing
  <1>2. Faithful(f)
    BY FillFaithful
  <1>3. N \in Frames /\ N # Silence
    BY <1>1, CaptureAssumption DEF Frames
  <1> HIDE DEF f, N
  <1>4. /\ q \in Pcm /\ Len(q) = N + 1 /\ q[N + 1] = N
        /\ \A i \in 1..N : q[i] = f[i]
    BY <1>1, <1>3, AppendProperties DEF Pcm
  <1>5. DOMAIN q = 1..(N + 1)
    BY <1>4, LenProperties DEF Pcm
  <1> HIDE DEF q
  <1>6. InPlace(q)
    BY <1>1, <1>2, <1>4, <1>5 DEF InPlace, Faithful
  <1>7. MaxGap \in Nat
    BY CaptureAssumption
  <1>8. ASSUME NEW n \in 1..(N + 1 - MaxGap), SilentRun(q, n, n + MaxGap) PROVE FALSE
    <2>1. CASE n + MaxGap = N + 1
      <3>1. q[N + 1] = Silence
        BY <1>1, <1>7, <1>8, <2>1 DEF SilentRun
      <3> QED BY <1>3, <1>4, <3>1
    <2>2. CASE n + MaxGap <= N
      <3>1. n \in 1..(N - MaxGap) /\ \A i \in n..(n + MaxGap) : i \in 1..N
        BY <1>1, <1>7, <2>2
      <3>2. SilentRun(f, n, n + MaxGap)
        BY <1>4, <1>8, <3>1 DEF SilentRun
      <3> QED BY <1>1, <1>2, <3>1, <3>2 DEF Faithful, ShortHoles
    <2> QED BY <1>1, <1>7, <2>1, <2>2
  <1>9. ShortHoles(q)
    <2>1. \A n \in 1..(N + 1 - MaxGap) : ~SilentRun(q, n, n + MaxGap)
      BY <1>8 DEF SilentRun
    <2>2. Len(q) - MaxGap = N + 1 - MaxGap
      BY <1>1, <1>4, <1>7
    <2> QED BY <2>1, <2>2 DEF ShortHoles
  <1>10. Len(q) <= MaxFrames
    BY <1>1, <1>4, CaptureAssumption DEF N
  <1>11. q[Len(q)] # Silence
    BY <1>3, <1>4
  <1> QED BY <1>4, <1>6, <1>9, <1>10, <1>11 DEF Growing, Faithful, q, f, N

\* Nothing received is a growing capture.
LEMMA EmptyGrows == Growing(<<>>)
  <1>1. <<>> \in Pcm /\ Len(<<>>) = 0 /\ DOMAIN <<>> = {}
    BY EmptySeq DEF Pcm
  <1>2. InPlace(<<>>)
    BY <1>1 DEF InPlace
  <1>3. ShortHoles(<<>>)
    BY <1>1, CaptureAssumption DEF ShortHoles
  <1> QED BY <1>1, <1>2, <1>3, CaptureAssumption DEF Growing, Faithful
-----------------------------------------------------------------------------
(* The parts of a step.                                                    *)

LEMMA WithoutGood ==
  ASSUME ActiveGood, NEW s, assembling' = Without(s)
  PROVE  ActiveGood'
  <1>1. DOMAIN assembling' = DOMAIN assembling \ {s} /\ \A t \in DOMAIN assembling' : assembling'[t] = assembling[t]
    BY DEF Without
  <1>2. /\ IsFiniteSet(DOMAIN assembling) /\ Cardinality(DOMAIN assembling) <= MaxActive
        /\ DOMAIN assembling' \in SUBSET DOMAIN assembling
    BY <1>1 DEF ActiveGood
  <1>3. /\ IsFiniteSet(DOMAIN assembling') /\ Cardinality(DOMAIN assembling') \in Nat
        /\ Cardinality(DOMAIN assembling) \in Nat
        /\ Cardinality(DOMAIN assembling') <= Cardinality(DOMAIN assembling)
    BY <1>2, FS_Subset, FS_CardinalityType
  <1>4. Cardinality(DOMAIN assembling') <= MaxActive
    BY <1>2, <1>3, CaptureAssumption
  <1>5. /\ DOMAIN assembling' \subseteq Session
        /\ \A t \in DOMAIN assembling' : assembling'[t] \in Held /\ Growing(assembling'[t].pcm)
    BY <1>1 DEF ActiveGood
  <1> QED BY <1>3, <1>4, <1>5 DEF ActiveGood

LEMMA HoldingGood ==
  ASSUME ActiveGood, NEW s \in Session, NEW c \in Held, Growing(c.pcm), assembling' = WithCapture(s, c),
         Open(s) \/ Cardinality(DOMAIN assembling) < MaxActive
  PROVE  ActiveGood'
  <1>1. /\ DOMAIN assembling' = DOMAIN assembling \cup {s} /\ assembling'[s] = c
        /\ \A t \in DOMAIN assembling : t # s => assembling'[t] = assembling[t]
    BY DEF WithCapture
  <1>2. IsFiniteSet(DOMAIN assembling) /\ Cardinality(DOMAIN assembling) <= MaxActive
    BY DEF ActiveGood
  <1>3. /\ IsFiniteSet(DOMAIN assembling') /\ Cardinality(DOMAIN assembling) \in Nat
        /\ Cardinality(DOMAIN assembling') =
             IF s \in DOMAIN assembling THEN Cardinality(DOMAIN assembling)
             ELSE Cardinality(DOMAIN assembling) + 1
    BY <1>1, <1>2, FS_AddElement, FS_CardinalityType
  <1>4. Cardinality(DOMAIN assembling') <= MaxActive
    BY <1>2, <1>3, CaptureAssumption DEF Open
  <1>5. \A t \in DOMAIN assembling' : assembling'[t] \in Held /\ Growing(assembling'[t].pcm)
    BY <1>1 DEF ActiveGood
  <1>6. DOMAIN assembling' \subseteq Session
    BY <1>1 DEF ActiveGood
  <1> QED BY <1>3, <1>4, <1>5, <1>6 DEF ActiveGood

LEMMA RetireTyped ==
  ASSUME RetiredTyped, NEW s \in Session
  PROVE  Retire(s) \in Seq(Session) /\ Len(Retire(s)) <= MaxRetired
  <1> DEFINE q == Append(retired, s)
  <1>1. retired \in Seq(Session) /\ Len(retired) <= MaxRetired /\ MaxRetired \in Nat
    BY CaptureAssumption DEF RetiredTyped
  <1>2. q \in Seq(Session) /\ Len(q) = Len(retired) + 1 /\ Len(retired) \in Nat /\ q # <<>>
    BY <1>1, AppendProperties, LenProperties
  <1>3. Tail(q) \in Seq(Session) /\ Len(Tail(q)) = Len(retired)
    BY <1>2, HeadTailProperties
  <1> HIDE DEF q
  <1>4. Retire(s) = IF Retired(s) THEN retired ELSE IF Len(q) > MaxRetired THEN Tail(q) ELSE q
    BY DEF Retire, q
  <1> QED BY <1>1, <1>2, <1>3, <1>4

\* A capture is handed on, and perhaps to the ASR thread.
LEMMA HandOn ==
  ASSUME VoiceInv, NEW s \in Session, NEW pcm \in Pcm, Faithful(pcm),
         mic[s].state = "ended", mic[s].sent = Len(pcm), UNCHANGED mic,
         completed' = Append(completed, [session |-> s, pcm |-> pcm]),
         captures' = IF Len(captures) < MaxActive
                     THEN Append(captures, [session |-> s, pcm |-> pcm]) ELSE captures
  PROVE  /\ CompletedGood' /\ captures' \in Seq(Capture) /\ Len(captures') <= MaxActive
         /\ Len(completed) \in Nat /\ DOMAIN completed' = 1..(Len(completed) + 1)
         /\ DOMAIN completed = 1..Len(completed)
         /\ \A i \in 1..Len(completed) : completed'[i] = completed[i]
         /\ completed'[Len(completed) + 1].session = s
  <1> DEFINE c == [session |-> s, pcm |-> pcm]
             k == Len(completed)
  <1>1. c \in Capture /\ c.session = s /\ c.pcm = pcm
    BY DEF Capture
  <1>2. completed \in Seq(Capture) /\ captures \in Seq(Capture) /\ Len(captures) <= MaxActive
    BY DEF VoiceInv, CompletedGood, QueuesTyped
  <1>3. k \in Nat /\ DOMAIN completed = 1..k /\ Len(captures) \in Nat
    BY <1>2, LenProperties
  <1> HIDE DEF c
  <1>4. /\ Append(completed, c) \in Seq(Capture) /\ Len(Append(completed, c)) = k + 1
        /\ \A i \in 1..k : Append(completed, c)[i] = completed[i]
        /\ Append(completed, c)[k + 1] = c
    BY <1>1, <1>2, AppendProperties
  <1>5. completed' = Append(completed, c)
    BY DEF c
  <1>6. DOMAIN completed' = 1..(k + 1)
    BY <1>4, <1>5, LenProperties
  <1>7. /\ completed' \in Seq(Capture) /\ completed'[k + 1] = c
        /\ \A i \in 1..k : completed'[i] = completed[i]
    BY <1>4, <1>5
  <1>8. ASSUME NEW i \in 1..(k + 1)
        PROVE  /\ Faithful(completed'[i].pcm)
               /\ mic'[completed'[i].session].state = "ended"
               /\ mic'[completed'[i].session].sent = Len(completed'[i].pcm)
    <2>1. CASE i = k + 1
      BY <1>1, <1>7, <2>1
    <2>2. CASE i # k + 1
      <3>1. i \in 1..k
        BY <1>3, <2>2
      <3> QED BY <1>3, <1>7, <3>1 DEF VoiceInv, CompletedGood
    <2> QED BY <2>1, <2>2
  <1>9. captures' \in Seq(Capture) /\ Len(captures') <= MaxActive
    <2>1. /\ Append(captures, c) \in Seq(Capture)
          /\ Len(Append(captures, c)) = Len(captures) + 1
      BY <1>1, <1>2, AppendProperties
    <2>2. captures' = IF Len(captures) < MaxActive THEN Append(captures, c) ELSE captures
      BY DEF c
    <2> QED BY <1>2, <1>3, <2>1, <2>2, CaptureAssumption
  <1>10. CompletedGood'
    BY <1>6, <1>7, <1>8 DEF CompletedGood
  <1> QED BY <1>1, <1>3, <1>6, <1>7, <1>9, <1>10

-----------------------------------------------------------------------------
(* The steps.                                                              *)

LEMMA InitVoice == CaptureInit => VoiceInv
  <1> SUFFICES ASSUME CaptureInit PROVE VoiceInv
    OBVIOUS
  <1>1. MicTyped
    BY CaptureAssumption DEF CaptureInit, MicTyped, Mic
  <1>2. NetTrue
    BY DEF CaptureInit, NetTrue
  <1>3. ActiveGood
    BY FS_EmptySet, CaptureAssumption DEF CaptureInit, ActiveGood
  <1>4. RetiredTyped /\ QueuesTyped /\ CompletedGood
    BY EmptySeq, CaptureAssumption DEF CaptureInit, RetiredTyped, QueuesTyped, CompletedGood
  <1> QED BY <1>1, <1>2, <1>3, <1>4 DEF VoiceInv

\* The keyboard records, ends or abandons; what has ended stays as it is.
LEMMA KeyboardKeeps ==
  ASSUME VoiceInv, Keyboard
  PROVE  VoiceInv' /\ UNCHANGED <<retired, completed>>
  <1>1. UNCHANGED ingressVars
    BY DEF Keyboard, SendFrame, RecoverSocket, SendEnd, Abandon
  <1>2. ActiveGood' /\ RetiredTyped' /\ QueuesTyped'
    BY <1>1 DEF ingressVars, VoiceInv, ActiveGood, RetiredTyped, QueuesTyped
  <1>3. PICK s \in Session : SendFrame(s) \/ RecoverSocket(s) \/ SendEnd(s) \/ Abandon(s)
    BY DEF Keyboard
  <1>4. mic \in [Session -> Mic] /\ mic[s] \in Mic
    BY DEF VoiceInv, MicTyped
  <1>5. mic[s].state = "recording"
    BY <1>3 DEF SendFrame, RecoverSocket, SendEnd, Abandon
  <1>6. PICK x \in Mic : mic' = [mic EXCEPT ![s] = x] /\ (SendEnd(s) => x.state = "ended" /\ x.sent = mic[s].sent)
    <2>1. CASE SendFrame(s)
      <3>1. PICK n \in 0..MaxRecorded : n = mic[s].sent + 1
        BY <1>4, <2>1, CaptureAssumption DEF SendFrame, Mic
      <3>2. mic' = [mic EXCEPT ![s] = [mic[s] EXCEPT !.sent = n]]
        BY <2>1, <3>1 DEF SendFrame
      <3>3. [mic[s] EXCEPT !.sent = n] \in Mic
        BY <1>4 DEF Mic
      <3>4. ~SendEnd(s)
        <4>1. mic'[s].state = "recording"
          BY <1>4, <1>5, <3>2, <3>3 DEF Mic
        <4>2. SendEnd(s) => mic'[s].state = "ended"
          BY <1>4 DEF SendEnd, Mic
        <4> QED BY <4>1, <4>2
      <3> QED BY <3>2, <3>3, <3>4
    <2>2. CASE RecoverSocket(s)
      <3>1. PICK n \in 1..MaxSources : n = mic[s].source + 1
        BY <1>4, <2>2, CaptureAssumption DEF RecoverSocket, Mic
      <3>2. mic' = [mic EXCEPT ![s] = [mic[s] EXCEPT !.source = n]]
        BY <2>2, <3>1 DEF RecoverSocket
      <3>3. [mic[s] EXCEPT !.source = n] \in Mic
        BY <1>4 DEF Mic
      <3>4. ~SendEnd(s)
        <4>1. mic'[s].state = "recording"
          BY <1>4, <1>5, <3>2, <3>3 DEF Mic
        <4>2. SendEnd(s) => mic'[s].state = "ended"
          BY <1>4 DEF SendEnd, Mic
        <4> QED BY <4>1, <4>2
      <3> QED BY <3>2, <3>3, <3>4
    <2>3. CASE SendEnd(s)
      <3>1. mic' = [mic EXCEPT ![s] = [mic[s] EXCEPT !.state = "ended"]]
        BY <2>3 DEF SendEnd
      <3>2. /\ [mic[s] EXCEPT !.state = "ended"] \in Mic
            /\ [mic[s] EXCEPT !.state = "ended"].state = "ended"
            /\ [mic[s] EXCEPT !.state = "ended"].sent = mic[s].sent
        BY <1>4 DEF Mic
      <3> QED BY <3>1, <3>2
    <2>4. CASE Abandon(s)
      <3>1. mic' = [mic EXCEPT ![s] = [mic[s] EXCEPT !.state = "abandoned"]]
        BY <2>4 DEF Abandon
      <3>2. [mic[s] EXCEPT !.state = "abandoned"] \in Mic
        BY <1>4 DEF Mic
      <3>3. ~SendEnd(s)
        <4>1. mic'[s].state = "abandoned"
          BY <1>4, <3>1 DEF Mic
        <4>2. SendEnd(s) => mic'[s].state = "ended"
          BY <1>4 DEF SendEnd, Mic
        <4> QED BY <4>1, <4>2
      <3> QED BY <3>1, <3>2, <3>3
    <2> QED BY <1>3, <2>1, <2>2, <2>3, <2>4
  <1>7. /\ mic' \in [Session -> Mic] /\ mic'[s] = x
        /\ \A t \in Session : mic[t].state = "ended" => mic'[t] = mic[t]
    BY <1>4, <1>5, <1>6
  <1>8. \/ net' = net
        \/ net' = net \cup {EIAU(s)} /\ mic[s].sent < MaxRecorded
        \/ net' = net \cup {EIAE(s)} /\ SendEnd(s)
    BY <1>3 DEF SendFrame, RecoverSocket, SendEnd, Abandon
  <1>9. NetTrue'
    <2> SUFFICES ASSUME NEW m \in net'
                 PROVE  /\ m.session \in Session /\ m.kind \in {"EIAU", "EIAE"} /\ m.n \in Nat
                        /\ m.source \in 1..MaxSources
                        /\ m.kind = "EIAU" => m.n < MaxRecorded
                        /\ m.kind = "EIAE" =>
                             mic'[m.session].state = "ended" /\ mic'[m.session].sent = m.n
      BY DEF NetTrue
    <2>1. CASE m \in net
      BY <1>7, <2>1 DEF VoiceInv, NetTrue
    <2>2. CASE m = EIAU(s) /\ mic[s].sent < MaxRecorded
      <3>1. m.session = s /\ m.kind = "EIAU" /\ m.n = mic[s].sent /\ m.source = mic[s].source
        BY <2>2 DEF EIAU
      <3>2. mic[s].sent \in Nat /\ mic[s].source \in 1..MaxSources
        BY <1>4, CaptureAssumption DEF Mic
      <3> QED BY <2>2, <3>1, <3>2
    <2>3. CASE m = EIAE(s) /\ SendEnd(s)
      <3>1. m.session = s /\ m.kind = "EIAE" /\ m.n = mic[s].sent /\ m.source = mic[s].source
        BY <2>3 DEF EIAE
      <3>2. mic[s].sent \in Nat /\ mic[s].source \in 1..MaxSources
        BY <1>4, CaptureAssumption DEF Mic
      <3> QED BY <1>6, <1>7, <2>3, <3>1, <3>2
    <2> QED BY <1>8, <2>1, <2>2, <2>3
  <1>10. CompletedGood'
    <2>1. completed' = completed /\ completed \in Seq(Capture)
      BY <1>1 DEF ingressVars, VoiceInv, CompletedGood
    <2>2. \A i \in DOMAIN completed : completed[i].session \in Session
      <3>1. \A i \in DOMAIN completed : completed[i] \in Capture
        BY <2>1, ElementOfSeq, LenProperties
      <3> QED BY <3>1 DEF Capture
    <2> QED BY <1>7, <2>1, <2>2 DEF VoiceInv, CompletedGood
  <1> QED BY <1>1, <1>2, <1>7, <1>9, <1>10 DEF VoiceInv, MicTyped, ingressVars
\* What a datagram may make of the captures: one is opened, extended or left alone, or
\* the capture of an ended recording is handed on.
Grows == UNCHANGED <<retired, captures, completed>> /\ ActiveGood'

HandsOn(m) ==
  \E pcm \in Pcm :
    /\ Faithful(pcm) /\ mic[m.session].state = "ended" /\ mic[m.session].sent = Len(pcm)
    /\ CompleteCapture(m.session, pcm)

\* A frame opens a capture or extends it, or rejects the session, or changes nothing.
LEMMA FrameOutcome ==
  ASSUME VoiceInv, NEW m \in net, ReceiveFrame(m)
  PROVE  /\ m.session \in Session /\ UNCHANGED <<mic, net, prompts, enqueued>>
         /\ Grows \/ Reject(m.session)
  <1>1. /\ ActiveGood /\ m.session \in Session /\ m.n \in Nat /\ m.n < MaxRecorded
        /\ m.source \in 1..MaxSources
    BY DEF VoiceInv, NetTrue, ReceiveFrame
  <1>2. UNCHANGED <<mic, net, prompts, enqueued>>
    BY DEF ReceiveFrame
  <1>3. PICK s \in Session : s = m.session
    BY <1>1
  <1>4. PICK capture : capture = IF Open(s) THEN assembling[s] ELSE [pcm |-> <<>>, source |-> m.source]
    OBVIOUS
  <1>5. capture \in Held /\ Growing(capture.pcm)
    <2>1. CASE Open(s)
      BY <1>1, <1>4, <2>1 DEF Open, ActiveGood
    <2>2. CASE ~Open(s)
      BY <1>1, <1>4, <2>2, EmptyGrows DEF Growing, Held
    <2> QED BY <2>1, <2>2
  <1>6. PICK missing : missing = m.n - Len(capture.pcm)
    OBVIOUS
  <1>7. IF ~Open(s) /\ (TooFar(m.n) \/ Cardinality(DOMAIN assembling) >= MaxActive)
        THEN Reject(s)
        ELSE IF capture.source # m.source
        THEN Reject(s)
        ELSE IF missing < 0
        THEN UNCHANGED <<assembling, retired, captures, completed>>
        ELSE IF TooFar(missing) \/ TooLong(m.n + 1)
        THEN Reject(s)
        ELSE /\ assembling' = WithCapture(s, [capture EXCEPT !.pcm = Append(Fill(@, missing), m.n)])
             /\ UNCHANGED <<retired, captures, completed>>
    BY <1>3, <1>4, <1>6 DEF ReceiveFrame
  <1>8. CASE Reject(s)
    BY <1>1, <1>2, <1>3, <1>8
  <1>9. CASE UNCHANGED <<assembling, retired, captures, completed>>
    BY <1>1, <1>2, <1>9 DEF Grows, ActiveGood
  <1>10. CASE /\ Open(s) \/ ~(Cardinality(DOMAIN assembling) >= MaxActive)
              /\ ~(missing < 0) /\ ~TooFar(missing) /\ ~TooLong(m.n + 1)
              /\ assembling' = WithCapture(s, [capture EXCEPT !.pcm = Append(Fill(@, missing), m.n)])
              /\ UNCHANGED <<retired, captures, completed>>
    <2> DEFINE c == [capture EXCEPT !.pcm = Append(Fill(@, missing), m.n)]
               L == Len(capture.pcm)
    <2>1. L \in Nat
      BY <1>5, LenProperties DEF Growing, Pcm
    <2>2. MaxGap \in Nat /\ MaxFrames \in Nat /\ MaxActive \in Nat
      BY CaptureAssumption
    <2> HIDE DEF L
    <2>3. missing = m.n - L
      BY <1>6 DEF L
    <2>4. missing \in Nat /\ missing <= MaxGap /\ L + missing = m.n /\ m.n + 1 <= MaxFrames
      BY <1>1, <1>10, <2>1, <2>2, <2>3 DEF TooFar, TooLong
    <2>5. Growing(Append(Fill(capture.pcm, missing), m.n))
      <3>1. PICK N : N = Len(capture.pcm) + missing
        OBVIOUS
      <3>2. N = m.n
        BY <2>4, <3>1 DEF L
      <3>3. Growing(Append(Fill(capture.pcm, missing), Len(capture.pcm) + missing))
        <4>1. Len(capture.pcm) + missing + 1 <= MaxFrames /\ Len(capture.pcm) + missing < MaxRecorded
          BY <1>1, <2>4, <3>1, <3>2
        <4> QED BY <1>5, <2>4, <4>1, FrameGrows
      <3> QED BY <3>1, <3>2, <3>3
    <2>6. c \in Held /\ c.pcm = Append(Fill(capture.pcm, missing), m.n)
      BY <1>5, <2>5 DEF Held, Growing
    <2>7. Open(s) \/ Cardinality(DOMAIN assembling) < MaxActive
      <3>1. Cardinality(DOMAIN assembling) \in Nat
        BY <1>1, FS_CardinalityType DEF ActiveGood
      <3> QED BY <1>10, <2>2, <3>1
    <2> HIDE DEF c
    <2>8. assembling' = WithCapture(s, c)
      BY <1>10 DEF c
    <2>9. ActiveGood'
      BY <1>1, <2>5, <2>6, <2>7, <2>8, HoldingGood
    <2> QED BY <1>1, <1>2, <1>10, <2>9 DEF Grows
  <1> QED BY <1>7, <1>8, <1>9, <1>10

\* An end completes the capture, or rejects the session.
LEMMA EndOutcome ==
  ASSUME VoiceInv, NEW m \in net, ReceiveEnd(m)
  PROVE  /\ m.session \in Session /\ UNCHANGED <<mic, net, prompts, enqueued>>
         /\ ~Retired(m.session)
         /\ HandsOn(m) \/ Reject(m.session)
  <1>1. /\ ActiveGood /\ m.session \in Session /\ m.n \in Nat
        /\ mic[m.session].state = "ended" /\ mic[m.session].sent = m.n
    BY DEF VoiceInv, NetTrue, ReceiveEnd
  <1>2. UNCHANGED <<mic, net, prompts, enqueued>> /\ ~Retired(m.session)
    BY DEF ReceiveEnd
  <1>3. CASE Reject(m.session)
    BY <1>1, <1>2, <1>3
  <1>4. CASE /\ ~(TailMissing(m) < 0) /\ ~TooFar(TailMissing(m))
             /\ CompleteCapture(m.session, Fill(assembling[m.session].pcm, TailMissing(m)))
    <2>1. Growing(assembling[m.session].pcm)
      BY <1>1 DEF ReceiveEnd, Open, ActiveGood
    <2>2. PICK pcm \in Pcm : pcm = assembling[m.session].pcm
      BY <2>1 DEF Growing
    <2>3. PICK k : k = m.n - Len(pcm)
      OBVIOUS
    <2>4. TailMissing(m) = k /\ Len(pcm) \in Nat /\ MaxGap \in Nat
      BY <2>2, <2>3, LenProperties, CaptureAssumption DEF TailMissing, Pcm
    <2>5. k \in Nat /\ k <= MaxGap /\ Len(pcm) + k = m.n
      BY <1>1, <1>4, <2>3, <2>4 DEF TooFar
    <2>6. Fill(pcm, k) \in Pcm /\ Len(Fill(pcm, k)) = m.n
      BY <2>5, FillShape
    <2>7. Faithful(Fill(pcm, k))
      BY <2>1, <2>2, <2>5, FillFaithful
    <2>8. CompleteCapture(m.session, Fill(pcm, k))
      BY <1>4, <2>2, <2>4
    <2> QED BY <1>1, <1>2, <2>6, <2>7, <2>8 DEF HandsOn
  <1> QED BY <1>3, <1>4 DEF ReceiveEnd
\* A session ends without a prompt.
LEMMA RejectKeeps ==
  ASSUME VoiceInv, NEW s \in Session, Reject(s), UNCHANGED <<mic, net, prompts, enqueued>>
  PROVE  VoiceInv'
  <1>1. assembling' = Without(s) /\ retired' = Retire(s) /\ UNCHANGED <<captures, completed>>
    BY DEF Reject
  <1>2. ActiveGood' /\ RetiredTyped'
    BY <1>1, WithoutGood, RetireTyped DEF VoiceInv, RetiredTyped
  <1>3. MicTyped' /\ NetTrue' /\ QueuesTyped' /\ CompletedGood'
    BY <1>1 DEF VoiceInv, MicTyped, NetTrue, QueuesTyped, CompletedGood
  <1> QED BY <1>2, <1>3 DEF VoiceInv

\* A capture is complete.
LEMMA CompleteKeeps ==
  ASSUME VoiceInv, NEW m \in net, m.session \in Session, HandsOn(m),
         UNCHANGED <<mic, net, prompts, enqueued>>
  PROVE  /\ VoiceInv' /\ retired' = Retire(m.session)
         /\ \/ completed' = completed
            \/ /\ Len(completed) \in Nat /\ DOMAIN completed' = 1..(Len(completed) + 1)
               /\ DOMAIN completed = 1..Len(completed)
               /\ \A i \in 1..Len(completed) : completed'[i] = completed[i]
               /\ completed'[Len(completed) + 1].session = m.session
  <1>1. PICK pcm \in Pcm :
          /\ Faithful(pcm) /\ mic[m.session].state = "ended" /\ mic[m.session].sent = Len(pcm)
          /\ CompleteCapture(m.session, pcm)
    BY DEF HandsOn
  <1>2. assembling' = Without(m.session) /\ retired' = Retire(m.session)
    BY <1>1 DEF CompleteCapture
  <1>3. ActiveGood' /\ RetiredTyped'
    BY <1>2, WithoutGood, RetireTyped DEF VoiceInv, RetiredTyped
  <1>4. MicTyped' /\ NetTrue' /\ prompts' \in Seq(Session) /\ enqueued' \subseteq Session
    BY DEF VoiceInv, MicTyped, NetTrue, QueuesTyped
  <1>5. CASE Len(pcm) < MinFrames
    <2>1. UNCHANGED <<captures, completed>>
      BY <1>1, <1>5 DEF CompleteCapture
    <2>2. QueuesTyped' /\ CompletedGood'
      BY <2>1 DEF VoiceInv, QueuesTyped, CompletedGood
    <2> QED BY <1>2, <1>3, <1>4, <2>1, <2>2 DEF VoiceInv
  <1>6. CASE ~(Len(pcm) < MinFrames)
    <2>1. /\ completed' = Append(completed, [session |-> m.session, pcm |-> pcm])
          /\ captures' = IF Len(captures) < MaxActive
                         THEN Append(captures, [session |-> m.session, pcm |-> pcm])
                         ELSE captures
      BY <1>1, <1>6 DEF CompleteCapture
    <2>2. /\ CompletedGood' /\ captures' \in Seq(Capture) /\ Len(captures') <= MaxActive
          /\ Len(completed) \in Nat /\ DOMAIN completed' = 1..(Len(completed) + 1)
          /\ DOMAIN completed = 1..Len(completed)
          /\ \A i \in 1..Len(completed) : completed'[i] = completed[i]
          /\ completed'[Len(completed) + 1].session = m.session
      BY <1>1, <2>1, HandOn
    <2> QED BY <1>2, <1>3, <1>4, <2>2 DEF VoiceInv, QueuesTyped
  <1> QED BY <1>5, <1>6

\* The ASR thread and the daemon take from the head of their queues.
LEMMA ThreadsKeep ==
  ASSUME VoiceInv, Transcribe \/ TranscribeFails \/ Enqueue
  PROVE  VoiceInv' /\ UNCHANGED <<retired, completed>>
  <1>1. UNCHANGED <<mic, net, assembling, retired, completed>>
    BY DEF Transcribe, TranscribeFails, Enqueue
  <1>2. MicTyped' /\ NetTrue' /\ ActiveGood' /\ RetiredTyped' /\ CompletedGood'
    BY <1>1 DEF VoiceInv, MicTyped, NetTrue, ActiveGood, RetiredTyped, CompletedGood
  <1>3. /\ captures \in Seq(Capture) /\ Len(captures) <= MaxActive /\ Len(captures) \in Nat
        /\ prompts \in Seq(Session) /\ enqueued \subseteq Session /\ MaxActive \in Nat
    BY LenProperties, CaptureAssumption DEF VoiceInv, QueuesTyped
  <1>4. captures # <<>> => /\ Head(captures) \in Capture /\ Tail(captures) \in Seq(Capture)
                           /\ Len(Tail(captures)) = Len(captures) - 1
    BY <1>3, HeadTailProperties
  <1>5. prompts # <<>> => Head(prompts) \in Session /\ Tail(prompts) \in Seq(Session)
    BY <1>3, HeadTailProperties
  <1>6. captures # <<>> => Append(prompts, Head(captures).session) \in Seq(Session)
    <2>1. captures # <<>> => Head(captures).session \in Session
      BY <1>4 DEF Capture
    <2> QED BY <1>3, <2>1, AppendProperties
  <1>7. QueuesTyped'
    <2>1. CASE Transcribe
      BY <1>3, <1>4, <1>6, <2>1 DEF Transcribe, QueuesTyped
    <2>2. CASE TranscribeFails
      BY <1>3, <1>4, <2>2 DEF TranscribeFails, QueuesTyped
    <2>3. CASE Enqueue
      BY <1>3, <1>5, <2>3 DEF Enqueue, QueuesTyped
    <2> QED BY <2>1, <2>2, <2>3
  <1> QED BY <1>1, <1>2, <1>7 DEF VoiceInv

\* Every step keeps the invariant; a session is retired when its capture is handed on.
LEMMA VoiceStep ==
  ASSUME VoiceInv, [CaptureNext]_captureVars
  PROVE  /\ VoiceInv'
         /\ \/ UNCHANGED <<retired, completed>>
            \/ \E s \in Session : retired' = Retire(s) /\ completed' = completed
            \/ \E s \in Session :
                 /\ retired' = Retire(s) /\ ~Retired(s)
                 /\ Len(completed) \in Nat /\ DOMAIN completed' = 1..(Len(completed) + 1)
                 /\ DOMAIN completed = 1..Len(completed)
                 /\ \A i \in 1..Len(completed) : completed'[i] = completed[i]
                 /\ completed'[Len(completed) + 1].session = s
  <1>1. CASE Keyboard
    BY <1>1, KeyboardKeeps
  <1>2. ASSUME NEW m \in net, ReceiveFrame(m)
        PROVE  /\ VoiceInv'
               /\ \/ UNCHANGED <<retired, completed>>
                  \/ \E s \in Session : retired' = Retire(s) /\ completed' = completed
    <2>1. /\ m.session \in Session /\ UNCHANGED <<mic, net, prompts, enqueued>>
          /\ Grows \/ Reject(m.session)
      BY <1>2, FrameOutcome
    <2>2. CASE Grows
      <3>1. ActiveGood' /\ UNCHANGED <<retired, captures, completed>>
        BY <2>2 DEF Grows
      <3>2. MicTyped' /\ NetTrue' /\ RetiredTyped' /\ QueuesTyped' /\ CompletedGood'
        BY <2>1, <3>1 DEF VoiceInv, MicTyped, NetTrue, RetiredTyped, QueuesTyped, CompletedGood
      <3> QED BY <3>1, <3>2 DEF VoiceInv
    <2>3. CASE Reject(m.session)
      BY <2>1, <2>3, RejectKeeps DEF Reject
    <2> QED BY <2>1, <2>2, <2>3
  <1>3. ASSUME NEW m \in net, ReceiveEnd(m)
        PROVE  /\ VoiceInv'
               /\ \/ \E s \in Session : retired' = Retire(s) /\ completed' = completed
                  \/ \E s \in Session :
                       /\ retired' = Retire(s) /\ ~Retired(s)
                       /\ Len(completed) \in Nat /\ DOMAIN completed' = 1..(Len(completed) + 1)
                       /\ DOMAIN completed = 1..Len(completed)
                       /\ \A i \in 1..Len(completed) : completed'[i] = completed[i]
                       /\ completed'[Len(completed) + 1].session = s
    <2>1. /\ m.session \in Session /\ UNCHANGED <<mic, net, prompts, enqueued>>
          /\ ~Retired(m.session)
          /\ HandsOn(m) \/ Reject(m.session)
      BY <1>3, EndOutcome
    <2>2. CASE HandsOn(m)
      BY <2>1, <2>2, CompleteKeeps
    <2>3. CASE Reject(m.session)
      BY <2>1, <2>3, RejectKeeps DEF Reject
    <2> QED BY <2>1, <2>2, <2>3
  <1>4. ASSUME NEW s \in Session, Expire(s)
        PROVE  VoiceInv' /\ retired' = Retire(s) /\ completed' = completed
    <2>1. Reject(s) /\ UNCHANGED <<mic, net, prompts, enqueued>>
      BY <1>4 DEF Expire
    <2> QED BY <2>1, RejectKeeps DEF Reject
  <1>5. CASE Transcribe \/ TranscribeFails \/ Enqueue
    BY <1>5, ThreadsKeep
  <1>6. CASE UNCHANGED captureVars
    BY <1>6 DEF captureVars, VoiceInv, MicTyped, NetTrue, ActiveGood, RetiredTyped, QueuesTyped,
                CompletedGood
  <1> QED BY <1>1, <1>2, <1>3, <1>4, <1>5, <1>6 DEF CaptureNext, Assembler

-----------------------------------------------------------------------------
(* The theorems.                                                           *)

\* CaptureAssembler, its queue and the keyboard's datagrams keep the invariant, in
\* whatever order and however often the datagrams arrive.
THEOREM VoiceInvariance == CaptureSpec => []VoiceInv
  <1>1. VoiceInv /\ [CaptureNext]_captureVars => VoiceInv'
    BY VoiceStep
  <1> QED BY <1>1, InitVoice, PTL DEF CaptureSpec

\* What ingest and ingest_end put together keeps the recording's time axis, with holes
\* no longer than MAX_CAPTURE_GAP_FRAMES, and no buffer or queue grows past its limit.
THEOREM TimeAxis == CaptureSpec => []TimeAxisKept
  <1>1. VoiceInv => TimeAxisKept
    <2> SUFFICES ASSUME VoiceInv PROVE TimeAxisKept
      OBVIOUS
    <2>1. \A s \in DOMAIN assembling : /\ Len(assembling[s].pcm) <= MaxFrames
                                   /\ Range(assembling[s].pcm) \subseteq Frames
      <3> SUFFICES ASSUME NEW s \in DOMAIN assembling
                   PROVE  /\ Len(assembling[s].pcm) <= MaxFrames
                          /\ Range(assembling[s].pcm) \subseteq Frames
        OBVIOUS
      <3>1. assembling[s].pcm \in Seq(Frames) /\ Len(assembling[s].pcm) <= MaxFrames
        BY DEF VoiceInv, ActiveGood, Growing, Pcm
      <3>2. \A n \in DOMAIN assembling[s].pcm : assembling[s].pcm[n] \in Frames
        BY <3>1, ElementOfSeq, LenProperties
      <3> QED BY <3>1, <3>2 DEF Range
    <2>2. CaptureTyped
      BY <2>1 DEF VoiceInv, MicTyped, Mic, ActiveGood, RetiredTyped, QueuesTyped, CaptureTyped
    <2>3. FramesInPlace
      BY DEF VoiceInv, CompletedGood, Faithful, InPlace, FramesInPlace
    <2>4. HolesBounded
      BY DEF VoiceInv, CompletedGood, Faithful, ShortHoles, HolesBounded
    <2> QED BY <2>2, <2>3, <2>4 DEF TimeAxisKept
  <1> QED BY <1>1, VoiceInvariance, PTL

\* The list of retired sessions is long enough for the sessions whose datagrams may
\* still arrive (MAX_RETIRED_SESSIONS).
RemembersAll == IsFiniteSet(Session) /\ Cardinality(Session) <= MaxRetired

\* A session that was handed on is retired, and stays so.
OnceInv ==
  /\ \A i, j \in DOMAIN retired : retired[i] = retired[j] => i = j
  /\ \A i \in DOMAIN completed : Retired(completed[i].session)
  /\ CompletesOnce

LEMMA NothingForgotten ==
  ASSUME RemembersAll, RetiredTyped, NEW s \in Session, retired' = Retire(s),
         \A i, j \in DOMAIN retired : retired[i] = retired[j] => i = j
  PROVE  /\ \A i, j \in DOMAIN retired' : retired'[i] = retired'[j] => i = j
         /\ \A u : Retired(u) \/ u = s => Retired(u)'
  <1>1. CASE Retired(s)
    BY <1>1 DEF Retire, Retired
  <1>2. CASE ~Retired(s)
    <2> DEFINE q == Append(retired, s)
               k == Len(retired)
    <2>1. retired \in Seq(Session) /\ k \in Nat /\ DOMAIN retired = 1..k
      BY LenProperties DEF RetiredTyped
    <2>2. /\ q \in Seq(Session) /\ Len(q) = k + 1 /\ q[k + 1] = s
          /\ \A i \in 1..k : q[i] = retired[i]
      BY <2>1, AppendProperties
    <2>3. DOMAIN q = 1..(k + 1) /\ q \in [1..(k + 1) -> Session]
      BY <2>2, LenProperties
    <2> HIDE DEF q, k
    <2>4. \A i \in 1..k : q[i] # s
      BY <1>2, <2>1, <2>2 DEF Retired
    <2>5. \A i, j \in 1..(k + 1) : q[i] = q[j] => i = j
      BY <2>1, <2>2, <2>4
    <2>6. q \in Injection(1..(k + 1), Session)
      BY <2>3, <2>5 DEF Injection, IsInjective
    <2>7. Cardinality(1..(k + 1)) <= Cardinality(Session) /\ Cardinality(Session) \in Nat
      BY <2>6, FS_Injection, FS_CardinalityType DEF RemembersAll
    <2>8. Cardinality(1..(k + 1)) = k + 1
      BY <2>1, FS_Interval
    <2>9. ~(Len(q) > MaxRetired)
      BY <2>1, <2>2, <2>7, <2>8, CaptureAssumption DEF RemembersAll
    <2>10. retired' = q
      BY <1>2, <2>9 DEF Retire, q
    <2>11. \A i, j \in DOMAIN retired' : retired'[i] = retired'[j] => i = j
      BY <2>3, <2>5, <2>10
    <2>12. ASSUME NEW u, Retired(u) \/ u = s PROVE Retired(u)'
      <3>1. CASE u = s
        BY <2>1, <2>2, <2>3, <2>10, <3>1 DEF Retired
      <3>2. CASE Retired(u)
        <4>1. PICK i \in 1..k : retired[i] = u
          BY <2>1, <3>2 DEF Retired
        <4>2. i \in DOMAIN retired' /\ retired'[i] = u
          BY <2>1, <2>2, <2>3, <2>10, <4>1
        <4> QED BY <4>2 DEF Retired
      <3> QED BY <2>12, <3>1, <3>2
    <2> QED BY <2>11, <2>12
  <1> QED BY <1>1, <1>2

\* As long as no session is forgotten whose datagrams may still arrive, one recording is
\* handed on at most once, after its clean end and in its whole length, however late
\* ingest and ingest_end see its datagrams again.
THEOREM HandedOnOnce ==
  ASSUME RemembersAll
  PROVE  CaptureSpec => []CompletedWasEnded
  <1>1. CaptureInit => OnceInv
    BY EmptySeq DEF CaptureInit, OnceInv, CompletesOnce
  <1>2. ASSUME OnceInv, VoiceInv, [CaptureNext]_captureVars PROVE OnceInv'
    <2>1. ASSUME NEW s \in Session, retired' = Retire(s)
          PROVE  /\ \A i, j \in DOMAIN retired' : retired'[i] = retired'[j] => i = j
                 /\ \A u : Retired(u) \/ u = s => Retired(u)'
      BY <1>2, <2>1, NothingForgotten DEF OnceInv, VoiceInv
    <2>2. CASE UNCHANGED <<retired, completed>>
      BY <1>2, <2>2 DEF OnceInv, Retired, CompletesOnce
    <2>3. ASSUME NEW s \in Session, retired' = Retire(s), completed' = completed
          PROVE  OnceInv'
      BY <1>2, <2>1, <2>3 DEF OnceInv, CompletesOnce
    <2>4. ASSUME NEW s \in Session, retired' = Retire(s), ~Retired(s),
                 Len(completed) \in Nat, DOMAIN completed' = 1..(Len(completed) + 1),
                 DOMAIN completed = 1..Len(completed),
                 \A i \in 1..Len(completed) : completed'[i] = completed[i],
                 completed'[Len(completed) + 1].session = s
          PROVE  OnceInv'
      <3>1. PICK k \in Nat : k = Len(completed)
        BY <2>4
      <3>2. ASSUME NEW i \in 1..k
            PROVE  Retired(completed[i].session) /\ completed[i].session # s
        <4>1. Retired(completed[i].session)
          BY <1>2, <2>4, <3>1 DEF OnceInv
        <4>2. completed[i].session # s
          BY <2>4, <4>1 DEF Retired
        <4> QED BY <4>1, <4>2
      <3>3. \A i \in 1..(k + 1) : i \in 1..k \/ i = k + 1
        OBVIOUS
      <3>4. (\A i \in DOMAIN completed : Retired(completed[i].session))'
        <4> SUFFICES ASSUME NEW i \in DOMAIN completed'
                     PROVE  (Retired(completed[i].session))'
          OBVIOUS
        <4>1. PICK u : u = completed'[i].session
          OBVIOUS
        <4>2. Retired(u) \/ u = s
          BY <2>4, <3>1, <3>2, <3>3, <4>1
        <4>3. Retired(u)'
          BY <2>1, <2>4, <4>2
        <4> QED BY <4>1, <4>3 DEF Retired
      <3>5. \A i, j \in 1..k : completed[i].session = completed[j].session => i = j
        BY <1>2, <2>4, <3>1 DEF OnceInv, CompletesOnce
      <3>6. CompletesOnce'
        BY <2>4, <3>1, <3>2, <3>3, <3>5 DEF CompletesOnce
      <3> QED BY <2>1, <2>4, <3>4, <3>6 DEF OnceInv
    <2> QED BY <1>2, <2>2, <2>3, <2>4, VoiceStep
  <1>3. OnceInv /\ VoiceInv => CompletedWasEnded
    BY DEF OnceInv, VoiceInv, CompletedGood, CompletedWasEnded
  <1> QED BY <1>1, <1>2, <1>3, VoiceInvariance, PTL DEF CaptureSpec
=============================================================================
