----------------------------- MODULE SpeechCall -----------------------------
(***************************************************************************)
(* One call of the speech service: dashscope.rs.  The Host verifies a key,  *)
(* has a recording transcribed, or has a text spoken.  A text is spoken     *)
(* over HTTP (a request that is billed, then a download), or over the       *)
(* WebSocket session that verification uses and that takes a text as well.  *)
(* Everything is synchronous; what the network and the service do, and      *)
(* every deadline, is a choice of the environment.                          *)
(***************************************************************************)
EXTENDS Naturals, Sequences, FiniteSets, SequencesExt

CONSTANTS Kinds,          \* of "verify", "asr", "http", "ws"
          Texts,          \* texts to speak: sequences of "w", "s" (a full stop), "n" (a newline)
          Environments,   \* proxy settings, records as ProxyFromEnvironment reads them
          MaxChunkChars,  \* MAX_TTS_CHUNK_CHARS
          MaxAttempts,    \* MAX_TTS_ATTEMPTS
          MaxParts,       \* MAX_TTS_PCM_BYTES, counted in spoken chunks
          MaxDeltas       \* MAX_TTS_AUDIO_DELTAS

ASSUME SpeechConstants ==
  /\ Kinds \subseteq {"verify", "asr", "http", "ws"}
  /\ Texts \subseteq Seq({"w", "s", "n"})
  /\ MaxChunkChars \in Nat \ {0} /\ MaxAttempts \in Nat \ {0}
  /\ MaxParts \in Nat /\ MaxDeltas \in Nat
  /\ \A env \in Environments : env.system.is \in {"pac", "off", "login", "proxy"}

VARIABLES call,     \* the call: where it is, its attempt, what it has so far
          session,  \* TtsSessionState of the attempt
          sent      \* history: for each request that may have been billed, its chunk

speechVars == <<call, session, sent>>

IsTts == call.kind \in {"http", "ws"}

-----------------------------------------------------------------------------
(* What a call is made from.                                               *)

\* split_tts_text: at the limit, or after a sentence once half of it is used.
SplitTtsText(text) ==
  LET Push(acc, c) ==
        LET current == Append(acc.current, c)
            boundary == c \in {"s", "n"} /\ Len(current) >= MaxChunkChars \div 2
        IN  IF Len(current) >= MaxChunkChars \/ boundary
            THEN [chunks |-> Append(acc.chunks, current), current |-> << >>]
            ELSE [acc EXCEPT !.current = current]
      end == FoldLeft(Push, [chunks |-> << >>, current |-> << >>], text)
  IN  IF end.current = << >> THEN end.chunks ELSE Append(end.chunks, end.current)

\* validate_tts_request: not empty, no control character.
ValidTtsRequest(chunk) == chunk # << >> /\ \A k \in DOMAIN chunk : chunk[k] # "n"

\* bypasses_proxy: "*" alone, or the host or a domain above it, for any port or this one.
BypassesProxy(entries) ==
  \E e \in entries : \/ e = [name |-> "*", port |-> "any"]
                     \/ e.name \in {"host", "domain"} /\ e.port # "other"

\* preferred_environment_value
Preferred(upper, lower) == IF upper.is = "missing" THEN lower ELSE upper

\* select_system_proxy, on macOS
SystemProxy(system) ==
  CASE BypassesProxy(system.exceptions) -> "direct"
    [] ~BypassesProxy(system.exceptions) /\ system.is = "pac" -> "Unavailable"
    [] ~BypassesProxy(system.exceptions) /\ system.is = "off" -> "direct"
    [] ~BypassesProxy(system.exceptions) /\ system.is = "login" -> "Unavailable"
    [] ~BypassesProxy(system.exceptions) /\ system.is = "proxy" -> "https_proxy"

\* select_environment_proxy, parse_proxy, proxy_from_environment: the route, or the error.
ProxyFromEnvironment(env) ==
  LET no == Preferred(env.no_upper, env.no_lower)
      https == Preferred(env.https_upper, env.https_lower)
  IN  IF no.is = "invalid" THEN "Unavailable"
      ELSE IF no.is = "value" /\ BypassesProxy(no.entries) THEN "direct"
      ELSE CASE https.is = "missing" -> SystemProxy(env.system)
             [] https.is = "plain http" -> "https_proxy"
             [] OTHER -> "Unavailable"

-----------------------------------------------------------------------------
(* Failures.                                                               *)

Fine == [error |-> "none", retryable |-> FALSE]
Terminal(error) == [error |-> error, retryable |-> FALSE]
Retryable(error) == [error |-> error, retryable |-> TRUE]
AmbiguousAfterCommit == Terminal("AmbiguousAfterCommit")

\* AttemptFailure::transport
Transport(error) == IF error = "Unavailable" THEN Retryable(error) ELSE Terminal(error)

\* protocol_failure
ProtocolFailure == IF session.submitted THEN AmbiguousAfterCommit ELSE Terminal("Protocol")

\* A read, or a pong, that fails on the WebSocket.
LinkFailure == IF session.submitted THEN AmbiguousAfterCommit ELSE Retryable("Unavailable")

NewSession ==
  [rid |-> 0, iid |-> 0, submitted |-> FALSE, committed |-> FALSE, itemAdded |-> FALSE,
   partAdded |-> FALSE, audioDone |-> FALSE, partDone |-> FALSE, itemDone |-> FALSE,
   done |-> FALSE, pcm |-> << >>, fragmented |-> << >>, heard |-> << >>]

\* What may come back over HTTP: a whole answer with the status that is asked for or another
\* one; headers that are too long, do not parse or give no length; a body that is too long,
\* or says something else; the end of the stream; an error or the deadline (DeadlineSocket).
Replies == {"accepted", "rejected", "limited", "failing", "other", "garbled", "oversized",
            "senseless", "cut", "lost"}

Over(result) == /\ call' = [call EXCEPT !.phase = "over", !.result = result]
                /\ UNCHANGED <<session, sent>>

To(phase) == call' = [call EXCEPT !.phase = phase] /\ UNCHANGED <<session, sent>>

\* synthesize: the next attempt, or the end.  Verification and transcription try once.
Fail(f) ==
  IF IsTts /\ f.retryable /\ call.attempt < MaxAttempts
  THEN /\ call' = [call EXCEPT !.attempt = @ + 1, !.phase = "prepare"]
       /\ session' = NewSession
  ELSE /\ call' = [call EXCEPT !.phase = "over", !.result = f.error]
       /\ UNCHANGED session

SpeechInit ==
  /\ \E kind \in Kinds, text \in Texts :
     \E chunks \in {SplitTtsText(text), <<text>>} :
       call = [kind |-> kind, text |-> text,
               chunks |-> IF kind \in {"http", "ws"} THEN chunks ELSE <<text>>,
               at |-> 1, attempt |-> 1, phase |-> "start", route |-> "none",
               parts |-> << >>, result |-> "none"]
  /\ session = NewSession
  /\ sent = << >>

-----------------------------------------------------------------------------
(* The connection.                                                         *)

\* The request is checked and the key is read from the secret store.
Start ==
  /\ call.phase = "start"
  /\ IF call.chunks = << >> \/ (IsTts /\ ~ValidTtsRequest(call.chunks[call.at]))
     THEN Over("InvalidRequest")
     ELSE To("prepare") \/ Over("Credential")

\* run_blocking_with_deadline over build_tls_config and proxy_from_environment
Prepare ==
  /\ call.phase = "prepare"
  /\ \/ \E env \in Environments :
          /\ ProxyFromEnvironment(env) # "Unavailable"
          /\ call' = [call EXCEPT !.phase = "resolve", !.route = ProxyFromEnvironment(env)]
          /\ UNCHANGED session
     \/ Fail(Transport("Unavailable"))
  /\ UNCHANGED sent

\* A step of connect_transport, start_tls: done, or Unavailable.
Connecting(from, to) ==
  /\ call.phase = from
  /\ \/ call' = [call EXCEPT !.phase = to] /\ UNCHANGED session
     \/ Fail(Transport("Unavailable"))
  /\ UNCHANGED sent

ResolveWithDeadline == Connecting("resolve", "connect")
ConnectAddresses == Connecting("connect", IF call.route = "direct" THEN "tls" ELSE "tunnel")
\* establish_proxy_tunnel, read_proxy_connect_response: anything but 200 is Unavailable.
EstablishProxyTunnel == Connecting("tunnel", "tls")
StartTls == Connecting("tls", IF call.kind \in {"http", "asr"} THEN "post" ELSE "upgrade")

ValidateHandshakeResponse(reply) ==
  CASE reply = "accepted" -> Fine
    [] reply = "rejected" -> Terminal("Rejected")
    [] OTHER -> Terminal("Protocol")

AuthorizeWebsocket(reply) ==
  IF reply = "lost" THEN Terminal("Unavailable") ELSE ValidateHandshakeResponse(reply)

ValidateTtsHandshakeResponse(reply) ==
  CASE reply = "accepted" -> Fine
    [] reply = "rejected" -> Terminal("Rejected")
    [] reply = "limited" -> Retryable("RateLimited")
    [] reply = "failing" -> Retryable("Unavailable")
    [] OTHER -> Terminal("Protocol")

AuthorizeTtsWebsocket(reply) ==
  IF reply \in {"cut", "lost"} THEN Retryable("Unavailable") ELSE ValidateTtsHandshakeResponse(reply)

\* An answer is read: the call goes on, or its attempt fails.
Received(verdict, next) == IF verdict = Fine THEN next ELSE Fail(verdict)

Upgrade ==
  /\ call.phase = "upgrade"
  /\ LET next == call' = [call EXCEPT !.phase = "created"] /\ UNCHANGED session
     IN  \E reply \in Replies :
           IF call.kind = "ws" THEN Received(AuthorizeTtsWebsocket(reply), next)
           ELSE Received(AuthorizeWebsocket(reply), next)
  /\ UNCHANGED sent

-----------------------------------------------------------------------------
(* A text over HTTP, and a transcription.                                  *)

\* Mutant of ChunkDone: parts that came over different routes are combined.
ChunkDoneAnyRoute(part) ==
  LET parts == Append(call.parts, part)
      last == call.at = Len(call.chunks)
  IN  /\ call' = [call EXCEPT !.parts = parts, !.attempt = 1,
                              !.at = IF last THEN @ ELSE @ + 1,
                              !.phase = IF last THEN "over" ELSE "start",
                              !.result = IF ~last THEN "none"
                                         ELSE IF Len(parts) > MaxParts THEN "AudioLimit" ELSE "ok"]
      /\ session' = NewSession

\* synthesize_chunked: the next chunk; after the last one combine_tts_audio, which refuses
\* parts that came over different routes and a speech that is too long.
ChunkDone(part) ==
  LET parts == Append(call.parts, part)
      combined == CASE \E p \in Range(parts) : p.route # parts[1].route -> "Protocol"
                    [] Len(parts) > MaxParts -> "AudioLimit"
                    [] OTHER -> "ok"
      last == call.at = Len(call.chunks)
  IN  /\ call' = [call EXCEPT !.parts = parts, !.attempt = 1,
                              !.at = IF last THEN @ ELSE @ + 1,
                              !.phase = IF last THEN "over" ELSE "start",
                              !.result = IF last THEN combined ELSE "none"]
      /\ session' = NewSession

\* Reference: the events of one whole response, each of its response and of one item.
WholeResponse(heard) ==
  LET n == Len(heard)
      at(k) == heard[k].type
  IN  /\ n > 8
      /\ <<at(1), at(2), at(3), at(4)>> = <<"committed", "response.created", "item.added", "part.added">>
      /\ \A k \in 5..n - 4 : at(k) = "delta"
      /\ <<at(n - 3), at(n - 2), at(n - 1), at(n)>> = <<"audio.done", "part.done", "item.done", "response.done">>
      /\ \A k \in 3..n : heard[k].rid = heard[2].rid
      /\ \A k \in 3..n - 1 : heard[k].iid = heard[3].iid
      /\ \A k \in 1..n : heard[k].flaw = "none"

\* The audio that an answer to the last request brings; "whole" is history.
Part(heard) == [chunk |-> call.chunks[call.at], route |-> call.route, request |-> Len(sent),
                whole |-> call.kind = "ws" => WholeResponse(heard)]

\* post_batch_tts_request, post_asr_request: a write that fails may have arrived.
Post ==
  /\ call.phase = "post"
  /\ \/ call' = [call EXCEPT !.phase = "answer"] /\ UNCHANGED session
     \/ Fail(IF IsTts THEN AmbiguousAfterCommit ELSE Terminal("Unavailable"))
  /\ sent' = IF IsTts THEN Append(sent, call.at) ELSE sent

\* The statuses that say the request was refused, and what else is ambiguous.
ValidateBatchTtsHeader(reply) ==
  CASE reply \in {"accepted", "senseless"} -> Fine
    [] reply = "rejected" -> Terminal("Rejected")
    [] reply = "limited" -> Terminal("RateLimited")
    [] reply = "failing" -> Terminal("Unavailable")
    [] reply = "other" -> Terminal("Protocol")
    [] OTHER -> AmbiguousAfterCommit

\* parse_batch_tts_response, parse_batch_tts_audio_url
ParseBatchTtsResponse(reply) == IF reply = "senseless" THEN AmbiguousAfterCommit ELSE Fine

ReadBatchTtsResponse(reply) ==
  IF ValidateBatchTtsHeader(reply) # Fine THEN ValidateBatchTtsHeader(reply)
  ELSE ParseBatchTtsResponse(reply)

ValidateAsrHttpHeader(reply) ==
  CASE reply \in {"accepted", "senseless"} -> Fine
    [] reply = "rejected" -> Terminal("Rejected")
    [] reply = "limited" -> Terminal("RateLimited")
    [] reply \in {"failing", "lost"} -> Terminal("Unavailable")
    [] OTHER -> Terminal("Protocol")

\* transcribe_wav: a transcript that is not blank, not too long and has no control characters.
Transcript(reply) == IF reply = "senseless" THEN Terminal("Protocol") ELSE Fine

ReadAsrResponse(reply) ==
  IF ValidateAsrHttpHeader(reply) # Fine THEN ValidateAsrHttpHeader(reply) ELSE Transcript(reply)

Answer ==
  /\ call.phase = "answer"
  /\ \E reply \in Replies :
       IF IsTts
       THEN Received(ReadBatchTtsResponse(reply),
                     call' = [call EXCEPT !.phase = "audio"] /\ UNCHANGED session)
       ELSE Received(ReadAsrResponse(reply),
                     call' = [call EXCEPT !.phase = "over", !.result = "ok"] /\ UNCHANGED session)
  /\ UNCHANGED sent

\* prepare_tts_audio_platform: what Prepare does, now after the request was answered.
PrepareAudio ==
  /\ call.phase = "audio"
  /\ \/ call' = [call EXCEPT !.phase = "fetch"] /\ UNCHANGED session
     \/ Fail(Transport("Unavailable"))
  /\ UNCHANGED sent

ValidateBatchTtsAudioHeader(reply) ==
  IF reply \in {"accepted", "oversized", "senseless"} THEN Fine ELSE AmbiguousAfterCommit

\* get_batch_tts_audio, its connection included, and decode_wav, which refuses what is
\* senseless.
GetBatchTtsAudio(reply) ==
  CASE ValidateBatchTtsAudioHeader(reply) # Fine -> ValidateBatchTtsAudioHeader(reply)
    [] reply = "oversized" -> Terminal("AudioLimit")
    [] reply = "senseless" -> AmbiguousAfterCommit
    [] OTHER -> Fine

Fetch ==
  /\ call.phase = "fetch"
  /\ \E reply \in Replies : Received(GetBatchTtsAudio(reply), ChunkDone(Part(<< >>)))
  /\ UNCHANGED sent

-----------------------------------------------------------------------------
(* A text over the WebSocket: run_tts_session.                             *)

\* The events of the service.  "sound" is what the checks of an event's own fields say;
\* "repeated" means that its event_id was registered before.
EventTypes == {"session.created", "session.updated", "committed", "response.created",
               "item.added", "part.added", "delta", "audio.done", "part.done", "item.done",
               "response.done", "error", "other"}
ResponseTypes == {"item.added", "part.added", "delta", "audio.done", "part.done", "item.done"}
Events == [type : EventTypes, rid : {1}, iid : {1}, flaw : {"none", "unsound", "repeated"}]
          \cup [type : ResponseTypes, rid : 1..2, iid : 1..2, flaw : {"none"}]
          \cup [type : {"response.created", "response.done"}, rid : {2}, iid : {1}, flaw : {"none"}]

\* bind_item_id
ItemFits(e) == session.iid \in {0, e.iid}
OfResponse(e) == session.rid # 0 /\ session.rid = e.rid

\* Mutant of AudioOpen: a delta is taken after the audio is done.
AudioAlwaysOpen == TRUE

\* append_audio_delta
AudioOpen == session.itemAdded /\ session.partAdded /\ ~session.audioDone

\* The life cycle each handler asks for.  input_text_buffer.committed:
Committed == ~session.committed /\ session.rid = 0

ParseResponseCreated == session.committed /\ session.rid = 0

ValidateResponseScaffold(e) ==
  LET s == session
      silent == s.pcm = << >> /\ ~s.audioDone /\ ~s.partDone /\ ~s.itemDone
  IN  /\ OfResponse(e) /\ ItemFits(e)
      /\ CASE e.type = "item.added" -> ~s.itemAdded /\ ~s.partAdded /\ silent
           [] e.type = "part.added" -> s.itemAdded /\ ~s.partAdded /\ silent
           [] e.type = "part.done" ->
                s.itemAdded /\ s.partAdded /\ s.audioDone /\ ~s.partDone /\ ~s.itemDone
           [] e.type = "item.done" -> s.itemAdded /\ s.partDone /\ ~s.itemDone

MarkAudioDone(e) ==
  /\ OfResponse(e) /\ ItemFits(e)
  /\ session.itemAdded /\ session.partAdded /\ ~session.audioDone /\ session.pcm # << >>
  /\ ~session.partDone /\ ~session.itemDone

MarkResponseDone(e) ==
  session.audioDone /\ session.partDone /\ session.itemDone /\ ~session.done /\ session.rid = e.rid

Handled(e) ==
  CASE e.type = "committed" -> Committed
    [] e.type = "response.created" -> ParseResponseCreated
    [] e.type \in {"item.added", "part.added", "part.done", "item.done"} -> ValidateResponseScaffold(e)
    [] e.type = "delta" -> OfResponse(e) /\ ItemFits(e) /\ AudioOpen /\ Len(session.pcm) < MaxDeltas
    [] e.type = "audio.done" -> MarkAudioDone(e)
    [] e.type = "response.done" -> MarkResponseDone(e)
    [] OTHER -> FALSE  \* "error" is an ambiguous end as well: classify_tts_service_error

\* What the handler of an event does to the session.
Applied(e) ==
  LET s == [session EXCEPT !.heard = Append(@, e), !.fragmented = << >>]
      bound == [s EXCEPT !.iid = e.iid]
  IN
  CASE e.type = "committed" -> [s EXCEPT !.committed = TRUE]
    [] e.type = "response.created" -> [s EXCEPT !.rid = e.rid]
    [] e.type = "item.added" -> [bound EXCEPT !.itemAdded = TRUE]
    [] e.type = "part.added" -> [bound EXCEPT !.partAdded = TRUE]
    [] e.type = "delta" -> [bound EXCEPT !.pcm = Append(@, e.rid)]
    [] e.type = "audio.done" -> [bound EXCEPT !.audioDone = TRUE]
    [] e.type = "part.done" -> [bound EXCEPT !.partDone = TRUE]
    [] e.type = "item.done" -> [bound EXCEPT !.itemDone = TRUE]
    [] e.type = "response.done" -> [s EXCEPT !.done = TRUE]

\* register_event and the checks of the event's fields
Fit(e) == e.flaw = "none"

\* An event came whole.
OnEvent(e) ==
  CASE call.phase = "created" /\ e.type = "session.created" /\ e.flaw # "unsound" ->
         /\ call' = [call EXCEPT !.phase = IF call.kind = "ws" THEN "update" ELSE "close"]
         /\ session' = [session EXCEPT !.fragmented = << >>]
    [] call.phase = "created" /\ call.kind = "verify" /\ e.flaw # "unsound"
       /\ e.type \notin {"session.created", "error"} ->
         session' = [session EXCEPT !.fragmented = << >>] /\ UNCHANGED call
    [] call.phase = "updated" /\ e.type = "session.updated" /\ Fit(e) ->
         /\ call' = [call EXCEPT !.phase = "append"]
         /\ session' = [session EXCEPT !.fragmented = << >>]
    [] call.phase = "response" /\ Fit(e) /\ Handled(e) ->
         IF e.type = "response.done"
         THEN ChunkDone(Part(Applied(e).heard))
         ELSE session' = Applied(e) /\ UNCHANGED call
    [] OTHER -> Fail(ProtocolFailure)

Reading == call.phase \in {"created", "updated", "response"}

\* read_server_frame and assemble_text_frame: an event in one frame.
TextFrame ==
  /\ Reading
  /\ \E e \in Events : IF session.fragmented = << >> THEN OnEvent(e) ELSE Fail(ProtocolFailure)
  /\ UNCHANGED sent

\* An event in two frames: the first is kept, control frames may come between.
FirstFragment ==
  /\ Reading /\ session.fragmented = << >>
  /\ \E e \in Events : e.flaw = "none" /\ e.rid = 1 /\ e.iid = 1
                       /\ session' = [session EXCEPT !.fragmented = <<e>>]
  /\ UNCHANGED <<call, sent>>

Continuation ==
  /\ Reading
  /\ IF session.fragmented = << >> THEN Fail(ProtocolFailure) ELSE OnEvent(session.fragmented[1])
  /\ UNCHANGED sent

\* Pings are answered and pongs are passed over; a close ends the session, any other frame is
\* refused, and the connection or the deadline may end at any time.
ControlFrame ==
  /\ Reading
  /\ Fail(ProtocolFailure) \/ Fail(LinkFailure)
  /\ UNCHANGED sent

\* session.update and input_text_buffer.append: an event that is too long is not sent
\* (send_client_event), and a write that fails is tried again (retry_before_commit).
Send(from, to) ==
  /\ call.phase = from
  /\ \/ call' = [call EXCEPT !.phase = to] /\ UNCHANGED session
     \/ Fail(Retryable("Unavailable"))
     \/ Fail(Terminal("InvalidRequest"))
  /\ UNCHANGED sent

\* Mutant of SendCommit: the request counts as submitted only once the write succeeded.
SendCommitLate ==
  /\ call.phase = "commit"
  /\ \/ call' = [call EXCEPT !.phase = "response"] /\ session' = [session EXCEPT !.submitted = TRUE]
     \/ Fail(Retryable("Unavailable"))
  /\ sent' = Append(sent, call.at)

\* input_text_buffer.commit: from here on nothing is tried again.
SendCommit ==
  /\ call.phase = "commit"
  /\ \/ call' = [call EXCEPT !.phase = "response"] /\ session' = [session EXCEPT !.submitted = TRUE]
     \/ Fail(AmbiguousAfterCommit)
  /\ sent' = Append(sent, call.at)

\* verify: the close is written, and the service must close as well.
AwaitPeerClose ==
  /\ call.phase = "close"
  /\ \E result \in {"ok", "Unavailable", "Protocol"} : Over(result)

SpeechNext ==
  \/ Start \/ Prepare
  \/ ResolveWithDeadline \/ ConnectAddresses \/ EstablishProxyTunnel \/ StartTls \/ Upgrade
  \/ Post \/ Answer \/ PrepareAudio \/ Fetch
  \/ TextFrame \/ FirstFragment \/ Continuation \/ ControlFrame
  \/ Send("update", "updated") \/ Send("append", "commit") \/ SendCommit
  \/ AwaitPeerClose

SpeechSpec == SpeechInit /\ [][SpeechNext]_speechVars

-----------------------------------------------------------------------------
\* The chunks of a text are texts, and together, in their order, they are the text
\* (dashscope.rs split_tts_text).
SplitsWhole(text) ==
  /\ SplitTtsText(text) \in Seq(Seq({"w", "s", "n"}))
  /\ FlattenSeq(SplitTtsText(text)) = text

\* The audio a call returns speaks its whole text in order: every chunk with the audio of one
\* answer to the last request made for that very chunk, over one route, and over the
\* WebSocket with the deltas of one complete response; and there no chunk is ever submitted
\* twice (dashscope.rs synthesize_chunked, combine_tts_audio, run_tts_session).
SpeaksTheText ==
  /\ call.result = "ok" /\ IsTts =>
       /\ FlattenSeq([k \in DOMAIN call.parts |-> call.parts[k].chunk]) = call.text
       /\ \A k \in DOMAIN call.parts :
            /\ call.parts[k].route = call.parts[1].route
            /\ sent[call.parts[k].request] = k
            /\ \A j \in call.parts[k].request + 1..Len(sent) : sent[j] # k
            /\ call.parts[k].whole
  /\ call.kind = "ws" => IsInjective(sent)

\* "TTS submission may have been accepted; automatic retry is unsafe" (TtsError,
\* dashscope.rs): a text that was submitted is not submitted again by the same call.
SubmittedOnce == IsInjective(sent)
=============================================================================
