--------------------------- MODULE MCHostServices ---------------------------
(***************************************************************************)
(* Model values for the services of the Host that share no state with each  *)
(* other and are explored one at a time: "part" chooses which.  Three serve *)
(* the summaries (the ledger, here with callers that present any claim and  *)
(* any lease in any order, the speech service, the cache; SummaryPipeline   *)
(* has their order and what is done when one of them fails).  The others    *)
(* are the assembly of recordings ("capture"), the catalog of Codex tasks,  *)
(* read from a database that changes ("database") or by several readers     *)
(* ("readers"), the socket of the Host ("socket"), and its deployment       *)
(* ("deploy").                                                              *)
(***************************************************************************)
EXTENDS SummaryLedger, SpeechCall, CacheFiles, VoiceCapture, CodexCatalog, LaunchAgent

CONSTANT Parts  \* the parts to explore

VARIABLE part

mcVars == <<part, vars, speechVars, cacheVars, captureVars, catalogVars, launchVars>>

MCCacheIds == {<<"task", 1>>, <<"task", 2>>}

Missing == [is |-> "missing"]
PlainHttp == [is |-> "plain http"]
NoProxy(name, port) == [is |-> "value", entries |-> {[name |-> name, port |-> port]}]
System(is, exceptions) == [is |-> is, exceptions |-> exceptions]
Env(no_upper, no_lower, https_upper, https_lower, system) ==
  [no_upper |-> no_upper, no_lower |-> no_lower, https_upper |-> https_upper,
   https_lower |-> https_lower, system |-> system]

MCEnvironments ==
  {Env(Missing, Missing, Missing, Missing, System("off", {})),
   Env([is |-> "invalid"], Missing, PlainHttp, Missing, System("off", {})),
   Env(NoProxy("domain", "this"), Missing, PlainHttp, Missing, System("off", {})),
   Env(Missing, NoProxy("host", "other"), Missing, PlainHttp, System("off", {})),
   Env(Missing, Missing, [is |-> "https"], PlainHttp, System("off", {})),
   Env(Missing, Missing, Missing, Missing, System("proxy", {})),
   Env(Missing, Missing, Missing, Missing, System("pac", {[name |-> "*", port |-> "any"]})),
   Env(Missing, Missing, Missing, Missing, System("login", {[name |-> "other", port |-> "any"]}))}

MCTexts == {<< >>, <<"w", "s", "w">>, <<"w", "w", "s", "w", "w", "w">>, <<"w", "n", "w", "w">>}

\* What the theorem about SpeechCall asks of the texts, for every text of up to seven letters.
ASSUME MCSplits ==
  \A text \in UNION {[1..n -> {"w", "s", "n"}] : n \in 0..7} : SplitsWhole(text)

ThreadRow(recency) ==
  [there |-> TRUE, archived |-> FALSE, role |-> "none", source |-> "user", rollout |-> "file",
   recency |-> recency, name |-> "name", title |-> "blank"]
Thread(id, page, versions) == [id |-> id, page |-> page, rows |-> versions]

MCThreads ==
  ("t1" :> Thread(1, 1, <<ThreadRow(1), ThreadRow(3), ThreadRow(6)>>)) @@
  ("t2" :> Thread(2, 2, <<ThreadRow(2), [ThreadRow(3) EXCEPT !.archived = TRUE],
                          [ThreadRow(3) EXCEPT !.rollout = "unsafe"]>>)) @@
  ("t3" :> Thread(3, 1, <<[ThreadRow(3) EXCEPT !.source = "subagent"],
                          [ThreadRow(3) EXCEPT !.name = "blank"],
                          [ThreadRow(7) EXCEPT !.name = "internal"]>>)) @@
  ("t4" :> Thread(4, 2, <<ThreadRow(2), ThreadRow(5), [ThreadRow(5) EXCEPT !.archived = TRUE]>>))

\* The order of the sidebar is not that of the pins; more are pinned than are listed.
FirstPins == [pins |-> <<"t1", "t2", "t1">>, order |-> <<"t2", "other">>]
MCGlobalStates ==
  {FirstPins,
   [pins |-> <<"t1", "t2", "t4">>, order |-> <<"t4", "t3">>],
   [pins |-> <<"t3", "t9">>, order |-> <<"t3", "t1">>],
   [pins |-> <<"t1", "invalid">>, order |-> << >>],
   [pins |-> <<"t1", "t2", "t3", "t9">>, order |-> << >>]}

MCIndexLines == {[task |-> "t1", name |-> "internal"], [task |-> "t3", name |-> "index"]}

MCInit ==
  /\ part \in Parts
  /\ Init
  /\ SpeechInit /\ (part # "speech" => call.text = << >> /\ call.kind = "http" /\ call.chunks = << >>)
  /\ CacheInit
  /\ CaptureInit
  /\ CatalogInit /\ (part # "readers" => globalState = FirstPins)
  /\ LaunchInit /\ (part # "deploy" => binary = "none")

\* Readers, processes and connections are alike: where one of them is enough, or is the next
\* one to do something, it is this one.
FirstReader == CHOOSE r \in Readers : TRUE
FirstProcess == CHOOSE h \in HostProcesses : TRUE
FirstCaller == CHOOSE c \in Callers : requests[c] = NoCall

SocketPart ==
  \/ HostSteps(FirstProcess) \/ OpenHost(FirstProcess, "old") \/ StopServing(FirstProcess)
  \/ \E c \in Callers : CallSteps(c)
  \/ \E kind \in Requests, e \in {0, slot} :
       /\ calls = 0 \/ (calls = 1 /\ kind = "bind")
       /\ Call(FirstCaller, kind, e)
  \/ ProcessControlRequest

\* One read beside everything Codex writes to the database; or several, with failures and
\* deaths, of a database that rests.
DatabasePart == (CodexSteps \/ ReaderSteps(FirstReader)) /\ reads' <= 1 /\ upsets' = 0
ReadersPart == CatalogNext /\ opens' = 0

MCNext ==
  \/ /\ part = "ledger" /\ Next
     /\ UNCHANGED <<part, speechVars, cacheVars, captureVars, catalogVars, launchVars>>
  \/ /\ part = "speech" /\ SpeechNext
     /\ UNCHANGED <<part, vars, cacheVars, captureVars, catalogVars, launchVars>>
  \/ /\ part = "cache" /\ CacheNext
     /\ UNCHANGED <<part, vars, speechVars, captureVars, catalogVars, launchVars>>
  \/ /\ part = "capture" /\ CaptureNext
     /\ UNCHANGED <<part, vars, speechVars, cacheVars, catalogVars, launchVars>>
  \/ /\ \/ part = "database" /\ DatabasePart
        \/ part = "readers" /\ ReadersPart
     /\ UNCHANGED <<part, vars, speechVars, cacheVars, captureVars, launchVars>>
  \/ /\ \/ part = "socket" /\ SocketPart /\ bound' <= 2 /\ UNCHANGED agentVars
        \/ part = "deploy" /\ LaunchNext
     /\ UNCHANGED <<part, vars, speechVars, cacheVars, captureVars, catalogVars>>

MCSpec == MCInit /\ [][MCNext]_mcVars
=============================================================================
