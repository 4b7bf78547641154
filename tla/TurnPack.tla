------------------------------- MODULE TurnPack -------------------------------
(***************************************************************************)
(* What one Codex turn is reduced to before it is stored: TurnBuilder of    *)
(* rollout_observer.rs, fed with the response items between task_started    *)
(* and task_complete.                                                       *)
(*                                                                         *)
(* Data.  A rollout line is read as [rec, vs]: the record, and for each of  *)
(* the pieces it was read in, the version of the file the piece came from.  *)
(* `vs` is the whole content of a message, an answer or a tool name, so two *)
(* packs are equal exactly when they were read from the same bytes.         *)
(* Redaction and shortening of the texts are in TextFilter.                 *)
(***************************************************************************)
EXTENDS Naturals, Sequences

CONSTANTS NoTurn,       \* no turn id; elsewhere no cursor, no scan
          MaxTools,     \* MAX_TOOLS
          MaxRaw,       \* MAX_RAW_MESSAGES_PER_ROLE
          MaxMessages   \* MAX_MESSAGES_PER_ROLE

ASSUME PackConstants == MaxTools \in Nat \ {0} /\ MaxRaw \in Nat \ {0} /\ MaxMessages \in 1..MaxRaw

Last(s, n) == IF Len(s) <= n THEN s ELSE SubSeq(s, Len(s) - n + 1, Len(s))

\* tools is a sequence of [call, vs, status]; tool_calls maps a call id to an index of it.
NewTurn(turn) ==
  [turn |-> turn, user |-> << >>, assistant |-> << >>, tools |-> << >>, calls |-> << >>]

\* push_message: the oldest of MaxRaw messages makes room.
PushMessage(b, role, vs) ==
  LET pushed(s) == Append(Last(s, MaxRaw - 1), vs)
  IN  IF role = "user" THEN [b EXCEPT !.user = pushed(@)]
                       ELSE [b EXCEPT !.assistant = pushed(@)]

\* Mutant of Evicted: the call ids of the tool that left stay.
EvictedKeepingCalls(b) ==
  IF Len(b.tools) < MaxTools THEN b ELSE [b EXCEPT !.tools = Tail(@)]

\* The oldest of MaxTools tools makes room: the indexes of the others move down.
Evicted(b) ==
  IF Len(b.tools) < MaxTools THEN b
  ELSE LET kept == {c \in DOMAIN b.calls : b.calls[c] # 1}
       IN  [b EXCEPT !.tools = Tail(@), !.calls = [c \in kept |-> @[c] - 1]]

ToolCalled(b, call, vs) ==
  LET e == Evicted(b)
      at == Len(e.tools) + 1
  IN  [e EXCEPT !.tools = Append(@, [call |-> call, vs |-> vs, status |-> "requested"]),
                !.calls = [c \in DOMAIN @ \cup {call} |-> IF c = call THEN at ELSE @[c]]]

ToolAnswered(b, call) ==
  IF call \in DOMAIN b.calls
  THEN [b EXCEPT !.tools[b.calls[call]].status = "completed"]
  ELSE b

\* observe_response_item: an item that names another turn is passed over.
ObserveResponseItem(b, line) ==
  CASE line.rec.turn \notin {NoTurn, b.turn} -> b
    [] line.rec.item = "message" -> PushMessage(b, line.rec.arg, line.vs)
    [] line.rec.item = "call" -> ToolCalled(b, line.rec.arg, line.vs)
    [] line.rec.item = "output" -> ToolAnswered(b, line.rec.arg)
    [] OTHER -> b

\* task_complete: its answer replaces what the assistant said during the turn.
FinishTurn(b, vs) ==
  [turn |-> b.turn, user |-> Last(b.user, MaxMessages), assistant |-> <<vs>>,
   tools |-> b.tools]
=============================================================================
