---------------------------- MODULE RecordParser ----------------------------
(***************************************************************************)
(* StreamingRecordParser of rollout_observer.rs: a rollout line too long to *)
(* be kept is read as it comes, and only the fields the observer looks at   *)
(* stay in memory.  Lines that fit are given to serde_json instead, so the  *)
(* two should read the same out of a line.                                  *)
(*                                                                         *)
(* Data.  A line is a sequence of tokens [t, v, big]: brackets, ":" and     *)
(* ",", an atom (number, true, false, null), or a string with its value;    *)
(* `big` says that a string exceeds MAX_STREAM_SMALL_FIELD_BYTES, an atom   *)
(* the 64 bytes feed_byte keeps of it.  A key "long" is a big string.       *)
(* Whitespace is left out.  The strings' own bytes are in TextFilter.       *)
(***************************************************************************)
EXTENDS Naturals, Sequences, FiniteSets

LOCAL INSTANCE SequencesExt

CONSTANTS MaxDepth,  \* MAX_STREAM_JSON_DEPTH
          MaxParts,  \* MAX_STREAM_CONTENT_PARTS
          NoLine     \* nothing was read

VARIABLE line        \* the line that was read: a token sequence or a JSON tree

Token(t, v, big) == [t |-> t, v |-> v, big |-> big]
Str(v) == Token("str", v, FALSE)
Mark(t) == Token(t, "none", FALSE)
Key(k) == Token("str", k, k = "long")

PayloadFields == {"type", "role", "turn_id", "name", "status", "call_id", "last_agent_message"}

\* field_target: where the string value of the current key is kept, as <<context, key,
\* part>>, or the empty set.
FieldTarget(f) ==
  IF \/ f.ctx = "root" /\ f.key = "type"
     \/ f.ctx = "payload" /\ f.key \in PayloadFields
     \/ f.ctx \in {"metadata", "internal"} /\ f.key = "turn_id"
     \/ f.ctx = "part" /\ f.key \in {"type", "text"}
  THEN {<<f.ctx, f.key, f.part>>} ELSE {}

Without(r, gone) == [r EXCEPT !.val = [x \in DOMAIN @ \ gone |-> @[x]]]
InPart(x) == x[1] = "part"

\* Mutant of Prepared: a repeated payload leaves the fields of the first one.
PreparedFieldOnly(r, f) == Without(r, FieldTarget(f))

\* prepare_field_value, clear_payload: a repeated key takes back what the earlier one said.
Prepared(r, f) ==
  CASE f.ctx = "root" /\ f.key = "payload" ->
         [Without(r, {x \in DOMAIN r.val : x[1] # "root"}) EXCEPT !.object = FALSE, !.parts = 0]
    [] f.ctx = "payload" /\ f.key = "content" ->
         [Without(r, {x \in DOMAIN r.val : InPart(x)}) EXCEPT !.parts = 0]
    [] f.ctx = "payload" /\ f.key \in {"metadata", "internal"} ->
         Without(r, {<<f.key, "turn_id", 0>>})
    [] OTHER -> Without(r, FieldTarget(f))

\* child_context
ChildContext(f, open, parts) ==
  CASE f.ctx = "root" /\ f.key = "payload" /\ open = "{" -> "payload"
    [] f.ctx = "payload" /\ f.key = "content" /\ open = "[" -> "content"
    [] f.ctx = "payload" /\ f.key \in {"metadata", "internal"} /\ open = "{" -> f.key
    [] f.ctx = "content" /\ open = "{" /\ parts < MaxParts -> "part"
    [] OTHER -> "other"

Frame(kind, ctx, part) ==
  [kind |-> kind, ctx |-> ctx, part |-> part, state |-> "first", key |-> "none"]

NewParser ==
  [stack |-> << >>, bad |-> FALSE, complete |-> FALSE,
   record |-> [object |-> FALSE, parts |-> 0, val |-> << >>]]

Reject(p) == [p EXCEPT !.bad = TRUE]
Top(p) == p.stack[Len(p.stack)]
WithTop(p, f) == [p EXCEPT !.stack[Len(p.stack)] = f]

\* finish_scalar
FinishScalar(p) == WithTop(p, [Top(p) EXCEPT !.state = "comma", !.key = "none"])

\* close_container
CloseContainer(p) ==
  [p EXCEPT !.stack = Front(@), !.complete = Len(p.stack) = 1]

\* record_field, finish_string of a value
FinishString(p, targets, token) ==
  IF targets # {} /\ token.big /\ \A x \in targets : x[2] \notin {"text", "last_agent_message"}
  THEN Reject(p)
  ELSE FinishScalar([p EXCEPT !.record.val =
         [x \in DOMAIN @ \cup targets |-> IF x \in targets THEN token.v ELSE @[x]]])

\* start_value, after prepare_field_value
StartValue(p, token) ==
  LET f == Top(p)
      q == IF f.kind = "{" THEN [p EXCEPT !.record = Prepared(@, f)] ELSE p
      ctx == ChildContext(f, token.t, q.record.parts)
      n == q.record.parts + (IF ctx = "part" THEN 1 ELSE 0)
      opened == [q.record EXCEPT !.object = @ \/ ctx = "payload", !.parts = n]
  IN  CASE token.t = "str" ->
             FinishString(q, IF f.kind = "{" THEN FieldTarget(f) ELSE {}, token)
        [] token.t = "atom" -> IF token.big THEN Reject(p) ELSE FinishScalar(q)
        [] token.t \in {"{", "["} ->
             IF Len(p.stack) >= MaxDepth THEN Reject(p)
             ELSE [FinishScalar(q) EXCEPT !.record = opened,
                     !.stack = Append(@, Frame(token.t, ctx, IF ctx = "part" THEN n ELSE 0))]
        [] OTHER -> Reject(p)

\* feed_byte inside an object
FeedObject(p, token) ==
  LET f == Top(p)
  IN  CASE f.state \in {"first", "key"} /\ token.t = "str" /\ ~token.big ->
             WithTop(p, [f EXCEPT !.key = token.v, !.state = "colon"])
        [] f.state \in {"first", "comma"} /\ token.t = "}" -> CloseContainer(p)
        [] f.state = "colon" /\ token.t = ":" -> WithTop(p, [f EXCEPT !.state = "value"])
        [] f.state = "value" -> StartValue(p, token)
        [] f.state = "comma" /\ token.t = "," -> WithTop(p, [f EXCEPT !.state = "key"])
        [] OTHER -> Reject(p)

\* feed_byte inside an array
FeedArray(p, token) ==
  LET f == Top(p)
  IN  CASE f.state \in {"first", "comma"} /\ token.t = "]" -> CloseContainer(p)
        [] f.state \in {"first", "value"} -> StartValue(p, token)
        [] f.state = "comma" /\ token.t = "," -> WithTop(p, [f EXCEPT !.state = "value"])
        [] OTHER -> Reject(p)

FeedToken(p, token) ==
  CASE p.bad -> p
    [] p.complete -> Reject(p)
    [] p.stack = << >> ->
         IF token.t = "{" THEN [p EXCEPT !.stack = <<Frame("{", "root", 0)>>] ELSE Reject(p)
    [] OTHER -> IF Top(p).kind = "{" THEN FeedObject(p, token) ELSE FeedArray(p, token)

-----------------------------------------------------------------------------
(* JSON values, and what the observer looks up in them.                    *)

Obj(fields) == [t |-> "{", fields |-> fields]
Arr(elems) == [t |-> "[", elems |-> elems]
Leaf(token) == token

\* into_value: a value with the fields that were kept.  There is a payload if there was an
\* object, and content if a part of it was kept.
IntoValue(r) ==
  LET strings(ctx, part) ==
        {<<x[2], Leaf(Str(r.val[x]))>> : x \in {x \in DOMAIN r.val : x[1] = ctx /\ x[3] = part}}
      object(fields) == Obj(SetToSeq(fields))
      ids == {<<k, object(strings(k, 0))>> :
                k \in {k \in {"metadata", "internal"} : strings(k, 0) # {}}}
      content == IF r.parts = 0 THEN {}
                 ELSE {<<"content", Arr([i \in 1..r.parts |-> object(strings("part", i))])>>}
      payload == strings("payload", 0) \cup ids \cup content
  IN  object(strings("root", 0) \cup
             (IF r.object THEN {<<"payload", object(payload)>>} ELSE {}))

\* feed of all chunks and finish
Streamed(tokens) ==
  LET p == FoldLeft(FeedToken, NewParser, tokens)
  IN  IF p.bad \/ ~p.complete THEN {} ELSE {IntoValue(p.record)}

\* The last value of a key of an object, as a set: get.
Field(doc, key) ==
  IF doc.t # "{" THEN {}
  ELSE LET at == {i \in DOMAIN doc.fields : doc.fields[i][1] = key}
       IN  {doc.fields[i][2] : i \in {i \in at : \A j \in at : j <= i}}

Under(docs, key) == UNION {Field(d, key) : d \in docs}
Strings(docs) == {d.v : d \in {d \in docs : d.t = "str"}}
Objects(docs) == {d \in docs : d.t = "{"}
IsObject(doc) == doc.t = "{"
PartsOf(elems) ==
  [i \in DOMAIN elems |-> [k \in {"type", "text"} |-> Strings(Field(elems[i], k))]]

\* The parts of a message; the empty set is InvalidRollout.
MessageParts(elems) ==
  IF \A i \in DOMAIN elems : IsObject(elems[i]) THEN {PartsOf(elems)} ELSE {}

\* What apply_rollout_value, response_turn_id and observe_response_item look up in a line.
Reads(doc) ==
  LET payload == Under({doc}, "payload")
      arrays == {a \in Under(payload, "content") : a.t = "["}
  IN  [type |-> Strings(Under({doc}, "type")),
       object |-> Objects(payload) # {},
       fields |-> [k \in PayloadFields |-> Strings(Under(payload, k))],
       ids |-> [k \in {"metadata", "internal"} |->
                  Strings(Under(Objects(Under(payload, k)), "turn_id"))],
       content |-> UNION {MessageParts(a.elems) : a \in arrays}]

-----------------------------------------------------------------------------
(* The reference: the JSON grammar and the limits.                         *)

RECURSIVE Written(_)
Written(doc) ==
  LET list(parts) == IF parts = << >> THEN << >>
                     ELSE Tail(FlattenSeq([i \in DOMAIN parts |-> <<Mark(",")>> \o parts[i]]))
  IN  CASE doc.t = "{" ->
             <<Mark("{")>> \o list([i \in DOMAIN doc.fields |->
                <<Key(doc.fields[i][1]), Mark(":")>> \o Written(doc.fields[i][2])]) \o <<Mark("}")>>
        [] doc.t = "[" ->
             <<Mark("[")>> \o list([i \in DOMAIN doc.elems |-> Written(doc.elems[i])])
               \o <<Mark("]")>>
        [] OTHER -> <<doc>>

\* ValueEnds(s, i): where a value that starts at i may end.  ListEnds: where a list of
\* values, of fields when `keyed`, that starts at i and is closed by `close` ends.
RECURSIVE ValueEnds(_, _), ListEnds(_, _, _, _)
At(s, i, t) == i \in DOMAIN s /\ s[i].t = t
ListEnds(s, i, keyed, close) ==
  LET from == IF keyed THEN IF At(s, i, "str") /\ At(s, i + 1, ":") THEN {i + 2} ELSE {}
              ELSE {i}
      ends == UNION {ValueEnds(s, j) : j \in from}
  IN  {e + 1 : e \in {x \in ends : At(s, x, close)}}
        \cup UNION {ListEnds(s, e + 1, keyed, close) : e \in {x \in ends : At(s, x, ",")}}
ValueEnds(s, i) ==
  IF i \notin DOMAIN s THEN {}
  ELSE CASE s[i].t \in {"str", "atom"} -> {i + 1}
         [] s[i].t = "{" -> IF At(s, i + 1, "}") THEN {i + 2} ELSE ListEnds(s, i + 1, TRUE, "}")
         [] s[i].t = "[" -> IF At(s, i + 1, "]") THEN {i + 2} ELSE ListEnds(s, i + 1, FALSE, "]")
         [] OTHER -> {}

WellFormedObject(s) == At(s, 1, "{") /\ Len(s) + 1 \in ValueEnds(s, 1)


\* Every value an object has for a key, the overruled ones too.
AllUnder(docs, key) ==
  UNION {{d.fields[i][2] : i \in {i \in DOMAIN d.fields : d.fields[i][1] = key}} :
           d \in Objects(docs)}

\* The first MaxParts objects of an array.
KeptObjects(elems) ==
  LET objects == SelectSeq(elems, IsObject)
  IN  SubSeq(objects, 1, IF Len(objects) < MaxParts THEN Len(objects) ELSE MaxParts)

\* The values of the fields that are kept whole.
SmallValues(doc) ==
  LET payloads == AllUnder({doc}, "payload")
      parts == UNION {ToSet(KeptObjects(a.elems)) :
                        a \in {a \in AllUnder(payloads, "content") : a.t = "["}}
  IN  AllUnder({doc}, "type") \cup AllUnder(parts, "type")
        \cup UNION {AllUnder(payloads, k) : k \in PayloadFields \ {"last_agent_message"}}
        \cup UNION {AllUnder(AllUnder(payloads, k), "turn_id") : k \in {"metadata", "internal"}}

Depth(tokens, i) ==
  LET upto == SubSeq(tokens, 1, i)
      number(marks) == Len(SelectSeq(upto, LAMBDA x : x.t \in marks))
  IN  number({"{", "["}) - number({"}", "]"})

\* The limits of the parser: nesting, the length of keys and atoms, and that of small fields.
TokensFit(tokens) ==
  \A i \in DOMAIN tokens :
    /\ Depth(tokens, i) <= MaxDepth
    /\ tokens[i].big => tokens[i].t = "str" /\ ~At(tokens, i + 1, ":")

Fits(doc) ==
  TokensFit(Written(doc)) /\ \A d \in SmallValues(doc) : d.t = "str" => ~d.big

\* The parts a streamed message has: the objects of the array as far as MaxParts go.
\* Where the array is empty, has other elements or has more parts, this is not what the
\* parsed message has: it is refused, read without them, or read without the rest.
StreamedParts(doc) ==
  LET arrays == {a \in Under(Under({doc}, "payload"), "content") : a.t = "["}
  IN  {PartsOf(KeptObjects(a.elems)) :
         a \in {a \in arrays : \E i \in DOMAIN a.elems : IsObject(a.elems[i])}}

\* A line that is streamed is accepted exactly when it is a JSON object within the
\* parser's limits, and the observer finds in it what it would have found in the parsed
\* line: the last of repeated keys, no field of another object, every text with its part.
\* The one exception is the content of a message, of which the streamed line has the
\* objects among the first MaxParts, and none at all when there is no object
\* (rollout_observer.rs StreamingRecordParser, into_value; apply_rollout_value).
StreamedLikeSerde ==
  line # NoLine =>
    IF line.kind = "tokens"
    THEN (Streamed(line.tokens) # {}) = (WellFormedObject(line.tokens) /\ TokensFit(line.tokens))
    ELSE /\ (Streamed(Written(line.doc)) # {}) = Fits(line.doc)
         /\ \A v \in Streamed(Written(line.doc)) :
              Reads(v) = [Reads(line.doc) EXCEPT !.content = StreamedParts(line.doc)]
=============================================================================
