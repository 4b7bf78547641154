----------------------------- MODULE TextFilter -----------------------------
(***************************************************************************)
(* What happens to a text on its way from a rollout line into a turn pack:  *)
(* the JSON string is decoded and its middle is left out when it is long    *)
(* (JsonString, BoundedCapture, compact_text and compact_messages of        *)
(* rollout_observer.rs).  A streamed text is shortened as it is captured,   *)
(* and again by push_message; a parsed one only there.  The redaction that  *)
(* push_message does before its own shortening, a set of patterns, is not   *)
(* modelled.                                                                *)
(*                                                                         *)
(* Data.  A JSON string is a sequence of byte classes; the four hex digits  *)
(* of an escape are one of them.  A character is [w, id] with its width in  *)
(* bytes.                                                                   *)
(***************************************************************************)
EXTENDS Naturals, Sequences

LOCAL INSTANCE SequencesExt

CONSTANTS MaxText,     \* MAX_TEXT_BYTES
          MarkerLen,   \* length of "\n[truncated]\n"
          MaxRole,     \* MAX_TEXT_BYTES_PER_ROLE
          NoText       \* nothing was read

VARIABLE text          \* what was read: the bytes of a string, or its characters

ASSUME TextConstants == MarkerLen \in Nat /\ MaxText > MarkerLen /\ MaxRole >= MaxText

-----------------------------------------------------------------------------
(* JsonString: the bytes between two quotes.                               *)

NewString == [esc |-> "none", high |-> FALSE, raw |-> << >>, out |-> << >>,
              done |-> FALSE, bad |-> FALSE]

Bad(s) == [s EXCEPT !.bad = TRUE]
Leads == [lead2 |-> 2, lead3 |-> 3, lead4 |-> 4]

\* feed_raw_utf8: a scalar is pushed whole.
FeedRaw(s, b) ==
  IF s.raw = << >>
  THEN IF b \in DOMAIN Leads THEN [s EXCEPT !.raw = <<b>>]
       ELSE IF b = "cont" THEN Bad(s)
       ELSE [s EXCEPT !.out = Append(@, <<b>>)]
  ELSE IF b # "cont" THEN Bad(s)
  ELSE LET raw == Append(s.raw, b)
       IN  IF Len(raw) = Leads[raw[1]]
           THEN [s EXCEPT !.out = Append(@, raw), !.raw = << >>]
           ELSE [s EXCEPT !.raw = raw]

\* The four digits of an escape: a high surrogate waits for its low one.
FeedDigits(s, b) ==
  CASE s.high -> IF b = "low" THEN [s EXCEPT !.esc = "none", !.high = FALSE,
                                             !.out = Append(@, <<"high", "low">>)]
                 ELSE Bad(s)
    [] ~s.high /\ b = "high" -> [s EXCEPT !.esc = "lowslash"]
    [] ~s.high /\ b = "bmp" -> [s EXCEPT !.esc = "none", !.out = Append(@, <<b>>)]
    [] OTHER -> Bad(s)

\* feed
FeedString(s, b) ==
  IF s.bad THEN s ELSE IF s.done THEN Bad(s)
  ELSE CASE s.esc = "none" ->
              IF b = "quote" /\ s.raw = << >> THEN [s EXCEPT !.done = TRUE]
              ELSE IF b = "slash" /\ s.raw = << >> THEN [s EXCEPT !.esc = "escaped"]
              ELSE IF b = "ctl" THEN Bad(s) ELSE FeedRaw(s, b)
         [] s.esc = "escaped" ->
              IF b = "u" THEN [s EXCEPT !.esc = "unicode"]
              ELSE IF b \in {"quote", "slash", "n"}
              THEN [s EXCEPT !.esc = "none", !.out = Append(@, <<"slash", b>>)]
              ELSE Bad(s)
         [] s.esc = "unicode" -> FeedDigits(s, b)
         [] s.esc = "lowslash" -> IF b = "slash" THEN [s EXCEPT !.esc = "lowu"] ELSE Bad(s)
         [] s.esc = "lowu" -> IF b = "u" THEN [s EXCEPT !.esc = "unicode", !.high = TRUE]
                              ELSE Bad(s)

\* The values a closed string has: one, or none when it is refused.
Decoded(bytes) ==
  LET s == FoldLeft(FeedString, NewString, Append(bytes, "quote"))
  IN  IF s.bad \/ ~s.done THEN {} ELSE {s.out}

\* The same by the grammar: the bytes of each character next to one another.
Scalars ==
  {[bytes |-> <<b>>, value |-> <<b>>] : b \in {"ascii", "n", "u", "bmp", "high", "low"}} \cup
  {[bytes |-> v, value |-> v] : v \in {<<"slash", "n">>, <<"slash", "quote">>,
     <<"slash", "slash">>, <<"lead2", "cont">>, <<"lead3", "cont", "cont">>}} \cup
  { [bytes |-> <<"slash", "u", "bmp">>, value |-> <<"bmp">>],
    [bytes |-> <<"slash", "u", "high", "slash", "u", "low">>, value |-> <<"high", "low">>] }

RECURSIVE Decodings(_)
Decodings(bytes) ==
  IF bytes = << >> THEN {<< >>}
  ELSE UNION {{<<c.value>> \o rest :
                 rest \in Decodings(SubSeq(bytes, Len(c.bytes) + 1, Len(bytes)))} :
                c \in {c \in Scalars : IsPrefix(c.bytes, bytes)}}

-----------------------------------------------------------------------------
(* Shortening.                                                             *)

Width(chars) == FoldLeft(LAMBDA n, c : n + c.w, 0, chars)
MarkerChar == [w |-> MarkerLen, id |-> 0]
HeadLimit(max) == (max - MarkerLen) \div 3
TailLimit(max) == max - MarkerLen - HeadLimit(max)

\* The longest prefix, and suffix, of at most n bytes (utf8_floor, utf8_ceil).
Prefix(chars, n) ==
  LET fits == {i \in 0..Len(chars) : Width(SubSeq(chars, 1, i)) <= n}
  IN  SubSeq(chars, 1, CHOOSE i \in fits : \A j \in fits : j <= i)
Suffix(chars, n) ==
  LET fits == {i \in 1..(Len(chars) + 1) : Width(SubSeq(chars, i, Len(chars))) <= n}
  IN  SubSeq(chars, CHOOSE i \in fits : \A j \in fits : i <= j, Len(chars))

\* compact_text.  Only a part of the marker is left when the bytes do not hold it.
CompactText(chars, max) ==
  IF Width(chars) <= max THEN chars
  ELSE IF max <= MarkerLen THEN <<[w |-> max, id |-> 0]>>
  ELSE Prefix(chars, HeadLimit(max)) \o <<MarkerChar>> \o Suffix(chars, TailLimit(max))

\* compact_messages: the newest messages first, until the role's bytes are spent.
CompactMessages(messages, count) ==
  LET step(acc, m) ==
        IF acc.left = 0 THEN acc
        ELSE LET max == IF acc.left < MaxText THEN acc.left ELSE MaxText
                 chars == CompactText(m, max)
             IN  [left |-> acc.left - Width(chars), kept |-> <<chars>> \o acc.kept]
      newest == IF Len(messages) <= count THEN messages
                ELSE SubSeq(messages, Len(messages) - count + 1, Len(messages))
  IN  FoldLeft(step, [left |-> MaxRole, kept |-> << >>], Reverse(newest)).kept

\* Mutant of TailAfter: the tail may exceed its limit by the character that comes in.
TailAfterLate(tail, c) ==
  IF Width(tail) > TailLimit(MaxText) THEN Append(Tail(tail), c) ELSE Append(tail, c)

TailAfter(tail, c) == Suffix(Append(tail, c), TailLimit(MaxText))

\* BoundedCapture::push and finish of a text.
CapturePush(s, c) ==
  IF Width(s.head) + c.w <= HeadLimit(MaxText)
  THEN [s EXCEPT !.total = @ + c.w, !.head = Append(@, c)]
  ELSE [s EXCEPT !.total = @ + c.w, !.tail = TailAfter(@, c)]

Captured(chars) ==
  LET s == FoldLeft(CapturePush, [head |-> << >>, tail |-> << >>, total |-> 0], chars)
      retained == Width(s.head) + Width(s.tail)
  IN  s.head \o (IF s.total > retained THEN <<MarkerChar>> ELSE << >>) \o s.tail

\* `out` is the text, or its beginning and its end with the marker between them; it fits,
\* and a character of either side would not have fitted.
KeepsEnds(chars, out) ==
  /\ Width(out) <= MaxText
  /\ \/ out = chars
     \/ \E i \in 0..Len(chars), j \in 1..(Len(chars) + 1) :
          /\ i < j - 1
          /\ out = SubSeq(chars, 1, i) \o <<MarkerChar>> \o SubSeq(chars, j, Len(chars))
          /\ Width(SubSeq(chars, 1, i + 1)) > HeadLimit(MaxText)
          /\ Width(SubSeq(chars, j - 1, Len(chars))) > TailLimit(MaxText)

\* The same of a captured text, whose characters are pushed one by one: after the first
\* character that is too wide for the head, narrower ones may still go into the head, and
\* so before it, as long as they are narrower together.  One width: none does.
KeepsMoved(chars, out) ==
  LET head == Prefix(chars, HeadLimit(MaxText))
      rest == SubSeq(chars, Len(head) + 1, Len(chars))
      at(places) == LET index == SelectSeq([i \in DOMAIN rest |-> i], LAMBDA i : i \in places)
                    IN  [n \in DOMAIN index |-> rest[index[n]]]
  IN  /\ Width(out) <= MaxText
      /\ \E moved \in SUBSET (DOMAIN rest \ {1}) :
           LET stays == at(DOMAIN rest \ moved)
               tail == Suffix(stays, TailLimit(MaxText))
           IN  /\ moved # {} => Width(at(moved)) < rest[1].w
               /\ out = head \o at(moved) \o (IF tail = stays THEN << >> ELSE <<MarkerChar>>) \o tail

\* push_message of a streamed text: what the capture kept is shortened once more.
StreamedText(chars) == CompactText(Captured(chars), MaxText)

\* What is stored of a text: every character of a JSON string as it was written, the
\* beginning and the end of a long text with the marker between them, and never more bytes
\* than a text or a role may have.  In a text that was captured from a streamed line, a few
\* narrow characters may stand before the wide one they followed, fewer bytes than that one
\* has (rollout_observer.rs JsonString, BoundedCapture, compact_text, compact_messages).
TextsKept ==
  text # NoText =>
    CASE text.kind = "bytes" -> Decoded(text.is) = Decodings(text.is)
      [] text.kind = "chars" ->
           LET kept == CompactMessages(<<text.is, text.is, text.is>>, 2)
           IN  /\ KeepsEnds(text.is, CompactText(text.is, MaxText))
               /\ KeepsMoved(text.is, StreamedText(text.is))
               /\ Width(FlattenSeq(kept)) <= MaxRole /\ Len(kept) \in 1..2

\* A text that fits is handed on as it was written, however its line was read: the parsed
\* line shortens nothing, and neither should the streamed one (rollout_observer.rs
\* BoundedCapture::push; the tests compare a streamed text with the text that was written).
FittingTextUnchanged ==
  text # NoText =>
    (text.kind = "chars" /\ Width(text.is) <= HeadLimit(MaxText) + TailLimit(MaxText)
       => StreamedText(text.is) = text.is)
=============================================================================
