-------------------------- MODULE MCRolloutObserver --------------------------
(* Small instances of RolloutObserver: a line longer than MaxLine is streamed, a turn     *)
(* longer than Budget is verified over several polls.  Apart from that, the parser is     *)
(* given every token sequence of at most six tokens and objects with repeated, nested,    *)
(* empty and over-long fields, and the filters short texts of mixed widths: each is a     *)
(* state of its own.                                                                      *)
EXTENDS RolloutObserver, RecordParser, TextFilter

CONSTANTS t1, t2

Rec(kind, turn, item, arg, size) ==
  [kind |-> kind, turn |-> turn, item |-> item, arg |-> arg, size |-> size]
Meta == Rec("meta", NoTurn, "none", "none", 1)
Start(t) == Rec("start", t, "none", "none", 1)
Done(t, size) == Rec("done", t, "none", "none", size)

Item(t, item, arg, size) == Rec("item", t, item, arg, size)

Large(t) == Rec("done", t, "none", "large", 1)
Failed(t) == Rec("fail", t, "none", "none", 1)
Garbled == Rec("bad", NoTurn, "none", "none", 1)

\* Two turns, the first with a streamed line; the other way round, and one too large.
TurnScript ==
  { <<Meta, Start(t1), Done(t1, 2), Start(t2), Done(t2, 1)>>,
    <<Meta, Start(t2), Done(t2, 1), Start(t1), Large(t1)>> }

\* A turn with tools; a failed turn, a turn with a message, a line that does not parse.
PackScript ==
  { <<Meta, Start(t1), Item(t1, "call", "a", 1), Item(t1, "call", "b", 1),
      Item(t1, "output", "a", 1), Done(t1, 2)>>,
    <<Meta, Start(t1), Failed(t1), Start(t2), Item(NoTurn, "message", "user", 1),
      Done(t2, 1), Garbled>> }

MCScript == TurnScript \cup PackScript

LongAtom == Token("atom", "none", TRUE)
Tokens == {Mark("{"), Mark("}"), Mark("["), Mark("]"), Mark(":"), Mark(","), Str("type"), LongAtom}
TokenLines == {<<Mark("{")>> \o s : s \in UNION {[1..n -> Tokens] : n \in 0..5}}

Atom == Leaf(Mark("atom"))
Text(v) == Leaf(Str(v))
Long(v) == Leaf(Token("str", v, TRUE))
TurnId(v) == <<"turn_id", Text(v)>>
Part(k, v) == Obj(<<<<k, v>>>>)
LimitFields ==
  { <<"other", LongAtom>>, <<"name", Long("i")>>, <<"other", Long("j")>>, <<"long", Atom>>,
    <<"last_agent_message", Long("k")>>, <<"metadata", Obj(<<<<"turn_id", Long("l")>>>>)>>,
    <<"other", Arr(<<Arr(<<Arr(<< >>)>>)>>)>>, <<"other", Arr(<<Arr(<<Arr(<<Arr(<< >>)>>)>>)>>)>>,
    <<"content", Arr(<<Part("text", Long("m")), Part("type", Text("n")), Part("type", Long("o"))>>)>>,
    <<"content", Arr(<<Part("type", Long("p"))>>)>> }
Fields ==
  { <<"type", Text("a")>>, TurnId("b"), <<"turn_id", Atom>>,
    <<"metadata", Obj(<<TurnId("c")>>)>>, <<"metadata", Atom>>,
    <<"internal", Obj(<<TurnId("d"), <<"turn_id", Atom>>>>)>>,
    <<"content", Arr(<<Obj(<<<<"type", Text("e")>>, <<"text", Text("f")>>>>),
                       Obj(<<<<"text", Text("g")>>>>)>>)>>,
    <<"content", Atom>>, <<"content", Arr(<< >>)>>, <<"content", Arr(<<Atom, Arr(<<Obj(<< >>)>>)>>)>>,
    <<"content", Arr(<<Atom, Part("text", Text("q"))>>)>>, <<"other", Obj(<<TurnId("h")>>)>> }
Payloads == {Obj(s) : s \in UNION {[1..n -> Fields] : n \in 0..2}}
            \cup {Obj(<<f, g>>) : f \in LimitFields, g \in Fields}
Documents ==
  {Obj(<<<<"type", t>>, <<"payload", p>>>>) : t \in {Text("r"), Atom}, p \in Payloads}
  \cup {Obj(<<<<"payload", p>>, <<"payload", q>>>>) :
          p \in Payloads, q \in {Atom, Obj(<< >>), Obj(<<<<"type", Text("a")>>>>)}}
  \cup {Obj(<<<<"payload", Arr(<<p>>)>>, <<"type", Text("r")>>>>) : p \in Payloads}

Bytes == {"ascii", "n", "u", "bmp", "high", "low", "slash", "quote", "ctl", "lead2", "lead3", "cont"}
ScalarPairs == {s[1].bytes \o s[2].bytes : s \in [1..2 -> Scalars]}
Dropped(s, i) == SubSeq(s, 1, i - 1) \o SubSeq(s, i + 1, Len(s))
Strings3 == UNION {[1..n -> Bytes] : n \in 0..3} \cup ScalarPairs
            \cup UNION {{Dropped(s, i) : i \in DOMAIN s} : s \in ScalarPairs}
Texts == UNION {{[i \in 1..n |-> [w |-> ws[i], id |-> i]] : ws \in [1..n -> 1..3]} : n \in 0..6}

ReadLine ==
  \/ \E s \in TokenLines : line' = [kind |-> "tokens", tokens |-> s]
  \/ \E d \in Documents : line' = [kind |-> "document", doc |-> d]
ReadText ==
  \/ \E s \in Strings3 : text' = [kind |-> "bytes", is |-> s]
  \/ \E s \in Texts : text' = [kind |-> "chars", is |-> s]

\* Lines and texts are read in place of a rollout.  A script is changed for another of its
\* set; restarts and rebindings are for the scripts of two turns.
MCInit == Init /\ line = NoLine /\ text = NoText
Reading == disk[path] # << >> \/ path # 1
MCNext ==
  \/ /\ line = NoLine /\ text = NoText /\ Next /\ UNCHANGED <<line, text>>
     /\ script \in PackScript => script' \in PackScript /\ Interrupts' = 0
     /\ script \in TurnScript => script' \in TurnScript
  \/ /\ ~Reading /\ version = 0 /\ Interrupts = 0 /\ line = NoLine /\ text = NoText
     /\ script = CHOOSE s \in Script : TRUE
     /\ \/ ReadLine /\ UNCHANGED <<vars, text>>
        \/ ReadText /\ UNCHANGED <<vars, line>>
MCSpec == MCInit /\ [][MCNext]_<<vars, line, text>> /\ WF_vars(Observer)
=============================================================================
