---------------------------- MODULE QoderStream ----------------------------
(* streamQoder of providers/qoder/stream.ts with the ThinkingTagParser: the   *)
(* lines of a server-sent stream become the blocks of one message.  The text  *)
(* of the answer is known from the start and arrives in pieces of any size,   *)
(* mixed with native reasoning, tool calls and an end that may come anywhere. *)
(* A delta with several fields is its reasoning, its text and its tool calls, *)
(* in this order.  A character is a model value; tags have three.             *)
EXTENDS Integers, SequencesExt

CONSTANTS Answers,      \* the texts that the model may answer with
          MaxPiece,     \* the longest piece of text in a delta
          Tool,         \* indices of tool calls, naturals
          MaxOther      \* deltas that are not text

VARIABLES pc,           \* "setup", "fetch", "read", "over"
          wire,         \* the text still to come
          seen,         \* the text that came
          st,           \* StreamState with the parser
          others,       \* deltas that were not text
          reason,       \* output.stopReason
          last,         \* the terminal event
          mixed         \* text came after a tool call had begun
vars == <<pc, wire, seen, st, others, reason, last, mixed>>

Null == -1
Variants == {[open |-> <<"<", "t", ">">>, close |-> <<"<", "T", ">">>],
             [open |-> <<"<", "r", ">">>, close |-> <<"<", "R", ">">>]}

Block(kind, id) == [kind |-> kind, id |-> id, body |-> <<>>, starts |-> 1, deltas |-> 0,
                    ends |-> 0, args |-> 0]
NoCall == [known |-> FALSE, pieces |-> 0, at |-> Null]
Fresh(thinking) ==
  [content |-> <<>>, plain |-> Null, reasoning |-> Null, calls |-> [i \in Tool |-> NoCall],
   native |-> FALSE, parser |-> thinking, buffer |-> <<>>, inside |-> FALSE,
   think |-> Null, text |-> Null, tag |-> (CHOOSE v \in Variants : v.open[2] = "t").close]

Init ==
  /\ pc = "setup" /\ wire \in Answers /\ seen = <<>> /\ others = 0 /\ reason = "stop"
  /\ last = "none" /\ mixed = FALSE
  /\ \E thinking \in BOOLEAN : st = Fresh(thinking)

----------------------------------------------------------------------------
(* blocks and the events about them, by position in the content, from 1 *)

Started(s, kind, id) == [s EXCEPT !.content = Append(@, Block(kind, id))]
Grown(s, at, t) == [s EXCEPT !.content[at].body = @ \o t, !.content[at].deltas = @ + 1]
Ended(s, at) == [s EXCEPT !.content[at].ends = @ + 1]
Here(s) == Len(s.content) + 1

(* emitText of the parser *)
EmitText(s, t) ==
  CASE t = <<>> -> s
    [] t # <<>> /\ s.text # Null -> Grown(s, s.text, t)
    [] OTHER -> Grown([Started(s, "text", Null) EXCEPT !.text = Here(s)], Here(s), t)

(* emitThinking: a thinking block goes before the text block of the parser *)
EmitThinking(s, t) ==
  CASE t = <<>> -> s
    [] t # <<>> /\ s.think # Null -> Grown(s, s.think, t)
    [] t # <<>> /\ s.think = Null /\ s.text = Null ->
         Grown([Started(s, "thinking", Null) EXCEPT !.think = Here(s)], Here(s), t)
    [] OTHER ->
         Grown([s EXCEPT !.think = s.text, !.text = @ + 1,
                         !.content = InsertAt(@, s.text, Block("thinking", Null))], s.text, t)

----------------------------------------------------------------------------
(* the parser *)

At(t, tag, i) == SubSeq(t, i, i + Len(tag) - 1) = tag
Places(t, tag) == {i \in 1..(Len(t) - Len(tag) + 1) : At(t, tag, i)}
Min0(S) == CHOOSE i \in S : \A j \in S : i <= j
Max0(S) == CHOOSE i \in S : \A j \in S : i >= j
Upto(t, n) == SubSeq(t, 1, n)
From(t, n) == SubSeq(t, n, Len(t))

(* bug: nothing is held back *)
NoneTrailing(t, tags) == 0
(* the longest end of the buffer that may be the beginning of a tag *)
Trailing(t, tags) ==
  Max0({0} \cup {n \in 1..Len(t) : \E g \in tags : n < Len(g) /\ From(t, Len(t) - n + 1) = Upto(g, n)})

(* what is surely no tag goes out, the rest waits *)
Safe(t, tags) == Len(t) - Trailing(t, tags)

BeforeThinking(s) ==
  LET found == {v \in Variants : Places(s.buffer, v.open) # {}}
      first == CHOOSE v \in found : \A w \in found :
                 Min0(Places(s.buffer, v.open)) <= Min0(Places(s.buffer, w.open))
      pos == Min0(Places(s.buffer, first.open))
      safe == Safe(s.buffer, {v.open : v \in Variants})
  IN IF found # {}
     THEN [EmitText(s, Upto(s.buffer, pos - 1)) EXCEPT
             !.buffer = From(s.buffer, pos + Len(first.open)), !.tag = first.close, !.inside = TRUE]
     ELSE [EmitText(s, Upto(s.buffer, safe)) EXCEPT !.buffer = From(s.buffer, safe + 1)]

WithoutBreak(t) == IF Len(t) >= 2 /\ At(t, <<"n", "n">>, 1) THEN From(t, 3) ELSE t
InsideThinking(s) ==
  LET ends == Places(s.buffer, s.tag)
      pos == Min0(ends)
      before == EmitThinking(s, Upto(s.buffer, pos - 1))
      closed == IF before.think = Null THEN before ELSE Ended(before, before.think)
      safe == Safe(s.buffer, {s.tag})
  IN IF ends # {}
     THEN [closed EXCEPT !.buffer = WithoutBreak(From(s.buffer, pos + Len(s.tag))),
                         !.inside = FALSE, !.think = Null, !.text = Null]
     ELSE [EmitThinking(s, Upto(s.buffer, safe)) EXCEPT !.buffer = From(s.buffer, safe + 1)]

(* one round of the loop of processChunk, and the loop: a round that does not  *)
(* shorten the buffer changes nothing, and the loop ends with it, so there    *)
(* are at most as many as characters                                          *)
Round(s) ==
  LET b == IF s.inside THEN s ELSE BeforeThinking(s)
  IN IF b.inside /\ b.buffer # <<>> THEN InsideThinking(b) ELSE b
Rounds(s) == FoldLeft(LAMBDA r, c : Round(r), s, s.buffer)
ProcessChunk(s, t) == Rounds([s EXCEPT !.buffer = @ \o t])

(* finalize: what was held back is thinking only if a thinking block is open *)
Finalized(s) ==
  LET f == CASE s.buffer = <<>> -> s
             [] s.buffer # <<>> /\ s.inside /\ s.think # Null -> Ended(Grown(s, s.think, s.buffer), s.think)
             [] OTHER -> EmitText(s, s.buffer)
  IN [f EXCEPT !.buffer = <<>>]

----------------------------------------------------------------------------
(* the deltas *)

Reasoned(s, t) ==
  LET n == [s EXCEPT !.native = TRUE]
  IN IF s.reasoning # Null THEN Grown(n, s.reasoning, t)
     ELSE Grown([Started(n, "thinking", Null) EXCEPT !.reasoning = Here(s)], Here(s), t)

ReasoningClosed(s) ==
  IF s.reasoning = Null THEN s ELSE [Ended(s, s.reasoning) EXCEPT !.reasoning = Null]

(* the tags are parsed only as long as no native reasoning came *)
Said(s, t) ==
  LET c == ReasoningClosed(s)
  IN IF c.parser /\ ~c.native THEN ProcessChunk(c, t)
     ELSE IF c.plain # Null THEN Grown(c, c.plain, t)
     ELSE Grown([Started(c, "text", Null) EXCEPT !.plain = Here(c)], Here(c), t)

(* bug: every piece of the arguments opens a block *)
OpensAlways(call) == TRUE
Opens(call) == call.at = Null

(* a tool call gets its block with its first piece of arguments *)
Called(s, i, some) ==
  LET k == [s EXCEPT !.calls[i].known = TRUE]
      b == IF Opens(s.calls[i])
           THEN [Started(k, "toolCall", i) EXCEPT !.calls[i].at = Here(s)] ELSE k
      at == b.calls[i].at
  IN IF ~some THEN k
     ELSE [b EXCEPT !.calls[i].pieces = @ + 1, !.content[at].deltas = @ + 1]

(* finalizeToolCalls writes the arguments and ends the block, by position *)
ToolsEnded(s) ==
  LET done == {i \in Tool : s.calls[i].at # Null}
      At0(i) == s.calls[i].at
  IN [s EXCEPT !.content = [n \in DOMAIN s.content |->
        IF \E i \in done : At0(i) = n
        THEN [s.content[n] EXCEPT !.ends = @ + 1,
                                  !.args = s.calls[CHOOSE i \in done : At0(i) = n].pieces]
        ELSE s.content[n]]]

----------------------------------------------------------------------------
(* runStream *)

(* without a key, or with a request that fails, the stream ends in an error *)
Breaks == /\ pc' = "over" /\ last' = "error"
          /\ reason' \in {"error", "aborted"}
          /\ UNCHANGED <<wire, seen, st, others, mixed>>

Setup == /\ pc = "setup"
         /\ \/ Breaks
            \/ pc' = "fetch" /\ UNCHANGED <<wire, seen, st, others, reason, last, mixed>>
Fetch == /\ pc = "fetch"
         /\ \/ Breaks
            \/ pc' = "read" /\ UNCHANGED <<wire, seen, st, others, reason, last, mixed>>

(* a line of the stream that is complete *)
Text ==
  /\ pc = "read" /\ wire # <<>>
  /\ \E n \in 1..MaxPiece :
       /\ n <= Len(wire) /\ seen' = seen \o Upto(wire, n) /\ wire' = From(wire, n + 1)
       /\ st' = Said(st, Upto(wire, n))
  /\ mixed' = (mixed \/ \E i \in Tool : st.calls[i].at # Null)
  /\ UNCHANGED <<pc, others, reason, last>>

Other ==
  /\ pc = "read" /\ others < MaxOther /\ others' = others + 1
  /\ \/ st' = Reasoned(st, <<"x">>)
     \/ \E i \in Tool, some \in BOOLEAN : st' = Called(st, i, some)
  /\ UNCHANGED <<pc, wire, seen, reason, last, mixed>>

Finish ==
  /\ pc = "read" /\ reason = "stop" /\ reason' \in {"length", "tool_calls"}
  /\ UNCHANGED <<pc, wire, seen, st, others, last, mixed>>

(* an error line, a buffer that grew too long, or a read that fails *)
BreaksOff == pc = "read" /\ Breaks

(* the stream ends, perhaps in the middle: a last line that has no end is not  *)
(* handled; then the parser, the reasoning and the tool calls are finalized   *)
Done ==
  /\ pc = "read" /\ pc' = "over" /\ last' = "done"
  /\ st' = ToolsEnded(ReasoningClosed(IF st.parser THEN Finalized(st) ELSE st))
  /\ reason' = IF \E i \in Tool : st.calls[i].known THEN "toolUse" ELSE reason
  /\ UNCHANGED <<wire, seen, others, mixed>>

Next == Setup \/ Fetch \/ Text \/ Other \/ Finish \/ BreaksOff \/ Done
(* fetch and the reads end, with or without an answer *)
Fairness == WF_vars(Setup) /\ WF_vars(Fetch) /\ WF_vars(Done \/ BreaksOff)
Spec == Init /\ [][Next]_vars /\ Fairness

----------------------------------------------------------------------------
(* the reference: the text is read character by character, as a whole, from   *)
(* outside a thought (<<>>) or from inside one that "tag" ends                *)
Letter == {"a", "n", "<", ">", "t", "T", "r", "R"}
Scan[t \in Seq(Letter)] ==
  [tag \in {<<>>} \cup {v.close : v \in Variants} |->
     LET opened == {v \in Variants : IsPrefix(v.open, t)}
         v0 == CHOOSE v \in opened : TRUE
         rest == Scan[Tail(t)][tag]
     IN CASE t = <<>> -> [text |-> <<>>, thinking |-> <<>>]
          [] t # <<>> /\ tag = <<>> /\ opened # {} -> Scan[From(t, Len(v0.open) + 1)][v0.close]
          [] t # <<>> /\ tag # <<>> /\ IsPrefix(tag, t) -> Scan[From(t, Len(tag) + 1)][<<>>]
          [] t # <<>> /\ tag = <<>> /\ opened = {} -> [rest EXCEPT !.text = <<Head(t)>> \o @]
          [] OTHER -> [rest EXCEPT !.thinking = <<Head(t)>> \o @]]

Bodies(kind) ==
  FlattenSeq([n \in DOMAIN st.content |->
                IF st.content[n].kind = kind THEN st.content[n].body ELSE <<>>])
Words(t) == FlattenSeq([n \in DOMAIN t |-> IF t[n] = "n" THEN <<>> ELSE <<t[n]>>])

(* Types of the stream's state. *)
TypeOK ==
  /\ pc \in {"setup", "fetch", "read", "over"} /\ last \in {"none", "done", "error"}
  /\ reason \in {"stop", "length", "tool_calls", "toolUse", "error", "aborted"}
  /\ \A n \in DOMAIN st.content : st.content[n].kind \in {"text", "thinking", "toolCall"}
  /\ others \in 0..MaxOther /\ mixed \in BOOLEAN

(* The parser's answer does not depend on how the text was cut: what went out *)
(* so far, with what is held back, is the text and the thinking that a reading *)
(* of the whole finds, in order, apart from line breaks; the held back part is *)
(* never a whole tag.                                                         *)
CutDoesNotMatter ==
  pc = "read" /\ st.parser /\ ~st.native =>
    LET ref == Scan[seen][<<>>]
    IN /\ Words(Bodies("text") \o (IF st.inside THEN <<>> ELSE st.buffer)) = Words(ref.text)
       /\ Words(Bodies("thinking") \o (IF st.inside THEN st.buffer ELSE <<>>)) = Words(ref.thinking)

(* Pi is told of every block by its own position: text goes to text blocks,   *)
(* thoughts to thinking blocks; at the end each thought was ended once, save  *)
(* one that the stream broke off in, and each tool call has its own arguments *)
(* and its end, unless text came after the call had begun.                    *)
BlocksSound ==
  /\ \A n \in DOMAIN st.content :
       LET b == st.content[n]
       IN /\ b.ends <= 1 /\ (b.kind = "text" /\ ~mixed => b.ends = 0)
          /\ b.kind = "toolCall" => b.body = <<>>
  /\ last = "done" =>
       /\ Cardinality({n \in DOMAIN st.content :
            st.content[n].kind = "thinking" /\ st.content[n].ends = 0}) <= IF st.inside THEN 1 ELSE 0
       /\ ~mixed => \A n \in DOMAIN st.content :
            LET b == st.content[n]
            IN b.kind = "toolCall" =>
                 b.ends = 1 /\ b.args = st.calls[b.id].pieces /\ b.deltas = b.args

StreamSafe == TypeOK /\ CutDoesNotMatter /\ BlocksSound

(* Every stream that was handed to Pi comes to its terminal event. *)
StreamOver == <>(pc = "over")
============================================================================
