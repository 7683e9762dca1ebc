--------------------------- MODULE TokenRouterWire ---------------------------
(* What pi-free rewrites on the way to TokenRouter and back: the request      *)
(* normalizer and the extraction of inline thinking of                        *)
(* providers/tokenrouter/tokenrouter.ts.  Pure: no state.                     *)
EXTENDS Naturals, Sequences, SequencesExt, FiniteSetsExt

----------------------------------------------------------------------------
(* requests *)

Effort == {"absent", "low", "Low", "medium", "xhigh", "minimal", "High", "none", "object"}
Lower(e) == CASE e = "Low" -> "low" [] e = "High" -> "high" [] OTHER -> e

VALID_REASONING_EFFORTS == {"low", "medium", "xhigh"}
REASONING_EFFORT_ALIASES == [minimal |-> "low", high |-> "xhigh"]

Role == {"developer", "system", "user"}
Messages == {<<>>} \cup {<<a>> : a \in Role} \cup {<<a, b>> : a, b \in Role}

(* minimax: some model named in the payload, at any depth, is a MiniMax       *)
Payload == [split : BOOLEAN, messages : Messages, minimax : BOOLEAN,
            thinking : {"none", "enabled", "adaptive"}, effort : Effort]

ContainsTokenRouterMinimaxModel(p) == p.minimax

SanitizeReasoningEffort(e) ==
  CASE Lower(e) \in VALID_REASONING_EFFORTS -> Lower(e)
    [] Lower(e) \in DOMAIN REASONING_EFFORT_ALIASES -> REASONING_EFFORT_ALIASES[Lower(e)]
    [] OTHER -> "absent"

NormalizeObject(p, force) ==
  [p EXCEPT !.split = TRUE,
            !.messages = [i \in DOMAIN @ |-> IF @[i] = "developer" THEN "system" ELSE @[i]],
            !.thinking = IF (force \/ ContainsTokenRouterMinimaxModel(p)) /\ @ = "enabled"
                         THEN "adaptive" ELSE @,
            !.effort = SanitizeReasoningEffort(@)]

(* A payload may be the object, its JSON text, text that is no JSON, or       *)
(* something else; the last two are left alone.                               *)
NormalizeTokenRouterRequestPayload(form, p, force) ==
  IF form \in {"object", "text"} THEN NormalizeObject(p, force) ELSE p

(* Whatever Pi sends, the gateway gets a request it accepts: no developer     *)
(* role, an effort from its list or none, and for MiniMax no plain thinking;  *)
(* a request normalized once is left as it is.                                *)
RequestsAccepted ==
  \A p \in Payload, force \in BOOLEAN, form \in {"object", "text"} :
    LET n == NormalizeTokenRouterRequestPayload(form, p, force)
    IN  /\ "developer" \notin {n.messages[i] : i \in DOMAIN n.messages}
        /\ n.effort \in {"absent"} \cup VALID_REASONING_EFFORTS
        /\ (force \/ p.minimax) => n.thinking # "enabled"
        /\ NormalizeTokenRouterRequestPayload(form, n, force) = n

----------------------------------------------------------------------------
(* replies *)

(* A text is a sequence of words, of tags ("<" and ">") and of the bare words *)
(* " thinking" and " response" the gateway may leave of them.                 *)
Token == {"word", "<", ">", "thinking", "response"}

(* before token i: the opener of the block it is in, or 0 *)
Inside(text, open, close) ==
  LET opener[i \in 0..Len(text)] ==
        IF i = 0 THEN 0
        ELSE CASE opener[i - 1] = 0 /\ text[i] = open -> i
               [] opener[i - 1] # 0 /\ text[i] = close -> 0
               [] OTHER -> opener[i - 1]
  IN  [i \in 1..Len(text) |-> opener[i - 1]]

Part(text, places) == [k \in 1..Len(places) |-> text[places[k]]]

(* An unclosed block takes the rest of the text.  Thinking of several blocks  *)
(* is joined, so that two empty ones are not nothing.                         *)
ExtractTaggedBlocks(text, open, close) ==
  LET in == Inside(text, open, close)
      out(i) == in[i] = 0 /\ text[i] # open
      thought(i) == in[i] # 0 /\ text[i] # close
      at(P(_)) == SetToSortSeq({i \in DOMAIN text : P(i)}, <)
  IN  [text |-> Part(text, at(out)), thinking |-> Part(text, at(thought)),
       found |-> \/ \E i \in DOMAIN text : thought(i)
                 \/ Cardinality({i \in DOMAIN text : in[i] = 0 /\ text[i] = open}) > 1]

ExtractThinkBlocks(text) ==
  LET tagged == ExtractTaggedBlocks(text, "<", ">")
  IN  IF tagged.found THEN tagged ELSE ExtractTaggedBlocks(text, "thinking", "response")

(* bug: thinking is put where its text block was *)
NormalizeAssistantMessageInPlace(content) ==
  LET done(b) ==
        IF b.type # "text" THEN <<b>>
        ELSE LET e == ExtractThinkBlocks(b.text)
             IN  (IF e.thinking = <<>> THEN <<>>
                  ELSE <<[type |-> "thinking", text |-> e.thinking]>>)
                 \o (IF e.text = <<>> THEN <<>> ELSE <<[type |-> "text", text |-> e.text]>>)
  IN  FlattenSeq([i \in DOMAIN content |-> done(content[i])])

(* Thinking of all text blocks becomes one block, the last; a text block that *)
(* was only thinking goes.                                                    *)
NormalizeAssistantMessage(content) ==
  LET isText(b) == b.type = "text"
      found == [i \in DOMAIN content |->
                  IF isText(content[i]) THEN ExtractThinkBlocks(content[i].text) ELSE <<>>]
      kept(i) == IF ~isText(content[i]) THEN <<content[i]>>
                 ELSE IF found[i].text = <<>> THEN <<>>
                 ELSE <<[type |-> "text", text |-> found[i].text]>>
      thought(i) == IF isText(content[i]) THEN found[i].thinking ELSE <<>>
      thinking == FlattenSeq([i \in DOMAIN content |-> thought(i)])
  IN  FlattenSeq([i \in DOMAIN content |-> kept(i)])
      \o (IF thinking = <<>> THEN <<>> ELSE <<[type |-> "thinking", text |-> thinking]>>)

Texts == UNION {[1..n -> Token] : n \in 1..3}
Call == [type |-> "call", text |-> <<>>]
Contents == {<<[type |-> "text", text |-> t]>> : t \in Texts}
            \cup {<<[type |-> "text", text |-> t], Call,
                    [type |-> "text", text |-> <<"word", u>>]>> : t \in Texts, u \in Token}

Words(content) ==
  LET count(b) == Cardinality({i \in DOMAIN b.text : b.text[i] = "word"})
  IN  MapThenSumSet(LAMBDA i : count(content[i]), DOMAIN content)

(* Taking thinking out of a reply loses no word of it and doubles none; calls *)
(* stay, in their order; there is at most one thinking block, and it is last; *)
(* and a reply with thinking in tags shows no opening tag.                    *)
RepliesKept ==
  \A content \in Contents :
    LET n == NormalizeAssistantMessage(content)
        kinds(c) == {i \in DOMAIN c : c[i].type = "thinking"}
    IN  /\ Words(n) = Words(content)
        /\ SelectSeq(n, LAMBDA b : b.type = "call")
             = SelectSeq(content, LAMBDA b : b.type = "call")
        /\ kinds(n) \subseteq {Len(n)}
        /\ \A i \in DOMAIN content :
             content[i].type = "text" /\ ExtractTaggedBlocks(content[i].text, "<", ">").found =>
               "<" \notin ToSet(ExtractThinkBlocks(content[i].text).text)
=============================================================================
