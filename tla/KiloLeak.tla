----------------------------- MODULE KiloLeak -----------------------------
(* The message_end handler of kilo.ts: a model that writes its tool calls as  *)
(* XML text has its message rewritten, into tool calls where the text parses, *)
(* twice in a row at most.  A text is a sequence of tags and words; a tag of  *)
(* the kind "call" is one that only gives the leak away.                      *)
EXTENDS Integers, SequencesExt

CONSTANTS Answers,          \* the texts that the model may answer with
          MaxLeakRetries    \* MAX_XML_LEAK_RETRIES

VARIABLES retries,      \* xmlLeakRetryCount
          text,         \* of the last message
          result,       \* "kept", or the rewritten message
          row           \* rewritten messages of Kilo since one was kept
vars == <<retries, text, result, row>>

CloseOf == [tool |-> "/tool", name |-> "/name", p |-> "/p", q |-> "/q"]
Close == {CloseOf[tag] : tag \in DOMAIN CloseOf}
Tag == DOMAIN CloseOf \cup Close

Kept == [calls |-> <<>>, text |-> <<>>, as |-> "kept"]
Init == retries = 0 /\ text = <<>> /\ result = Kept /\ row = 0

----------------------------------------------------------------------------
Leaks(t) == \E i \in DOMAIN t : t[i] \in {"tool", "call"}

(* the first place from "from" on that holds one of S, or 0 *)
FirstOf(t, S, from) ==
  IF \E i \in from..Len(t) : t[i] \in S
  THEN CHOOSE i \in from..Len(t) : t[i] \in S /\ \A j \in from..(i - 1) : t[j] \notin S
  ELSE 0

(* the first opening tag, and the first closing one after it *)
FindTag(t, tag, from) ==
  LET open == FirstOf(t, {tag}, from)
      close == IF open = 0 THEN 0 ELSE FirstOf(t, {CloseOf[tag]}, open + 1)
  IN [found |-> close # 0, start |-> open, next |-> close + 1,
      content |-> SubSeq(t, open + 1, close - 1)]

(* a later parameter of the same name wins; an unclosed one ends the search *)
Params(t, from) ==
  LET After[i \in 1..(Len(t) + 1)] ==
        LET open == FirstOf(t, Tag, i)
            close == IF open = 0 \/ t[open] \in Close THEN 0
                     ELSE FirstOf(t, {CloseOf[t[open]]}, open + 1)
        IN CASE open # 0 /\ t[open] \in Close -> After[open + 1]
             [] close # 0 -> LET later == After[close + 1]
                             IN [tag \in DOMAIN later \cup {t[open]} |->
                                   IF tag \in DOMAIN later THEN later[tag]
                                                           ELSE SubSeq(t, open + 1, close - 1)]
             [] OTHER -> <<>>
  IN After[from]

(* bug: a block after one that has no name is not looked at *)
SkipsToEnd(t, block) == Len(t) + 1
(* the search goes on after the block, named or not *)
AfterNameless(t, block) == block.next

ParseFrom(t, from) ==
  LET Calls[i \in 1..(Len(t) + 1)] ==
        LET block == FindTag(t, "tool", i)
            name == FindTag(block.content, "name", 1)
        IN IF ~block.found THEN <<>>
           ELSE IF ~name.found \/ name.content = <<>> THEN Calls[AfterNameless(t, block)]
           ELSE <<[name |-> name.content, args |-> Params(block.content, name.next)]>>
                  \o Calls[block.next]
  IN Calls[from]

(* the text without its blocks, those without a name too *)
Stripped(t) ==
  LET Rest[i \in 1..(Len(t) + 1)] ==
        LET block == FindTag(t, "tool", i)
        IN IF block.found THEN SubSeq(t, i, block.start - 1) \o Rest[block.next]
                          ELSE SubSeq(t, i, Len(t))
  IN Rest[1]

----------------------------------------------------------------------------
(* bug: one more is rewritten *)
MayRewriteOnce(n) == n <= MaxLeakRetries
MayRewrite(n) == n < MaxLeakRetries

Rewritten(t) ==
  LET calls == ParseFrom(t, 1)
  IN IF calls # <<>> THEN [calls |-> calls, text |-> Stripped(t), as |-> "calls"]
                     ELSE [calls |-> <<>>, text |-> t, as |-> "correction"]

(* the end of a message of Kilo's *)
MessageEnd ==
  /\ text' \in Answers
  /\ IF Leaks(text') /\ MayRewrite(retries)
     THEN retries' = retries + 1 /\ result' = Rewritten(text') /\ row' = row + 1
     ELSE retries' = 0 /\ result' = Kept /\ row' = 0

(* a message of another provider, of the user or of a tool is not looked at *)
OtherMessage == text' \in Answers /\ result' = Kept /\ UNCHANGED <<retries, row>>

Next == MessageEnd \/ OtherMessage
Spec == Init /\ [][Next]_vars

----------------------------------------------------------------------------
(* the reference: a block with a name, and the blocks, all and those with a   *)
(* name, as one pass over the text finds them                                 *)
Named(block) == \E i, j \in DOMAIN block :
                  /\ block[i] = "name" /\ block[j] = "/name" /\ i + 1 < j
                  /\ \A n \in 1..(j - 1) : block[n] = "/name" => n < i
                  /\ \A n \in 1..(i - 1) : block[n] # "name"
Nothing == [in |-> FALSE, body |-> <<>>, all |-> <<>>, named |-> <<>>]
Take(s, x) ==
  CASE ~s.in /\ x = "tool" -> [s EXCEPT !.in = TRUE, !.body = <<>>]
    [] s.in /\ x = "/tool" ->
         [s EXCEPT !.in = FALSE, !.all = Append(@, s.body),
                   !.named = IF Named(s.body) THEN Append(@, s.body) ELSE @]
    [] s.in /\ x # "/tool" -> [s EXCEPT !.body = Append(@, x)]
    [] OTHER -> s
Blocks(t) == FoldLeft(Take, Nothing, t)

(* A leak that goes on is rewritten MaxLeakRetries times in a row and then    *)
(* shown as it is.                                                            *)
RewritesBounded == retries \in 0..MaxLeakRetries /\ row <= MaxLeakRetries

(* A rewritten message holds a call for every block that has a name, in       *)
(* order, with arguments that stood in this block between their tags, and no  *)
(* block of the text is left to be found again.                               *)
RewrittenSound ==
  result.as # "kept" =>
    LET named == Blocks(text).named
        calls == result.calls
    IN /\ Len(calls) = Len(named)
       /\ \A n \in DOMAIN calls :
            /\ \E i \in DOMAIN named[n] :
                 IsPrefix(<<"name">> \o calls[n].name \o <<"/name">>,
                          SubSeq(named[n], i, Len(named[n])))
            /\ \A tag \in DOMAIN calls[n].args : \E i \in DOMAIN named[n] :
                 IsPrefix(<<tag>> \o calls[n].args[tag] \o <<CloseOf[tag]>>,
                          SubSeq(named[n], i, Len(named[n])))
       /\ calls # <<>> => Blocks(result.text).all = <<>>

LeakSafe == RewritesBounded /\ RewrittenSound
============================================================================
