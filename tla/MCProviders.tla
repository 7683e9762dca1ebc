---------------------------- MODULE MCProviders ----------------------------
(* The parts of the providers that keep a state of their own, in one run: a   *)
(* behaviour is one of the callback login of Cline (extended), the polling    *)
(* logins of Kilo and Qoder, the refresh of their tokens, Qoder's stream,     *)
(* Infron's continuation, Kilo's leak handler, one catalog request or the     *)
(* models.dev cache; the others stay as they are.  The part "rules" takes no  *)
(* step: what a catalog becomes is a matter of its rows only.                 *)
EXTENDS ClineLogin, SequencesExt

CONSTANTS ExpiresIn, MaxAttempts, Latency,
          Floor, Margin, Hour, Long, Lives, MaxTime, MaxTokens,
          MaxPiece, Tool, MaxOther,
          Model, MaxRetries, MaxTickets, MaxLeakRetries,
          MaxTries, Reader, MODELS_DEV_RETRIES, MODELS_DEV_CACHE_TTL, MaxAge

ASSUME ProvidersAssumption ==
  /\ {ExpiresIn, MaxAttempts, Latency, Margin, Long, MaxTime, MaxOther, MaxRetries, MaxTickets,
      MaxLeakRetries, MaxAge} \subseteq Nat
  /\ {Floor, Hour, MaxTokens, MODELS_DEV_RETRIES, MODELS_DEV_CACHE_TTL} \subseteq Nat \ {0}
  /\ Lives \subseteq Nat

VARIABLES part, flow, at, now, deadline, wake, attempt, page, reply, polledAt, decidedAt,
          aborted, end,
          kind, time, cred, phase, valid, granted, flaws, result,
          step, wire, seen, st, others, reason, last, mixed,
          cooldown, held, run, origin, runSignal, model, asked, settled, pending, retries,
          tickets, stopped, leaks, text, rewritten, row,
          tries, deadlined, sending, tried, armed, linked, cancelled, lastError, got, caller,
          sent, sentAtAbort,
          age, catalogCache, loads, reads, metadata, builtin
deviceVars == <<flow, at, now, deadline, wake, attempt, page, reply, polledAt, decidedAt,
                aborted, end>>
refreshVars == <<kind, time, cred, phase, valid, granted, flaws, result>>
streamVars == <<step, wire, seen, st, others, reason, last, mixed>>
infronVars == <<cooldown, held, run, origin, runSignal, model, asked, settled, pending, retries,
                tickets, stopped>>
leakVars == <<leaks, text, rewritten, row>>
fetchVars == <<tries, deadlined, sending, tried, armed, linked, cancelled, lastError, got, caller,
               sent, sentAtAbort>>
metadataVars == <<age, catalogCache, loads, reads, metadata, builtin>>
catalogVars == <<fetchVars, metadataVars>>
allVars == <<part, vars, deviceVars, refreshVars, streamVars, infronVars, leakVars, catalogVars>>

(* texts of a stream: words and line breaks around two kinds of thinking tags *)
Thought(tag) == IF tag = "t" THEN <<"<", "t", ">">> ELSE <<"<", "r", ">">>
Texts == {<<"a">> \o Thought("t") \o inside \o ending :
            inside \in {<<"a">>, <<"<">>},
            ending \in {<<>>, <<"<", "T", ">", "n", "n", "a">>,
                       <<"<", "T", ">">> \o Thought("r") \o <<"a">>}}

(* texts with leaks: blocks with and without names, parameters and ends *)
Block(t) == <<"tool">> \o t \o <<"/tool">>
Naming == <<"name", "w", "/name">>
Pieces == {<<>>, <<"w">>, <<"call">>, <<"tool">>, <<"/tool">>, Block(<<>>),
           Block(<<"name", "/name", "w">>), Block(Naming \o <<"p", "w", "/p">>),
           Block(Naming \o <<"p", "q", "/p", "/q", "q", "/q">>),
           Block(<<"p", "w", "/p">> \o Naming \o <<"p", "w">>), <<"tool", "/name">> \o Block(Naming)}
Leaking == {a \o b : a \in Pieces, b \in Pieces}

Device == INSTANCE DeviceLogin WITH pc <- at, outcome <- end
Refresh == INSTANCE TokenRefresh WITH now <- time
Qoder == INSTANCE QoderStream WITH pc <- step, Answers <- Texts
Infron == INSTANCE InfronCooldown WITH signal <- runSignal, outcome <- settled
Fetch == INSTANCE FetchRetry WITH
  retries <- tries, phase <- sending, timer <- armed, aborted <- cancelled, answer <- got,
  abortedAt <- sentAtAbort, MaxRetries <- MaxTries
Metadata == INSTANCE ModelsDev WITH now <- age, got <- metadata, MaxTime <- MaxAge
Rules == INSTANCE CatalogRules
Wire == INSTANCE TokenRouterWire
Kilo == INSTANCE KiloLeak WITH retries <- leaks, result <- rewritten, Answers <- Leaking

MCInit ==
  /\ part \in {"cline", "device", "refresh", "qoder", "infron", "kilo", "fetch", "metadata", "rules"}
  /\ Init /\ Device!Init /\ Refresh!Init /\ Qoder!Init /\ Infron!Init /\ Kilo!Init
  /\ Fetch!Init /\ Metadata!Init
  /\ part # "cline" => signal = "absent" /\ ~byHand
  /\ part # "device" => flow = "kilo"
  /\ part # "refresh" => kind = "kilo" /\ \A life \in Lives : granted <= life
  /\ part # "qoder" => wire = <<"a">> \o Thought("t") \o <<"a">> /\ st.parser
  /\ part # "fetch" => tries = 1 /\ ~deadlined /\ ~cancelled
  /\ part # "infron" => model = CHOOSE m \in Model : TRUE

InCline(action) ==
  /\ part = "cline" /\ action
  /\ UNCHANGED <<part, deviceVars, refreshVars, streamVars, infronVars, leakVars, catalogVars>>
InDevice(action) ==
  /\ part = "device" /\ action
  /\ UNCHANGED <<part, vars, refreshVars, streamVars, infronVars, leakVars, catalogVars>>
InQoder(action) ==
  /\ part = "qoder" /\ action
  /\ UNCHANGED <<part, vars, deviceVars, refreshVars, infronVars, leakVars, catalogVars>>
InInfron(action) ==
  /\ part = "infron" /\ action
  /\ UNCHANGED <<part, vars, deviceVars, refreshVars, streamVars, leakVars, catalogVars>>
InFetch(action) ==
  /\ part = "fetch" /\ action
  /\ UNCHANGED <<part, vars, deviceVars, refreshVars, streamVars, infronVars, leakVars,
                 metadataVars>>

MCNext ==
  \/ InCline(Next)
  \/ InDevice(Device!Next)
  \/ /\ part = "refresh" /\ Refresh!Next
     /\ UNCHANGED <<part, vars, deviceVars, streamVars, infronVars, leakVars, catalogVars>>
  \/ InQoder(Qoder!Next)
  \/ InInfron(Infron!Next)
  \/ /\ part = "kilo" /\ Kilo!Next
     /\ UNCHANGED <<part, vars, deviceVars, refreshVars, streamVars, infronVars, catalogVars>>
  \/ InFetch(Fetch!Next)
  \/ /\ part = "metadata" /\ Metadata!Next
     /\ UNCHANGED <<part, vars, deviceVars, refreshVars, streamVars, infronVars, leakVars,
                    fetchVars>>

(* the fairness of each part, in the behaviours that are its own *)
MCFairness ==
  /\ WF_allVars(InCline(Listen \/ NoPort)) /\ WF_allVars(InCline(ServerTimeout))
  /\ WF_allVars(InCline(Authorized \/ AuthorizeFails))
  /\ WF_allVars(InCline(Local)) /\ WF_allVars(InCline(Exchange))
  /\ WF_allVars(InDevice(Device!Tick)) /\ WF_allVars(InDevice(Device!Login))
  /\ WF_allVars(InQoder(Qoder!Setup)) /\ WF_allVars(InQoder(Qoder!Fetch))
  /\ WF_allVars(InQoder(Qoder!Done \/ Qoder!BreaksOff))
  /\ WF_allVars(InInfron(Infron!Elapse)) /\ WF_allVars(InInfron(Infron!Resume))
  /\ WF_allVars(InFetch(Fetch!Runs)) /\ WF_allVars(InFetch(Fetch!WithFetchDeadline))
MCSpec == MCInit /\ [][MCNext]_allVars /\ MCFairness

(* Each part has its types.  A callback login leaves neither port nor timer   *)
(* behind and exchanges the code that came first; a polling login that times  *)
(* out has overlooked at most a decision made after its last poll's answer;   *)
(* a refresh follows the rotation of its token and returns a credential that  *)
(* has not expired by its own date.                                           *)
LoginsSafe ==
  /\ TypeOK /\ PortReleased /\ FirstCodeWins
  /\ Device!TypeOK /\ Device!TimesOutLate
  /\ Refresh!RefreshSafe

(* What Pi is told does not depend on how Qoder's text was cut, and each      *)
(* block has its own events, arguments and end; Kilo's leaks are rewritten    *)
(* into the calls that stand there, twice in a row at most; and Infron's      *)
(* handlers stop no run but their own.                                        *)
AnswersSound ==
  /\ Qoder!StreamSafe
  /\ Kilo!LeakSafe
  /\ Infron!TypeOK /\ Infron!OnlyOwnStopped

(* A catalog request sends nothing after its abort and throws only when it    *)
(* has no attempt left; models.dev is asked once for all who wait, and nobody *)
(* gets an older catalog.  No row that a gateway prices and nothing calls free *)
(* shows as free, nor does one without prices, but for the gateways that each *)
(* part names; each fetch keeps what it should and brings nothing when it     *)
(* failed; a request to TokenRouter has a form it accepts, and its replies    *)
(* lose no word.                                                              *)
CatalogsSound ==
  CASE part = "fetch" -> Fetch!TypeOK /\ Fetch!FetchSound
    [] part = "metadata" ->
         Metadata!TypeOK /\ Metadata!CatalogShared
    [] part = "rules" ->
         /\ Metadata!LookupSound /\ Metadata!EnrichmentFillsOnly
         /\ Rules!PaidIsNeverFree /\ Rules!UnknownIsNotFree /\ Rules!FreeByBothPrices
         /\ Rules!PaidFlagWins /\ Rules!OwnVerdictShown /\ Rules!FreeOnlyAgrees
         /\ Rules!KeptAnswers /\ Rules!FetchesSound /\ Rules!MergeFreeIsServed
         /\ Wire!RequestsAccepted /\ Wire!RepliesKept
    [] OTHER -> TRUE

(* A cancelled login stays out: no poll is sent after it, and it ends logged  *)
(* in only by an answer that was underway on a request that knows no signal.  *)
CancelHolds ==
  [][/\ signal = "aborted" /\ outcome = "none" => outcome' # "in"
     /\ aborted => /\ at' = "poll" => at = "poll"
                   /\ end' = "in" /\ end = "none" =>
                        at \in {"pat", "entered", "profile"} \/ (flow = "kilo" /\ at = "answered")]_allVars

(* A request that Pi makes by continuing after Infron's rate limit is made    *)
(* only after the limit has passed, to the model that met it, and when nobody *)
(* typed, picked a model or pressed Escape in between.                        *)
HeldBack ==
  [][run' = "asking" /\ run # "asking" /\ origin = "auto" =>
       run = "woken" /\ held.phase = "elapsed" /\ ~held.cancelled /\ held.model = model]_allVars

(* Every login comes to its end, whatever the browser and the user do, unless *)
(* the user leaves Qoder's prompt open; every stream of Qoder comes to its    *)
(* terminal event; a run held back goes on; and every catalog request has     *)
(* headers or fails.                                                          *)
ProvidersEnd == /\ part = "cline" => <>(pc = "over")
                /\ part = "device" => <>(at = "over") \/ <>[](at = "prompt")
                /\ part = "qoder" => <>(step = "over")
                /\ part = "fetch" => Fetch!FetchEnds
                /\ run = "waiting" ~> run # "waiting"
============================================================================
