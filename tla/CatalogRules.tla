---------------------------- MODULE CatalogRules ----------------------------
(* What a gateway's catalog becomes: which of its rows are kept, what their   *)
(* prices are read as, and which of them pi-free shows as free.  The gateways *)
(* of src/providers that only publish a catalog, the mappers they share       *)
(* (lib/model-map.ts, providers/model-fetcher.ts) and isFreeModel of          *)
(* lib/registry.ts.  Nothing here has a state; when the catalogs are fetched  *)
(* and stored is NativeRefresh.                                               *)
EXTENDS Integers, FiniteSets

(* a number that is neither 0 nor positive *)
NaN == -9

Price == {"none", "null", "negative", "zero", "paid"}

(* What a row publishes.  name: where "free" stands in its display name, as a *)
(* word, a part of one, or a word of the prefix cleanModelName cuts.  idFree: *)
(* the id ends in ":free".  flag: a free/paid flag or access tier.  waived:   *)
(* free by what only some gateways say, OrcaRouter's request price of 0,      *)
(* OpenGateway's effective prices of 0, the ids B.AI and Agnes document.      *)
Row == {r \in [input : Price, output : Price, cache : BOOLEAN, priced : BOOLEAN,
               waived : BOOLEAN, idFree : BOOLEAN, flag : {"none", "free", "paid"},
               name : {"none", "part", "word", "prefix"}] :
          ~r.priced => r.input = "none" /\ r.output = "none" /\ ~r.cache}

Published(p) == p \notin {"none", "null"}

(* Number(p) *)
Num(p) ==
  CASE p = "none" -> NaN [] p = "negative" -> -1 [] p = "paid" -> 1 [] OTHER -> 0

(* p ?? d *)
Else(p, d) == IF Published(p) THEN Num(p) ELSE d

FreeWord(r) == r.idFree \/ r.name \in {"word", "prefix"}
CleanModelName(r) == r.name \in {"part", "word"}

(* a model of pi-free: its verdict, when the gateway gave one, goes first *)
Judged(m, known, sure, free) ==
  [m EXCEPT !.known = known, !.freeKnown = sure, !.isFree = sure /\ free]
Priced(in, out, known, named) ==
  [input |-> in, output |-> out, known |-> known, freeKnown |-> FALSE, isFree |-> FALSE,
   named |-> named]

----------------------------------------------------------------------------
(* the shared mappers *)

MapOpenRouterModel(r) ==
  Judged(Priced(Else(r.input, 0), Else(r.output, 0), TRUE, CleanModelName(r)),
         TRUE, r.flag # "none", r.flag = "free")

ResolveOpenAIModelCost(r) == <<Else(r.input, 0), Else(r.output, 0), r.priced>>

MapOpenAIEntry(r) ==
  LET cost == ResolveOpenAIModelCost(r)
  IN  Judged(Priced(cost[1], cost[2], cost[3], r.idFree),
             cost[3], r.flag # "none", r.flag = "free")

----------------------------------------------------------------------------
(* the gateways' own *)

HasPricing(r) == r.cache \/ Published(r.input) \/ Published(r.output)

IsAnyApiFreeModel(r) ==
  IF r.flag # "none" THEN r.flag = "free"
  ELSE FreeWord(r) \/ (HasPricing(r) /\ Num(r.input) = 0 /\ Num(r.output) = 0)

MapAnyApiModel(r) ==
  LET free == IsAnyApiFreeModel(r)
  IN  Judged(MapOpenRouterModel(r), HasPricing(r),
             r.flag # "none" \/ FreeWord(r) \/ (HasPricing(r) /\ free), free)

HasOrcaRouterPricing(r) == r.waived \/ HasPricing(r)

IsOrcaRouterFreeModel(r) ==
  IF r.flag # "none" THEN r.flag = "free"
  ELSE \/ FreeWord(r) \/ r.waived
       \/ HasOrcaRouterPricing(r) /\ Num(r.input) = 0 /\ Num(r.output) = 0

MapOrcaRouterModel(r) ==
  LET free == IsOrcaRouterFreeModel(r)
  IN  Judged(MapOpenRouterModel(r), HasOrcaRouterPricing(r),
             r.flag # "none" \/ FreeWord(r) \/ (HasOrcaRouterPricing(r) /\ free), free)

IsXkiroFreeModel(r) ==
  IF r.flag # "none" THEN r.flag = "free"
  ELSE FreeWord(r) \/ (HasPricing(r) /\ Else(r.input, NaN) = 0 /\ Else(r.output, NaN) = 0)

MapXkiroModel(r) ==
  LET free == IsXkiroFreeModel(r)
  IN  Judged(Priced(Else(r.input, 0), Else(r.output, 0), TRUE, CleanModelName(r)), HasPricing(r),
             r.flag # "none" \/ FreeWord(r) \/ (HasPricing(r) /\ free), free)

HasCompletePricing(in, out) == Published(in) /\ Published(out)
ParsePrice(p) == IF Num(p) >= 0 THEN Num(p) ELSE 0

MapOpenGatewayModel(r) ==
  LET in  == IF r.waived THEN "zero" ELSE r.input
      out == IF r.waived THEN "zero" ELSE r.output
      known == HasCompletePricing(in, out)
  IN  Judged(Priced(ParsePrice(in), ParsePrice(out), known, r.name # "none"), known,
             known, ParsePrice(in) = 0 /\ ParsePrice(out) = 0)

MapNovitaModel(r) ==
  Priced(Else(r.input, 0), Else(r.output, 0), {r.input, r.output} # {"none"}, r.name # "none")

ParsePricePerToken(p) == Else(p, 0)
MapRoutewayModel(r) ==
  Priced(ParsePricePerToken(r.input), ParsePricePerToken(r.output),
         Published(r.input) \/ Published(r.output), CleanModelName(r))

(* what is not published has a price of its own *)
MapDeepinfraModel(r) == Priced(Else(r.input, 1), Else(r.output, 1), r.priced, r.idFree)

MapVeniceModel(r) == Priced(Else(r.input, 0), Else(r.output, 0), TRUE, r.name # "none")

MapRequestyModel(r) ==
  Priced(Else(r.input, 0), Else(r.output, 0), Published(r.input) /\ Published(r.output), r.idFree)

MapInfronModel(r) ==
  LET known == Else(r.input, NaN) >= 0 /\ Else(r.output, NaN) >= 0
  IN  Priced(IF known THEN Num(r.input) ELSE 0, IF known THEN Num(r.output) ELSE 0, known,
             r.name # "none")

ExtractZenmuxPrice(p) == Else(p, 0)
MapZenmuxModel(r) ==
  Priced(ExtractZenmuxPrice(r.input), ExtractZenmuxPrice(r.output), r.priced, r.name # "none")

(* no prices are published *)
MapTokenRouterModel(r) == Judged(Priced(0, 0, FALSE, r.idFree), FALSE, r.idFree, TRUE)
MapBaiModel(r) ==
  Judged(Priced(0, 0, FALSE, r.idFree), FALSE, r.idFree \/ r.waived, TRUE)

(* the table of the source, where the row's id is in it *)
MapCommandCodeModel(r) ==
  Priced(Else(r.input, 0), Else(r.output, 0), r.priced, r.name # "none")

ParsePricing(p) == Else(p, 0)

(* flag "free": the exact id is in the free-to-try list *)
ModelFromCatalog(r) ==
  LET cost(p) == IF r.flag = "free" THEN 0 ELSE ParsePricing(p)
  IN  Priced(cost(r.input), cost(r.output), r.priced, CleanModelName(r))
ModelFromRecommended(r) == Priced(0, 0, TRUE, CleanModelName(r))

StampAgnes(r) == IF r.waived THEN Judged(MapOpenAIEntry(r), r.priced, TRUE, TRUE)
                 ELSE MapOpenAIEntry(r)
StampSambanova(r) == [MapOpenAIEntry(r) EXCEPT !.known = TRUE]

Map(g, r) ==
  CASE g \in {"kilo", "fastrouter"} -> MapOpenRouterModel(r)
    [] g \in {"gmi", "inferx", "stepfun"} -> MapOpenAIEntry(r)
    [] g = "agnes" -> StampAgnes(r)            [] g = "sambanova" -> StampSambanova(r)
    [] g = "anyapi" -> MapAnyApiModel(r)       [] g = "orcarouter" -> MapOrcaRouterModel(r)
    [] g = "xkiro" -> MapXkiroModel(r)         [] g = "opengateway" -> MapOpenGatewayModel(r)
    [] g = "novita" -> MapNovitaModel(r)       [] g = "routeway" -> MapRoutewayModel(r)
    [] g = "deepinfra" -> MapDeepinfraModel(r) [] g = "venice" -> MapVeniceModel(r)
    [] g = "requesty" -> MapRequestyModel(r)   [] g = "infron" -> MapInfronModel(r)
    [] g = "zenmux" -> MapZenmuxModel(r)       [] g = "tokenrouter" -> MapTokenRouterModel(r)
    [] g = "bai" -> MapBaiModel(r)             [] g = "commandcode" -> MapCommandCodeModel(r)
    [] g = "cline" -> ModelFromCatalog(r)
Gateway == {"kilo", "fastrouter", "gmi", "agnes", "sambanova", "anyapi", "orcarouter",
            "xkiro", "opengateway", "novita", "routeway", "deepinfra", "venice", "requesty",
            "infron", "zenmux", "tokenrouter", "bai", "commandcode", "cline"}

----------------------------------------------------------------------------
(* the verdict *)

DetectPricingExposed(models) == \E m \in models : m.input > 0 \/ m.output > 0

(* bug: prices nobody published count *)
IsFreeModelDefaulted(m, exposed) ==
  IF m.freeKnown THEN m.isFree ELSE m.named \/ (exposed /\ m.input = 0 /\ m.output = 0)

(* The rest of the catalog matters only by exposing prices or not.            *)
IsFreeModel(m, exposed) ==
  IF m.freeKnown THEN m.isFree
  ELSE m.named \/ (exposed /\ m.known /\ m.input = 0 /\ m.output = 0)

(* A model may be judged with others that expose prices, or alone.            *)
Free(m) == IsFreeModel(m, TRUE) \/ IsFreeModel(m, DetectPricingExposed({m}))

(* Whatever the gateway says that means free, the prices aside.               *)
Signalled(r) == r.flag = "free" \/ r.waived \/ r.idFree \/ r.name # "none"

(* No row that publishes a price above 0, and nothing that says free, shows   *)
(* as free with any gateway (isFreeModel and every mapper).                   *)
PaidIsNeverFree ==
  \A g \in Gateway, r \in Row :
    "paid" \in {r.input, r.output} /\ ~Signalled(r) => ~Free(Map(g, r))

(* A row of which nothing is known is not free: zeros put in for missing      *)
(* prices do not count.  Four gateways do read them as a price of 0.          *)
UnknownIsNotFree ==
  \A g \in Gateway \ {"venice", "sambanova", "kilo", "fastrouter"}, r \in Row :
    ~r.priced /\ ~Signalled(r) => ~Free(Map(g, r))

(* These show a row as free by its prices only if it publishes both and both  *)
(* are 0; to OpenGateway's mapper a negative price is 0 too.                  *)
FreeByBothPrices ==
  \A g \in {"infron", "requesty", "deepinfra", "opengateway"}, r \in Row :
    Free(Map(g, r)) /\ ~Signalled(r) =>
      {r.input, r.output} \subseteq {"zero", IF g = "opengateway" THEN "negative" ELSE "zero"}

(* A gateway's paid flag is final: no name or price makes the row free.       *)
PaidFlagWins ==
  \A g \in {"anyapi", "orcarouter", "xkiro", "kilo", "fastrouter", "gmi", "sambanova"},
     r \in Row : r.flag = "paid" => ~Free(Map(g, r))

(* The verdict exported by a gateway's module and what the catalog shows are  *)
(* the same, but for a row that publishes some of its prices only, or whose   *)
(* name has "free" inside a word.                                             *)
OwnVerdictShown ==
  \A r \in Row :
    LET same(own, m) ==
          /\ own => IsFreeModel(m, TRUE) /\ IsFreeModel(m, FALSE)
          /\ ~own /\ Free(m) =>
               \/ r.name = "part"
               \/ (r.cache \/ r.waived \/ HasPricing(r)) /\ ~HasCompletePricing(r.input, r.output)
    IN  /\ same(IsAnyApiFreeModel(r), MapAnyApiModel(r))
        /\ same(IsOrcaRouterFreeModel(r), MapOrcaRouterModel(r))
        /\ same(IsXkiroFreeModel(r), MapXkiroModel(r))

(* fetchOpenRouterCompatibleModels with freeOnly, on one row *)
FreeOnly(r) ==
  IF r.flag # "none" THEN r.flag = "free" ELSE Else(r.input, 1) = 0 /\ Else(r.output, 1) = 0

(* Kilo's second attempt, for free models only, brings only what the full     *)
(* list would have shown as free, and all of it that is priced and flagged or *)
(* published.                                                                 *)
FreeOnlyAgrees ==
  \A r \in Row :
    LET m == MapOpenRouterModel(r)
    IN  /\ FreeOnly(r) => IsFreeModel(m, TRUE)
        /\ IsFreeModel(m, TRUE) /\ ~FreeOnly(r) =>
             m.named \/ ~HasCompletePricing(r.input, r.output)

----------------------------------------------------------------------------
(* which rows are kept *)

(* What a row says about what it answers with (out), how it is called         *)
(* (endpoint: its endpoint types, tags, type or category), whether it can be  *)
(* used (live), and what its id gives away.                                   *)
Offer == [out : {"unsaid", "text", "media", "both"}, endpoint : {"unsaid", "chat", "other"},
          live : BOOLEAN, id : {"plain", "media", "embed", "test"}]

KeepOpenRouter(o, excludeMedia) == o.out # "media" /\ (excludeMedia => o.out # "both")
IsAnyApiTextModel(o) == o.out # "media" /\ o.endpoint # "other"
IsOrcaRouterTextChatModel(o) == o.out # "media" /\ o.endpoint # "other"
IsXkiroTextChatModel(o) == o.endpoint # "other"
IsBaiTextChatModel(o) == o.endpoint # "other"
IsTokenRouterTextChatModel(o) ==
  o.out \in {"text", "both"} \/ (o.out = "unsaid" /\ o.endpoint = "chat")
IsRoutewayChatModel(o) == o.live /\ o.endpoint = "chat"
KeepNovita(o) ==
  o.live /\ o.endpoint = "chat" /\ o.out \notin {"media", "both"} /\ o.id # "test"
KeepDeepinfra(o) == o.out \notin {"media", "both"} /\ o.id # "embed"
KeepVenice(o) == o.endpoint = "chat"
KeepRequesty(o) == o.endpoint = "chat" /\ o.out \notin {"media", "both"} /\ o.id # "test"
KeepInfron(o) == o.endpoint = "chat" /\ o.live
IsZenmuxChatModel(o) == o.out # "media"
IsAgnesChatModel(o) == o.id # "media"
IsInferxChatModel(o) == o.id # "embed"
HasTextOutput(o) == o.out \in {"text", "both"} \/ (o.out = "unsaid" /\ o.endpoint = "chat")

Keeper ==
  [kilo |-> {o \in Offer : KeepOpenRouter(o, FALSE)},
   fastrouter |-> {o \in Offer : KeepOpenRouter(o, TRUE)},
   anyapi |-> {o \in Offer : IsAnyApiTextModel(o)},
   orcarouter |-> {o \in Offer : IsOrcaRouterTextChatModel(o)},
   xkiro |-> {o \in Offer : IsXkiroTextChatModel(o)},
   bai |-> {o \in Offer : IsBaiTextChatModel(o)},
   tokenrouter |-> {o \in Offer : IsTokenRouterTextChatModel(o)},
   routeway |-> {o \in Offer : IsRoutewayChatModel(o)},
   novita |-> {o \in Offer : KeepNovita(o)},
   deepinfra |-> {o \in Offer : KeepDeepinfra(o)},
   venice |-> {o \in Offer : KeepVenice(o)},
   requesty |-> {o \in Offer : KeepRequesty(o)},
   infron |-> {o \in Offer : KeepInfron(o)},
   zenmux |-> {o \in Offer : IsZenmuxChatModel(o)},
   agnes |-> {o \in Offer : IsAgnesChatModel(o)},
   inferx |-> {o \in Offer : IsInferxChatModel(o)},
   cline |-> {o \in Offer : HasTextOutput(o)},
   any |-> Offer]

(* No gateway's plain text model is dropped.  Where a row's output is looked  *)
(* at, one that gives media only is dropped; where its endpoints or type are, *)
(* one that is not called as a chat is, but for TokenRouter and Cline, which  *)
(* believe a text output.                                                     *)
KeptAnswers ==
  /\ \A g \in DOMAIN Keeper :
       [out |-> "text", endpoint |-> "chat", live |-> TRUE, id |-> "plain"] \in Keeper[g]
  /\ \A g \in {"kilo", "fastrouter", "anyapi", "orcarouter", "tokenrouter", "novita",
               "deepinfra", "requesty", "zenmux", "cline"} :
       \A o \in Keeper[g] : o.out # "media"
  /\ \A g \in {"anyapi", "orcarouter", "xkiro", "bai", "routeway", "novita", "venice",
               "requesty", "infron", "tokenrouter", "cline"} :
       \A o \in Keeper[g] :
         o.endpoint = "other" => g \in {"tokenrouter", "cline"} /\ o.out \in {"text", "both"}

----------------------------------------------------------------------------
(* one fetch *)

(* how the gateway answers; "bare" is a body without a list of models *)
Answer == {"unreachable", "refused", "bare", "list"}

(* what a fetch comes to: a list, or nothing when it threw *)
Threw == << >>
Got(list) == <<list>>
GotNone == Got({})

(* a body without a list is an empty list *)
FetchThrowing(g, answer, offers) ==
  CASE answer \in {"unreachable", "refused"} -> Threw [] answer = "bare" -> GotNone
    [] OTHER -> Got(offers \cap Keeper[g])
FetchSwallowing(g, answer, offers) ==
  IF answer = "list" THEN Got(offers \cap Keeper[g]) ELSE GotNone

FetchAnyApiModels(answer, offers) == FetchThrowing("anyapi", answer, offers)
FetchOrcaRouterModels(answer, offers) == FetchThrowing("orcarouter", answer, offers)
FetchXkiroModels(answer, offers) == FetchThrowing("xkiro", answer, offers)
FetchDeepinfraModels(answer, offers) == FetchThrowing("deepinfra", answer, offers)
FetchOpenGatewayModels(answer, offers) == FetchThrowing("any", answer, offers)
FetchRequestyModels(answer, offers) == FetchThrowing("requesty", answer, offers)
FetchVeniceModels(answer, offers) == FetchThrowing("venice", answer, offers)
FetchInfronModels(answer, offers) == FetchThrowing("infron", answer, offers)
FetchCommandCodeModels(answer, offers) == FetchThrowing("any", answer, offers)
FetchTokenRouterModels(answer, offers) == FetchSwallowing("tokenrouter", answer, offers)
FetchBaiModels(answer, offers) == FetchSwallowing("bai", answer, offers)
FetchNovitaModels(answer, offers) == FetchSwallowing("novita", answer, offers)
FetchRoutewayModels(answer, offers) == FetchSwallowing("routeway", answer, offers)
FetchOpenAICompatibleModels(answer, offers) == FetchSwallowing("any", answer, offers)
FetchZenmuxCatalog(aborted, answer, offers) ==
  IF aborted THEN GotNone ELSE FetchSwallowing("zenmux", answer, offers)
FetchAgnesModels(answer, offers) ==
  FetchOpenAICompatibleModels(answer, offers \cap Keeper["agnes"])
FetchInferxModels(answer, offers) ==
  FetchOpenAICompatibleModels(answer, offers \cap Keeper["inferx"])

(* here a body without a list is an error *)
FetchOpenRouterCompatibleModels(answer, rows, freeOnly) ==
  IF answer # "list" THEN Threw ELSE Got({r \in rows : freeOnly => FreeOnly(r)})

(* Kilo: the whole list, else the free models, else nothing; what an aborted  *)
(* refresh brings is dropped.                                                 *)
FetchKiloCatalog(aborted, first, second, rows) ==
  LET all  == FetchOpenRouterCompatibleModels(first, rows, FALSE)
      free == FetchOpenRouterCompatibleModels(second, rows, TRUE)
  IN  IF aborted THEN GotNone
      ELSE IF all # Threw THEN all ELSE IF free # Threw THEN free ELSE GotNone

(* Cline: the rows of the catalog and the ids recommended as free.  A model   *)
(* that both list comes from the catalog, free to try.                        *)
FetchClineRecommendedFreeModels(answer, ids) == IF answer = "list" THEN ids ELSE {}
FetchClineCatalogModels(answer, rows) == IF answer = "list" THEN Got(rows) ELSE Threw
FetchClineModels(catalog, recommended) ==
  LET text == {row \in catalog : row.text}
  IN  {[id |-> row.id, from |-> IF row.id \in recommended THEN "free" ELSE "priced"] :
         row \in text}
      \cup {[id |-> i, from |-> "recommended"] : i \in recommended \ {row.id : row \in text}}
FetchClineCatalog(aborted, first, second, rows, ids) ==
  LET catalog == FetchClineCatalogModels(first, rows)
  IN  IF aborted \/ catalog = Threw THEN GotNone
      ELSE Got(FetchClineModels(catalog[1], FetchClineRecommendedFreeModels(second, ids)))

(* A failed or aborted fetch brings nothing, and never a part of the catalog  *)
(* under the name of the whole; but Kilo's second attempt brings the free     *)
(* part as all there is.  Each Cline id is listed once, and free of charge    *)
(* only if its exact id was recommended: a dated variant of one stays paid.   *)
FetchesSound ==
  /\ \A answer \in Answer \ {"list"}, o \in Offer :
       /\ GotNone = FetchTokenRouterModels(answer, {o}) /\ GotNone = FetchAgnesModels(answer, {o})
       /\ FetchXkiroModels(answer, {o}) \in {Threw, GotNone}
  /\ \A first, second \in Answer, a \in BOOLEAN, r \in Row :
       FetchKiloCatalog(a, first, second, {r}) # GotNone =>
         ~a /\ "list" \in {first, second} /\ (first # "list" => FreeOnly(r))
  /\ \A first, second \in Answer, a \in BOOLEAN, ids \in SUBSET {"x", "x-1", "y"} :
       \A rows \in SUBSET {[id |-> i, text |-> t] : i \in {"x", "x-1"}, t \in BOOLEAN} :
         LET all == FetchClineCatalog(a, first, second, rows, ids)[1]
         IN  Cardinality({row.id : row \in rows}) = Cardinality(rows) =>
               /\ all # {} => ~a /\ first = "list"
               /\ \A m \in all : m.from # "priced" => m.id \in ids
               /\ \A m, n \in all : m.id = n.id => m = n
               /\ ~a /\ first = "list" /\ second = "list" => ids \subseteq {m.id : m \in all}

----------------------------------------------------------------------------
(* Merge: a model has a route for each vendor *)

(* undefined is 9, above every price *)
Route == [open : BOOLEAN, input : {-1, 0, 1, 9}, output : {-1, 0, 1, 9}]
Least(S) == CHOOSE p \in S : \A q \in S : p <= q

(* of the routes that can be used, each price at its lowest *)
SummarizeVendors(open) ==
  [input |-> Least({v.input : v \in open}), output |-> Least({v.output : v \in open})]

MapMergeModel(routes) ==
  LET open == {v \in routes : v.open}
      s == SummarizeVendors(open)
      known == {s.input, s.output} \subseteq {0, 1}
  IN  IF open = {} THEN Threw
      ELSE Got(Priced(IF known THEN s.input ELSE 0, IF known THEN s.output ELSE 0, known, FALSE))

(* at most 20 pages; one without a further cursor is the last *)
FetchMergeModels(pages, cap) ==
  {i \in DOMAIN pages : i <= cap /\ \A j \in 1..(i - 1) : pages[j]}

(* A model of Merge is listed if a vendor serves it, and shows as free only   *)
(* if some vendor's input and some vendor's output cost nothing, which need   *)
(* not be the same vendor; a route that cannot be used never makes it free.   *)
MergeFreeIsServed ==
  \A x, y \in Route :
    LET open == {v \in {x, y} : v.open}
        model == MapMergeModel({x, y})
    IN  /\ (model = Threw) = (open = {})
        /\ open # {} /\ Free(model[1]) => \E v, w \in open : v.input = 0 /\ w.output = 0
=============================================================================
