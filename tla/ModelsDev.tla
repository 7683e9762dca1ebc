------------------------------ MODULE ModelsDev ------------------------------
(* lib/model-metadata.ts: the cache of the models.dev catalog and the import  *)
(* of Pi's own one, each loaded once for all who wait, and what enrichment    *)
(* does to a model.                                                           *)
EXTENDS Integers, Sequences, FiniteSets, SequencesExt

CONSTANTS Reader, MODELS_DEV_RETRIES, MODELS_DEV_CACHE_TTL, MaxTime

VARIABLES
  now,
  catalogCache,   \* << >> or the load it holds and when it expires
  loads,          \* of the catalog: when begun, attempts, what became of it
  reads,          \* per reader: the load it waits for, or 0
  got,            \* what each reader got last: whether it was empty, and when
  builtin         \* of Pi's catalog: "none", "loading", "ready"
vars == <<now, catalogCache, loads, reads, got, builtin>>

Init ==
  /\ now = 0 /\ catalogCache = <<>> /\ loads = <<>> /\ builtin = "none"
  /\ reads = [r \in Reader |-> 0] /\ got = [r \in Reader |-> [load |-> 0, at |-> 0, asked |-> 0]]

(* bug: an entry is good until the next one *)
FreshAlways == catalogCache # <<>>
Fresh == catalogCache # <<>> /\ catalogCache[1].expiresAt > now

(* getModelsDevCatalogCache: the entry is there before its load has ended *)
GetModelsDevCatalogCache(r) ==
  IF Fresh THEN /\ reads' = [reads EXCEPT ![r] = catalogCache[1].load]
                /\ UNCHANGED <<catalogCache, loads>>
  ELSE /\ loads' = Append(loads, [begun |-> now, tried |-> 0, end |-> "flying"])
       /\ catalogCache' = <<[load |-> Len(loads'), expiresAt |-> now + MODELS_DEV_CACHE_TTL]>>
       /\ reads' = [reads EXCEPT ![r] = Len(loads')]

FetchModelsDevMeta(r) ==
  /\ reads[r] = 0 /\ GetModelsDevCatalogCache(r)
  /\ got' = [got EXCEPT ![r].asked = now]
  /\ UNCHANGED <<now, builtin>>

(* One attempt; the answer after the last bad one is an empty catalog, and it *)
(* is cached like another.                                                    *)
FetchModelsDevCatalog(l, ok) ==
  /\ loads[l].end = "flying"
  /\ loads' = [loads EXCEPT ![l].tried = @ + 1,
                            ![l].end = IF ok THEN "full"
                                       ELSE IF loads[l].tried + 1 = MODELS_DEV_RETRIES
                                       THEN "empty" ELSE @]
  /\ UNCHANGED <<now, catalogCache, reads, got, builtin>>

Read(r) ==
  /\ reads[r] # 0 /\ loads[reads[r]].end # "flying"
  /\ got' = [got EXCEPT ![r].load = reads[r], ![r].at = now]
  /\ reads' = [reads EXCEPT ![r] = 0]
  /\ UNCHANGED <<now, catalogCache, loads, builtin>>

(* loadBuiltinModelsModule: a failed import is not kept *)
LoadBuiltinModelsModule(ok) ==
  /\ builtin' = CASE builtin = "none" -> "loading"
                  [] builtin = "loading" -> IF ok THEN "ready" ELSE "none"
                  [] OTHER -> "ready"
  /\ UNCHANGED <<now, catalogCache, loads, reads, got>>

Tick == now < MaxTime /\ now' = now + 1 /\ UNCHANGED <<catalogCache, loads, reads, got, builtin>>

Next ==
  \/ \E r \in Reader : FetchModelsDevMeta(r) \/ Read(r)
  \/ \E l \in DOMAIN loads, ok \in BOOLEAN : FetchModelsDevCatalog(l, ok)
  \/ \E ok \in BOOLEAN : LoadBuiltinModelsModule(ok)
  \/ Tick
Spec == Init /\ [][Next]_vars

----------------------------------------------------------------------------
TypeOK ==
  /\ now \in 0..MaxTime /\ builtin \in {"none", "loading", "ready"}
  /\ catalogCache # <<>> => catalogCache[1].load \in DOMAIN loads
  /\ \A r \in Reader : reads[r] \in 0..Len(loads)

(* models.dev is asked by one load per period, however many catalogs are      *)
(* enriched at once; what a reader gets was loaded for a request made no      *)
(* longer than the period before its own, so that neither an old catalog nor  *)
(* the empty one of a failure outlives it.                                    *)
CatalogShared ==
  /\ \A l \in 1..(Len(loads) - 1) : loads[l + 1].begun >= loads[l].begun + MODELS_DEV_CACHE_TTL
  /\ \A l \in DOMAIN loads : loads[l].tried <= MODELS_DEV_RETRIES
  /\ \A r \in Reader :
       LET load == IF reads[r] = 0 THEN got[r].load ELSE reads[r]
       IN  load # 0 => loads[load].begun \in (got[r].asked - MODELS_DEV_CACHE_TTL + 1)..got[r].asked

----------------------------------------------------------------------------
(* lookup *)

(* an id: its last part, and whether it ends in ":free" or "-free" *)
ModelId == [base : {"m", "n"}, free : BOOLEAN, vendor : {"", "v"}]
NormalizeModelKey(id) == [vendor |-> id.vendor, base |-> id.base]
LastPart(key) == [key EXCEPT !.vendor = ""]

(* The later of two entries with the same key wins.                           *)
BuildModelMetaIndex(entries) ==
  LET keys(i) == {NormalizeModelKey(entries[i]), LastPart(NormalizeModelKey(entries[i]))}
      at(k) == {i \in DOMAIN entries : k \in keys(i)}
  IN  [k \in UNION {keys(i) : i \in DOMAIN entries} |->
         CHOOSE i \in at(k) : \A j \in at(k) : j <= i]

FindModelDevMeta(index, id) ==
  LET key == NormalizeModelKey(id)
  IN  IF key \in DOMAIN index THEN index[key]
      ELSE IF LastPart(key) \in DOMAIN index THEN index[LastPart(key)] ELSE 0

(* What is found has the model's last part, so that metadata never come from  *)
(* another model; of the same vendor, if that one is known and the vendor is  *)
(* given; and a model that is listed itself is found.                         *)
LookupSound ==
  \A e1, e2, id \in ModelId :
    LET entries == <<e1, e2>>
        found == FindModelDevMeta(BuildModelMetaIndex(entries), id)
        same(e) == e.base = id.base /\ e.vendor = id.vendor
    IN  /\ found # 0 => entries[found].base = id.base
        /\ same(e1) \/ same(e2) =>
             found # 0 /\ (id.vendor # "" => same(entries[found]))

(* findProviderModels: a provider's own entry or its alias', when it has      *)
(* models; else all of the catalog is searched.                               *)
FindProviderModels(catalog, ids) ==
  LET found == {p \in catalog : p.models # {} /\ (p.key \in ids \/ p.id \in ids)}
      direct == {p \in found : p.key \in ids}
  IN  IF direct # {} THEN (CHOOSE p \in direct : TRUE).models
      ELSE IF found # {} THEN (CHOOSE p \in found : TRUE).models
      ELSE UNION {p.models : p \in catalog}

----------------------------------------------------------------------------
(* enrichment *)

(* Limits: 0 is a provider's default.  compat: the keys that are set.         *)
Known == [context : 0..2, maxTokens : 0..2, image : BOOLEAN, reasoning : BOOLEAN,
          levels : {"unset", "some"}, cost : {"zero", "price"}, compat : SUBSET {"own", "derived"}]
Meta == [limit : 0..2, image : BOOLEAN, reasoning : BOOLEAN, effort : BOOLEAN, price : BOOLEAN]

MergeCompat(existing, derived) == existing \cup derived

(* bug: what the gateway says is replaced *)
EnrichModelOver(m, meta, fillCost) ==
  [m EXCEPT !.context = meta.limit, !.maxTokens = meta.limit]

(* meta.limit 0: models.dev has none.  The cost is filled in only if asked to *)
(* be, which no gateway does.                                                 *)
EnrichModel(m, meta, fillCost) ==
  [m EXCEPT
     !.context = IF meta.limit # 0 /\ @ = 0 THEN meta.limit ELSE @,
     !.maxTokens = IF meta.limit # 0 /\ @ = 0 THEN meta.limit ELSE @,
     !.image = @ \/ meta.image,
     !.reasoning = @ \/ meta.reasoning,
     !.levels = IF @ = "unset" /\ meta.effort THEN "some" ELSE @,
     !.cost = IF fillCost /\ @ = "zero" /\ meta.price THEN "price" ELSE @,
     !.compat = MergeCompat(@, {"derived"})]

EnrichModelsWithModelsDev(models, metaOf) ==
  [i \in DOMAIN models |->
     IF metaOf = <<>> THEN models[i] ELSE EnrichModel(models[i], metaOf[1], FALSE)]

(* Enrichment fills what a gateway left at its default and changes nothing it *)
(* said, prices above all; doing it again to a list that was stored enriched  *)
(* changes nothing more.                                                      *)
EnrichmentFillsOnly ==
  \A m \in Known, meta \in Meta :
    LET e == EnrichModelsWithModelsDev(<<m>>, <<meta>>)[1]
    IN  /\ e.cost = m.cost
        /\ m.context # 0 => e.context = m.context
        /\ m.maxTokens # 0 => e.maxTokens = m.maxTokens
        /\ m.compat \subseteq e.compat /\ (m.image => e.image) /\ (m.reasoning => e.reasoning)
        /\ EnrichModelsWithModelsDev(<<e>>, <<meta>>)[1] = e
=============================================================================
