------------------------------ MODULE ResponseCache ------------------------------
(***************************************************************************)
(* ResponseCache: the caching middleware.  A list of answers, the one used *)
(* last first, and a map from keys to places in it; each operation holds   *)
(* the mutex throughout.  A place is known by the number of its node, as   *)
(* an iterator is by its address.                                          *)
(***************************************************************************)
EXTENDS LanguageModel

CONSTANT max_entries

ASSUME ResponseCacheAssumption == max_entries \in Nat \ {0}

VARIABLES cache_list, cache_map

cacheVars == <<cache_list, cache_map>>

CacheInit == /\ cache_list = <<>>
             /\ cache_map = [k \in {} |-> 0]

\* What the key has of a message: the texts of a user, the texts and calls of an
\* assistant without their ids, and of the results of tools the id of the first.
KeyMessage(m) ==
    [role |-> m.role,
     content |-> CASE m.role \in {"system", "user"} -> Texts(OfType(m.content, {"text"}))
                   [] m.role = "assistant" ->
                         [i \in DOMAIN OfType(m.content, {"text", "call"}) |->
                            LET c == OfType(m.content, {"text", "call"})[i]
                            IN  IF c.type = "text" THEN <<c.text>> ELSE <<c.name, c.text>>]
                   [] m.role = "tool" -> IF m.content = <<>> THEN <<>> ELSE m.content[1].id]

\* compute_cache_key: the messages, the sampling parameters and the names of the
\* tools; the output's format, the stop sequences and the rest are not in it.
ComputeCacheKey(options) ==
    [messages |-> [i \in DOMAIN options.prompt |-> KeyMessage(options.prompt[i])],
     sampling |-> options.sampling,
     tools    |-> options.tools]

Nodes == {cache_list[i].node : i \in DOMAIN cache_list}
Mapped == {cache_map[k] : k \in DOMAIN cache_map}
Place(node) == CHOOSE i \in DOMAIN cache_list : cache_list[i].node = node

\* A node that nothing refers to.
FreshNode == CHOOSE n \in 1..(Len(cache_list) + Cardinality(DOMAIN cache_map) + 1) :
                n \notin Nodes \cup Mapped

Cached(key) == cache_list[Place(cache_map[key])].answer

\* A hit moves the node to the front.
Hit(key) == /\ key \in DOMAIN cache_map
            /\ LET i == Place(cache_map[key])
               IN  cache_list' = <<cache_list[i]>> \o RemoveAt(cache_list, i)
            /\ UNCHANGED cache_map

\* How many nodes stay while those over the limit are evicted.
Staying == IF Len(cache_list) < max_entries THEN Len(cache_list) ELSE max_entries - 1

\* What the map is once the keys of the evicted nodes are erased, whichever node
\* they refer to.
Remembered == LET evicted == {cache_list[i].key : i \in (Staying + 1)..Len(cache_list)}
              IN  [k \in DOMAIN cache_map \ evicted |-> cache_map[k]]

\* A mistake: a key is erased from the map only where it was added.
InsertForgetsMap(key, answer) ==
    LET n == FreshNode
    IN  /\ cache_list' = <<[node |-> n, key |-> key, answer |-> answer]>>
                         \o SubSeq(cache_list, 1, Staying)
        /\ cache_map' = [k \in DOMAIN cache_map \cup {key} |-> IF k = key THEN n ELSE cache_map[k]]

\* The answer to a miss goes to the front, beside a node of the same key if
\* another miss was faster.
Insert(key, answer) ==
    LET n    == FreshNode
        kept == Remembered
    IN  /\ cache_list' = <<[node |-> n, key |-> key, answer |-> answer]>>
                         \o SubSeq(cache_list, 1, Staying)
        /\ cache_map' = [k \in DOMAIN kept \cup {key} |-> IF k = key THEN n ELSE kept[k]]

Clear == /\ cache_list' = <<>>
         /\ cache_map' = [k \in {} |-> 0]

\* The map leads to nodes of the list, each of its own key, and the list keeps
\* to its limit: no iterator is ever used whose node is gone, although misses
\* of one key overlap and evictions forget keys that newer nodes have.
CacheInv == /\ Len(cache_list) <= max_entries
            /\ \A i, j \in DOMAIN cache_list : cache_list[i].node = cache_list[j].node => i = j
            /\ \A k \in DOMAIN cache_map : \E i \in DOMAIN cache_list :
                  cache_list[i].node = cache_map[k] /\ cache_list[i].key = k
=============================================================================
