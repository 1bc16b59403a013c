----------------------------- MODULE CatalogCache -----------------------------
(***************************************************************************)
(* The body cache of the catalog routes (catalog_cache.py and the cached   *)
(* chain of routes/_catalog_common.py) beside the opencode process whose   *)
(* bodies it holds.  A refresh is shared by concurrent callers through a   *)
(* plain single flight with a grace window (module SingleFlight); the hub  *)
(* calls invalidate() when it notices that the process was lost, at any    *)
(* moment of a refresh.  Time is the age of what is cached.                *)
(***************************************************************************)
EXTENDS Integers, Sequences, FiniteSets, SequencesExt, FiniteSetsExt

CONSTANTS
    CatalogKeys,     \* (upstream_path, directory)
    Readers,         \* requests that may be under way
    Ttls,            \* catalog_cache_ttl_seconds, in ticks; 0 disables the cache
    BodySizes,       \* sizes of bodies
    MaxCached,       \* max_entries
    MaxCachedBytes,  \* max_bytes
    MaxEntryBytes,   \* max_entry_bytes
    MaxRestarts      \* bound: restarts of the upstream process

ASSUME CatalogAssumption ==
    /\ Ttls \subseteq Nat /\ BodySizes \subseteq Nat \ {0} /\ MaxRestarts \in Nat
    /\ {MaxCached, MaxCachedBytes, MaxEntryBytes} \subseteq Nat \ {0} /\ MaxEntryBytes <= MaxCachedBytes

VARIABLES
    ttl,         \* _ttl
    cache,       \* _entries (in insertion order: key, size, process, age), _retained_bytes
    generation,  \* _generation
    refreshes,   \* the single flight: per key none, the leader, or grace
    readers,     \* the requests
    process,     \* the upstream process that runs now
    lostBelow    \* every process before this one is known to be lost

catalogVars == <<ttl, cache, generation, refreshes, readers, process, lostBelow>>

\* A leader keeps the generation it captured and the process it asked; a joiner
\* the leader it waits for.
NoReader == [pc |-> "idle", key |-> "none", gen |-> 0, process |-> 0, on |-> "none"]
NoFlightOf == "none"

CatalogInit ==
    /\ ttl \in Ttls /\ cache = [entries |-> <<>>, retained |-> 0] /\ generation = 0
    /\ refreshes = [k \in CatalogKeys |-> NoFlightOf]
    /\ readers = [r \in Readers |-> NoReader]
    /\ process = 1 /\ lostBelow = 1

Place(C, k) == {i \in DOMAIN C.entries : C.entries[i].key = k}
SizeOf(es) == FoldLeft(LAMBDA sum, e : sum + e.size, 0, es)

-----------------------------------------------------------------------------
(* The store.                                                              *)

DropEntry(C, k) == [entries |-> SelectSeq(C.entries, LAMBDA e : e.key # k),
                    retained |-> C.retained - SumSet({C.entries[i].size : i \in Place(C, k)})]

\* _evict_over_budget: oldest first, as few as it takes.
Evict(C) == LET n == Min({m \in 0..Len(C.entries) :
                             /\ Len(C.entries) - m <= MaxCached
                             /\ C.retained - SizeOf(SubSeq(C.entries, 1, m)) <= MaxCachedBytes})
            IN [entries |-> SubSeq(C.entries, n + 1, Len(C.entries)),
                retained |-> C.retained - SizeOf(SubSeq(C.entries, 1, n))]

\* _store: the old accounting is dropped before the new entry is appended.
Store(C, k, size, p) ==
    Evict([entries |-> Append(DropEntry(C, k).entries, [key |-> k, size |-> size, process |-> p, age |-> 0]),
           retained |-> DropEntry(C, k).retained + size])

-----------------------------------------------------------------------------
(* A request: lookup, then admission and refresh.                          *)

\* A fresh entry is served without a fetch; a stale one is dropped.
Lookup(r, k) ==
    /\ readers[r].pc = "idle"
    /\ LET fresh == ttl > 0 /\ \E i \in Place(cache, k) : cache.entries[i].age < ttl
       IN /\ readers' = [readers EXCEPT ![r] = [NoReader EXCEPT !.pc = IF fresh THEN "idle" ELSE "admit", !.key = k]]
          /\ cache' = IF ttl > 0 /\ ~fresh THEN DropEntry(cache, k) ELSE cache
    /\ UNCHANGED <<ttl, generation, refreshes, process, lostBelow>>

\* refresh: it joins, is served by the grace window, or leads and captures the
\* generation; the GET goes to the process that runs now.
Refresh(r) ==
    /\ readers[r].pc = "admit"
    /\ LET k == readers[r].key
           st == refreshes[k]
           at == CASE ttl = 0 -> "alone"
                   [] ttl > 0 /\ st = "grace" -> "idle"
                   [] ttl > 0 /\ st \in Readers -> "join"
                   [] OTHER -> "lead"
       IN /\ readers' = [readers EXCEPT ![r] =
                 CASE at = "lead" -> [@ EXCEPT !.pc = at, !.gen = generation, !.process = process]
                   [] at = "join" -> [@ EXCEPT !.pc = at, !.on = st]
                   [] OTHER -> [@ EXCEPT !.pc = at]]
          /\ refreshes' = IF at = "lead" THEN [refreshes EXCEPT ![k] = r] ELSE refreshes
    /\ UNCHANGED <<ttl, cache, generation, process, lostBelow>>

\* With the cache off every request fetches for itself.
FetchedAlone(r) ==
    /\ readers[r].pc = "alone"
    /\ readers' = [readers EXCEPT ![r] = NoReader]
    /\ UNCHANGED <<ttl, cache, generation, refreshes, process, lostBelow>>

\* Variant: whatever comes back is stored, whenever the fetch began.
CacheableUnfenced(r, kind, size) == kind = "list" /\ size <= MaxEntryBytes

\* _fetch_and_store: a list within the entry cap, of a generation still current.
Cacheable(r, kind, size) == kind = "list" /\ size <= MaxEntryBytes /\ readers[r].gen = generation

Waits(x, r) == readers[x].pc = "join" /\ readers[x].on = r

\* The leader's fetch ends with a body: a list, something else, or too much.
\* The flight stays joinable for the grace window unless it was detached.
Fetched(r, kind, size) ==
    /\ readers[r].pc = "lead"
    /\ LET k == readers[r].key
       IN /\ cache' = IF Cacheable(r, kind, size) THEN Store(cache, k, size, readers[r].process) ELSE cache
          /\ refreshes' = IF refreshes[k] = r THEN [refreshes EXCEPT ![k] = "grace"] ELSE refreshes
    /\ readers' = [x \in Readers |-> IF x = r \/ Waits(x, r) THEN NoReader ELSE readers[x]]
    /\ UNCHANGED <<ttl, generation, process, lostBelow>>

\* An upstream error ends the flight for everybody; a cancelled leader leaves
\* the joiners to start over.
FetchFailed(r, cancelled) ==
    /\ readers[r].pc = "lead"
    /\ LET k == readers[r].key
       IN refreshes' = IF refreshes[k] = r THEN [refreshes EXCEPT ![k] = NoFlightOf] ELSE refreshes
    /\ readers' = [x \in Readers |-> IF Waits(x, r) /\ cancelled THEN [readers[x] EXCEPT !.pc = "admit", !.on = "none"]
                                     ELSE IF x = r \/ Waits(x, r) THEN NoReader ELSE readers[x]]
    /\ UNCHANGED <<ttl, cache, generation, process, lostBelow>>

GraceEnds(k) ==
    /\ refreshes[k] = "grace"
    /\ refreshes' = [refreshes EXCEPT ![k] = NoFlightOf]
    /\ UNCHANGED <<ttl, cache, generation, readers, process, lostBelow>>

Ages ==
    /\ \E i \in DOMAIN cache.entries : cache.entries[i].age < ttl
    /\ cache' = [cache EXCEPT !.entries = [i \in DOMAIN @ |-> [@[i] EXCEPT !.age = Min({@ + 1, ttl})]]]
    /\ UNCHANGED <<ttl, generation, refreshes, readers, process, lostBelow>>

-----------------------------------------------------------------------------
(* The upstream process is restarted; the hub notices later.               *)

Restart ==
    /\ process <= MaxRestarts
    /\ process' = process + 1
    /\ UNCHANGED <<ttl, cache, generation, refreshes, readers, lostBelow>>

Invalidate ==
    /\ lostBelow < process
    /\ lostBelow' = process
    /\ cache' = [entries |-> <<>>, retained |-> 0] /\ generation' = generation + 1
    /\ UNCHANGED <<ttl, refreshes, readers, process>>

\* shutdown: entries and flights go, running fetches do not.
CacheShutdown ==
    /\ cache' = [entries |-> <<>>, retained |-> 0]
    /\ refreshes' = [k \in CatalogKeys |-> NoFlightOf]
    /\ UNCHANGED <<ttl, generation, readers, process, lostBelow>>

CatalogNext ==
    \/ \E r \in Readers :
          \/ (\E k \in CatalogKeys : Lookup(r, k)) \/ Refresh(r) \/ FetchedAlone(r)
          \/ (\E kind \in {"list", "other"}, size \in BodySizes : Fetched(r, kind, size))
          \/ (\E cancelled \in BOOLEAN : FetchFailed(r, cancelled))
    \/ \E k \in CatalogKeys : GraceEnds(k)
    \/ Ages \/ Restart \/ Invalidate \/ CacheShutdown

-----------------------------------------------------------------------------
\* A cached body never outlives, past the notice of its loss, the process that
\* produced it: what was fetched from a lost process is not in the cache, even
\* if the fetch was under way when the loss was noticed (the generation fence).
CachedBodyIsLive == \A i \in DOMAIN cache.entries : cache.entries[i].process >= lostBelow

\* The books of the cache: one entry per key, both caps, the byte count, and
\* insertion order being the order of age, on which oldest-first eviction rests.
CacheIsAccounted ==
    LET es == cache.entries
    IN /\ cache.retained = SizeOf(es) /\ cache.retained <= MaxCachedBytes /\ Len(es) <= MaxCached
       /\ \A i, j \in DOMAIN es : i < j => es[i].key # es[j].key /\ es[i].age >= es[j].age
===============================================================================
