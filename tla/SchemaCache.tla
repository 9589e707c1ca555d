----------------------------- MODULE SchemaCache -----------------------------
(***************************************************************************)
(* SchemaRegistryClient and its LRUCache: concurrent lookups of schemas    *)
(* and of the list of subjects, answered from the cache or by requests to  *)
(* a registry that changes meanwhile.                                      *)
(*                                                                         *)
(* The cache is touched between awaits only, so a lookup is one step up to *)
(* its request and one step from the response on.  In between lie other    *)
(* lookups, clear_cache(), the clock and the registry: responses arrive in *)
(* any order.                                                              *)
(***************************************************************************)
EXTENDS Integers, Sequences, SequencesExt

CONSTANTS
  Schemas,     \* cache keys of get_schema_by_id and get_schema_by_subject
  Subjects,    \* "all_subjects", the key of get_subjects
  Callers,
  MaxSize,     \* cache_max_size
  Ttl,         \* cache_ttl_seconds
  Timeout,     \* how long a request may take: what timeout_seconds, which httpx
               \* applies to each wait of a request, comes to in all
  MaxVersion,  \* BOUND: for each key, up to which version the registry takes it
  MaxTime      \* BOUND: how far the clock goes

ASSUME CacheAssumption ==
  /\ Subjects \notin Schemas
  /\ MaxSize \in Nat /\ Ttl \in Nat /\ Timeout \in Nat
  /\ MaxVersion \in [Schemas \union {Subjects} -> Nat] /\ MaxTime \in Nat

Keys == Schemas \union {Subjects}

NoTime == -1

VARIABLES
  order,     \* the keys of the OrderedDict, least recently used first
  entry,     \* value and created_at of each key in the dictionary
  open,      \* is there an HTTP client that has not been closed
  now,
  registry,  \* when each version of each key was replaced
  recency,   \* history: the keys in the order of their last use
  pc,        \* where each lookup stands
  key,       \* the key it looks up
  asked,     \* when it sent its request
  value      \* the version it has in hand

cacheVars == <<order, entry, recency>>
callVars == <<pc, key, asked, value>>
vars == <<order, entry, open, now, registry, recency, pc, key, asked, value>>

\* "requesting": the registry has not read the request; "responding": the
\* response is under way; "idle": before the first lookup and after one that has
\* returned; "raised": after one that has raised.
Pending == {"requesting", "responding"}
CallerPC == {"idle", "raised"} \union Pending

Init ==
  /\ order = << >>
  /\ entry = << >>
  /\ open = FALSE
  /\ now = 0
  /\ registry \in [Keys -> {<< >>, <<NoTime>>}]
  /\ recency = << >>
  /\ pc = [c \in Callers |-> "idle"]
  /\ key = [c \in Callers |-> Subjects]
  /\ asked = [c \in Callers |-> NoTime]
  /\ value = [c \in Callers |-> 0]

\* Version 0 is a schema that does not exist, and the empty list of subjects.
Version(k) == Len(registry[k])

-----------------------------------------------------------------------------
(* LRUCache *)

Cached(k) == Contains(order, k)

\* Mutant: an entry expires only when it is replaced.
NeverExpired(k) == FALSE

Expired(k) == now - entry[k].created > Ttl

\* Deletion of a key, which occurs at most once.
Without(s, k) ==
  IF Contains(s, k) THEN RemoveAt(s, CHOOSE i \in 1..Len(s) : s[i] = k) ELSE s

ToEnd(s, k) == Append(Without(s, k), k)

\* get() of an entry that has expired deletes it, and of one that has not makes
\* it the most recently used.
Get(k) ==
  /\ order' = CASE Cached(k) /\ Expired(k)  -> Without(order, k)
                [] Cached(k) /\ ~Expired(k) -> ToEnd(order, k)
                [] OTHER                    -> order
  /\ entry' = Restrict(entry, ToSet(order'))
  /\ recency' = IF Cached(k) /\ ~Expired(k) THEN ToEnd(recency, k) ELSE recency

\* Mutant: a full cache is noticed one entry too late.
EvictedLate(s) == IF Len(s) > MaxSize + 1 THEN Tail(s) ELSE s

Evicted(s) == IF Len(s) > MaxSize THEN Tail(s) ELSE s

\* Mutant: a key that is in the dictionary keeps its place.
SetInPlace(k, v) ==
  /\ order' = IF Cached(k) THEN order ELSE Evicted(Append(order, k))
  /\ entry' = [e \in ToSet(order') |->
                IF e = k THEN [value |-> v, created |-> now] ELSE entry[e]]
  /\ recency' = ToEnd(recency, k)

\* set(): the new entry is the most recently used; beyond max_size the least
\* recently used goes, expired or not.
Set(k, v) ==
  /\ order' = Evicted(ToEnd(order, k))
  /\ entry' = [e \in ToSet(order') |->
                IF e = k THEN [value |-> v, created |-> now] ELSE entry[e]]
  /\ recency' = ToEnd(recency, k)

-----------------------------------------------------------------------------
(* Lookups *)

\* What a fresh entry answers; an empty list of subjects counts as no entry.
IsHit(k) ==
  /\ Cached(k) /\ ~Expired(k)
  /\ k = Subjects => entry[k].value # 0

Becomes(c, state, k, t, v) ==
  /\ pc' = [pc EXCEPT ![c] = state]
  /\ key' = [key EXCEPT ![c] = k]
  /\ asked' = [asked EXCEPT ![c] = t]
  /\ value' = [value EXCEPT ![c] = v]

Ends(c, state) == Becomes(c, state, Subjects, NoTime, 0)

\* A list of subjects is returned as it is cached.  A cached schema already holds
\* the field `cached` that the constructor is given once more: TypeError.
LookupHits(c, k) ==
  /\ pc[c] \notin Pending
  /\ IsHit(k)
  /\ Get(k)
  /\ Ends(c, IF k = Subjects THEN "idle" ELSE "raised")
  /\ UNCHANGED <<open, now, registry>>

\* Otherwise the registry is asked.  A client that was never connected answers
\* None at once; one that was closed raises, which is caught.
LookupMisses(c, k) ==
  /\ pc[c] \notin Pending
  /\ ~IsHit(k)
  /\ Get(k)
  /\ IF open THEN Becomes(c, "requesting", k, now, 0) ELSE Ends(c, "idle")
  /\ UNCHANGED <<open, now, registry>>

\* The registry reads the request.
RegistryAnswers(c) ==
  /\ pc[c] = "requesting"
  /\ Becomes(c, "responding", key[c], asked[c], Version(key[c]))
  /\ UNCHANGED <<cacheVars, open, now, registry>>

\* The response arrives: it is cached and returned, and 404 is None.
ResponseArrives(c) ==
  /\ pc[c] = "responding"
  /\ IF key[c] # Subjects /\ value[c] = 0
     THEN UNCHANGED cacheVars
     ELSE Set(key[c], value[c])
  /\ Ends(c, "idle")
  /\ UNCHANGED <<open, now, registry>>

\* Any error of the request, the timeout among them, is logged.
RequestFails(c) ==
  /\ pc[c] \in Pending
  /\ Ends(c, "idle")
  /\ UNCHANGED <<cacheVars, open, now, registry>>

-----------------------------------------------------------------------------
(* The rest of the client, and its environment *)

Connect ==
  /\ open' = TRUE
  /\ UNCHANGED <<cacheVars, now, registry, callVars>>

\* The client is closed and the cache kept; requests under way fail or, if their
\* response is in already, do not.
Disconnect ==
  /\ open' = FALSE
  /\ UNCHANGED <<cacheVars, now, registry, callVars>>

ClearCache ==
  /\ order' = << >> /\ entry' = << >>
  /\ UNCHANGED <<recency, open, now, registry, callVars>>

\* A schema or a version of it is registered.
RegistryChanges(k) ==
  /\ Version(k) < MaxVersion[k]
  /\ registry' = [registry EXCEPT ![k] = Append(@, now)]
  /\ UNCHANGED <<cacheVars, open, now, callVars>>

\* Time passes; no request outlives Timeout.
Tick ==
  /\ now < MaxTime /\ now' = now + 1
  /\ \A c \in Callers : pc[c] \in Pending => now < asked[c] + Timeout
  /\ UNCHANGED <<cacheVars, open, registry, callVars>>

Next ==
  \/ \E c \in Callers, k \in Keys : LookupHits(c, k) \/ LookupMisses(c, k)
  \/ \E c \in Callers : RegistryAnswers(c) \/ ResponseArrives(c) \/ RequestFails(c)
  \/ Connect \/ Disconnect \/ ClearCache \/ Tick
  \/ \E k \in Keys : RegistryChanges(k)

Spec == Init /\ [][Next]_vars

-----------------------------------------------------------------------------
(* Properties *)

\* Every variable holds a value the code can produce; no key is in the
\* dictionary twice and it never holds more than max_size.
TypeOK ==
  /\ order \in Seq(Keys) /\ IsInjective(order) /\ Len(order) <= MaxSize
  /\ entry \in [ToSet(order) -> [value : Nat, created : 0..now]]
  /\ open \in BOOLEAN
  /\ now \in 0..MaxTime
  /\ registry \in [Keys -> Seq(NoTime..now)]
  /\ recency \in Seq(Keys) /\ IsInjective(recency)
  /\ pc \in [Callers -> CallerPC] /\ key \in [Callers -> Keys]
  /\ asked \in [Callers -> Nat \union {NoTime}]
  /\ value \in [Callers -> Nat]

\* Version v of key k was current at some moment since t.
CurrentSince(k, v, t) == Version(k) = v \/ registry[k][v + 1] >= t

\* What a lookup would take from the cache was current within the last
\* time-to-live and one request, however responses overtake each other, the cache
\* is cleared while they are under way and an older response overwrites a newer
\* one.  (A cleared cache can be filled again by a response from before: only time
\* limits how old an answer is.)
HitsAreFresh ==
  \A k \in Keys :
    IsHit(k) => CurrentSince(k, entry[k].value, now - Ttl - Timeout)

\* The dictionary is ordered by last use, through hits, refetches, expiries and
\* clears, so what is evicted is what has not been used for longest.
OrderedByUse ==
  \A i, j \in DOMAIN order : i < j =>
    \E m, n \in DOMAIN recency : m < n /\ recency[m] = order[i] /\ recency[n] = order[j]

=============================================================================
