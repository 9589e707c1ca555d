-------------------------- MODULE SchemaCacheProofs --------------------------
(***************************************************************************)
(* Theorems about SchemaCache for every set of keys and callers, every     *)
(* cache size, time-to-live and request timeout.                           *)
(***************************************************************************)
EXTENDS SchemaCache, SequenceTheorems, TLAPS

-----------------------------------------------------------------------------
(* The dictionary *)

\* Deleting a key that is there moves those behind it one place forward.
LEMMA WithoutElements ==
  ASSUME NEW S, NEW s \in Seq(S), NEW k, Contains(s, k)
  PROVE  /\ Without(s, k) \in Seq(S) /\ Len(Without(s, k)) = Len(s) - 1
         /\ \E i \in 1..Len(s) :
              /\ s[i] = k
              /\ \A j \in 1..Len(Without(s, k)) :
                   Without(s, k)[j] = IF j < i THEN s[j] ELSE s[j + 1]
<1> DEFINE i == CHOOSE j \in 1..Len(s) : s[j] = k
           q == RemoveAt(s, i)
<1>1. i \in 1..Len(s) /\ s[i] = k /\ Without(s, k) = q
  BY DEF Without, Contains
<1>2. Len(s) \in Nat /\ DOMAIN s = 1..Len(s)
  OBVIOUS
<1> HIDE DEF i
<1>3. /\ q \in Seq(S) /\ Len(q) = Len(s) - 1
      /\ \A j \in 1..Len(q) : q[j] = IF j < i THEN s[j] ELSE s[j + 1]
  <2> DEFINE u == SubSeq(s, 1, i - 1)
             w == SubSeq(s, i + 1, Len(s))
  <2>1. /\ u \in Seq(S) /\ Len(u) = i - 1
        /\ \A j \in 1..(i - 1) : u[j] = s[j]
    BY <1>1, <1>2, SubSeqProperties
  <2>2. /\ w \in Seq(S) /\ Len(w) = Len(s) - i
        /\ \A j \in 1..(Len(s) - i) : w[j] = s[i + j]
    <3>1. /\ i + 1 \in 1..(Len(s) + 1) /\ Len(s) \in 0..Len(s) /\ i + 1 <= Len(s) + 1
          /\ i \in Nat /\ Len(s) \in Nat
      BY <1>1, <1>2
    <3>2. /\ w \in Seq(S)
          /\ Len(w) = IF i + 1 <= Len(s) THEN Len(s) - (i + 1) + 1 ELSE 0
          /\ \A j \in 1..(Len(s) - (i + 1) + 1) : w[j] = s[(i + 1) + j - 1]
      BY <3>1, SubSeqProperties
    <3> HIDE DEF w
    <3> QED
      BY <1>1, <3>1, <3>2
  <2>3. q = u \o w
    BY DEF RemoveAt
  <2> HIDE DEF u, w, q
  <2>4. /\ q \in Seq(S) /\ Len(q) = Len(u) + Len(w)
        /\ \A j \in 1..(Len(u) + Len(w)) :
             q[j] = IF j <= Len(u) THEN u[j] ELSE w[j - Len(u)]
    BY <2>1, <2>2, <2>3, ConcatProperties
  <2> QED
    BY <1>1, <1>2, <2>1, <2>2, <2>4
<1> HIDE DEF q
<1> QED
  BY <1>1, <1>3

\* Deleting a key leaves the others, each at one place, and one place less.
LEMMA WithoutProperties ==
  ASSUME NEW S, NEW s \in Seq(S), IsInjective(s), NEW k
  PROVE  /\ Without(s, k) \in Seq(S)
         /\ IsInjective(Without(s, k))
         /\ ToSet(Without(s, k)) = ToSet(s) \ {k}
         /\ Len(Without(s, k)) = IF Contains(s, k) THEN Len(s) - 1 ELSE Len(s)
<1>1. CASE ~Contains(s, k)
  <2>1. Without(s, k) = s
    BY <1>1 DEF Without
  <2>2. k \notin ToSet(s)
    BY <1>1 DEF Contains, ToSet
  <2> QED
    BY <1>1, <2>1, <2>2
<1>2. CASE Contains(s, k)
  <2> DEFINE q == Without(s, k)
  <2>1. PICK i \in 1..Len(s) :
          /\ s[i] = k
          /\ \A j \in 1..Len(q) : q[j] = IF j < i THEN s[j] ELSE s[j + 1]
    BY <1>2, WithoutElements
  <2>2. q \in Seq(S) /\ Len(q) = Len(s) - 1
    BY <1>2, WithoutElements
  <2>3. /\ Len(s) \in Nat /\ DOMAIN s = 1..Len(s)
        /\ \A j \in 1..Len(s) : s[j] \in S
        /\ \A j, l \in 1..Len(s) : s[j] = s[l] => j = l
    BY DEF IsInjective
  <2>4. /\ q \in Seq(S) /\ Len(q) = Len(s) - 1
        /\ \A j \in 1..Len(q) : q[j] = IF j < i THEN s[j] ELSE s[j + 1]
    BY <2>1, <2>2
  <2> HIDE DEF q
  <2>5. DOMAIN q = 1..Len(q)
    BY <2>4
  <2>6. IsInjective(q)
    BY <2>1, <2>3, <2>4, <2>5 DEF IsInjective
  <2>7. ASSUME NEW x \in ToSet(q) PROVE x \in ToSet(s) \ {k}
    <3>1. PICK j \in 1..Len(q) : x = q[j]
      BY <2>5, <2>7 DEF ToSet
    <3>2. PICK l \in 1..Len(s) : l # i /\ x = s[l]
      <4>1. CASE j < i
        BY <2>1, <2>3, <2>4, <3>1, <4>1
      <4>2. CASE ~(j < i)
        <5>1. j + 1 \in 1..Len(s) /\ j + 1 # i /\ x = s[j + 1]
          BY <2>1, <2>3, <2>4, <3>1, <4>2
        <5> QED
          BY <5>1
      <4> QED
        BY <4>1, <4>2
    <3>3. x # k
      BY <2>1, <2>3, <3>2
    <3> QED
      BY <2>3, <3>2, <3>3 DEF ToSet
  <2>8. ASSUME NEW x \in ToSet(s) \ {k} PROVE x \in ToSet(q)
    <3>1. PICK j \in 1..Len(s) : x = s[j]
      BY <2>3, <2>8 DEF ToSet
    <3>2. j # i
      BY <2>1, <2>8, <3>1
    <3>3. CASE j < i
      BY <2>1, <2>3, <2>4, <2>5, <3>1, <3>3 DEF ToSet
    <3>4. CASE j > i
      <4>1. j - 1 \in 1..Len(q) /\ q[j - 1] = x
        BY <2>1, <2>3, <2>4, <3>1, <3>4
      <4> QED
        BY <2>5, <4>1 DEF ToSet
    <3> QED
      BY <2>1, <2>3, <3>2, <3>3, <3>4
  <2> QED
    BY <1>2, <2>2, <2>4, <2>6, <2>7, <2>8 DEF q
<1> QED
  BY <1>1, <1>2

\* A key that is moved or added to the end is there once.
LEMMA ToEndProperties ==
  ASSUME NEW S, NEW s \in Seq(S), IsInjective(s), NEW k \in S
  PROVE  /\ ToEnd(s, k) \in Seq(S)
         /\ IsInjective(ToEnd(s, k))
         /\ ToSet(ToEnd(s, k)) = ToSet(s) \union {k}
         /\ Len(ToEnd(s, k)) = IF Contains(s, k) THEN Len(s) ELSE Len(s) + 1
<1> DEFINE w == Without(s, k)
<1>1. /\ w \in Seq(S) /\ IsInjective(w) /\ ToSet(w) = ToSet(s) \ {k}
      /\ Len(w) = IF Contains(s, k) THEN Len(s) - 1 ELSE Len(s)
  BY WithoutProperties
<1>2. ToEnd(s, k) = Append(w, k)
  BY DEF ToEnd
<1> HIDE DEF w
<1> DEFINE e == Append(w, k)
<1>3. /\ e \in Seq(S) /\ Len(e) = Len(w) + 1 /\ DOMAIN e = 1..(Len(w) + 1)
      /\ \A i \in 1..Len(w) : e[i] = w[i]
      /\ e[Len(w) + 1] = k
  BY <1>1, AppendProperties
<1>4. Len(w) \in Nat /\ DOMAIN w = 1..Len(w) /\ Len(s) \in Nat
  BY <1>1
<1> HIDE DEF e
<1>5. \A i \in 1..Len(w) : w[i] # k
  BY <1>1, <1>4 DEF ToSet
<1>6. IsInjective(e)
  <2> SUFFICES ASSUME NEW i \in 1..(Len(w) + 1), NEW j \in 1..(Len(w) + 1), e[i] = e[j]
               PROVE  i = j
    BY <1>3 DEF IsInjective
  <2>1. CASE i \in 1..Len(w) /\ j \in 1..Len(w)
    BY <1>1, <1>3, <1>4, <2>1 DEF IsInjective
  <2> QED
    BY <1>3, <1>4, <1>5, <2>1
<1>7. ToSet(e) = ToSet(w) \union {k}
  <2>1. ToSet(e) \subseteq ToSet(w) \union {k}
    BY <1>3, <1>4 DEF ToSet
  <2>2. ToSet(w) \subseteq ToSet(e)
    BY <1>3, <1>4 DEF ToSet
  <2>3. k \in ToSet(e)
    BY <1>3, <1>4 DEF ToSet
  <2> QED
    BY <2>1, <2>2, <2>3
<1> QED
  BY <1>1, <1>2, <1>3, <1>4, <1>6, <1>7 DEF e

\* Eviction keeps the dictionary within max_size, and adds nothing.
LEMMA EvictedProperties ==
  ASSUME NEW S, NEW s \in Seq(S), IsInjective(s), Len(s) <= MaxSize + 1
  PROVE  /\ Evicted(s) \in Seq(S)
         /\ IsInjective(Evicted(s))
         /\ ToSet(Evicted(s)) \subseteq ToSet(s)
         /\ Len(Evicted(s)) <= MaxSize
<1>1. MaxSize \in Nat /\ Len(s) \in Nat /\ DOMAIN s = 1..Len(s)
  BY CacheAssumption
<1>2. CASE Len(s) <= MaxSize
  BY <1>1, <1>2 DEF Evicted
<1>3. CASE Len(s) > MaxSize
  <2>1. Evicted(s) = Tail(s) /\ s # << >>
    BY <1>1, <1>3 DEF Evicted
  <2>2. /\ Tail(s) \in Seq(S) /\ Len(Tail(s)) = Len(s) - 1
        /\ \A i \in 1..Len(Tail(s)) : Tail(s)[i] = s[i + 1]
    BY <2>1, HeadTailProperties
  <2>3. DOMAIN Tail(s) = 1..(Len(s) - 1)
    BY <2>2
  <2>4. IsInjective(Tail(s))
    BY <1>1, <2>2, <2>3 DEF IsInjective
  <2>5. ToSet(Tail(s)) \subseteq ToSet(s)
    BY <1>1, <2>2, <2>3 DEF ToSet
  <2> QED
    BY <1>1, <1>3, <2>1, <2>2, <2>4, <2>5
<1> QED
  BY <1>1, <1>2, <1>3

-----------------------------------------------------------------------------
(* How old what is cached can be *)

\* A version that exists, and was current at some moment since t.
Known(k, v, t) == v \in 0..Version(k) /\ CurrentSince(k, v, t)

\* An entry is at most one request older than its created_at.
EntriesAreKnown ==
  \A k \in ToSet(order) : Known(k, entry[k].value, entry[k].created - Timeout)

\* No request outlives Timeout, and a response under way was read from the
\* registry after its request was sent.
RequestsAreRecent ==
  \A c \in Callers : pc[c] \in Pending => asked[c] \in 0..now /\ now <= asked[c] + Timeout

ResponsesAreKnown ==
  \A c \in Callers : pc[c] = "responding" => Known(key[c], value[c], asked[c])

IInv == TypeOK /\ EntriesAreKnown /\ RequestsAreRecent /\ ResponsesAreKnown

LEMMA CachedIsInOrder ==
  ASSUME TypeOK, NEW k PROVE Cached(k) <=> k \in ToSet(order)
BY DEF Cached, Contains, ToSet, TypeOK

\* The registry is as it was, or one version of one key is replaced.
RegistryStep ==
  \/ registry' = registry
  \/ \E h \in Keys : registry' = [registry EXCEPT ![h] = Append(@, now)]

\* What was known stays known.
LEMMA KnownStaysKnown ==
  ASSUME TypeOK, NEW k \in Keys, NEW v, NEW t \in Int, Known(k, v, t), t <= now,
         RegistryStep
  PROVE  /\ v \in 0..Len(registry'[k])
         /\ Len(registry'[k]) = v \/ registry'[k][v + 1] >= t
<1> USE DEF Known, CurrentSince, Version, RegistryStep
<1>1. registry[k] \in Seq(NoTime..now) /\ now \in Nat /\ registry \in [Keys -> Seq(NoTime..now)]
  BY DEF TypeOK
<1>2. NoTime = -1
  BY DEF NoTime
<1>3. Len(registry[k]) \in Nat /\ \A i \in 1..Len(registry[k]) : registry[k][i] \in Int
  BY <1>1, <1>2
<1>4. CASE registry'[k] = registry[k]
  <2>1. CASE Len(registry[k]) = v
    BY <1>4, <2>1
  <2>2. CASE Len(registry[k]) # v
    <3>1. v + 1 \in 1..Len(registry[k]) /\ registry[k][v + 1] >= t
      BY <1>3, <2>2
    <3> QED
      BY <1>3, <1>4, <3>1
  <2> QED
    BY <2>1, <2>2
<1>5. CASE registry'[k] = Append(registry[k], now)
  <2>1. /\ Len(registry'[k]) = Len(registry[k]) + 1
        /\ registry'[k][Len(registry[k]) + 1] = now
        /\ \A i \in 1..Len(registry[k]) : registry'[k][i] = registry[k][i]
    BY <1>1, <1>5, AppendProperties
  <2>2. CASE Len(registry[k]) = v
    BY <1>1, <1>3, <2>1, <2>2
  <2>3. CASE Len(registry[k]) # v
    <3>1. v + 1 \in 1..Len(registry[k]) /\ registry[k][v + 1] >= t
      BY <1>3, <2>3
    <3>2. registry'[k][v + 1] >= t
      BY <1>3, <2>1, <3>1
    <3>3. v \in 0..Len(registry'[k])
      BY <1>3, <2>1
    <3> QED
      BY <3>2, <3>3
  <2> QED
    BY <2>2, <2>3
<1> QED
  BY <1>1, <1>4, <1>5

LEMMA InitInvariant == Init => IInv
<1> SUFFICES ASSUME Init PROVE IInv
  OBVIOUS
<1>1. << >> \in Seq(Keys) /\ IsInjective(<< >>) /\ ToSet(<< >>) = {} /\ Len(<< >>) = 0
  BY DEF IsInjective, ToSet
<1>2. <<NoTime>> \in Seq(NoTime..0) /\ << >> \in Seq(NoTime..0)
  BY DEF NoTime
<1>3. registry \in [Keys -> Seq(NoTime..now)]
  BY <1>2 DEF Init
<1>4. entry \in [ToSet(order) -> [value : Nat, created : 0..now]]
  BY <1>1 DEF Init
<1>5. \A c \in Callers : pc[c] = "idle"
  BY DEF Init
<1>6. TypeOK
  <2>1. order \in Seq(Keys) /\ IsInjective(order) /\ Len(order) <= MaxSize
    BY <1>1, CacheAssumption DEF Init
  <2>2. recency \in Seq(Keys) /\ IsInjective(recency)
    BY <1>1 DEF Init
  <2>3. /\ pc \in [Callers -> CallerPC] /\ key \in [Callers -> Keys]
        /\ asked \in [Callers -> Nat \union {NoTime}] /\ value \in [Callers -> Nat]
    BY DEF Init, Keys, CallerPC
  <2>4. now \in 0..MaxTime
    BY CacheAssumption DEF Init
  <2>5. open \in BOOLEAN
    BY Zenon DEF Init
  <2> QED
    BY <1>3, <1>4, <2>1, <2>2, <2>3, <2>4, <2>5 DEF TypeOK
<1> QED
  BY <1>1, <1>5, <1>6
     DEF Init, IInv, EntriesAreKnown, RequestsAreRecent, ResponsesAreKnown, Pending

\* The part of TypeOK about the dictionary.
DictionaryOK ==
  /\ order \in Seq(Keys) /\ IsInjective(order) /\ Len(order) <= MaxSize
  /\ entry \in [ToSet(order) -> [value : Nat, created : 0..now]]
  /\ recency \in Seq(Keys) /\ IsInjective(recency)

\* get() drops entries or keeps them as they are.
LEMMA GetKeeps ==
  ASSUME TypeOK, EntriesAreKnown, NEW k \in Keys, Get(k), UNCHANGED <<now, registry>>
  PROVE  DictionaryOK' /\ EntriesAreKnown'
<1> USE DEF TypeOK
<1>1. /\ order' \in Seq(Keys) /\ IsInjective(order') /\ Len(order') <= MaxSize
      /\ ToSet(order') \subseteq ToSet(order)
  <2>1. MaxSize \in Nat /\ Len(order) \in Nat
    BY CacheAssumption
  <2>2. CASE Cached(k) /\ Expired(k)
    <3>1. order' = Without(order, k)
      BY <2>2 DEF Get
    <3> QED
      BY <2>1, <2>2, <3>1, WithoutProperties DEF Cached
  <2>3. CASE Cached(k) /\ ~Expired(k)
    <3>1. order' = ToEnd(order, k)
      BY <2>3 DEF Get
    <3>2. k \in ToSet(order)
      BY <2>3, CachedIsInOrder
    <3> QED
      BY <2>1, <2>3, <3>1, <3>2, ToEndProperties DEF Cached
  <2>4. CASE ~Cached(k)
    BY <2>4 DEF Get
  <2> QED
    BY <2>2, <2>3, <2>4
<1>2. /\ entry' = [e \in ToSet(order') |-> entry[e]]
      /\ entry' \in [ToSet(order') -> [value : Nat, created : 0..now']]
  BY <1>1 DEF Get, Restrict
<1>3. recency' \in Seq(Keys) /\ IsInjective(recency')
  BY ToEndProperties DEF Get
<1>4. EntriesAreKnown'
  BY <1>1, <1>2 DEF EntriesAreKnown, Known, CurrentSince, Version
<1> QED
  BY <1>1, <1>2, <1>3, <1>4 DEF DictionaryOK

\* set() of what was current when the request was sent.
LEMMA SetKeeps ==
  ASSUME TypeOK, EntriesAreKnown, NEW k \in Keys, NEW v \in Nat, Set(k, v),
         Known(k, v, now - Timeout), UNCHANGED <<now, registry>>
  PROVE  DictionaryOK' /\ EntriesAreKnown'
<1> USE DEF TypeOK
<1>1. /\ ToEnd(order, k) \in Seq(Keys) /\ IsInjective(ToEnd(order, k))
      /\ ToSet(ToEnd(order, k)) = ToSet(order) \union {k}
      /\ Len(ToEnd(order, k)) <= MaxSize + 1
  <2>1. MaxSize \in Nat /\ Len(order) \in Nat
    BY CacheAssumption
  <2>2. order \in Seq(Keys) /\ IsInjective(order) /\ Len(order) <= MaxSize
    OBVIOUS
  <2> HIDE DEF TypeOK
  <2>3. /\ ToEnd(order, k) \in Seq(Keys) /\ IsInjective(ToEnd(order, k))
        /\ ToSet(ToEnd(order, k)) = ToSet(order) \union {k}
        /\ Len(ToEnd(order, k)) = IF Contains(order, k) THEN Len(order) ELSE Len(order) + 1
    BY ONLY <2>2, k \in Keys, ToEndProperties
  <2> QED
    BY <2>1, <2>2, <2>3
<1>2. /\ order' \in Seq(Keys) /\ IsInjective(order') /\ Len(order') <= MaxSize
      /\ ToSet(order') \subseteq ToSet(order) \union {k}
  BY <1>1, EvictedProperties DEF Set
<1>3. now \in Nat
  BY CacheAssumption
<1>4. /\ \A e \in ToSet(order') :
           entry'[e] = IF e = k THEN [value |-> v, created |-> now] ELSE entry[e]
      /\ DOMAIN entry' = ToSet(order')
      /\ entry' = [e \in ToSet(order') |-> entry'[e]]
  BY DEF Set
<1>5. \A e \in ToSet(order') : entry'[e] \in [value : Nat, created : 0..now]
  <2> SUFFICES ASSUME NEW e \in ToSet(order')
               PROVE  entry'[e] \in [value : Nat, created : 0..now]
    OBVIOUS
  <2>1. CASE e = k
    BY <1>3, <1>4, <2>1
  <2>2. CASE e # k
    BY <1>2, <1>4, <2>2
  <2> QED
    BY <2>1, <2>2
<1>6. entry' \in [ToSet(order') -> [value : Nat, created : 0..now']]
  BY <1>4, <1>5
<1>7. recency' \in Seq(Keys) /\ IsInjective(recency')
  BY ToEndProperties DEF Set
<1>8. EntriesAreKnown'
  <2> SUFFICES ASSUME NEW e \in ToSet(order')
               PROVE  Known(e, entry'[e].value, entry'[e].created - Timeout)
    BY DEF EntriesAreKnown, Known, CurrentSince, Version
  <2>1. CASE e = k
    BY <1>4, <2>1
  <2>2. CASE e # k
    BY <1>2, <1>4, <2>2 DEF EntriesAreKnown
  <2> QED
    BY <2>1, <2>2
<1> QED
  BY <1>2, <1>6, <1>7, <1>8 DEF DictionaryOK

\* A lookup that is idle or has raised has no part in the invariant.
LEMMA EndsKeeps ==
  ASSUME IInv, NEW c \in Callers, NEW s \in {"idle", "raised"}, Ends(c, s),
         DictionaryOK', EntriesAreKnown', UNCHANGED <<open, now, registry>>
  PROVE  IInv'
<1> USE DEF IInv
<1>1. /\ pc' = [pc EXCEPT ![c] = s] /\ key' = [key EXCEPT ![c] = Subjects]
      /\ asked' = [asked EXCEPT ![c] = NoTime] /\ value' = [value EXCEPT ![c] = 0]
  BY DEF Ends, Becomes
<1>2. TypeOK'
  BY <1>1 DEF TypeOK, DictionaryOK, CallerPC, Keys
<1>3. \A d \in Callers : pc'[d] \in Pending =>
        /\ pc'[d] = pc[d] /\ key'[d] = key[d]
        /\ asked'[d] = asked[d] /\ value'[d] = value[d]
  BY <1>1 DEF TypeOK, Pending
<1>4. RequestsAreRecent'
  BY <1>3 DEF RequestsAreRecent
<1>5. ResponsesAreKnown'
  BY <1>3 DEF ResponsesAreKnown, Pending, Known, CurrentSince, Version
<1> QED
  BY <1>2, <1>4, <1>5

\* A step that leaves the dictionary and the lookups alone, and of the registry
\* and the clock one at most.
LEMMA EnvironmentKeeps ==
  ASSUME IInv, UNCHANGED <<cacheVars, callVars>>, TypeOK', RequestsAreRecent', now' \in Nat,
         RegistryStep
  PROVE  IInv'
<1> USE DEF IInv
<1>1. EntriesAreKnown'
  <2> SUFFICES ASSUME NEW k \in ToSet(order)
               PROVE  Known(k, entry[k].value, entry[k].created - Timeout)'
    BY DEF EntriesAreKnown, cacheVars
  <2> DEFINE v == entry[k].value
             t == entry[k].created - Timeout
  <2>1. k \in Keys /\ t \in Int /\ t <= now
    <3>1. k \in Keys
      BY DEF TypeOK, ToSet
    <3>2. entry[k].created \in 0..now /\ now \in Nat /\ Timeout \in Nat
      BY CacheAssumption DEF TypeOK
    <3> QED
      BY <3>1, <3>2
  <2>2. Known(k, v, t)
    BY DEF EntriesAreKnown
  <2>3. v' = v /\ t' = t
    BY DEF cacheVars
  <2> HIDE DEF v, t
  <2>4. /\ v \in 0..Len(registry'[k])
        /\ Len(registry'[k]) = v \/ registry'[k][v + 1] >= t
    BY <2>1, <2>2, KnownStaysKnown
  <2>5. Known(k, v, t)'
    BY <2>3, <2>4 DEF Known, CurrentSince, Version
  <2> QED
    BY <2>5 DEF v, t
<1>2. ResponsesAreKnown'
  <2> SUFFICES ASSUME NEW c \in Callers, pc[c] = "responding"
               PROVE  Known(key[c], value[c], asked[c])'
    BY DEF ResponsesAreKnown, callVars
  <2>1. key[c] \in Keys /\ asked[c] \in Int /\ asked[c] <= now
    BY DEF TypeOK, RequestsAreRecent, Pending
  <2>2. Known(key[c], value[c], asked[c])
    BY DEF ResponsesAreKnown
  <2> DEFINE k == key[c]
             v == value[c]
             t == asked[c]
  <2>3. k' = k /\ v' = v /\ t' = t
    BY DEF callVars
  <2> HIDE DEF k, v, t
  <2>4. k \in Keys /\ t \in Int /\ t <= now /\ Known(k, v, t)
    BY <2>1, <2>2 DEF k, v, t
  <2>5. /\ v \in 0..Len(registry'[k])
        /\ Len(registry'[k]) = v \/ registry'[k][v + 1] >= t
    BY <2>4, KnownStaysKnown
  <2>6. Known(k, v, t)'
    BY <2>3, <2>5 DEF Known, CurrentSince, Version
  <2> QED
    BY <2>6 DEF k, v, t
<1> QED
  BY <1>1, <1>2

LEMMA HitsKeep ==
  ASSUME IInv, NEW c \in Callers, NEW k \in Keys, LookupHits(c, k)
  PROVE  IInv'
<1>1. Get(k) /\ UNCHANGED <<open, now, registry>>
  BY DEF LookupHits
<1>2. PICK s \in {"idle", "raised"} : Ends(c, s)
  BY DEF LookupHits
<1>3. DictionaryOK' /\ EntriesAreKnown'
  BY <1>1, GetKeeps DEF IInv
<1> QED
  BY <1>1, <1>2, <1>3, EndsKeeps

LEMMA MissesKeep ==
  ASSUME IInv, NEW c \in Callers, NEW k \in Keys, LookupMisses(c, k)
  PROVE  IInv'
<1>1. Get(k) /\ UNCHANGED <<open, now, registry>>
  BY DEF LookupMisses
<1>2. DictionaryOK' /\ EntriesAreKnown'
  BY <1>1, GetKeeps DEF IInv
<1>3. CASE ~open
  <2>1. Ends(c, "idle")
    BY <1>3 DEF LookupMisses
  <2> QED
    BY <1>1, <1>2, <2>1, EndsKeeps
<1>4. CASE open
  <2>1. /\ pc' = [pc EXCEPT ![c] = "requesting"] /\ key' = [key EXCEPT ![c] = k]
        /\ asked' = [asked EXCEPT ![c] = now] /\ value' = [value EXCEPT ![c] = 0]
    BY <1>4 DEF LookupMisses, Becomes
  <2>2. now \in Nat /\ Timeout \in Nat
    BY CacheAssumption DEF IInv, TypeOK
  <2>3. TypeOK'
    BY <1>1, <1>2, <2>1, <2>2 DEF IInv, TypeOK, DictionaryOK, CallerPC, Pending
  <2>4. \A d \in Callers \ {c} :
          pc'[d] = pc[d] /\ key'[d] = key[d] /\ asked'[d] = asked[d] /\ value'[d] = value[d]
    BY <2>1 DEF IInv, TypeOK
  <2>5. pc'[c] = "requesting" /\ asked'[c] = now
    BY <2>1 DEF IInv, TypeOK
  <2>6. RequestsAreRecent'
    BY <1>1, <2>2, <2>4, <2>5 DEF IInv, RequestsAreRecent
  <2>7. ResponsesAreKnown'
    BY <1>1, <2>4, <2>5 DEF IInv, ResponsesAreKnown, Known, CurrentSince, Version
  <2> QED
    BY <1>2, <2>3, <2>6, <2>7 DEF IInv
<1> QED
  BY <1>3, <1>4

LEMMA AnswersKeep ==
  ASSUME IInv, NEW c \in Callers, RegistryAnswers(c)
  PROVE  IInv'
<1>1. /\ pc[c] = "requesting"
      /\ pc' = [pc EXCEPT ![c] = "responding"] /\ key' = [key EXCEPT ![c] = key[c]]
      /\ asked' = [asked EXCEPT ![c] = asked[c]]
      /\ value' = [value EXCEPT ![c] = Version(key[c])]
      /\ UNCHANGED <<order, entry, recency, open, now, registry>>
  BY DEF RegistryAnswers, Becomes, cacheVars
<1>2. key[c] \in Keys /\ Version(key[c]) \in Nat
  BY DEF IInv, TypeOK, Version
<1>3. TypeOK'
  BY <1>1, <1>2 DEF IInv, TypeOK, CallerPC, Pending
<1>4. EntriesAreKnown'
  BY <1>1 DEF IInv, EntriesAreKnown, Known, CurrentSince, Version
<1>5. /\ \A d \in Callers : key'[d] = key[d] /\ asked'[d] = asked[d]
      /\ \A d \in Callers \ {c} : pc'[d] = pc[d] /\ value'[d] = value[d]
      /\ value'[c] = Version(key[c])
  BY <1>1 DEF IInv, TypeOK
<1>6. RequestsAreRecent'
  BY <1>1, <1>5 DEF IInv, RequestsAreRecent, Pending
<1>7. ResponsesAreKnown'
  BY <1>1, <1>2, <1>5 DEF IInv, ResponsesAreKnown, Known, CurrentSince, Version
<1> QED
  BY <1>3, <1>4, <1>6, <1>7 DEF IInv

LEMMA ResponsesKeep ==
  ASSUME IInv, NEW c \in Callers, ResponseArrives(c)
  PROVE  IInv'
<1>1. /\ pc[c] = "responding" /\ Ends(c, "idle") /\ UNCHANGED <<open, now, registry>>
  BY DEF ResponseArrives
<1>2. CASE UNCHANGED cacheVars
  <2>1. DictionaryOK' /\ EntriesAreKnown'
    BY <1>1, <1>2 DEF IInv, TypeOK, DictionaryOK, cacheVars,
                      EntriesAreKnown, Known, CurrentSince, Version
  <2> QED
    BY <1>1, <2>1, EndsKeeps
<1>3. CASE Set(key[c], value[c])
  <2> DEFINE k == key[c]
             v == value[c]
  <2>1. k \in Keys /\ v \in Nat /\ asked[c] \in Nat /\ now \in Nat /\ Timeout \in Nat
    BY <1>1, CacheAssumption DEF IInv, TypeOK, RequestsAreRecent, Pending
  <2>2. now - Timeout <= asked[c]
    BY <1>1, <2>1 DEF IInv, RequestsAreRecent, Pending
  <2>3. Known(k, v, asked[c])
    BY <1>1 DEF IInv, ResponsesAreKnown
  <2>4. v = Len(registry[k]) \/ (v + 1 \in 1..Len(registry[k]) /\ registry[k][v + 1] \in Int)
    BY <2>1, <2>3 DEF IInv, TypeOK, Known, Version, NoTime
  <2>5. Known(k, v, now - Timeout)
    BY <2>1, <2>2, <2>3, <2>4 DEF Known, CurrentSince, Version
  <2>6. Set(k, v)
    BY <1>3
  <2> HIDE DEF k, v
  <2>7. DictionaryOK' /\ EntriesAreKnown'
    BY <1>1, <2>1, <2>5, <2>6, SetKeeps DEF IInv
  <2> QED
    BY <1>1, <2>7, EndsKeeps
<1> QED
  BY <1>2, <1>3 DEF ResponseArrives

LEMMA FailuresKeep ==
  ASSUME IInv, NEW c \in Callers, RequestFails(c)
  PROVE  IInv'
<1>1. Ends(c, "idle") /\ UNCHANGED <<order, entry, recency, open, now, registry>>
  BY DEF RequestFails, cacheVars
<1>2. DictionaryOK' /\ EntriesAreKnown'
  BY <1>1 DEF IInv, TypeOK, DictionaryOK, EntriesAreKnown, Known, CurrentSince, Version
<1> QED
  BY <1>1, <1>2, EndsKeeps

LEMMA ClearKeeps == ASSUME IInv, ClearCache PROVE IInv'
<1>1. /\ order' = << >> /\ entry' = << >>
      /\ UNCHANGED <<recency, open, now, registry, pc, key, asked, value>>
  BY DEF ClearCache, callVars
<1>2. << >> \in Seq(Keys) /\ IsInjective(<< >>) /\ ToSet(<< >>) = {} /\ Len(<< >>) = 0
  BY DEF IsInjective, ToSet
<1>3. entry' \in [ToSet(order') -> [value : Nat, created : 0..now']]
  BY <1>1, <1>2
<1>4. order' \in Seq(Keys) /\ IsInjective(order') /\ Len(order') <= MaxSize
  BY <1>1, <1>2, CacheAssumption
<1>5. TypeOK'
  BY <1>1, <1>3, <1>4 DEF IInv, TypeOK
<1>6. EntriesAreKnown'
  BY <1>1, <1>2 DEF EntriesAreKnown
<1>7. RequestsAreRecent' /\ ResponsesAreKnown'
  BY <1>1 DEF IInv, RequestsAreRecent, ResponsesAreKnown, Known, CurrentSince, Version
<1> QED
  BY <1>5, <1>6, <1>7 DEF IInv

LEMMA TickKeeps == ASSUME IInv, Tick PROVE IInv'
<1>1. /\ now < MaxTime /\ now' = now + 1
      /\ \A c \in Callers : pc[c] \in Pending => now < asked[c] + Timeout
      /\ UNCHANGED <<cacheVars, callVars>> /\ UNCHANGED <<open, registry>>
  BY DEF Tick
<1>2. now \in 0..MaxTime /\ MaxTime \in Nat /\ Timeout \in Nat
  BY CacheAssumption DEF IInv, TypeOK
<1>3. now' \in 0..MaxTime
  BY <1>1, <1>2
<1>4. entry \in [ToSet(order) -> [value : Nat, created : 0..now']]
  <2>1. 0..now \subseteq 0..now'
    BY <1>1, <1>2
  <2> QED
    BY <2>1 DEF IInv, TypeOK
<1>5. registry \in [Keys -> Seq(NoTime..now')]
  <2>1. NoTime..now \subseteq NoTime..now'
    BY <1>1, <1>2 DEF NoTime
  <2>2. Seq(NoTime..now) \subseteq Seq(NoTime..now')
    BY <2>1, SeqMonotonic
  <2> QED
    BY <2>2 DEF IInv, TypeOK
<1>6. TypeOK'
  BY <1>1, <1>3, <1>4, <1>5 DEF IInv, TypeOK, cacheVars, callVars
<1>7. RequestsAreRecent'
  BY <1>1, <1>2 DEF IInv, TypeOK, RequestsAreRecent, callVars
<1> QED
  BY <1>1, <1>2, <1>3, <1>6, <1>7, EnvironmentKeeps DEF RegistryStep

LEMMA ChangesKeep == ASSUME IInv, NEW k \in Keys, RegistryChanges(k) PROVE IInv'
<1>1. /\ registry' = [registry EXCEPT ![k] = Append(@, now)]
      /\ UNCHANGED <<cacheVars, callVars>> /\ UNCHANGED <<open, now>>
  BY DEF RegistryChanges
<1>2. now \in NoTime..now /\ now \in Nat
  BY CacheAssumption DEF IInv, TypeOK, NoTime
<1>3. registry' \in [Keys -> Seq(NoTime..now)]
  <2>1. Append(registry[k], now) \in Seq(NoTime..now)
    BY <1>2, AppendProperties DEF IInv, TypeOK
  <2> QED
    BY <1>1, <2>1 DEF IInv, TypeOK
<1>4. TypeOK'
  BY <1>1, <1>3 DEF IInv, TypeOK, cacheVars, callVars
<1>5. RequestsAreRecent'
  BY <1>1 DEF IInv, RequestsAreRecent, callVars
<1> QED
  BY <1>1, <1>2, <1>4, <1>5, EnvironmentKeeps DEF RegistryStep

\* Opening or closing the client.
LEMMA ClientKeeps == ASSUME IInv, Connect \/ Disconnect PROVE IInv'
<1>1. /\ open' \in BOOLEAN
      /\ UNCHANGED <<cacheVars, callVars>> /\ UNCHANGED <<now, registry>>
  BY DEF Connect, Disconnect
<1>2. TypeOK'
  BY <1>1 DEF IInv, TypeOK, cacheVars, callVars
<1>3. RequestsAreRecent'
  BY <1>1 DEF IInv, RequestsAreRecent, callVars
<1>4. now' \in Nat
  BY <1>1, CacheAssumption DEF IInv, TypeOK
<1> QED
  BY <1>1, <1>2, <1>3, <1>4, EnvironmentKeeps DEF RegistryStep

LEMMA StepKeepsInvariant == IInv /\ [Next]_vars => IInv'
<1> SUFFICES ASSUME IInv, [Next]_vars PROVE IInv'
  OBVIOUS
<1>1. ASSUME NEW c \in Callers, NEW k \in Keys, LookupHits(c, k) PROVE IInv'
  BY <1>1, HitsKeep
<1>2. ASSUME NEW c \in Callers, NEW k \in Keys, LookupMisses(c, k) PROVE IInv'
  BY <1>2, MissesKeep
<1>3. ASSUME NEW c \in Callers, RegistryAnswers(c) PROVE IInv'
  BY <1>3, AnswersKeep
<1>4. ASSUME NEW c \in Callers, ResponseArrives(c) PROVE IInv'
  BY <1>4, ResponsesKeep
<1>5. ASSUME NEW c \in Callers, RequestFails(c) PROVE IInv'
  BY <1>5, FailuresKeep
<1>6. CASE Connect \/ Disconnect
  BY <1>6, ClientKeeps
<1>7. CASE ClearCache
  BY <1>7, ClearKeeps
<1>8. CASE Tick
  BY <1>8, TickKeeps
<1>9. ASSUME NEW k \in Keys, RegistryChanges(k) PROVE IInv'
  BY <1>9, ChangesKeep
<1>10. CASE UNCHANGED vars
  <2> QED
    BY <1>10 DEF vars, IInv, TypeOK, EntriesAreKnown, RequestsAreRecent,
                 ResponsesAreKnown, Known, CurrentSince, Version
<1> QED
  BY <1>1, <1>2, <1>3, <1>4, <1>5, <1>6, <1>7, <1>8, <1>9, <1>10 DEF Next

LEMMA InvariantHolds == Spec => []IInv
BY InitInvariant, StepKeepsInvariant, PTL DEF Spec

\* Whatever the interleaving of lookups, the OrderedDict holds no key twice, never
\* more than max_size entries, and an entry for each key it orders.
THEOREM TypeCorrect == Spec => []TypeOK
<1>1. IInv => TypeOK
  BY DEF IInv
<1> QED
  BY <1>1, InvariantHolds, PTL

\* LRUCache.get() never hands out what was not current within the last
\* time-to-live and one request timeout.
THEOREM CacheAnswersAreFresh == Spec => []HitsAreFresh
<1>1. IInv => HitsAreFresh
  <2> SUFFICES ASSUME IInv, NEW k \in Keys, IsHit(k)
               PROVE  CurrentSince(k, entry[k].value, now - Ttl - Timeout)
    BY DEF HitsAreFresh
  <2>1. k \in ToSet(order) /\ now - entry[k].created <= Ttl
    <3>1. Cached(k) /\ ~(now - entry[k].created > Ttl)
      BY DEF IsHit, Expired
    <3>2. k \in ToSet(order)
      BY <3>1, CachedIsInOrder DEF IInv
    <3>3. entry[k].created \in Int /\ now \in Int /\ Ttl \in Int
      BY <3>2, CacheAssumption DEF IInv, TypeOK
    <3> QED
      BY <3>1, <3>2, <3>3
  <2> DEFINE v == entry[k].value
             t == entry[k].created - Timeout
  <2>2. /\ v \in Nat /\ t \in Int /\ now - Ttl - Timeout \in Int
        /\ now - Ttl - Timeout <= t
    BY <2>1, CacheAssumption DEF IInv, TypeOK
  <2>3. Known(k, v, t)
    BY <2>1 DEF IInv, EntriesAreKnown
  <2> HIDE DEF v, t
  <2>4. v = Len(registry[k]) \/ (v + 1 \in 1..Len(registry[k]) /\ registry[k][v + 1] \in Int)
    BY <2>2, <2>3 DEF IInv, TypeOK, Known, Version, NoTime
  <2> QED
    BY <2>2, <2>3, <2>4 DEF Known, CurrentSince, Version, v
<1> QED
  BY <1>1, InvariantHolds, PTL

-----------------------------------------------------------------------------
(* The order of use *)

\* a comes before b in s.
Before(s, a, b) == \E m, n \in DOMAIN s : m < n /\ s[m] = a /\ s[n] = b

\* Deleting a key keeps the order of the others.
LEMMA WithoutOrder ==
  ASSUME NEW S, NEW s \in Seq(S), IsInjective(s), NEW k, NEW a, NEW b
  PROVE  Before(Without(s, k), a, b) <=> Before(s, a, b) /\ a # k /\ b # k
<1>1. CASE ~Contains(s, k)
  <2>1. Without(s, k) = s
    BY <1>1 DEF Without
  <2>2. \A m \in DOMAIN s : s[m] # k
    BY <1>1 DEF Contains
  <2> QED
    BY <2>1, <2>2 DEF Before
<1>2. CASE Contains(s, k)
  <2> DEFINE q == Without(s, k)
  <2>1. PICK i \in 1..Len(s) :
          /\ s[i] = k
          /\ \A j \in 1..Len(q) : q[j] = IF j < i THEN s[j] ELSE s[j + 1]
    BY <1>2, WithoutElements
  <2>2. /\ Len(q) = Len(s) - 1 /\ Len(s) \in Nat
        /\ DOMAIN q = 1..Len(q) /\ DOMAIN s = 1..Len(s)
    BY <1>2, WithoutElements
  <2>3. \A j, l \in 1..Len(s) : s[j] = s[l] => j = l
    BY DEF IsInjective
  <2> HIDE DEF q
  <2>4. ASSUME Before(q, a, b) PROVE Before(s, a, b) /\ a # k /\ b # k
    <3>1. PICK m, n \in 1..Len(q) : m < n /\ q[m] = a /\ q[n] = b
      BY <2>2, <2>4 DEF Before
    <3> DEFINE old(j) == IF j < i THEN j ELSE j + 1
    <3>2. /\ old(m) \in 1..Len(s) /\ old(n) \in 1..Len(s) /\ old(m) < old(n)
          /\ old(m) # i /\ old(n) # i
      BY <2>2, <3>1
    <3>3. s[old(m)] = a /\ s[old(n)] = b
      BY <2>1, <3>1
    <3> HIDE DEF old
    <3> QED
      BY <2>1, <2>2, <2>3, <3>2, <3>3 DEF Before
  <2>5. ASSUME Before(s, a, b), a # k, b # k PROVE Before(q, a, b)
    <3>1. PICK m, n \in 1..Len(s) : m < n /\ s[m] = a /\ s[n] = b
      BY <2>2, <2>5 DEF Before
    <3> DEFINE new(j) == IF j < i THEN j ELSE j - 1
    <3>2. m # i /\ n # i
      BY <2>1, <2>5, <3>1
    <3>3. new(m) \in 1..Len(q) /\ new(n) \in 1..Len(q) /\ new(m) < new(n)
      BY <2>2, <3>1, <3>2
    <3>4. /\ q[new(m)] = IF new(m) < i THEN s[new(m)] ELSE s[new(m) + 1]
          /\ q[new(n)] = IF new(n) < i THEN s[new(n)] ELSE s[new(n) + 1]
      BY <2>1, <3>3
    <3>5. q[new(m)] = a /\ q[new(n)] = b
      BY <2>2, <3>1, <3>2, <3>4
    <3> HIDE DEF new
    <3> QED
      BY <2>2, <3>3, <3>5 DEF Before
  <2> QED
    BY <2>4, <2>5 DEF q
<1> QED
  BY <1>1, <1>2

\* A key at the end comes after every other.
LEMMA ToEndOrder ==
  ASSUME NEW S, NEW s \in Seq(S), IsInjective(s), NEW k \in S, NEW a, NEW b
  PROVE  Before(ToEnd(s, k), a, b) <=>
           \/ Before(s, a, b) /\ a # k /\ b # k
           \/ b = k /\ a # k /\ a \in ToSet(s)
<1> DEFINE w == Without(s, k)
<1>1. /\ w \in Seq(S) /\ ToSet(w) = ToSet(s) \ {k}
      /\ Before(w, a, b) <=> Before(s, a, b) /\ a # k /\ b # k
  BY WithoutProperties, WithoutOrder
<1>2. ToEnd(s, k) = Append(w, k)
  BY DEF ToEnd
<1> HIDE DEF w
<1> DEFINE e == Append(w, k)
<1>3. /\ DOMAIN e = 1..(Len(w) + 1) /\ DOMAIN w = 1..Len(w) /\ Len(w) \in Nat
      /\ \A i \in 1..Len(w) : e[i] = w[i]
      /\ e[Len(w) + 1] = k
  BY <1>1, AppendProperties
<1> HIDE DEF e
<1>4. ASSUME Before(e, a, b)
      PROVE  Before(w, a, b) \/ (b = k /\ a \in ToSet(w))
  <2>1. PICK m, n \in 1..(Len(w) + 1) : m < n /\ e[m] = a /\ e[n] = b
    BY <1>3, <1>4 DEF Before
  <2>2. m \in 1..Len(w) /\ a = w[m]
    BY <1>3, <2>1
  <2>3. CASE n = Len(w) + 1
    BY <1>3, <2>1, <2>2, <2>3 DEF ToSet
  <2>4. CASE n # Len(w) + 1
    <3>1. n \in 1..Len(w) /\ b = w[n]
      BY <1>3, <2>1, <2>4
    <3> QED
      BY <1>3, <2>1, <2>2, <3>1 DEF Before
  <2> QED
    BY <2>3, <2>4
<1>5. ASSUME Before(w, a, b) PROVE Before(e, a, b)
  <2>1. PICK m, n \in 1..Len(w) : m < n /\ w[m] = a /\ w[n] = b
    BY <1>3, <1>5 DEF Before
  <2>2. m \in DOMAIN e /\ n \in DOMAIN e /\ e[m] = a /\ e[n] = b
    BY <1>3, <2>1
  <2> QED
    BY <2>1, <2>2 DEF Before
<1>6. ASSUME b = k, a \in ToSet(w) PROVE Before(e, a, b)
  <2>1. PICK m \in 1..Len(w) : w[m] = a
    BY <1>3, <1>6 DEF ToSet
  <2>2. /\ m \in DOMAIN e /\ Len(w) + 1 \in DOMAIN e /\ m < Len(w) + 1
        /\ e[m] = a /\ e[Len(w) + 1] = b
    BY <1>3, <1>6, <2>1
  <2> QED
    BY <2>2 DEF Before
<1> QED
  BY <1>1, <1>2, <1>4, <1>5, <1>6 DEF e

\* Nothing is in another order after an eviction.
LEMMA EvictedOrder ==
  ASSUME NEW S, NEW s \in Seq(S), NEW a, NEW b, Before(Evicted(s), a, b)
  PROVE  Before(s, a, b)
<1>1. MaxSize \in Nat /\ Len(s) \in Nat /\ DOMAIN s = 1..Len(s)
  BY CacheAssumption
<1>2. CASE Len(s) <= MaxSize
  BY <1>1, <1>2 DEF Evicted
<1>3. CASE Len(s) > MaxSize
  <2>1. Evicted(s) = Tail(s) /\ s # << >>
    BY <1>1, <1>3 DEF Evicted
  <2>2. /\ Len(Tail(s)) = Len(s) - 1 /\ DOMAIN Tail(s) = 1..Len(Tail(s))
        /\ \A i \in 1..Len(Tail(s)) : Tail(s)[i] = s[i + 1]
    BY <2>1, HeadTailProperties
  <2>3. PICK m, n \in 1..Len(Tail(s)) : m < n /\ Tail(s)[m] = a /\ Tail(s)[n] = b
    BY <2>1, <2>2 DEF Before
  <2>4. /\ m + 1 \in DOMAIN s /\ n + 1 \in DOMAIN s /\ m + 1 < n + 1
        /\ s[m + 1] = a /\ s[n + 1] = b
    BY <1>1, <2>2, <2>3
  <2> QED
    BY <2>4 DEF Before
<1> QED
  BY <1>1, <1>2, <1>3

\* Every key of the dictionary has been used, and the dictionary is in the order
\* of the last uses.
UsedInOrder ==
  /\ ToSet(order) \subseteq ToSet(recency)
  /\ \A a, b : Before(order, a, b) => Before(recency, a, b)

\* What the two sequences are to satisfy after a step.
LEMMA UsedInOrderAfter ==
  ASSUME ToSet(order') \subseteq ToSet(recency'),
         \A a, b : Before(order', a, b) => Before(recency', a, b)
  PROVE  UsedInOrder'
BY Zenon DEF UsedInOrder, Before

LEMMA GetKeepsOrder ==
  ASSUME TypeOK, UsedInOrder, NEW k \in Keys, Get(k)
  PROVE  UsedInOrder'
<1> order \in Seq(Keys) /\ IsInjective(order) /\ recency \in Seq(Keys) /\ IsInjective(recency)
  BY DEF TypeOK
<1>1. CASE Cached(k) /\ Expired(k)
  <2>1. order' = Without(order, k) /\ recency' = recency
    BY <1>1 DEF Get
  <2>2. ToSet(order') \subseteq ToSet(order)
    BY <2>1, WithoutProperties
  <2>3. \A a, b : Before(order', a, b) => Before(order, a, b)
    BY <2>1, WithoutOrder
  <2> QED
    BY <2>1, <2>2, <2>3, UsedInOrderAfter DEF UsedInOrder
<1>2. CASE Cached(k) /\ ~Expired(k)
  <2>1. order' = ToEnd(order, k) /\ recency' = ToEnd(recency, k)
    BY <1>2 DEF Get
  <2>2. ToSet(order') = ToSet(order) \union {k} /\ ToSet(recency') = ToSet(recency) \union {k}
    BY <2>1, ToEndProperties
  <2>3. \A a, b : Before(order', a, b) => Before(recency', a, b)
    BY <2>1, ToEndOrder DEF UsedInOrder
  <2> QED
    BY <2>2, <2>3, UsedInOrderAfter DEF UsedInOrder
<1>3. CASE ~Cached(k)
  BY <1>3, UsedInOrderAfter DEF Get, UsedInOrder
<1> QED
  BY <1>1, <1>2, <1>3

LEMMA SetKeepsOrder ==
  ASSUME TypeOK, UsedInOrder, NEW k \in Keys, NEW v, Set(k, v)
  PROVE  UsedInOrder'
<1> order \in Seq(Keys) /\ IsInjective(order) /\ recency \in Seq(Keys) /\ IsInjective(recency)
  BY DEF TypeOK
<1> DEFINE e == ToEnd(order, k)
<1>1. order' = Evicted(e) /\ recency' = ToEnd(recency, k)
  BY DEF Set
<1>2. /\ e \in Seq(Keys) /\ IsInjective(e) /\ Len(e) <= MaxSize + 1
      /\ ToSet(e) = ToSet(order) \union {k}
      /\ ToSet(recency') = ToSet(recency) \union {k}
  <2>1. MaxSize \in Nat /\ Len(order) \in Nat /\ Len(order) <= MaxSize
    BY CacheAssumption DEF TypeOK
  <2>2. /\ e \in Seq(Keys) /\ IsInjective(e) /\ ToSet(e) = ToSet(order) \union {k}
        /\ Len(e) = Len(order) \/ Len(e) = Len(order) + 1
    BY ToEndProperties
  <2>3. ToSet(recency') = ToSet(recency) \union {k}
    BY <1>1, ToEndProperties
  <2> HIDE DEF e
  <2> QED
    BY <2>1, <2>2, <2>3
<1>3. \A a, b : Before(e, a, b) => Before(recency', a, b)
  BY <1>1, ToEndOrder DEF UsedInOrder
<1> HIDE DEF e
<1>4. ToSet(order') \subseteq ToSet(e)
  BY <1>1, <1>2, EvictedProperties
<1>5. \A a, b : Before(order', a, b) => Before(e, a, b)
  BY <1>1, <1>2, EvictedOrder
<1> QED
  BY <1>2, <1>3, <1>4, <1>5, UsedInOrderAfter DEF UsedInOrder

LEMMA OrderStep == TypeOK /\ UsedInOrder /\ [Next]_vars => UsedInOrder'
<1> SUFFICES ASSUME TypeOK, UsedInOrder, [Next]_vars PROVE UsedInOrder'
  OBVIOUS
<1>u. ASSUME UNCHANGED <<order, recency>> PROVE UsedInOrder'
  BY <1>u DEF UsedInOrder, Before
<1>1. ASSUME NEW c \in Callers, NEW k \in Keys, LookupHits(c, k) \/ LookupMisses(c, k)
      PROVE  UsedInOrder'
  BY <1>1, GetKeepsOrder DEF LookupHits, LookupMisses
<1>2. ASSUME NEW c \in Callers, ResponseArrives(c) PROVE UsedInOrder'
  <2>1. key[c] \in Keys
    BY DEF TypeOK
  <2> QED
    BY <1>2, <1>u, <2>1, SetKeepsOrder DEF ResponseArrives, cacheVars
<1>3. CASE ClearCache
  <2>1. ToSet(order') = {} /\ \A a, b : ~Before(order', a, b)
    BY <1>3 DEF ClearCache, ToSet, Before
  <2> QED
    BY <2>1 DEF UsedInOrder, Before
<1>4. ASSUME NEW c \in Callers, RegistryAnswers(c) \/ RequestFails(c) PROVE UsedInOrder'
  BY <1>4, <1>u DEF RegistryAnswers, RequestFails, cacheVars
<1>5. CASE Connect \/ Disconnect \/ Tick
  BY <1>5, <1>u DEF Connect, Disconnect, Tick, cacheVars
<1>6. ASSUME NEW k \in Keys, RegistryChanges(k) PROVE UsedInOrder'
  BY <1>6, <1>u DEF RegistryChanges, cacheVars
<1>7. CASE UNCHANGED vars
  BY <1>7, <1>u DEF vars
<1> QED
  BY <1>1, <1>2, <1>3, <1>4, <1>5, <1>6, <1>7 DEF Next

\* What is evicted is what has not been used for longest, through hits, refetches,
\* expiries and clears in any order.
THEOREM EvictsLeastRecentlyUsed == Spec => []OrderedByUse
<1>1. Init => UsedInOrder
  BY DEF Init, UsedInOrder, ToSet, Before
<1>2. UsedInOrder => OrderedByUse
  BY DEF UsedInOrder, OrderedByUse, Before
<1> QED
  BY <1>1, <1>2, OrderStep, TypeCorrect, PTL DEF Spec

=============================================================================
