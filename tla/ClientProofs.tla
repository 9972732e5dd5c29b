---------------------------- MODULE ClientProofs ----------------------------
(***************************************************************************)
(* What every client keeps to, for any number of calls, any cache size,    *)
(* any TTL and any contexts: what a call finds in the cache is what the    *)
(* server would have said, while it was allowed to be kept.                *)
(*                                                                         *)
(* The cache says of an entry only who stored it.  The invariant therefore *)
(* speaks of the storer: what it stored is what it was granted, and        *)
(* nothing of it changes afterwards, although the call goes on.            *)
(***************************************************************************)
EXTENDS Client, ContextProofs

Secrets == {"encryptSecret", "decryptSecret"}

\* k holds the data key in the wrapped key it sent or was given.
HoldsItsKey(k) == k.ctx \in Contexts /\ k.wrapped \in WrappedKeys /\ k.key = k.wrapped.dek

\* What a call knows at each of its awaits and once it is done.
CallOK(k) ==
    /\ k.pc = "idle" => k = Idle
    /\ k.pc = "fetch" =>
           /\ k.kind \in Operations
           /\ k.ctx \in Contexts
           /\ k.wrapped = None <=> k.kind \in {"encryptSecret", "generateDataKey"}
           /\ k.key = None /\ k.from = None /\ k.wroteAt = None
    /\ k.pc = "import" =>
           /\ k.kind \in Secrets
           /\ k.ctx \in Contexts
           /\ k.key # Malformed => HoldsItsKey(k)
           /\ k.from = None /\ k.wroteAt = None
    /\ k.pc = "open" => k.kind = "decryptSecret" /\ HoldsItsKey(k)
    /\ k.pc # "done" => k.result = None
    /\ k.key = Malformed => k.pc = "import"
    /\ k.result = "ok" /\ k.kind \in {"encryptSecret", "generateDataKey", "reWrap"} =>
           k.wrapped # None
    /\ k.kind = "decryptSecret" /\ (k.pc = "done" => k.key # None) => k.payload # None
    /\ k.kind = "encryptSecret" => k.text \in Texts
    /\ k.kind = "decryptSecret" /\ k.pc = "done" /\ k.key # None => HoldsItsKey(k)

\* A call that has stored its key holds it, and came by it through the server.
StoreOK(k) ==
    k.wroteAt # None =>
        /\ k.pc \in {"open", "done"}
        /\ k.kind \in Secrets
        /\ HoldsItsKey(k)
        /\ k.from = None

\* A call that hit the cache holds what the storer was granted for the same
\* wrapped key and context, stored less than the TTL ago and since the last
\* clear.
HitOK(k) ==
    k.from # None =>
        LET s == call[k.from] IN
        /\ s.wroteAt # None
        /\ s.wrapped = k.wrapped
        /\ s.ctx = k.ctx
        /\ HoldsItsKey(k)
        /\ k.readAt \in Instants
        /\ k.readAt.time < s.wroteAt.time + cacheTtlMs
        /\ k.readAt.clears = s.wroteAt.clears

\* What is decrypted was sealed by a call that has returned.
PayloadOK(k) ==
    k.payload # None => call[k.payload].result = "ok" /\ call[k.payload].kind = "encryptSecret"

\* A payload was opened with its own key and context, or refused.
OpenedOK(k) ==
    k.pc = "done" /\ k.kind = "decryptSecret" /\ k.key # None =>
        (k.result = "ok" <=> PayloadOpens(k))

Sound(k) == CallOK(k) /\ StoreOK(k) /\ HitOK(k) /\ PayloadOK(k) /\ OpenedOK(k)

\* An entry is what its storer stored, since the last clear.
EntryOK(e) ==
    LET s == call[e.by] IN
    /\ s.wroteAt # None
    /\ e.cacheKey = CacheKeyFor(s.wrapped, s.ctx)
    /\ e.key = s.key
    /\ e.expiresAt = s.wroteAt.time + cacheTtlMs
    /\ s.wroteAt.clears = clears

CacheEntries ==
    [cacheKey  : {CacheKeyFor(w, c) : w \in WrappedKeys, c \in Contexts},
     key       : Calls,
     expiresAt : 0 .. MaxTime + cacheTtlMs,
     by        : Calls]

\* The cache's ttl and the two bounds.
Scalars == cacheTtlMs \in Ttls /\ clock \in 0 .. MaxTime /\ clears \in 0 .. MaxClears

\* Every call is of its type and sound.
CallsInv ==
    /\ call \in [Calls -> CallStates]
    /\ \A r \in Calls : Sound(call[r])

\* A Map has one entry per key.
OneEntryPerKey ==
    \A i, j \in DOMAIN cache : cache[i].cacheKey = cache[j].cacheKey => i = j

\* Every entry answers to the call that stored it, one per key, within the maximum.
CacheInv ==
    /\ cache \in Seq(CacheEntries)
    /\ \A i \in DOMAIN cache : EntryOK(cache[i])
    /\ OneEntryPerKey
    /\ CacheBounded

\* The inductive invariant.
IInv == Scalars /\ CallsInv /\ CacheInv

-----------------------------------------------------------------------------
(***************************************************************************)
(* The cache, as a sequence.                                               *)
(***************************************************************************)
\* A cache key stands for one wrapped key under one context.
LEMMA CacheKeyStandsForOne ==
    ASSUME NEW w \in WrappedKeys, NEW v \in WrappedKeys,
           NEW c \in Contexts, NEW d \in Contexts,
           CacheKeyFor(w, c) = CacheKeyFor(v, d)
    PROVE  w = v /\ c = d
  <1>1. w = v /\ CanonicalizeContext(c) = CanonicalizeContext(d)
    BY DEF CacheKeyFor
  <1>2. IsContext(c) /\ IsContext(d)
    BY ClientAssumption
  <1> QED  BY <1>1, <1>2, CanonicalFormsDiffer

\* s holds some of the entries of the cache, each key once, and no more of them.
Thinned(s) ==
    /\ s \in Seq(CacheEntries)
    /\ Len(s) <= Len(cache)
    /\ \A i \in DOMAIN s : \E j \in DOMAIN cache : s[i] = cache[j]
    /\ \A i, j \in DOMAIN s : s[i].cacheKey = s[j].cacheKey => i = j

\* What stands behind the member that is removed moves up by one.
LEMMA RemoveAtRemoves ==
    ASSUME NEW S, NEW q \in Seq(S), NEW e \in 1 .. Len(q)
    PROVE  /\ RemoveAt(q, e) \in Seq(S)
           /\ Len(RemoveAt(q, e)) = Len(q) - 1
           /\ \A i \in 1 .. Len(q) - 1 : RemoveAt(q, e)[i] = q[IF i < e THEN i ELSE i + 1]
  <1> DEFINE s == RemoveAt(q, e)
             n == Len(q)
             a == SubSeq(q, 1, e - 1)
             b == SubSeq(q, e + 1, n)
  <1>1. n \in Nat /\ e \in 1 .. n
    OBVIOUS
  <1>2. a \in Seq(S) /\ Len(a) = e - 1 /\ \A i \in 1 .. e - 1 : a[i] = q[i]
    BY <1>1, SubSeqProperties
  <1>3. b \in Seq(S) /\ Len(b) = n - e /\ \A i \in 1 .. n - e : b[i] = q[e + i]
    BY <1>1, SubSeqProperties
  <1>4. s = a \o b
    BY DEF RemoveAt
  <1> HIDE DEF a, b, s, n
  <1>5. /\ s \in Seq(S)
        /\ Len(s) = Len(a) + Len(b)
        /\ \A i \in 1 .. Len(a) + Len(b) : s[i] = IF i <= Len(a) THEN a[i] ELSE b[i - Len(a)]
    BY <1>2, <1>3, <1>4, ConcatProperties
  <1>6. Len(s) = n - 1
    BY <1>1, <1>2, <1>3, <1>5
  <1>7. ASSUME NEW i \in 1 .. n - 1, i < e
        PROVE  s[i] = q[i]
    <2>1. i \in 1 .. e - 1 /\ i \in 1 .. Len(a) + Len(b)
      BY <1>1, <1>2, <1>3, <1>7
    <2> QED  BY <1>2, <1>5, <2>1
  <1>8. ASSUME NEW i \in 1 .. n - 1, ~ (i < e)
        PROVE  s[i] = q[i + 1]
    <2>1. i - (e - 1) \in 1 .. n - e /\ i \in 1 .. Len(a) + Len(b) /\ ~ (i <= Len(a))
      BY <1>1, <1>2, <1>3, <1>8, SMTT(20)
    <2>2. e + (i - (e - 1)) = i + 1
      BY <1>1, <1>8
    <2>3. s[i] = b[i - Len(a)] /\ i - Len(a) = i - (e - 1)
      BY <1>2, <1>5, <2>1
    <2> QED  BY <1>3, <2>1, <2>2, <2>3
  <1> QED  BY <1>5, <1>6, <1>7, <1>8 DEF s, n

\* What a miss leaves behind is some of the cache.
LEMMA MissThins ==
    ASSUME IInv, NEW cacheKey
    PROVE  Thinned(CacheAfterMiss(cacheKey))
  <1> USE DEF IInv, CacheInv, OneEntryPerKey
  <1>1. CASE cacheTtlMs > 0 /\ Entries(cacheKey) # {}
    <2> DEFINE e == CHOOSE i \in Entries(cacheKey) : TRUE
               s == RemoveAt(cache, e)
               n == Len(cache)
    <2>1. e \in 1 .. n /\ n \in Nat
      BY <1>1 DEF Entries
    <2>2. CacheAfterMiss(cacheKey) = s
      BY <1>1 DEF CacheAfterMiss
    <2> HIDE DEF e
    <2>3. /\ s \in Seq(CacheEntries)
          /\ Len(s) = n - 1
          /\ \A i \in 1 .. n - 1 : s[i] = cache[IF i < e THEN i ELSE i + 1]
      BY <2>1, RemoveAtRemoves
    <2> HIDE DEF s
    <2>4. \A i \in DOMAIN s : (IF i < e THEN i ELSE i + 1) \in DOMAIN cache
      BY <2>1, <2>3
    <2>5. \A i, j \in DOMAIN s : s[i].cacheKey = s[j].cacheKey => i = j
      BY <2>1, <2>3, <2>4, SMTT(20)
    <2> QED  BY <2>1, <2>2, <2>3, <2>4, <2>5 DEF Thinned
  <1>2. CASE ~(cacheTtlMs > 0 /\ Entries(cacheKey) # {})
    BY <1>2 DEF CacheAfterMiss, Thinned
  <1> QED  BY <1>1, <1>2

\* So is what an eviction leaves behind, with room for one entry more.
LEMMA EvictionThins ==
    ASSUME IInv
    PROVE  Thinned(EvictOldest(cache)) /\ Len(EvictOldest(cache)) < MAX_CACHE_ENTRIES
  <1> USE DEF IInv, CacheInv, OneEntryPerKey
  <1>1. CASE Len(cache) >= MAX_CACHE_ENTRIES
    <2> DEFINE s == EvictOldest(cache)
    <2>1. s = Tail(cache) /\ cache # <<>>
      BY <1>1, ClientAssumption DEF EvictOldest
    <2>2. /\ s \in Seq(CacheEntries)
          /\ Len(s) = Len(cache) - 1
          /\ \A i \in 1 .. Len(cache) - 1 : s[i] = cache[i + 1]
      BY <2>1
    <2>3. \A i \in DOMAIN s : i + 1 \in DOMAIN cache
      BY <2>2
    <2>4. \A i, j \in DOMAIN s : s[i].cacheKey = s[j].cacheKey => i = j
      BY <2>2, <2>3
    <2>5. Len(s) < MAX_CACHE_ENTRIES
      BY <2>2, ClientAssumption DEF CacheBounded
    <2>6. \A i \in DOMAIN s : \E j \in DOMAIN cache : s[i] = cache[j]
      BY <2>2, <2>3
    <2> HIDE DEF s
    <2>7. Len(s) <= Len(cache)
      BY <2>2
    <2>8. Thinned(s)
      BY <2>2, <2>4, <2>6, <2>7 DEF Thinned
    <2> QED  BY <2>5, <2>8 DEF s
  <1>2. CASE ~(Len(cache) >= MAX_CACHE_ENTRIES)
    BY <1>2, ClientAssumption DEF EvictOldest, Thinned
  <1> QED  BY <1>1, <1>2

\* Map.set on it adds one entry or replaces the one with its key.
LEMMA MapSetAddsOne ==
    ASSUME NEW s, Thinned(s), NEW e \in CacheEntries
    PROVE  LET t == MapSet(s, e) IN
           /\ t \in Seq(CacheEntries)
           /\ Len(t) <= Len(s) + 1
           /\ \A i \in DOMAIN t : t[i] = e \/ \E j \in DOMAIN cache : t[i] = cache[j]
           /\ \A i, j \in DOMAIN t : t[i].cacheKey = t[j].cacheKey => i = j
  <1> DEFINE t == MapSet(s, e)
  <1> USE DEF Thinned
  <1>1. CASE \E i \in DOMAIN s : s[i].cacheKey = e.cacheKey
    <2>1. t = [i \in DOMAIN s |-> IF s[i].cacheKey = e.cacheKey THEN e ELSE s[i]]
      BY <1>1 DEF MapSet
    <2>2. DOMAIN t = 1 .. Len(s) /\ t \in Seq(CacheEntries) /\ Len(t) = Len(s)
      <3>1. t \in [1 .. Len(s) -> CacheEntries] /\ Len(s) \in Nat
        BY <2>1
      <3> QED  BY <3>1
    <2>3. \A i \in DOMAIN t : t[i].cacheKey = s[i].cacheKey
      BY <2>1, <2>2
    <2> QED  BY <2>1, <2>2, <2>3
  <1>2. CASE ~ \E i \in DOMAIN s : s[i].cacheKey = e.cacheKey
    <2>1. t = Append(s, e)
      BY <1>2 DEF MapSet
    <2>2. /\ t \in Seq(CacheEntries)
          /\ Len(t) = Len(s) + 1
          /\ \A i \in 1 .. Len(s) : t[i] = s[i]
          /\ t[Len(s) + 1] = e
      BY <2>1
    <2>3. \A i \in DOMAIN t : i \in DOMAIN s \/ i = Len(s) + 1
      BY <2>2
    <2> HIDE DEF t
    <2>4. \A i \in DOMAIN t : t[i] = e \/ \E j \in DOMAIN cache : t[i] = cache[j]
      BY <2>2, <2>3
    <2>5. ASSUME NEW i \in DOMAIN t, NEW j \in DOMAIN t, t[i].cacheKey = t[j].cacheKey
          PROVE  i = j
      BY <1>2, <2>2, <2>3, <2>5, SMTT(20)
    <2>6. Len(t) <= Len(s) + 1
      BY <2>2
    <2> QED  BY <2>2, <2>4, <2>5, <2>6 DEF t
  <1> QED  BY <1>1, <1>2

-----------------------------------------------------------------------------
(***************************************************************************)
(* One step of one call.                                                   *)
(***************************************************************************)
\* What others may rely on: what a call has stored, and how it was done.
Keeps(k, l) ==
    /\ k.pc # "done"
    /\ k.wroteAt # None =>
           <<k.wroteAt, k.wrapped, k.ctx, k.key>> = <<l.wroteAt, l.wrapped, l.ctx, l.key>>

\* What calls have stored stays as the cache has it.
StoresKept ==
    \A q \in Calls : call[q].wroteAt # None =>
        /\ call'[q].wroteAt = call[q].wroteAt
        /\ call'[q].wrapped = call[q].wrapped
        /\ call'[q].ctx = call[q].ctx
        /\ call'[q].key = call[q].key

\* A step that takes call r to the state l, sound by itself, leaves every call
\* sound, and what was stored as it is.
LEMMA CallStep ==
    ASSUME IInv, NEW r \in Calls, NEW l \in CallStates,
           call' = [call EXCEPT ![r] = l], cacheTtlMs' = cacheTtlMs,
           Sound(l), Keeps(call[r], l)
    PROVE  CallsInv' /\ StoresKept
  <1> USE DEF IInv, CallsInv
  <1>1. call' \in [Calls -> CallStates]
    OBVIOUS
  <1>2. call'[r] = l /\ \A q \in Calls : q # r => call'[q] = call[q]
    OBVIOUS
  <1>3. StoresKept
    BY <1>2 DEF Keeps, StoresKept
  <1>4. \A q \in Calls : call[q].result = "ok" => call'[q] = call[q]
    BY <1>2, ClientAssumption DEF Keeps, Sound, CallOK, Results
  <1>5. \A q \in Calls : Sound(call'[q])
    BY <1>2
  <1>6. ASSUME NEW q \in Calls
        PROVE  Sound(call[q])'
    <2> DEFINE k == call'[q]
    <2>1. k.from \in Calls \union {None} /\ k.payload \in Calls \union {None}
      BY <1>1 DEF CallStates
    <2>2. CallOK(call[q])' /\ StoreOK(call[q])'
      BY <1>5 DEF Sound, CallOK, StoreOK, HoldsItsKey
    <2>3. HitOK(call[q])'
      <3> SUFFICES ASSUME k.from # None
                   PROVE  HitOK(call[q])'
        BY DEF HitOK
      <3>1. HitOK(k) /\ k.from \in Calls
        BY <1>5, <2>1 DEF Sound
      <3> QED  BY <1>3, <3>1 DEF HitOK, HoldsItsKey, StoresKept
    <2>4. PayloadOK(call[q])'
      <3>1. PayloadOK(k)
        BY <1>5 DEF Sound
      <3> QED  BY <1>4, <2>1, <3>1 DEF PayloadOK
    <2>5. OpenedOK(call[q])'
      <3> SUFFICES ASSUME k.pc = "done", k.kind = "decryptSecret", k.key # None
                   PROVE  (k.result = "ok" <=> PayloadOpens(call[q])')
        BY DEF OpenedOK
      <3>1. k.payload \in Calls /\ call[k.payload].result = "ok"
        BY <1>5, <2>1 DEF Sound, CallOK, PayloadOK
      <3>2. PayloadOpens(call[q])' <=> PayloadOpens(k)
        BY <1>4, <3>1 DEF PayloadOpens
      <3>3. OpenedOK(k)
        BY <1>5 DEF Sound
      <3> QED  BY <3>2, <3>3 DEF OpenedOK
    <2> QED  BY <2>2, <2>3, <2>4, <2>5 DEF Sound
  <1> QED  BY <1>1, <1>3, <1>6

\* An entry that is true to its storer stays so.
LEMMA EntriesKept ==
    ASSUME IInv, StoresKept, clears' = clears, cacheTtlMs' = cacheTtlMs,
           NEW i \in DOMAIN cache, NEW j \in DOMAIN cache', cache'[j] = cache[i]
    PROVE  EntryOK(cache[j])'
  <1>1. EntryOK(cache[i]) /\ cache[i].by \in Calls
    <2>1. cache[i] \in CacheEntries /\ EntryOK(cache[i])
      BY DEF IInv, CacheInv
    <2> QED  BY <2>1 DEF CacheEntries
  <1> QED  BY <1>1 DEF EntryOK, StoresKept

\* A step that leaves the cache alone.
LEMMA CallStepAlone ==
    ASSUME IInv, NEW r \in Calls, NEW l \in CallStates,
           call' = [call EXCEPT ![r] = l], UNCHANGED clientVars,
           Sound(l), Keeps(call[r], l)
    PROVE  IInv'
  <1>1. CallsInv' /\ StoresKept
    BY CallStep DEF clientVars
  <1>2. Scalars'
    BY DEF IInv, Scalars, clientVars
  <1>3. CacheInv'
    <2>1. cache' = cache /\ cache \in Seq(CacheEntries)'
      BY DEF IInv, CacheInv, CacheEntries, clientVars
    <2>2. \A i \in DOMAIN cache' : EntryOK(cache[i])'
      BY <1>1, <2>1, EntriesKept DEF clientVars
    <2> QED  BY <2>1, <2>2 DEF IInv, CacheInv, OneEntryPerKey, CacheBounded
  <1> QED  BY <1>1, <1>2, <1>3 DEF IInv

-----------------------------------------------------------------------------
(***************************************************************************)
(* The actions: calls up to their first await.                             *)
(***************************************************************************)
\* What a service can have in its store are wrapped keys.
LEMMA StoredKeysAreWrapped ==
    ASSUME IInv
    PROVE  StoredKeys \subseteq WrappedKeys
  <1> SUFFICES ASSUME NEW q \in Finished({"encryptSecret", "generateDataKey", "reWrap"})
               PROVE  call[q].wrapped \in WrappedKeys
    BY DEF StoredKeys
  <1>1. q \in Calls /\ call[q].result = "ok"
           /\ call[q].kind \in {"encryptSecret", "generateDataKey", "reWrap"}
    BY DEF Finished
  <1>2. CallOK(call[q]) /\ call[q] \in CallStates
    BY <1>1 DEF IInv, CallsInv, Sound
  <1> QED  BY <1>1, <1>2 DEF CallOK, CallStates

\* A call's fields may be set one by one.
LEMMA FieldsSet ==
    ASSUME NEW k \in CallStates
    PROVE  /\ \A v \in {"idle", "done"} \union Awaits : [k EXCEPT !.pc = v] \in CallStates
           /\ \A v \in Operations \union {None} : [k EXCEPT !.kind = v] \in CallStates
           /\ \A v \in Contexts \union {None} : [k EXCEPT !.ctx = v] \in CallStates
           /\ \A v \in WrappedKeys \union {None} : [k EXCEPT !.wrapped = v] \in CallStates
           /\ \A v \in Calls \union {None} : [k EXCEPT !.payload = v] \in CallStates
           /\ \A v \in Texts \union {Decode(Encode(t)) : t \in Texts} \union {None} :
                  [k EXCEPT !.text = v] \in CallStates
           /\ \A v \in Calls \union {None, Malformed} : [k EXCEPT !.key = v] \in CallStates
           /\ \A v \in Results \union {None} : [k EXCEPT !.result = v] \in CallStates
           /\ \A v \in Calls \union {None} : [k EXCEPT !.from = v] \in CallStates
           /\ \A v \in Instants \union {None} : [k EXCEPT !.readAt = v] \in CallStates
           /\ \A v \in Instants \union {None} : [k EXCEPT !.wroteAt = v] \in CallStates
  BY SMTT(20) DEF CallStates

\* A call that has just been made is sound.
LEMMA CalledIsSound ==
    ASSUME IInv, NEW operation \in Operations, NEW c \in Contexts,
           NEW w \in StoredKeys \union {None}, NEW p \in StoredPayloads \union {None}, NEW l,
           w = None <=> operation \in {"encryptSecret", "generateDataKey"},
           operation = "decryptSecret" => p # None,
           \/ operation # "encryptSecret" /\ l = Called(Idle, operation, c, w, p)
           \/ \E text \in Texts : l = [Called(Idle, operation, c, w, p) EXCEPT !.text = text]
    PROVE  l \in CallStates /\ Sound(l) /\ Keeps(Idle, l)
  <1>1. w \in WrappedKeys \union {None}
    BY StoredKeysAreWrapped
  <1>2. p # None => p \in Calls /\ call[p].result = "ok" /\ call[p].kind = "encryptSecret"
    BY DEF StoredPayloads, Finished
  <1>3. Idle \in CallStates
    BY DEF Idle, CallStates
  <1>4. Called(Idle, operation, c, w, p) \in CallStates
    <2> DEFINE l1 == [Idle EXCEPT !.pc = "fetch"]
               l2 == [l1 EXCEPT !.kind = operation]
               l3 == [l2 EXCEPT !.ctx = c]
               l4 == [l3 EXCEPT !.wrapped = w]
               l5 == [l4 EXCEPT !.payload = p]
    <2>1. l5 = Called(Idle, operation, c, w, p)
      BY DEF Called
    <2> HIDE DEF l1, l2, l3, l4, l5
    <2>2. l1 \in CallStates
      BY <1>3, FieldsSet DEF l1, Awaits
    <2>3. l2 \in CallStates
      BY <2>2, FieldsSet DEF l2
    <2>4. l3 \in CallStates
      BY <2>3, FieldsSet DEF l3
    <2>5. l4 \in CallStates
      BY <1>1, <2>4, FieldsSet DEF l4
    <2>6. l5 \in CallStates
      BY <1>2, <2>5, FieldsSet DEF l5
    <2> QED  BY <2>1, <2>6
  <1>5. l \in CallStates
    BY <1>4, FieldsSet
  <1>6. /\ l.pc = "fetch" /\ l.kind = operation /\ l.ctx = c /\ l.wrapped = w
        /\ l.payload = p /\ (operation = "encryptSecret" => l.text \in Texts)
        /\ l.key = None /\ l.result = None /\ l.from = None /\ l.wroteAt = None
    BY DEF Called, Idle
  <1>7. CallOK(l)
    BY <1>6, ClientAssumption DEF CallOK, Results
  <1>8. StoreOK(l) /\ HitOK(l) /\ PayloadOK(l) /\ OpenedOK(l)
    BY <1>2, <1>6 DEF StoreOK, HitOK, PayloadOK, OpenedOK
  <1>9. Keeps(Idle, l)
    BY DEF Keeps, Idle
  <1> QED  BY <1>5, <1>7, <1>8, <1>9 DEF Sound

\* A call that has not begun knows nothing.
LEMMA IdleCall ==
    ASSUME IInv, NEW r \in Calls, call[r].pc = "idle"
    PROVE  call[r] = Idle
  BY DEF IInv, CallsInv, Sound, CallOK

\* encryptSecret, generateDataKey, decrypt and reWrap send their request.
LEMMA RequestStep ==
    ASSUME IInv, NEW r \in Calls, NEW c \in Contexts,
           \/ \E text \in Texts : EncryptSecret(r, c, text)
           \/ GenerateDataKey(r, c)
           \/ \E w \in StoredKeys : Decrypt(r, w, c) \/ ReWrap(r, w, c)
    PROVE  IInv'
  <1>1. call[r].pc = "idle" /\ UNCHANGED clientVars
    BY DEF EncryptSecret, GenerateDataKey, Decrypt, ReWrap
  <1>2. call[r] = Idle
    BY <1>1, IdleCall
  <1>3. ASSUME NEW operation \in Operations, NEW w \in StoredKeys \union {None}, NEW l,
               w = None <=> operation \in {"encryptSecret", "generateDataKey"},
               operation # "decryptSecret",
               \/ operation # "encryptSecret" /\ l = Called(Idle, operation, c, w, None)
               \/ \E text \in Texts :
                      l = [Called(Idle, operation, c, w, None) EXCEPT !.text = text],
               call' = [call EXCEPT ![r] = l]
        PROVE  IInv'
    <2>1. l \in CallStates /\ Sound(l) /\ Keeps(call[r], l)
      BY <1>2, <1>3, CalledIsSound
    <2> QED  BY <1>1, <1>3, <2>1, CallStepAlone
  <1>4. None \notin WrappedKeys /\ StoredKeys \subseteq WrappedKeys
    BY ClientAssumption, StoredKeysAreWrapped
  <1>5. CASE \E text \in Texts : EncryptSecret(r, c, text)
    <2>1. PICK text \in Texts : EncryptSecret(r, c, text)
      BY <1>5
    <2> DEFINE l == [Called(Idle, "encryptSecret", c, None, None) EXCEPT !.text = text]
    <2>2. call' = [call EXCEPT ![r] = l]
      BY <1>2, <2>1 DEF EncryptSecret
    <2> QED  BY <1>3, <2>2 DEF Operations
  <1>6. CASE GenerateDataKey(r, c)
    BY <1>2, <1>3, <1>6 DEF GenerateDataKey, Operations, PassThrough
  <1>7. CASE \E w \in StoredKeys : Decrypt(r, w, c)
    <2>1. PICK w \in StoredKeys : Decrypt(r, w, c)
      BY <1>7
    <2> DEFINE l == Called(Idle, "decrypt", c, w, None)
    <2>2. call' = [call EXCEPT ![r] = l]
      BY <1>2, <2>1 DEF Decrypt
    <2>3. /\ w # None /\ w \in StoredKeys \union {None}
          /\ "decrypt" \in Operations \ {"encryptSecret", "generateDataKey", "decryptSecret"}
      BY <1>4 DEF Operations, PassThrough
    <2>4. l = Called(Idle, "decrypt", c, w, None)
      OBVIOUS
    <2> HIDE DEF l
    <2> QED  BY <1>3, <2>2, <2>3, <2>4
  <1>8. CASE \E w \in StoredKeys : ReWrap(r, w, c)
    <2>1. PICK w \in StoredKeys : ReWrap(r, w, c)
      BY <1>8
    <2> DEFINE l == Called(Idle, "reWrap", c, w, None)
    <2>2. call' = [call EXCEPT ![r] = l]
      BY <1>2, <2>1 DEF ReWrap
    <2>3. /\ w # None /\ w \in StoredKeys \union {None}
          /\ "reWrap" \in Operations \ {"encryptSecret", "generateDataKey", "decryptSecret"}
      BY <1>4 DEF Operations, PassThrough
    <2>4. l = Called(Idle, "reWrap", c, w, None)
      OBVIOUS
    <2> HIDE DEF l
    <2> QED  BY <1>3, <2>2, <2>3, <2>4
  <1> QED  BY <1>5, <1>6, <1>7, <1>8

\* A call that failed before it had a key is sound.
LEMMA FailedIsSound ==
    ASSUME IInv, NEW r \in Calls, call[r].pc # "done", call[r].wroteAt = None,
           NEW how \in {"KmsClientError", "OtherError"}, NEW l,
           l = Failed(how) \/ l = [Failed(how) EXCEPT !.kind = "decryptSecret"]
    PROVE  l \in CallStates /\ Sound(l) /\ Keeps(call[r], l)
  <1>1. Idle \in CallStates
    BY DEF Idle, CallStates
  <1> DEFINE l1 == [Idle EXCEPT !.pc = "done"]
             l2 == [l1 EXCEPT !.result = how]
  <1>2. Failed(how) = l2
    BY DEF Failed, Ended
  <1>3. l2 \in CallStates
    <2>1. l1 \in CallStates
      BY <1>1, FieldsSet
    <2> HIDE DEF l1
    <2> QED  BY <2>1, FieldsSet DEF Results
  <1> HIDE DEF l2
  <1>4. l \in CallStates
    BY <1>2, <1>3, FieldsSet DEF Operations
  <1>5. /\ l.pc = "done" /\ l.kind \in {None, "decryptSecret"} /\ l.result = how
        /\ l.payload = None /\ l.key = None /\ l.from = None /\ l.wroteAt = None
    BY ZenonT(30) DEF Failed, Ended, Idle
  <1>6. CallOK(l)
    BY <1>5, ClientAssumption DEF CallOK, Operations
  <1>7. StoreOK(l) /\ HitOK(l) /\ PayloadOK(l) /\ OpenedOK(l)
    BY <1>5 DEF StoreOK, HitOK, PayloadOK, OpenedOK
  <1>8. Keeps(call[r], l)
    BY DEF Keeps
  <1> QED  BY <1>4, <1>6, <1>7, <1>8 DEF Sound

\* decryptSecret refuses an envelope that does not parse.
LEMMA DecryptUnparsableStep ==
    ASSUME IInv, NEW r \in Calls, DecryptUnparsable(r)
    PROVE  IInv'
  <1>1. call[r] = Idle /\ UNCHANGED clientVars
    BY IdleCall DEF DecryptUnparsable
  <1>2. call[r].pc # "done" /\ call[r].wroteAt = None
    BY <1>1 DEF Idle
  <1>3. PICK how \in {"KmsClientError", "OtherError"} :
            call' = [call EXCEPT ![r] = [Failed(how) EXCEPT !.kind = "decryptSecret"]]
    BY DEF DecryptUnparsable
  <1> DEFINE l == [Failed(how) EXCEPT !.kind = "decryptSecret"]
  <1>4. l \in CallStates /\ Sound(l) /\ Keeps(call[r], l)
    BY <1>2, FailedIsSound
  <1> HIDE DEF l
  <1>5. call' = [call EXCEPT ![r] = l]
    BY <1>3 DEF l
  <1> QED  BY <1>1, <1>4, <1>5, CallStepAlone

\* decryptSecret finds its key in the cache.  The cache key tells it wrapped key
\* and context, the entry its storer, and the storer what it was granted.
LEMMA DecryptCachedStep ==
    ASSUME IInv, NEW r \in Calls, NEW c \in Contexts, NEW w \in StoredKeys,
           NEW p \in StoredPayloads, DecryptCached(r, w, p, c)
    PROVE  IInv'
  <1>1. call[r] = Idle /\ UNCHANGED clientVars
    BY IdleCall DEF DecryptCached
  <1> DEFINE m == Called(Idle, "decryptSecret", c, w, p)
  <1>2. PICK i \in Hits(CacheKeyFor(w, c)) :
            call' = [call EXCEPT ![r] =
                [m EXCEPT !.pc = "open", !.key = cache[i].key, !.from = cache[i].by, !.readAt = Now]]
    BY <1>1 DEF DecryptCached
  <1> DEFINE e == cache[i]
             s == call[e.by]
             l1 == [m EXCEPT !.pc = "open"]
             l2 == [l1 EXCEPT !.key = e.key]
             l3 == [l2 EXCEPT !.from = e.by]
             l == [l3 EXCEPT !.readAt = Now]
  <1>3. w \in WrappedKeys /\ w # None
    BY StoredKeysAreWrapped, ClientAssumption
  <1>4. p \in Calls /\ p # None /\ call[p].result = "ok" /\ call[p].kind = "encryptSecret"
    BY ClientAssumption DEF StoredPayloads, Finished
  <1>5. m \in CallStates
    <2>1. "decryptSecret" \in Operations
      BY DEF Operations
    <2> QED  BY <1>3, <1>4, <2>1, CalledIsSound
  <1>6. /\ e \in CacheEntries /\ EntryOK(e)
        /\ e.cacheKey = CacheKeyFor(w, c) /\ e.expiresAt > clock
    BY DEF IInv, CacheInv, Hits, Entries, Live
  <1>7. e.by \in Calls /\ e.key \in Calls
    BY <1>6 DEF CacheEntries
  <1>8. s.wroteAt # None /\ HoldsItsKey(s) /\ s.wroteAt \in Instants
    BY <1>6, <1>7 DEF EntryOK, IInv, CallsInv, Sound, StoreOK, CallStates
  <1>9. s.wrapped = w /\ s.ctx = c
    <2>1. s.wrapped \in WrappedKeys /\ s.ctx \in Contexts
      BY <1>8 DEF HoldsItsKey
    <2>2. CacheKeyFor(s.wrapped, s.ctx) = CacheKeyFor(w, c)
      BY <1>6 DEF EntryOK
    <2> HIDE DEF s
    <2> QED  BY <1>3, <2>1, <2>2, CacheKeyStandsForOne
  <1>10. Now \in Instants /\ Now.time = clock /\ Now.clears = clears
    BY DEF IInv, Scalars, Now, Instants
  <1>11. l \in CallStates
    <2> HIDE DEF m, l1, l2, l3, l, e
    <2>1. l1 \in CallStates
      BY <1>5, FieldsSet DEF l1, Awaits
    <2>2. l2 \in CallStates
      BY <1>7, <2>1, FieldsSet DEF l2
    <2>3. l3 \in CallStates
      BY <1>7, <2>2, FieldsSet DEF l3
    <2> QED  BY <1>10, <2>3, FieldsSet DEF l
  <1>12. /\ l.pc = "open" /\ l.kind = "decryptSecret" /\ l.ctx = c /\ l.wrapped = w
         /\ l.payload = p /\ l.key = e.key /\ l.result = None /\ l.from = e.by
         /\ l.readAt = Now /\ l.wroteAt = None
    BY DEF Called, Idle
  <1>13. call' = [call EXCEPT ![r] = l]
    BY <1>2
  <1> HIDE DEF m, l, e
  <1>14. HoldsItsKey(l)
    BY <1>3, <1>6, <1>8, <1>9, <1>12 DEF HoldsItsKey, EntryOK
  <1>15. CallOK(l)
    BY <1>4, <1>7, <1>12, <1>14, ClientAssumption DEF CallOK, Results
  <1>16. HitOK(l)
    <2>1. Now.time < s.wroteAt.time + cacheTtlMs /\ s.wroteAt.clears = Now.clears
      BY <1>6, <1>10 DEF EntryOK, IInv, Scalars
    <2> QED  BY <1>8, <1>9, <1>10, <1>12, <1>14, <2>1 DEF HitOK
  <1>17. StoreOK(l) /\ PayloadOK(l) /\ OpenedOK(l)
    BY <1>4, <1>12 DEF StoreOK, PayloadOK, OpenedOK
  <1>18. Keeps(call[r], l)
    BY <1>1 DEF Keeps, Idle
  <1>19. Sound(l)
    BY <1>15, <1>16, <1>17 DEF Sound
  <1> QED  BY <1>1, <1>11, <1>13, <1>18, <1>19, CallStepAlone

\* A step of the cache and of one call that only takes entries away.
LEMMA ThinningStep ==
    ASSUME IInv, CallsInv', StoresKept, Thinned(cache'),
           UNCHANGED <<cacheTtlMs, clock, clears>>
    PROVE  IInv'
  <1>1. Scalars'
    BY DEF IInv, Scalars
  <1>2. cache' \in Seq(CacheEntries)'
    BY DEF Thinned, CacheEntries
  <1>3. ASSUME NEW j \in DOMAIN cache'
        PROVE  EntryOK(cache[j])'
    BY EntriesKept DEF Thinned
  <1>4. OneEntryPerKey'
    BY DEF Thinned, OneEntryPerKey
  <1>5. CacheBounded'
    <2>1. Len(cache') \in Nat /\ Len(cache) \in Nat /\ Len(cache') <= Len(cache)
      BY DEF Thinned, IInv, CacheInv
    <2> QED  BY <2>1, ClientAssumption DEF IInv, CacheInv, CacheBounded
  <1> QED  BY <1>1, <1>2, <1>3, <1>4, <1>5 DEF IInv, CacheInv

\* decryptSecret does not, and takes the expired entry with it.
LEMMA DecryptFetchesStep ==
    ASSUME IInv, NEW r \in Calls, NEW c \in Contexts, NEW w \in StoredKeys,
           NEW p \in StoredPayloads, DecryptFetches(r, w, p, c)
    PROVE  IInv'
  <1> DEFINE l == Called(Idle, "decryptSecret", c, w, p)
  <1>1. call[r] = Idle
    BY IdleCall DEF DecryptFetches
  <1>2. call' = [call EXCEPT ![r] = l]
    BY <1>1 DEF DecryptFetches
  <1>3. l \in CallStates /\ Sound(l) /\ Keeps(call[r], l)
    <2>1. w # None /\ p # None
      BY StoredKeysAreWrapped, ClientAssumption DEF StoredPayloads, Finished
    <2>2. "decryptSecret" \in Operations
      BY DEF Operations
    <2> QED  BY <1>1, <2>1, <2>2, CalledIsSound
  <1> HIDE DEF l
  <1>4. UNCHANGED <<cacheTtlMs, clock, clears>>
    BY DEF DecryptFetches
  <1>5. CallsInv' /\ StoresKept
    BY <1>2, <1>3, <1>4, CallStep
  <1>6. Thinned(cache')
    BY MissThins DEF DecryptFetches
  <1> QED  BY <1>4, <1>5, <1>6, ThinningStep
-----------------------------------------------------------------------------
(***************************************************************************)
(* The actions: calls after their awaits.                                  *)
(***************************************************************************)
\* A good answer gives a call the key in its wrapped key, or none.
LEMMA ResponseGoodStep ==
    ASSUME IInv, NEW r \in Calls, ResponseGood(r)
    PROVE  IInv'
  <1> DEFINE k == call[r]
  <1>1. k.pc = "fetch" /\ UNCHANGED clientVars
    BY DEF ResponseGood
  <1>2. k \in CallStates /\ Sound(k) /\ CallOK(k)
    BY DEF IInv, CallsInv, Sound
  <1>3. PICK a \in Grants(r, k) \union Garbled(k) :
            call' = [call EXCEPT ![r] =
                IF k.kind \in PassThrough THEN Ended(Answered(k, a), "ok")
                ELSE [Answered(k, a) EXCEPT !.pc = "import"]]
    BY DEF ResponseGood
  <1> DEFINE v == IF a.wrapped = None THEN k.wrapped ELSE a.wrapped
  \* Either the key of the wrapped key the call now has, or none.
  <1>4. /\ v \in WrappedKeys \union {None}
        /\ a.key \in Calls \union {None, Malformed}
        /\ k.kind \notin PassThrough /\ a.key # Malformed => v # None /\ a.key = v.dek
        /\ k.kind \in PassThrough => a.key # Malformed
        /\ k.kind \in {"encryptSecret", "generateDataKey", "reWrap"} /\ a.key # Malformed => v # None
    <2>1. k.kind \in Operations /\ k.wrapped \in WrappedKeys \union {None}
             /\ (k.wrapped = None <=> k.kind \in {"encryptSecret", "generateDataKey"})
      BY <1>1, <1>2 DEF CallOK, CallStates
    <2>2. CASE a \in Garbled(k)
      BY <2>1, <2>2, ClientAssumption DEF Garbled, Answer
    <2>3. CASE a \in Grants(r, k) /\ k.wrapped = None
      <3>1. a = Answer(r, [by |-> r, dek |-> r]) /\ [by |-> r, dek |-> r] \in WrappedKeys
        BY <2>3 DEF Grants, WrappedKeys
      <3> QED  BY <2>1, <2>3, <3>1, ClientAssumption DEF Answer, PassThrough
    <2>4. CASE a \in Grants(r, k) /\ k.wrapped # None /\ k.kind # "reWrap"
      <3>1. k.kind \in {"decrypt", "decryptSecret"}
        BY <2>1, <2>4 DEF Operations, PassThrough
      <3>2. a = Answer(k.wrapped.dek, None) /\ k.wrapped.dek \in Calls
        BY <2>1, <2>4, <3>1 DEF Grants, WrappedKeys
      <3> QED  BY <2>1, <2>4, <3>1, <3>2, ClientAssumption DEF Answer, PassThrough
    <2>5. CASE a \in Grants(r, k) /\ k.wrapped # None /\ k.kind = "reWrap"
      <3>1. a = Answer(None, [by |-> r, dek |-> k.wrapped.dek])
               /\ [by |-> r, dek |-> k.wrapped.dek] \in WrappedKeys
        BY <2>1, <2>5 DEF Grants, WrappedKeys
      <3> QED  BY <2>1, <2>5, <3>1, ClientAssumption DEF Answer, PassThrough
    <2> QED  BY <2>2, <2>3, <2>4, <2>5
  <1> DEFINE l1 == [k EXCEPT !.key = a.key]
             m == [l1 EXCEPT !.wrapped = v]
  <1>5. m = Answered(k, a) /\ m \in CallStates
    <2>1. m = Answered(k, a)
      BY DEF Answered
    <2>2. l1 \in CallStates
      BY <1>2, <1>4, FieldsSet
    <2> HIDE DEF l1, v
    <2> QED  BY <1>4, <2>1, <2>2, FieldsSet
  <1>6. /\ m.key = a.key /\ m.wrapped = v /\ m.kind = k.kind /\ m.ctx = k.ctx
        /\ m.payload = k.payload /\ m.text = k.text /\ m.result = k.result
        /\ m.from = k.from /\ m.wroteAt = k.wroteAt
    BY <1>2 DEF CallStates
  <1>7. /\ k.kind \in Operations /\ k.ctx \in Contexts /\ k.result = None
        /\ k.from = None /\ k.wroteAt = None
        /\ (k.kind = "encryptSecret" => k.text \in Texts)
        /\ (k.kind = "decryptSecret" => k.payload # None)
        /\ PayloadOK(k)
    BY <1>1, <1>2 DEF Sound, CallOK
  <1> HIDE DEF m, v
  <1>8. ASSUME NEW l \in CallStates, l.wroteAt = None, Sound(l),
               call' = [call EXCEPT ![r] = l]
        PROVE  IInv'
    BY <1>1, <1>7, <1>8, CallStepAlone DEF Keeps
  <1>9. CASE k.kind \in PassThrough
    <2> DEFINE l2 == [m EXCEPT !.pc = "done"]
               l == [l2 EXCEPT !.result = "ok"]
    <2>1. call' = [call EXCEPT ![r] = l]
      BY <1>3, <1>5, <1>9 DEF Ended
    <2>2. l \in CallStates
      <3>1. l2 \in CallStates
        BY <1>5, FieldsSet
      <3> HIDE DEF l2
      <3> QED  BY <3>1, FieldsSet DEF Results
    <2>3. /\ l.pc = "done" /\ l.kind = k.kind /\ l.result = "ok" /\ l.key = a.key
          /\ l.wrapped = v /\ l.payload = k.payload /\ l.from = None /\ l.wroteAt = None
      BY <1>5, <1>6, <1>7 DEF CallStates
    <2> HIDE DEF l
    <2>4. k.kind \notin {"encryptSecret", "decryptSecret"}
      BY <1>9 DEF PassThrough
    <2>5. CallOK(l)
      BY <1>4, <1>9, <2>3, <2>4 DEF CallOK
    <2>6. StoreOK(l) /\ HitOK(l) /\ OpenedOK(l)
      BY <2>3, <2>4 DEF StoreOK, HitOK, OpenedOK
    <2>7. PayloadOK(l)
      BY <1>7, <2>3 DEF PayloadOK
    <2> QED  BY <1>8, <2>1, <2>2, <2>3, <2>5, <2>6, <2>7 DEF Sound
  <1>10. CASE k.kind \notin PassThrough
    <2> DEFINE l == [m EXCEPT !.pc = "import"]
    <2>1. call' = [call EXCEPT ![r] = l]
      BY <1>3, <1>5, <1>10
    <2>2. l \in CallStates
      BY <1>5, FieldsSet DEF Awaits
    <2>3. /\ l.pc = "import" /\ l.kind = k.kind /\ l.result = None /\ l.key = a.key
          /\ l.wrapped = v /\ l.payload = k.payload /\ l.from = None /\ l.wroteAt = None
          /\ l.ctx = k.ctx /\ l.text = k.text
      BY <1>5, <1>6, <1>7 DEF CallStates
    <2> HIDE DEF l
    <2>4. k.kind \in Secrets
      BY <1>7, <1>10 DEF Operations, Secrets
    <2>5. CallOK(l)
      BY <1>4, <1>7, <1>10, <2>3, <2>4, ClientAssumption DEF CallOK, HoldsItsKey, Results
    <2>6. StoreOK(l) /\ HitOK(l) /\ OpenedOK(l)
      BY <2>3 DEF StoreOK, HitOK, OpenedOK
    <2>7. PayloadOK(l)
      BY <1>7, <2>3 DEF PayloadOK
    <2> QED  BY <1>8, <2>1, <2>2, <2>3, <2>5, <2>6, <2>7 DEF Sound
  <1> QED  BY <1>9, <1>10

\* A bad answer, or a data key that cannot be imported, ends a call without one.
LEMMA FailingStep ==
    ASSUME IInv, NEW r \in Calls, ResponseBad(r) \/ ImportFails(r)
    PROVE  IInv'
  <1>1. call[r].pc \in {"fetch", "import"} /\ UNCHANGED clientVars
    BY DEF ResponseBad, ImportFails
  <1>2. call[r].wroteAt = None
    BY <1>1 DEF IInv, CallsInv, Sound, CallOK
  <1>3. PICK how \in {"KmsClientError", "OtherError"} : call' = [call EXCEPT ![r] = Failed(how)]
    BY DEF ResponseBad, ImportFails
  <1>4. Failed(how) \in CallStates /\ Sound(Failed(how)) /\ Keeps(call[r], Failed(how))
    BY <1>1, <1>2, FailedIsSound
  <1> QED  BY <1>1, <1>3, <1>4, CallStepAlone

\* A step of one call that stores its key: the entry is true to that call, and
\* what was in the cache is at most evicted or replaced.
LEMMA WriteStep ==
    ASSUME IInv, NEW r \in Calls, WriteCache(r), CallsInv', StoresKept,
           UNCHANGED <<cacheTtlMs, clock, clears>>,
           HoldsItsKey(call[r]),
           <<call'[r].wrapped, call'[r].ctx, call'[r].key>>
               = <<call[r].wrapped, call[r].ctx, call[r].key>>,
           call'[r].wroteAt = Now
    PROVE  IInv'
  <1>1. Scalars'
    BY DEF IInv, Scalars
  <1>2. CASE cacheTtlMs = 0
    <2>1. cache' = cache
      BY <1>2 DEF WriteCache
    <2>2. Thinned(cache')
      BY <2>1 DEF Thinned, IInv, CacheInv, OneEntryPerKey
    <2> QED  BY <2>2, ThinningStep
  <1>3. CASE cacheTtlMs # 0
    <2> DEFINE e == [cacheKey |-> CacheKeyFor(call[r].wrapped, call[r].ctx),
                     key |-> call[r].key, expiresAt |-> clock + cacheTtlMs, by |-> r]
               s == EvictOldest(cache)
    <2>1. cache' = MapSet(s, e)
      BY <1>3 DEF WriteCache
    <2>2. e \in CacheEntries
      <3>1. clock + cacheTtlMs \in 0 .. MaxTime + cacheTtlMs
        BY ClientAssumption DEF IInv, Scalars
      <3>2. call[r].key \in Calls
        BY DEF HoldsItsKey, WrappedKeys
      <3> QED  BY <3>1, <3>2 DEF CacheEntries, HoldsItsKey
    <2>3. Thinned(s) /\ Len(s) < MAX_CACHE_ENTRIES
      BY EvictionThins
    <2>4. EntryOK(e)'
      <3>1. Now # None /\ Now.time = clock /\ Now.clears = clears
        BY ClientAssumption DEF Now, IInv, Scalars, Instants
      <3> QED  BY <3>1 DEF EntryOK
    <2> HIDE DEF e, s
    <2>5. /\ cache' \in Seq(CacheEntries)
          /\ Len(cache') <= Len(s) + 1
          /\ \A i \in DOMAIN cache' : cache'[i] = e \/ \E j \in DOMAIN cache : cache'[i] = cache[j]
          /\ \A i, j \in DOMAIN cache' : cache'[i].cacheKey = cache'[j].cacheKey => i = j
      BY <2>1, <2>2, <2>3, MapSetAddsOne
    <2>6. cache' \in Seq(CacheEntries)'
      BY <2>5 DEF CacheEntries
    <2>7. ASSUME NEW i \in DOMAIN cache'
          PROVE  EntryOK(cache[i])'
      <3>1. CASE cache'[i] = e
        BY <2>4, <3>1 DEF EntryOK, e
      <3>2. CASE \E j \in DOMAIN cache : cache'[i] = cache[j]
        BY <3>2, EntriesKept
      <3> QED  BY <2>5, <3>1, <3>2
    <2>8. CacheBounded'
      <3>1. Len(cache') \in Nat /\ Len(s) \in Nat
        BY <2>3, <2>5 DEF Thinned
      <3> QED  BY <2>3, <2>5, <3>1, ClientAssumption DEF CacheBounded
    <2> QED  BY <1>1, <2>5, <2>6, <2>7, <2>8 DEF IInv, CacheInv, OneEntryPerKey
  <1> QED  BY <1>2, <1>3

\* decryptSecret stores the key it was granted and goes on to open its payload.
LEMMA ImportedForDecryptStep ==
    ASSUME IInv, NEW r \in Calls, ImportedForDecrypt(r)
    PROVE  IInv'
  <1> DEFINE k == call[r]
             l1 == [k EXCEPT !.pc = "open"]
             l == [l1 EXCEPT !.wroteAt = Now]
  <1>1. /\ k.pc = "import" /\ k.key # Malformed /\ k.kind = "decryptSecret" /\ WriteCache(r)
        /\ UNCHANGED <<cacheTtlMs, clock, clears>>
    BY DEF ImportedForDecrypt
  <1>2. k \in CallStates /\ CallOK(k) /\ PayloadOK(k) /\ call \in [Calls -> CallStates]
    BY DEF IInv, CallsInv, Sound
  <1>3. call' = [call EXCEPT ![r] = l]
    BY <1>2 DEF ImportedForDecrypt
  <1>4. Now \in Instants
    BY DEF IInv, Scalars, Now, Instants
  <1>5. l \in CallStates
    <2>1. l1 \in CallStates
      BY <1>2, FieldsSet DEF Awaits
    <2> HIDE DEF l1
    <2> QED  BY <1>4, <2>1, FieldsSet
  <1>6. /\ l.pc = "open" /\ l.wroteAt = Now /\ l.kind = k.kind /\ l.ctx = k.ctx
        /\ l.wrapped = k.wrapped /\ l.key = k.key /\ l.payload = k.payload
        /\ l.result = k.result /\ l.from = k.from
    BY <1>2 DEF CallStates
  <1> HIDE DEF l
  <1>7. /\ HoldsItsKey(k) /\ k.from = None /\ k.wroteAt = None
        /\ k.result = None /\ k.payload # None
    BY <1>1, <1>2 DEF CallOK
  <1>8. HoldsItsKey(l)
    BY <1>6, <1>7 DEF HoldsItsKey
  <1>9. CallOK(l)
    BY <1>1, <1>6, <1>7, <1>8, ClientAssumption DEF CallOK, Results
  <1>10. StoreOK(l) /\ HitOK(l) /\ PayloadOK(l) /\ OpenedOK(l)
    BY <1>1, <1>2, <1>6, <1>7, <1>8 DEF StoreOK, HitOK, PayloadOK, OpenedOK, Secrets
  <1>11. Keeps(k, l)
    BY <1>1, <1>7 DEF Keeps
  <1>12. CallsInv' /\ StoresKept
    BY <1>1, <1>3, <1>5, <1>9, <1>10, <1>11, CallStep DEF Sound
  <1>13. call'[r] = l
    BY <1>2, <1>3
  <1> QED  BY <1>1, <1>6, <1>7, <1>12, <1>13, WriteStep

\* encryptSecret stores its key once the payload is sealed, and returns.
LEMMA SealedStep ==
    ASSUME IInv, NEW r \in Calls, Sealed(r)
    PROVE  IInv'
  <1> DEFINE k == call[r]
             l1 == [k EXCEPT !.wroteAt = Now]
             l2 == [l1 EXCEPT !.pc = "done"]
             l == [l2 EXCEPT !.result = "ok"]
  <1>1. /\ k.pc = "import" /\ k.key # Malformed /\ k.kind = "encryptSecret" /\ WriteCache(r)
        /\ UNCHANGED <<cacheTtlMs, clock, clears>>
    BY DEF Sealed
  <1>2. k \in CallStates /\ CallOK(k) /\ PayloadOK(k) /\ call \in [Calls -> CallStates]
    BY DEF IInv, CallsInv, Sound
  <1>3. call' = [call EXCEPT ![r] = l]
    BY DEF Sealed, Ended
  <1>4. Now \in Instants
    BY DEF IInv, Scalars, Now, Instants
  <1>5. l \in CallStates
    <2>1. l1 \in CallStates
      BY <1>2, <1>4, FieldsSet
    <2> HIDE DEF l1
    <2>2. l2 \in CallStates
      BY <2>1, FieldsSet
    <2> HIDE DEF l2
    <2> QED  BY <2>2, FieldsSet DEF Results
  <1>6. /\ l.pc = "done" /\ l.wroteAt = Now /\ l.kind = k.kind /\ l.ctx = k.ctx
        /\ l.wrapped = k.wrapped /\ l.key = k.key /\ l.payload = k.payload
        /\ l.result = "ok" /\ l.from = k.from /\ l.text = k.text
    BY <1>2 DEF CallStates
  <1> HIDE DEF l
  <1>7. HoldsItsKey(k) /\ k.from = None /\ k.wroteAt = None /\ k.text \in Texts
    BY <1>1, <1>2 DEF CallOK
  <1>8. HoldsItsKey(l) /\ l.wrapped # None
    BY <1>6, <1>7, ClientAssumption DEF HoldsItsKey
  <1>9. CallOK(l)
    BY <1>1, <1>6, <1>7, <1>8 DEF CallOK
  <1>10. StoreOK(l) /\ HitOK(l) /\ PayloadOK(l) /\ OpenedOK(l)
    BY <1>1, <1>2, <1>6, <1>7, <1>8 DEF StoreOK, HitOK, PayloadOK, OpenedOK, Secrets
  <1>11. Keeps(k, l)
    BY <1>1, <1>7 DEF Keeps
  <1>12. CallsInv' /\ StoresKept
    BY <1>1, <1>3, <1>5, <1>9, <1>10, <1>11, CallStep DEF Sound
  <1>13. call'[r] = l
    BY <1>2, <1>3
  <1> QED  BY <1>1, <1>6, <1>7, <1>12, <1>13, WriteStep

\* The payload opens, or it does not: either way the call is done.
LEMMA OpenedStep ==
    ASSUME IInv, NEW r \in Calls, Opened(r)
    PROVE  IInv'
  <1> DEFINE k == call[r]
             text == Decode(Encode(call[k.payload].text))
             opens == PayloadOpens(k)
             m == IF opens THEN [k EXCEPT !.text = text] ELSE k
             l1 == [m EXCEPT !.pc = "done"]
             l == [l1 EXCEPT !.result = IF opens THEN "ok" ELSE "KmsClientError"]
  <1>1. k.pc = "open" /\ UNCHANGED clientVars
    BY DEF Opened
  <1>2. k \in CallStates /\ Sound(k) /\ CallOK(k)
    BY DEF IInv, CallsInv, Sound
  <1>3. call' = [call EXCEPT ![r] = l]
    BY DEF Opened, Ended
  <1>4. /\ k.kind = "decryptSecret" /\ HoldsItsKey(k) /\ k.payload \in Calls
        /\ call[k.payload].kind = "encryptSecret"
    BY <1>1, <1>2 DEF CallOK, Sound, PayloadOK, CallStates
  <1>5. text \in {Decode(Encode(t)) : t \in Texts}
    BY <1>4 DEF IInv, CallsInv, Sound, CallOK
  <1>6. l \in CallStates
    <2> HIDE DEF opens, text
    <2>1. m \in CallStates
      BY <1>2, <1>5, FieldsSet
    <2> HIDE DEF m
    <2>2. l1 \in CallStates
      BY <2>1, FieldsSet
    <2> HIDE DEF l1
    <2> QED  BY <2>2, FieldsSet DEF Results
  <1>7. /\ l.pc = "done" /\ l.kind = k.kind /\ l.ctx = k.ctx /\ l.wrapped = k.wrapped
        /\ l.key = k.key /\ l.payload = k.payload /\ l.from = k.from
        /\ l.readAt = k.readAt /\ l.wroteAt = k.wroteAt
        /\ l.result = IF opens THEN "ok" ELSE "KmsClientError"
    <2> HIDE DEF opens, text
    <2> QED  BY <1>2 DEF CallStates
  <1>8. l.result = "ok" <=> PayloadOpens(l)
    BY <1>7 DEF PayloadOpens
  <1> HIDE DEF l
  <1>9. HoldsItsKey(l) /\ l.payload # None /\ l.key # Malformed
    BY <1>2, <1>4, <1>7, ClientAssumption DEF HoldsItsKey, WrappedKeys
  <1>10. CallOK(l)
    BY <1>4, <1>7, <1>9 DEF CallOK
  <1>11. StoreOK(l)
    BY <1>2, <1>7, <1>9 DEF Sound, StoreOK
  <1>12. HitOK(l)
    BY <1>2, <1>7, <1>9 DEF Sound, HitOK
  <1>13. PayloadOK(l) /\ OpenedOK(l)
    BY <1>2, <1>7, <1>8 DEF Sound, PayloadOK, OpenedOK
  <1>14. Keeps(k, l)
    BY <1>1, <1>7 DEF Keeps
  <1>15. Sound(l)
    BY <1>10, <1>11, <1>12, <1>13 DEF Sound
  <1> QED  BY <1>1, <1>3, <1>6, <1>14, <1>15, CallStepAlone

-----------------------------------------------------------------------------
\* No call notices that the cache is cleared or that time goes on.
LEMMA NoCallStep ==
    ASSUME IInv, UNCHANGED <<cacheTtlMs, call>>
    PROVE  CallsInv' /\ StoresKept
  BY DEF IInv, CallsInv, Sound, CallOK, StoreOK, HitOK, PayloadOK, OpenedOK, PayloadOpens,
         HoldsItsKey, StoresKept

\* clearCache leaves no entry to be false to its storer.
LEMMA ClearCacheStep ==
    ASSUME IInv, ClearCache
    PROVE  IInv'
  <1>1. CallsInv'
    BY NoCallStep DEF ClearCache
  <1>2. Scalars'
    BY ClientAssumption DEF IInv, Scalars, ClearCache
  <1>3. CacheInv'
    BY ClientAssumption DEF CacheInv, OneEntryPerKey, CacheBounded, ClearCache
  <1> QED  BY <1>1, <1>2, <1>3 DEF IInv

\* Time makes entries expire, and changes nothing else.
LEMMA TickStep ==
    ASSUME IInv, Tick
    PROVE  IInv'
  <1>1. CallsInv' /\ StoresKept
    BY NoCallStep DEF Tick
  <1>2. Scalars'
    BY ClientAssumption DEF IInv, Scalars, Tick
  <1>3. cache' = cache /\ clears' = clears /\ cacheTtlMs' = cacheTtlMs
    BY DEF Tick
  <1>4. cache' \in Seq(CacheEntries)'
    BY <1>3 DEF IInv, CacheInv, CacheEntries
  <1>5. \A i \in DOMAIN cache' : EntryOK(cache[i])'
    BY <1>1, <1>3, EntriesKept
  <1>6. OneEntryPerKey' /\ CacheBounded'
    BY <1>3 DEF IInv, CacheInv, OneEntryPerKey, CacheBounded
  <1> QED  BY <1>1, <1>2, <1>4, <1>5, <1>6 DEF IInv, CacheInv

-----------------------------------------------------------------------------
(***************************************************************************)
(* What holds of every client.                                             *)
(***************************************************************************)
\* A new client has an empty cache and no call.
LEMMA InitIInv == Init => IInv
  <1> SUFFICES ASSUME Init
               PROVE  IInv
    OBVIOUS
  <1>1. Scalars
    BY ClientAssumption DEF Init, Scalars
  <1>2. Idle \in CallStates
    BY DEF Idle, CallStates
  <1>3. Sound(Idle)
    <2>1. /\ Idle.pc = "idle" /\ Idle.kind = None /\ Idle.key = None /\ Idle.result = None
          /\ Idle.payload = None /\ Idle.from = None /\ Idle.wroteAt = None
      BY DEF Idle
    <2> QED  BY <2>1, ClientAssumption
             DEF Sound, CallOK, StoreOK, HitOK, PayloadOK, OpenedOK, Operations, Results
  <1>4. CallsInv
    BY <1>2, <1>3 DEF Init, CallsInv
  <1>5. CacheInv
    BY ClientAssumption DEF Init, CacheInv, OneEntryPerKey, CacheBounded
  <1> QED  BY <1>1, <1>4, <1>5 DEF IInv

\* Every step keeps the invariant.
LEMMA NextIInv == IInv /\ [Next]_vars => IInv'
  <1> SUFFICES ASSUME IInv, [Next]_vars
               PROVE  IInv'
    OBVIOUS
  <1>1. ASSUME NEW r \in Calls, Begin(r)
        PROVE  IInv'
    BY <1>1, RequestStep, DecryptUnparsableStep, DecryptCachedStep, DecryptFetchesStep DEF Begin
  <1>2. ASSUME NEW r \in Calls, Resume(r)
        PROVE  IInv'
    BY <1>2, ResponseGoodStep, FailingStep, ImportedForDecryptStep, SealedStep, OpenedStep
       DEF Resume
  <1>3. CASE ClearCache
    BY <1>3, ClearCacheStep
  <1>4. CASE Tick
    BY <1>4, TickStep
  <1>5. CASE UNCHANGED vars
    <2>1. CallsInv' /\ StoresKept /\ Thinned(cache')
      BY <1>5, NoCallStep DEF vars, clientVars, Thinned, IInv, CacheInv, OneEntryPerKey
    <2> QED  BY <1>5, <2>1, ThinningStep DEF vars, clientVars
  <1> QED  BY <1>1, <1>2, <1>3, <1>4, <1>5 DEF Next

\* So the invariant holds of every client, always.
LEMMA Invariance == Spec => []IInv
  BY InitIInv, NextIInv, PTL DEF Spec

\* Every client has the shape the model says, at any size: in particular a data
\* key that is none never gets past the import (client/index.ts:136-137, 256-272).
THEOREM TypeCorrect == Spec => []TypeOK
  <1>1. IInv => TypeOK
    <2> SUFFICES ASSUME IInv
                 PROVE  TypeOK
      OBVIOUS
    <2>1. \A i \in DOMAIN cache : cache[i] \in CacheEntries
      BY DEF IInv, CacheInv
    <2>2. \A r \in Calls : call[r].key = Malformed => call[r].pc = "import"
      BY DEF IInv, CallsInv, Sound, CallOK
    <2> QED  BY <2>1, <2>2 DEF TypeOK, IInv, Scalars, CallsInv, CacheEntries
  <1> QED  BY <1>1, Invariance, PTL

\* A key out of the cache is what the server granted for this wrapped key under
\* this context, however calls interleave (client/index.ts:208-209, 256-272).
THEOREM CacheAnswersAsTheServer == Spec => []HitWasGranted
  <1>1. IInv => HitWasGranted
    BY DEF IInv, CallsInv, Sound, HitOK, HoldsItsKey, HitWasGranted, Hit, Storer
  <1> QED  BY <1>1, Invariance, PTL

\* No key is used cacheTtlMs after it was stored, and none at a TTL of 0
\* (client/index.ts:28-33).
THEOREM CacheForgetsInTime == Spec => []HitWithinTtl
  <1>1. IInv => HitWithinTtl
    BY DEF IInv, CallsInv, Sound, HitOK, HitWithinTtl, Hit, Storer
  <1> QED  BY <1>1, Invariance, PTL

\* No key that was stored before clearCache is used after it
\* (client/index.ts:68-69).
THEOREM ClearCacheForgets == Spec => []ClearForgets
  <1>1. IInv => ClearForgets
    BY DEF IInv, CallsInv, Sound, HitOK, ClearForgets, Hit, Storer
  <1> QED  BY <1>1, Invariance, PTL

\* A call that has a key opens exactly the genuine envelopes
\* (client/index.ts:291-328).
THEOREM GenuineEnvelopesOpen == Spec => []OpensIffGenuine
  <1>1. IInv => OpensIffGenuine
    BY DEF IInv, CallsInv, Sound, CallOK, OpenedOK, PayloadOpens, HoldsItsKey, OpensIffGenuine
  <1> QED  BY <1>1, Invariance, PTL

\* The cache never outgrows MAX_CACHE_ENTRIES (client/index.ts:236-242).
THEOREM CacheStaysBounded == Spec => []CacheBounded
  <1>1. IInv => CacheBounded
    BY DEF IInv, CacheInv
  <1> QED  BY <1>1, Invariance, PTL
=============================================================================
