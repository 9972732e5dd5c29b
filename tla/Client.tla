------------------------------- MODULE Client -------------------------------
(***************************************************************************)
(* One KMS client (src/src/client/index.ts): its six operations over its   *)
(* cache of unwrapped data keys, with a server that grants only what the   *)
(* worker grants and a network that may fail or answer with anything.      *)
(*                                                                         *)
(* A call runs in steps between its awaits, and calls interleave there and *)
(* share the cache.  Two awaits with nothing of the cache between them are *)
(* one: fetch and the reading of its response, the import of a new data    *)
(* key and the sealing of the payload with it.                             *)
(*                                                                         *)
(* A data key and a sealed payload are named by the call that asked for    *)
(* the key; a wrapped key is the pair of its DEK and the call it was       *)
(* issued to, and opens under the context of the call that generated the   *)
(* DEK.  A text is a sequence of characters, of which "BOM" (U+FEFF) and   *)
(* "surrogate" (a lone one) are special.                                   *)
(***************************************************************************)
EXTENDS Context, SequencesExt

CONSTANTS
    Calls,               \* the calls of the client (one-shot)
    None,
    Malformed,           \* a data key in an answer that is none
    Contexts,            \* the encryption contexts the service uses
    Texts,               \* what the service encrypts
    Ttls,                \* the values of the cacheTtlMs option
    MAX_CACHE_ENTRIES,
    MaxTime,             \* bound: the last instant of now()
    MaxClears            \* bound: how often clearCache is called

Awaits == {"fetch", "import", "open"}

\* A call returns, throws a KmsClientError or throws what something else threw.
Results == {"ok", "KmsClientError", "OtherError"}

\* The operations that return the server's answer as it is.
PassThrough == {"generateDataKey", "decrypt", "reWrap"}
Operations == {"encryptSecret", "decryptSecret"} \union PassThrough

WrappedKeys == [by : Calls, dek : Calls]
Instants == [time : 0 .. MaxTime, clears : 0 .. MaxClears]

ASSUME ClientAssumption ==
    /\ None \notin Calls \union Contexts \union WrappedKeys \union Instants
    /\ None \notin Operations \union Results
    /\ Malformed \notin Calls \union {None}
    /\ \A c \in Contexts : IsContext(c)
    /\ Ttls \subseteq Nat
    /\ MAX_CACHE_ENTRIES \in Nat \ {0}
    /\ MaxTime \in Nat
    /\ MaxClears \in Nat

VARIABLES
    cacheTtlMs,  \* the option, fixed when the client is created
    cache,       \* the Map, its entries in insertion order
    clock,       \* now()
    clears,      \* history: how often the cache was cleared
    call         \* call[r]: the state of call r

clientVars == <<cacheTtlMs, cache, clock, clears>>
vars == <<clientVars, call>>

\* TextEncoder: a lone surrogate becomes the replacement character.
Encode(text) == [i \in DOMAIN text |-> IF text[i] = "surrogate" THEN "replacement" ELSE text[i]]

\* TextDecoder: a byte order mark in front is dropped.
Decode(bytes) == IF bytes # <<>> /\ Head(bytes) = "BOM" THEN Tail(bytes) ELSE bytes

\* A call that has not begun.
Idle ==
    [pc      |-> "idle",   \* the await it is at
     kind    |-> None,     \* the operation called
     ctx     |-> None,     \* its encryption context
     wrapped |-> None,     \* the wrapped key it sends or was given
     payload |-> None,     \* whose ciphertext it opens
     text    |-> None,     \* the plaintext it seals or has opened
     key     |-> None,     \* the data key it holds
     result  |-> None,     \* how it ended
     from    |-> None,     \* history: the call whose store it hit
     readAt  |-> None,     \* history: when it hit the cache
     wroteAt |-> None]     \* history: when it stored its key

Init ==
    /\ cacheTtlMs \in Ttls
    /\ cache = <<>>
    /\ clock = 0
    /\ clears = 0
    /\ call = [r \in Calls |-> Idle]

-----------------------------------------------------------------------------
(***************************************************************************)
(* The cache.                                                              *)
(***************************************************************************)
\* The context is left out of the cache key.
CacheKeyFor_WrappedOnly(w, c) == <<w>>

\* The wrapped key is left out of the cache key.
CacheKeyFor_ContextOnly(w, c) == <<CanonicalizeContext(c)>>

CacheKeyFor(w, c) == <<w, CanonicalizeContext(c)>>

Entries(cacheKey) == {i \in DOMAIN cache : cache[i].cacheKey = cacheKey}

\* The last instant of an entry still counts.
Live_Inclusive(entry) == entry.expiresAt >= clock

Live(entry) == entry.expiresAt > clock

\* readCache: the entry it returns, if any.
Hits(cacheKey) == {i \in Entries(cacheKey) : cacheTtlMs > 0 /\ Live(cache[i])}

\* readCache: what a miss leaves behind, the cache without the expired entry
\* (Map.delete; no two entries have one cache key).
CacheAfterMiss(cacheKey) ==
    IF cacheTtlMs > 0 /\ Entries(cacheKey) # {}
    THEN RemoveAt(cache, CHOOSE i \in Entries(cacheKey) : TRUE)
    ELSE cache

\* The oldest entry is dropped only once the limit is exceeded.
EvictOldest_Late(entries) ==
    IF Len(entries) > MAX_CACHE_ENTRIES THEN Tail(entries) ELSE entries

\* At the limit the oldest entry goes, also when the write replaces another.
EvictOldest(entries) ==
    IF Len(entries) >= MAX_CACHE_ENTRIES THEN Tail(entries) ELSE entries

\* Map.set, as writeCache calls it: an entry whose key is there keeps its place.
MapSet(entries, entry) ==
    IF \E i \in DOMAIN entries : entries[i].cacheKey = entry.cacheKey
    THEN [i \in DOMAIN entries |->
             IF entries[i].cacheKey = entry.cacheKey THEN entry ELSE entries[i]]
    ELSE Append(entries, entry)

Now == [time |-> clock, clears |-> clears]

\* writeCache: call r stores the key it holds.
WriteCache(r) ==
    cache' =
        IF cacheTtlMs = 0 THEN cache
        ELSE MapSet(EvictOldest(cache),
                [cacheKey |-> CacheKeyFor(call[r].wrapped, call[r].ctx),
                 key |-> call[r].key, expiresAt |-> clock + cacheTtlMs, by |-> r])

-----------------------------------------------------------------------------
(***************************************************************************)
(* The calls, up to their first await.                                     *)
(***************************************************************************)
Ended(k, how) == [k EXCEPT !.pc = "done", !.result = how]

\* Nothing is left of a call that failed before it had a key.
Failed(how) == Ended(Idle, how)

\* k once it is called with context c, wrapped key w and the payload of p.
Called(k, operation, c, w, p) ==
    [k EXCEPT !.pc = "fetch", !.kind = operation, !.ctx = c, !.wrapped = w, !.payload = p]

EncryptSecret(r, c, text) ==
    /\ call[r].pc = "idle"
    /\ call' = [call EXCEPT ![r] = [Called(@, "encryptSecret", c, None, None) EXCEPT !.text = text]]
    /\ UNCHANGED clientVars

GenerateDataKey(r, c) ==
    /\ call[r].pc = "idle"
    /\ call' = [call EXCEPT ![r] = Called(@, "generateDataKey", c, None, None)]
    /\ UNCHANGED clientVars

\* What the service can have in its store: wrapped keys it was given, and
\* payloads it sealed, in any combination.
Finished(kinds) == {q \in Calls : call[q].result = "ok" /\ call[q].kind \in kinds}

StoredKeys == {call[q].wrapped : q \in Finished({"encryptSecret", "generateDataKey", "reWrap"})}
StoredPayloads == Finished({"encryptSecret"})

Decrypt(r, w, c) ==
    /\ call[r].pc = "idle"
    /\ call' = [call EXCEPT ![r] = Called(@, "decrypt", c, w, None)]
    /\ UNCHANGED clientVars

ReWrap(r, w, c) ==
    /\ call[r].pc = "idle"
    /\ call' = [call EXCEPT ![r] = Called(@, "reWrap", c, w, None)]
    /\ UNCHANGED clientVars

\* An envelope that does not parse.  decodeBase64Url throws its own error for a
\* wrong alphabet; a segment of length 4n+1 passes that test and makes atob
\* throw.
DecryptUnparsable(r) ==
    /\ call[r].pc = "idle"
    /\ \E how \in {"KmsClientError", "OtherError"} :
           call' = [call EXCEPT ![r] = [Failed(how) EXCEPT !.kind = "decryptSecret"]]
    /\ UNCHANGED clientVars

DecryptCached(r, w, p, c) ==
    /\ call[r].pc = "idle"
    /\ \E i \in Hits(CacheKeyFor(w, c)) :
           call' = [call EXCEPT ![r] =
               [Called(@, "decryptSecret", c, w, p) EXCEPT
                    !.pc = "open", !.key = cache[i].key, !.from = cache[i].by, !.readAt = Now]]
    /\ UNCHANGED clientVars

\* An expired entry is deleted here and nowhere else.
DecryptFetches(r, w, p, c) ==
    /\ call[r].pc = "idle"
    /\ Hits(CacheKeyFor(w, c)) = {}
    /\ cache' = CacheAfterMiss(CacheKeyFor(w, c))
    /\ call' = [call EXCEPT ![r] = Called(@, "decryptSecret", c, w, p)]
    /\ UNCHANGED <<cacheTtlMs, clock, clears>>

-----------------------------------------------------------------------------
(***************************************************************************)
(* The server and the network (external).  A grant is what the worker      *)
(* replies; it can refuse anything, at any time: a removed caller, a       *)
(* retired version, a broken configuration.                                *)
(***************************************************************************)
Answer(k, w) == [key |-> k, wrapped |-> w]

\* The worker's replies to k, the state of call r, when it grants the request.
Grants(r, k) ==
    CASE k.wrapped = None -> {Answer(r, [by |-> r, dek |-> r])}
      [] k.wrapped # None /\ k.ctx # call[k.wrapped.dek].ctx -> {}
      [] OTHER -> {IF k.kind = "reWrap" THEN Answer(None, [by |-> r, dek |-> k.wrapped.dek])
                                        ELSE Answer(k.wrapped.dek, None)}

\* A reply whose data key is not the text of a key (a pass-through returns such
\* a reply to its caller, for whom it is no different from one with a key).
Garbled(k) == IF k.kind \in PassThrough THEN {} ELSE {Answer(Malformed, k.wrapped)}

-----------------------------------------------------------------------------
(***************************************************************************)
(* The calls, after their awaits.                                          *)
(***************************************************************************)
\* k with the answer a to its request.
Answered(k, a) ==
    [k EXCEPT !.key = a.key, !.wrapped = IF a.wrapped = None THEN @ ELSE a.wrapped]

\* call returns: a pass-through with what it was asked for, the others go on.
ResponseGood(r) ==
    /\ call[r].pc = "fetch"
    /\ \E a \in Grants(r, call[r]) \union Garbled(call[r]) :
           call' = [call EXCEPT ![r] =
               IF @.kind \in PassThrough THEN Ended(Answered(@, a), "ok")
               ELSE [Answered(@, a) EXCEPT !.pc = "import"]]
    /\ UNCHANGED clientVars

\* The status of the response is not looked at.
ResponseBad_Unchecked(r) ==
    /\ call[r].pc = "fetch"
    /\ call' = [call EXCEPT ![r].pc = "import"]
    /\ UNCHANGED clientVars

\* call throws, on an error reply and on one that is no JSON or lacks a field;
\* or fetch does.
ResponseBad(r) ==
    /\ call[r].pc = "fetch"
    /\ \E how \in {"KmsClientError", "OtherError"} : call' = [call EXCEPT ![r] = Failed(how)]
    /\ UNCHANGED clientVars

\* decodeBase64Url, atob or importKey refuses the data key.
ImportFails(r) ==
    /\ call[r].pc = "import"
    /\ call[r].key = Malformed
    /\ \E how \in {"KmsClientError", "OtherError"} :
           call' = [call EXCEPT ![r] = Failed(how)]
    /\ UNCHANGED clientVars

\* dataKeyFor caches the key it was granted.
ImportedForDecrypt(r) ==
    /\ call[r].pc = "import"
    /\ call[r].key # Malformed
    /\ call[r].kind = "decryptSecret"
    /\ WriteCache(r)
    /\ call' = [call EXCEPT ![r].pc = "open", ![r].wroteAt = Now]
    /\ UNCHANGED <<cacheTtlMs, clock, clears>>

\* encryptSecret caches the key only after the payload is sealed.
Sealed(r) ==
    /\ call[r].pc = "import"
    /\ call[r].key # Malformed
    /\ call[r].kind = "encryptSecret"
    /\ WriteCache(r)
    /\ call' = [call EXCEPT ![r] = Ended([@ EXCEPT !.wroteAt = Now], "ok")]
    /\ UNCHANGED <<cacheTtlMs, clock, clears>>

\* k holds the key and the context its payload was sealed with.
PayloadOpens(k) == k.key = k.payload /\ k.ctx = call[k.payload].ctx

Opened(r) ==
    /\ call[r].pc = "open"
    /\ call' = [call EXCEPT ![r] =
           IF PayloadOpens(@)
           THEN Ended([@ EXCEPT !.text = Decode(Encode(call[call[r].payload].text))], "ok")
           ELSE Ended(@, "KmsClientError")]
    /\ UNCHANGED clientVars

-----------------------------------------------------------------------------
\* Only the entries that have expired go.
ClearCache_ExpiredOnly ==
    /\ clears < MaxClears
    /\ cache' = SelectSeq(cache, Live)
    /\ clears' = clears + 1
    /\ UNCHANGED <<cacheTtlMs, clock, call>>

ClearCache ==
    /\ clears < MaxClears
    /\ cache' = <<>>
    /\ clears' = clears + 1
    /\ UNCHANGED <<cacheTtlMs, clock, call>>

Tick ==
    /\ clock < MaxTime
    /\ clock' = clock + 1
    /\ UNCHANGED <<cacheTtlMs, cache, clears, call>>

Begin(r) ==
    \/ DecryptUnparsable(r)
    \/ \E c \in Contexts :
        \/ \E text \in Texts : EncryptSecret(r, c, text)
        \/ GenerateDataKey(r, c)
        \/ \E w \in StoredKeys :
               \/ Decrypt(r, w, c)
               \/ ReWrap(r, w, c)
               \/ \E p \in StoredPayloads : DecryptCached(r, w, p, c) \/ DecryptFetches(r, w, p, c)

Resume(r) ==
    \/ ResponseGood(r)
    \/ ResponseBad(r)
    \/ ImportFails(r)
    \/ ImportedForDecrypt(r)
    \/ Sealed(r)
    \/ Opened(r)

Next ==
    \/ \E r \in Calls : Begin(r) \/ Resume(r)
    \/ ClearCache
    \/ Tick

Spec == Init /\ [][Next]_vars

-----------------------------------------------------------------------------
(***************************************************************************)
(* What the service relies on.                                             *)
(***************************************************************************)
\* One type invariant: the shape of the cache and of every call.
CallStates ==
    [pc      : {"idle", "done"} \union Awaits,
     kind    : Operations \union {None},
     ctx     : Contexts \union {None},
     wrapped : WrappedKeys \union {None},
     payload : Calls \union {None},
     text    : Texts \union {Decode(Encode(t)) : t \in Texts} \union {None},
     key     : Calls \union {None, Malformed},
     result  : Results \union {None},
     from    : Calls \union {None},
     readAt  : Instants \union {None},
     wroteAt : Instants \union {None}]

TypeOK ==
    /\ cacheTtlMs \in Ttls
    /\ clock \in 0 .. MaxTime
    /\ clears \in 0 .. MaxClears
    /\ \A i \in DOMAIN cache :
           /\ cache[i].key \in Calls
           /\ cache[i].by \in Calls
           /\ cache[i].expiresAt \in 0 .. MaxTime + cacheTtlMs
    /\ call \in [Calls -> CallStates]
    /\ \A r \in Calls : call[r].key = Malformed => call[r].pc = "import"

\* r used a key it found in the cache.
Hit(r) == call[r].from # None

Storer(r) == call[call[r].from]

\* A key out of the cache is one the server handed to this client for exactly
\* this wrapped key under exactly this context: the cache never answers what
\* the server would have had to be asked (client/index.ts:208-209, 256-272).
HitWasGranted ==
    \A r \in Calls : Hit(r) =>
        /\ Storer(r).wrapped = call[r].wrapped
        /\ Storer(r).ctx = call[r].ctx
        /\ call[r].key = call[r].wrapped.dek

\* A cached key is used for less than cacheTtlMs after it was stored, however
\* late the answer that refreshed or replaced its entry came; with the option
\* at 0 no key is reused (client/index.ts:28-33).
HitWithinTtl ==
    \A r \in Calls : Hit(r) => call[r].readAt.time < Storer(r).wroteAt.time + cacheTtlMs

\* After clearCache no call uses a key that was stored before it: what a call
\* finds was stored since the last clear (client/index.ts:68-69).  The property
\* allows what the code does: a call that was under way when the cache was
\* cleared stores its key afterwards, and there it is found.
ClearForgets ==
    \A r \in Calls : Hit(r) => Storer(r).wroteAt.clears = call[r].readAt.clears

\* A call that gets a key opens its payload if and only if the envelope is
\* genuine: the wrapped key of the payload's own data key and the context it
\* was sealed under; no interleaving of calls, evictions and refreshes makes
\* the cache hand a genuine envelope the wrong key.
OpensIffGenuine ==
    \A r \in Calls : LET k == call[r] IN
        k.pc = "done" /\ k.kind = "decryptSecret" /\ k.key # None =>
            (k.result = "ok" <=> k.wrapped.dek = k.payload /\ k.ctx = call[k.payload].ctx)

\* The cache is bounded, whatever order concurrent misses store in.
CacheBounded == Len(cache) <= MAX_CACHE_ENTRIES

\* docs/index.md:153 and test/client.test.ts:170: an envelope that does not
\* parse is refused with a KmsClientError.
UnparsableIsClientError ==
    \A r \in Calls : LET k == call[r] IN
        k.pc = "done" /\ k.kind = "decryptSecret" /\ k.wrapped = None =>
            k.result = "KmsClientError"

\* client/index.ts:66 "Inverse of {@link KmsClient.encryptSecret}": what opens is
\* the text that was encrypted.
RoundTrip ==
    \A r \in Calls : LET k == call[r] IN
        k.result = "ok" /\ k.kind = "decryptSecret" => k.text = call[k.payload].text
=============================================================================
