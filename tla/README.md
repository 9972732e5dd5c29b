# cf-kms in TLA+

cf-kms is a wrap/unwrap-only KMS that runs as a Cloudflare Worker. A service
asks it for a data key (DEK) bound to an *encryption context*, stores the
wrapped key, and trades it back for the plain DEK by presenting the same
context. This directory holds TLA+ models of the worker, of its client, of
the change of a root key and of the deployment script, translated from the
source under `src/src` and `src/scripts`, the TLC configurations that
check them, and the TLAPS proofs about them. Line numbers refer to that source.

## Inventory

| Part | State it keeps | Operations | Talks to | What is hard about it | What makes it right |
| --- | --- | --- | --- | --- | --- |
| Environment validation (`env.ts`, `crypto/kek.ts`, `parseCallers`) | none | validate the KEK bindings, the current version, the callers | reads `env` | a fault in one binding must stop all requests | nothing serves under a configuration with any fault |
| KEK registry and runtime memo (`crypto/kek.ts`, `env.ts`) | `runtimeByEnv`, `importedKeks`, both shared by all requests of an isolate | `assertEnvironment`, `key(version)` | WebCrypto `importKey` | concurrent misses, failing imports, two env objects in one isolate | right key for the env, shared imports, retried failures |
| Caller authentication (`auth.ts`) | none | header to caller, scope test | WebCrypto `digest` | hash and name must both match | the caller in the log is the caller that asked |
| Encryption context (`crypto/context.ts`) | none | schema, canonical form, scope test | | injectivity; the order in which objects list array indices | one canonical form per context, whatever order it is written in |
| DEK wrapping (`crypto/wrap.ts`, `crypto/base64url.ts`) | none | `wrapDek`, `unwrapDek` | registry, WebCrypto `encrypt`/`decrypt` | labels that can be rewritten, retired versions, texts that are edited | context binding, one verdict for everything that does not open, one text per wrapped key |
| Request pipeline (`routes.ts`, `audit.ts`, `errors.ts`) | per request: the audit draft | four routes and "not found" | all of the above, Workers Logs | eight places that throw behind the audit wrapper and three before it, requests dropped at any await | one truthful audit line, no key without a trail |
| Client (`client/index.ts`) | the data key cache | `encryptSecret`, `decryptSecret`, `reWrap`, `generateDataKey`, `decrypt`, `clearCache` | the worker, over a network | time, eviction, clears and concurrent misses on one cache | a cached key answers only what the server would have granted |
| Root key rotation (`docs/index.md:308-352`, `test/rotation.test.ts`) | the deployed configuration, the service's store | add, switch, re-wrap, remove | everything | stale isolates, writers under way, lost replies | nothing stored is lost, and the change ends |
| Deployment profiles (`scripts/`) | the generated file | argument parsing, overlay merge, running Wrangler | the file system, Wrangler | nested nulls, files of earlier runs, options that are values | Wrangler gets the documented merge of the files as they are; the profile is taken from the arguments, and nothing else with it |

The requests of one isolate share the two caches of the registry and nothing
else; requests of any isolates are linked by the wrapped keys that clients carry
from one reply to the next request.

## Modules

| Module | Models | How state and actions correspond to the code |
| --- | --- | --- |
| `Environment` | what an env object binds, and whether `assertEnvironment` accepts it | `EnvironmentValid` is the conjunction of what `createKekRegistry` and `parseCallers` throw on |
| `KekRegistry` | the two caches | `memo` is `runtimeByEnv`; `imported` is `importedKeks`; a promise is named by the task whose call created it, `promise` and `importing` are its state and its material. Each step runs from one await to the next |
| `KekLookup` | what the registry promises, abstractly | lookups that share nothing: a configuration is accepted or refused, a version is known or not, a lookup ends with the material of its own configuration or an error. `KekRegistry!Lookup` is the refinement mapping: the key of a task is the material of the import it got |
| `Context` | `crypto/context.ts` | a context is a function from keys to values; `CanonicalizeContext` gives its entries sorted by code unit and then as an object lists them, array indices first |
| `Auth` | `auth.ts` | a token is a record of its parts; SHA-256 is an injective tag |
| `Wrap` | `crypto/wrap.ts` | a wrapped key is `[ver, iv, box]`; AES-GCM is ideal: a box opens only with the material, iv and additional data it was sealed with |
| `Formats` | `crypto/base64url.ts`, `decodeToken` and the text `wrapDek` returns, the envelope of `client/index.ts`, contexts as written | a text is the sequence of its segments between dots, a segment a sequence of characters by their base64url value. `EncryptSecret` stores an envelope, `Edit` changes it in one place, `DecryptSecret` and `UnwrapDek` parse the two formats |
| `Worker` | `routes.ts`, `audit.ts`, `errors.ts` over the three above | `req[r]` is the state of request `r`: the await it is at, the draft, the lines written, the reply. One action per continuation of the handler |
| `KmsVault` | what cf-kms promises, abstractly | data keys bound to contexts and a trail; an operation is one all-or-nothing step. `Worker!Vault` is the refinement mapping: a key is bound once its generate request is logged as a success, a request's trail entry is its audit line with the data key it used |
| `Client` | `client/index.ts` | `cache` is the `Map` as a sequence in insertion order; `call[r]` is the state of a call, which moves from await to await. What the server may answer is `Grants`, `Garbled` and the two failures of `ResponseBad` |
| `Rotation` | a change of the root key: `wrapDek` and `unwrapDek` as whole operations under the configurations of the runbook | `serving[i]` is the configuration isolate `i` runs with, `deployed` the one that is deployed, `row` the services' store, `reply` what they were given and have not saved. The services, the re-wrap job and the operator are external |
| `DeployConfig` | `scripts/wrangler.mjs`, `scripts/wrangler-config.mjs` | one run of the script: parse the arguments, read and merge, write the generated file, run Wrangler. A JSON value is a tree of objects with leaves; `Depth` lists the values and how deep each is nested, and `mergeWranglerConfig` is a recursive function over them. `Documented` states the documented rules of the merge for the value at one path of keys, `StrayNull` is where the code departs from them (finding 5) |
| `KekRegistryProofs`, `WorkerProofs`, `ClientProofs`, `FormatsProofs`, `RotationProofs`, `DeployConfigProofs` | proofs about the module each extends | the inductive invariant, one lemma for each action that disturbs it, the theorems |
| `ContextProofs` | lemmas about `Context` | what `Sort` keeps of a context; used by the proofs of the worker, the client and the formats |
| `Induction` | lemmas about the naturals | every set of them has a least member; one that is closed under successor is all of them |
| `MCKekRegistry`, `MCWorker`, `MCClient`, `MCFormats`, `MCRotation`, `MCDeployConfig` | the instances TLC runs | |

Composition is by contract. `Worker` does not run the registry's interleavings
again: at the await of `keks.key` it takes the key of the env's own material, or
an error. That it may is what `ImplementsLookup` and `Settles` say of
`KekRegistry`: seen by its requests it is `KekLookup`, where a broken
configuration refuses every request and no request sees another's key. `Client` takes from the worker that a wrapped key is granted
under its own context only, which is `ContextBinding` and `UnwrapVerdict`.
`Rotation` takes whole operations where `Worker` has awaits: that each operation
of a worker is one atomic step to everybody else is what `ImplementsVault`
shows. `Wrap`, `Worker`, `Client` and `Rotation` treat a wrapped key as its parts
and a context as a function: that the texts carry exactly those is `Formats`.

In each module that code is translated into, an operator with a name such as
`KeyCached_ByVersion` is a plausible mistake in the definition that follows it.
It is used by no specification: it is there to show that the property named for
it in `PROJECT.json` would find the mistake.

## What each run checks

| Run | Instance | Question |
| --- | --- | --- |
| `kek_registry` | 3 tasks, 4 env objects (two valid ones with different material under version 1, one with bad callers, one with a malformed KEK that is not current), 2 materials | do the caches serve the right key whatever the interleaving and whichever imports fail; are they invisible to the requests |
| `worker_pair` | 2 requests at once, 5 configurations (the three of a rotation, one with one material under two versions, a broken one), 5 headers, 4 bodies, up to 2 dropped | one truthful audit line; one verdict; binding; is every interleaving one of atomic operations, also with drops |
| `worker_chain` | 3 requests one after another, before and during a rotation, a scoped and an unscoped caller | do context, scope and trail survive re-wrapping |
| `client` | 4 calls, ttl 0 and 1, 3 instants, one clear, room for 2 entries | time, clears, evictions and concurrent misses: is a key ever used too late, too long or for the wrong envelope |
| `formats` | versions of 1, 2 and 4 digits, extreme bytes, payloads of every length modulo 3, one edit of any segment; four contexts in two orders | do the texts carry what was put into them, in one way only |
| `rotation` | the 4 configurations of the runbook, 3 isolates, 3 rows, 3 lost replies | is anything ever unreadable, and does the rotation end |
| `deploy_config` | every overlay over every base of 2 keys with objects of 2 keys below; every command line of up to 4 of 7 arguments | the documented merge of the files as they are, stray nulls apart; what `takeProfileArgument` takes and leaves |
| `worker_every_request_logged` | 1 request | finding 1 |
| `client_unparsable_envelope` | 1 call | finding 2 |
| `rotation_envelope` | as `rotation`, rows hold wrapped keys or envelopes | finding 3 |
| `client_round_trip` | 2 calls, a text with a byte order mark in front | finding 4 |
| `deploy_null_removes_key` | as `deploy_config` | finding 5 |

**The refinements.** `kek_registry` also checks `ImplementsLookup`: under the
mapping `KekRegistry!Lookup` every behaviour of the two caches is one of
`KekLookup`, in which there are none. The end of an import is a stutter.
`worker_pair` and
`worker_chain` check `ImplementsVault`: under the
mapping `Worker!Vault` every behaviour of the worker is one of `KmsVault`, in
which there are no awaits, tokens, configurations or wraps. The awaits of a
handler are stutters, except the one whose continuation writes the audit line.

**Bounds.** Requests, tasks and calls are one-shot identifiers. Three tasks are
a failing import, a task waiting on it and one that comes after. Two requests
are every pair of interleaved handlers; three are the shortest chain in which a
re-wrapped key is used (generate, re-wrap, decrypt), and handlers share nothing,
so `worker_chain` runs them one after another (`MaxInFlight = 1`) and drops none
(`MaxDropped = 0`). That chains interleave and break off as well is for the
theorems to say; TLC finds it of the two requests of `worker_pair`, which
interleave at every await and are dropped anywhere. Four calls on two entries are three
stores, so that one evicts, and a reader; three instants with a ttl of one let
an entry expire, be stored again and expire again. `MaxTime`, `MaxClears` bound
the clock and the clears. `MAX_CONTEXT_ENTRIES` is 1 in the worker runs so that
a context can be too large. Three isolates are one before, one at and one after
a switch; `MaxLost` bounds the lost replies, enough for one of every row; a row
is written once, so a row that is written again is a second row. In `formats`,
`EditChars` holds a character of each kind that a parser treats differently (a
zero and another digit, a letter, a dash, one of no alphabet); the byte lengths
are those of the code. The constants `WrappedKeys`, `Payloads` and
`WrittenContexts` of `Formats` are what may be sealed: any versions, bytes of
the fixed lengths, and contexts that name each key once (`FormatsAssumption`).
Two levels of nesting and two keys are every combination of present and absent
keys, leaves, nulls and objects that one step of the merge and its recursion can
meet; `Paths` are those of up to three keys, one more than the values are deep.
`DeployAssumption` asks of `Depth` what makes a JSON text finite: what is under
a key is nested less deep. `ArgumentsKept` is checked when `takeProfileArgument` has
run, so it is about that function; what `takeOption` then does with `--cwd` is in
the model (`CwdOf`, `WithoutCwd`) with no property of its own. Symmetry is used in the safety runs only, over the
identifiers, which no definition tells apart.

**What `Rotation` assumes of the operator.** `NothingLost` holds because the
operator waits, before each step, until every isolate runs the configuration
that is deployed (`WaitsForRollout`), and looks at the store when no service
holds a reply that it has not saved (`WaitsForWriters`). The runbook says
neither. With either constant set to FALSE TLC finds a row that is lost: an
isolate that still wraps with version 1 after the check, or a reply with a
version 1 wrapped key that is saved after it. To see it, change the one constant
in `MCRotation.cfg` and keep `NothingLost`: with `WaitsForWriters = FALSE` a
service has a version 1 reply in hand, version 2 is bound and made current in
every isolate, the store holds no version 1 row, `KEK_V1` is removed, and what
the service then saves no longer opens. `SafeRunbook` says what the
sequence of configurations has to be like: each is valid, no version changes its
material, a version is bound before it becomes current, and only the last step
removes one, the old one, which is current in neither of the last two. That the
runbook of `docs/index.md:308-352` is so is an assumption of `MCRotation`, which
TLC evaluates.

**Deadlock** is not checked: one-shot requests that are all answered are the
normal end of a behaviour.

**Fairness.** Arrivals, clears, time, evictions and dropped requests are never
fair. In `KekRegistry`, an import that was started settles and a settled promise
resumes its waiters: WebCrypto and the microtask queue. In `Rotation`, a deployment reaches
every isolate, replies that are not lost are saved, the job keeps trying each row
(in whatever isolate) and the operator goes on when the runbook allows it; that
services write, and that replies are lost, is not fair. `Client` assumes no
fairness and states no liveness: `fetch` has no timeout, so a call waits as long
as the network lets it. Nor does `Worker`: a handler waits for nothing but what
the runtime settles, and for no other handler but through the registry's
imports, of which `Settles` says that they end. `Formats` and `DeployConfig` are
single passes.

## Findings

1. `docs/index.md:370` says every request with a token writes exactly one line.
   `authenticateRequest` calls `assertEnvironment` before its `try`
   (`routes.ts:47`), so an operation that meets a broken configuration is
   answered `internal_error` with no audit line.
2. `docs/index.md:153` says the client's failures throw `KmsClientError`, and
   `test/client.test.ts:170` tests it of malformed envelopes. `decodeBase64Url`
   (`client/index.ts:101-110`) lets `atob` throw for a segment of length 4n+1.
3. `docs/index.md:337` says that looking for `cfkms1.1.%` is enough to see that
   nothing is left on version 1. What `encryptSecret` tells services to store
   starts with `cfkms-env1.` (`client/index.ts:288`), so rows of such strings are
   not found, and removing `KEK_V1` makes them unreadable.
4. `client/index.ts:66` calls `decryptSecret` the inverse of `encryptSecret`.
   `new TextDecoder()` (328) drops a byte order mark at the start of the text,
   and `TextEncoder` (282) replaces lone surrogates.

5. `docs/index.md:220` says "`null` removes a key", the comment at
   `wrangler-config.mjs:32-33` "`null` deletes a key". A null inside an overlay
   object that the base has no object for is copied with it
   (`wrangler-config.mjs:44`), so Wrangler is given a key with the value null.
   `MergeIsDocumented` shows that the merge does what is documented at all other
   paths, and at none of these.

One more disagreement is in the models without a run of its own. The canonical
form of a context is not in UTF-16 order when keys are array indices
(`context.ts:30` says it is); `OrderDoesNotMatter` shows that it is still one
form per context.

## What is proved

TLC shows each property on the instances above. The theorems show it for every
value of the constants, under the assumptions that the modules name
(`ClientAssumption` and its like: sentinels are no values, bounds are numbers,
contexts are functions over the ordered keys). TLC evaluates those in every run.

Everything a proof module states of a specification rests on one inductive
invariant, its `IInv` (`ScriptInv` in `DeployConfigProofs`).
TLC finds it to hold on the instance of the module's run as well. Each
action preserves it, by a lemma of its own or a step of the lemma about `Next`.

| Module | Theorems | Of how many |
| --- | --- | --- |
| `KekRegistryProofs` | `TypeOK`, `RightKey`, `BrokenNeverServes`, `SingleFlight`, the action properties `CachedKeyStable` and `FailureNotSticky`, and the refinement `ImplementsLookup` | any env objects, materials, requests |
| `WorkerProofs` | `TypeOK`, `AuditExactlyOnce`, `AuditTruth`, `UnwrapVerdict`, `ContextBinding`, `ScopeEnforced`, `Traceable`, `StaysReadable`, and the refinement `ImplementsVault` | any requests in flight and dropped, configurations, callers, headers, bodies |
| `ClientProofs` | `TypeOK`, `HitWasGranted`, `HitWithinTtl`, `ClearForgets`, `OpensIffGenuine`, `CacheBounded` | any calls, contexts, ttls, cache sizes, clears |
| `FormatsProofs` | `TypeOK`, `ReadsWhatWasSealed`, `OneTextPerKey`, `OrderDoesNotMatter` | any version up to 9999, any bytes, payloads of any length, any contexts |
| `RotationProofs` | `TypeOK`, `NothingLost`, `NoNewOld` | any runbook, isolates, rows, lost replies |
| `DeployConfigProofs` | `RunsWithMerge`, `ArgumentsKept`, and of the merge `MergeIsDocumented` | any configurations of any keys and depth, any path, command lines of any length |
| `ContextProofs` | `CanonicalFormsDiffer` | any keys and values, any order of keys |

### The registry

None of the properties is inductive. `IInv` adds what ties the two caches, the
promises and the waiters together:

- `CacheSound`: a cached promise is about the material it is cached under and
  has not been rejected. Without it a joined import could be about anything.
- `PendingCached`: an import under way *is* the cached one. This is why the
  `delete` in the catch handler, which names the material and not the promise,
  removes only its own entry; `SingleFlight` follows at once.
- `WaitsRight`: a waiter waits on an import of its own material. `RightKey` is
  the case of a waiter that has resumed.
- `NotStarted`: a task that has not called `key` has no promise yet, so the
  promise it creates cannot be one that somebody already waits for.
- `ServesValid`, `MemoValid`: whoever is past `assertEnvironment`, and whatever
  is memoised, has a valid configuration; so only validated material is imported.

`ImplementsLookup` follows step by step (`AssertEnvironmentLookup`,
`KeyLookup`, `ResumeLookup`). What has to be shown is that nobody's key changes
by what others do: an import that starts is about a promise no task holds yet
(`NotStarted`, `WaitsRight`), and the caches are seen by nobody (`KeysStay`).
That a memoised runtime is accepted is `MemoValid`. The refinement says more
than `RightKey` and `BrokenNeverServes` together: a valid configuration is never
refused, a known version never unknown, and a request changes by its own steps only.

### Contexts

AES-GCM and the client's cache see a context by its canonical form only.
`CanonicalFormsDiffer` says that nothing is lost on the way: contexts with the
same canonical form are the same. It is proved from `CanonicalKeysEnumerate` (the order of an
object lists every key of a context, and nothing else) and holds for any key order, array indices
included. That a sequence of positions has a least one is `LeastNatural`.

### The worker

`IInv` is `TypeOK`, `Sound` for every request and `Traced`. `Sound` says what a
handler knows at each await (`AwaitOK`: who asks, that the scope was tested,
that the token is accepted, which data key it holds), and what a reply and its
line are true of (`ReplyOK`, `LogOK`, `VerdictOK`). It is about one request and
follows step by step from the handler.

What links requests is the wrapped key a client carries from one to the next.
`Traced` says that the data key in any box, sent or given, was generated by a
request that has succeeded, under the context the box is sealed with. It is
needed because `ContextBinding` relates a decrypt to a generate request any
number of re-wraps ago, and inductive because a granted request does not change
any more but for its await (`Kept`). `ContextBinding`, `ScopeEnforced` and
`Traceable` are then the case of a request that has got a key (`GrantedOrigin`);
`CanonicalFormsDiffer` turns equal additional data into equal contexts.

`ImplementsVault` is proved step by step: a step of the worker is a step of one
request (`OneRequestSteps`). Before its reply is set the mapped variables do not
change. The step that sets it is the vault's `Generate`, `Decrypt`, `ReWrap` or
`Refuse` with the caller, context and data key that the invariant, taken after
the step, says the line has (`Heard`); and later nothing the vault sees changes
(`Frozen`). `KmsVault` has no fairness, so this is all of the refinement.

### The client

An entry of the cache says who stored it, not what it is worth. `IInv` therefore
speaks of the storing call: what it stored is what the server granted it
(`StoreOK`), every entry is what its storer stored, since the last clear and
until its ttl (`EntryOK`), and a call that hit an entry holds what the storer
was granted for the same wrapped key and context (`HitOK`). Nothing of a storer
changes afterwards, although the call goes on; that is what makes `HitOK`
inductive. `CacheBounded` is part of the invariant, and so is that a `Map` has
one entry per key (`OneEntryPerKey`): a hit that has expired takes out one entry
and relies on there being one. The sequence steps
of the `Map` (delete, append, evict the first) are lemmas of their own:
`RemoveAtRemoves`, `MissThins` and those after it. `CacheKeyStandsForOne` uses
`CanonicalFormsDiffer`.

### The formats

Most of `FormatsProofs` is lemmas about the operators. base64url is proved a
group of three bytes at a time, in both directions: what was encoded is decoded
(`DecodesWhatWasEncoded`), and whatever is accepted with no bits to spare is
what would have been encoded (`EncodesWhatWasDecoded`; the step the two fixed lengths, 12 and 48, are
needed for: both are multiples of three). Version numbers likewise, by the
number of digits (`VersionsAreRead`, `VersionsHaveOneText`). `IInv` is small:
`SealedInv` (the blob is text whatever happened to it), `ParsedInv` and `KeyInv`
(what was taken out is what the parsers give). `OneTextPerKey` then says of any
edited text that it is refused or is the one text of its key.

### The rotation

`NothingLost` is proved for any runbook under `SafeRunbook` and `Disciplined`:
the operator waits for rollouts and writers, and services store wrapped keys as
such. The last is finding 3: with envelopes the property is false. `IInv` adds

- `Trailing`: isolates are at most one deployment behind. It is what waiting for
  rollouts buys.
- `HeldOpens`: whatever is stored, or in a reply that is not saved yet, opens
  under the deployment and under the one before it. `NothingLost` is inductive
  with nothing less, since either may serve the next request.
- `CheckedForGood`: once the check finds no old version, the old version is in
  no row, in no reply, and no isolate is left that would wrap with it. This is
  what waiting for writers buys, and what removing the old key relies on.

`NoNewOld` needs `SafeRunbook` alone, `TypeOK` only that the configurations of
the runbook are valid.

### The deployment script

The library's induction theorems take a predicate as a parameter, which the
provers cannot instantiate. `Induction` therefore states induction of sets:
`LeastNatural` is taken from `WFMin`, and `NaturalInduction` from it. A
predicate `P` is then the set `{n \in Nat : P(n)}`.

The model's recursive functions come first. A definition `f[x \in S] == ...`
stands for a CHOOSE, so that the function does what its definition says has to be
shown before it can be used. `WalkSteps` and `TakenSteps` show it of the walk
down a path and of the loop over the arguments, by building the function one
number further. `MergeSteps` shows it of `mergeWranglerConfig`, by the depth of
the tracked value: the merge over something depends on the merge over what is
under it and on nothing else (`MergeBodyDependsOn`), so the functions built for
two depths agree where both are defined.

`MergeIsDocumented` says that the merge does what `Documented` asks at a path if
and only if the path does not lead to a stray null. Its proof follows the path
from the root down. `Merges` says what is
at each point of it: the merge of the two values there, as long as both sides
have one; the value of one side, once the other has none; nothing below a leaf
of the overlay. `Documented` and `StrayNull`, which speak of the end of the path
alone, are the last case.

`LoopIs` is the loop invariant of `takeProfileArgument`: after n arguments the
loop has the name the last option gave, the arguments for Wrangler in order, and
whether the next argument is a value. `IsProfileValue` says that last thing
without a loop, by the parity of the run of `--profile` before an argument;
`ValueFollows` shows that it goes from one argument to the next as the index of
the code does. That the n-th argument for Wrangler is the one with n of them up
to it needs that such ranks are taken, once each (`RankedIs`, `EveryRank`,
`NextIsRanked`).

`ScriptInv` has what is true between two steps of the script: after the parse,
what the loop took (`ParsedOK`); after the resolution, that the generated file of
the profile is the merge of this run (`ResolvedOK`). The last one is what
`RunsWithMerge` needs, since Wrangler reads a file that earlier runs wrote too.

### What stays with TLC

- `Settles` and `RotationEnds`: liveness under fairness is out of
  the prover's reach.
- The five findings, which are counterexamples.

All other properties of the runs are theorems. The action property of an audit
line that is never rewritten is not stated by itself: it is part of
`ImplementsVault`, where an entry of the trail is set once.

## What is not modelled

- Bytes and text outside `Formats`: JSON, hex digests, the regular expressions
  of names. What decodes and what does not is a value of its own (`Malformed`,
  `DecryptUnparsable`).
- Cryptography: AES-GCM and SHA-256 are ideal, randomness is always fresh.
- How long an isolate trails a deployment: the code has no bound on it, so
  nothing is said of when a deleted key is of no more use to anybody.
- `assertSecureUrl`, the worker's entry point, type declarations, build files.
- A clock that jumps back: `Client` assumes that `now()` does not decrease.

## Plan

Done, in this order: the registry, the request pipeline, the client, the
formats, the rotation and the deployment script, each with its runs; the
refinements `ImplementsVault` and `ImplementsLookup`; the proofs about all six.

Left, should the code change or the tools allow it:

1. The liveness properties, once the prover handles ENABLED.
2. A timeout in the client: `fetch` has none today, so there is nothing to
   state of it (see the hazards in `PROJECT.json`).
3. The end of a deleted key. The model has it that stale isolates and caches
   may still open version 1 after it is gone; a bound on that would have to
   come from the platform.
