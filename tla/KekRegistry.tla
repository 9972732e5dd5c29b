---------------------------- MODULE KekRegistry ----------------------------
(***************************************************************************)
(* The two caches of an isolate that all its requests share: the runtimes  *)
(* memoised per env object (runtimeByEnv, src/src/env.ts) and the imports  *)
(* of KEK material (importedKeks, src/src/crypto/kek.ts).                  *)
(*                                                                         *)
(* A task is one use of the registry by a request: assertEnvironment and   *)
(* then one await of keks.key(version).  Everything between two awaits is  *)
(* one step; tasks interleave at the awaits.  An import is a promise, and  *)
(* a promise is named by the task whose call created it.                   *)
(***************************************************************************)
EXTENDS Environment

CONSTANT Tasks   \* the uses of the registry (one-shot)

ASSUME TasksAssumption == None \notin Tasks

VARIABLES
    memo,       \* memo[e]: runtimeByEnv has a runtime for e
    imported,   \* imported[m]: the promise importedKeks holds for m
    promise,    \* promise[p]: the state of the import task p started
    importing,  \* importing[p]: the material that import is about
    pc,         \* pc[t]: how far task t is
    env,        \* env[t]: the env object of its request
    ver,        \* ver[t]: the version it asks for
    waits       \* waits[t]: the promise it awaits

registryVars == <<memo, imported, promise, importing>>
taskVars == <<pc, env, ver, waits>>
vars == <<memo, imported, promise, importing, pc, env, ver, waits>>

\* One type invariant: the shape of both caches and of every task.
TypeOK ==
    /\ memo \in [Envs -> BOOLEAN]
    /\ imported \in [Materials -> Tasks \union {None}]
    /\ promise \in [Tasks -> {"none", "pending", "fulfilled", "rejected"}]
    /\ importing \in [Tasks -> Materials \union {None}]
    /\ pc \in [Tasks -> {"idle", "ready", "waiting", "holds", "failed"}]
    /\ env \in [Tasks -> Envs \union {None}]
    /\ ver \in [Tasks -> Versions \union {None}]
    /\ waits \in [Tasks -> Tasks \union {None}]

Init ==
    /\ memo = [e \in Envs |-> FALSE]
    /\ imported = [m \in Materials |-> None]
    /\ promise = [p \in Tasks |-> "none"]
    /\ importing = [p \in Tasks |-> None]
    /\ pc = [t \in Tasks |-> "idle"]
    /\ env = [t \in Tasks |-> None]
    /\ ver = [t \in Tasks |-> None]
    /\ waits = [t \in Tasks |-> None]

-----------------------------------------------------------------------------
(***************************************************************************)
(* assertEnvironment(env): one synchronous step.                           *)
(***************************************************************************)
Enter(t, e, next) ==
    /\ pc[t] = "idle"
    /\ pc' = [pc EXCEPT ![t] = next]
    /\ env' = [env EXCEPT ![t] = e]
    /\ UNCHANGED <<imported, promise, importing, ver, waits>>

RuntimeCached(t, e) ==
    /\ memo[e]
    /\ Enter(t, e, "ready")
    /\ UNCHANGED memo

RuntimeBuilt(t, e) ==
    /\ ~ memo[e]
    /\ EnvironmentValid(e)
    /\ Enter(t, e, "ready")
    /\ memo' = [memo EXCEPT ![e] = TRUE]

\* The memo is filled before the callers are parsed.
RuntimeRefused_MemoisedEarly(t, e) ==
    /\ ~ memo[e]
    /\ ~ EnvironmentValid(e)
    /\ Enter(t, e, "failed")
    /\ memo' = [memo EXCEPT ![e] = KekRegistryValid(e)]

\* Validation throws: nothing is memoised, so the next request throws too.
RuntimeRefused(t, e) ==
    /\ ~ memo[e]
    /\ ~ EnvironmentValid(e)
    /\ Enter(t, e, "failed")
    /\ UNCHANGED memo

(***************************************************************************)
(* keks.key(version) up to its await: look the material up, join a cached  *)
(* import or start one and cache its promise at once, still pending.       *)
(***************************************************************************)
Await(t, v, p) ==
    /\ pc' = [pc EXCEPT ![t] = "waiting"]
    /\ ver' = [ver EXCEPT ![t] = v]
    /\ waits' = [waits EXCEPT ![t] = p]
    /\ UNCHANGED <<memo, env>>

\* The check for an undefined material is missing: undefined is imported.
KeyUnknown_Imports(t, v) ==
    /\ pc[t] = "ready"
    /\ ~ HasKek(env[t], v)
    /\ promise' = [promise EXCEPT ![t] = "pending"]
    /\ importing' = [importing EXCEPT ![t] = Malformed]
    /\ Await(t, v, t)
    /\ UNCHANGED imported

KeyUnknown(t, v) ==
    /\ pc[t] = "ready"
    /\ ~ HasKek(env[t], v)
    /\ pc' = [pc EXCEPT ![t] = "failed"]
    /\ ver' = [ver EXCEPT ![t] = v]
    /\ UNCHANGED <<registryVars, env, waits>>

\* The version number alone decides: any cached import another env made for
\* that version is joined.
KeyCached_ByVersion(t, v) ==
    /\ pc[t] = "ready"
    /\ HasKek(env[t], v)
    /\ \E u \in Tasks :
           /\ ver[u] = v
           /\ promise[u] \in {"pending", "fulfilled"}
           /\ Await(t, v, u)
    /\ UNCHANGED <<imported, promise, importing>>

KeyCached(t, v) ==
    /\ pc[t] = "ready"
    /\ HasKek(env[t], v)
    /\ imported[KekMaterial(env[t], v)] # None
    /\ Await(t, v, imported[KekMaterial(env[t], v)])
    /\ UNCHANGED <<imported, promise, importing>>

StartImport(t, m) ==
    /\ promise' = [promise EXCEPT ![t] = "pending"]
    /\ importing' = [importing EXCEPT ![t] = m]

\* The promise is never put in the cache.
KeyImported_Uncached(t, v) ==
    /\ pc[t] = "ready"
    /\ HasKek(env[t], v)
    /\ imported[KekMaterial(env[t], v)] = None
    /\ StartImport(t, KekMaterial(env[t], v))
    /\ Await(t, v, t)
    /\ UNCHANGED imported

\* A new import starts, and replaces the cached one, without a lookup.
KeyImported_NoLookup(t, v) ==
    /\ pc[t] = "ready"
    /\ HasKek(env[t], v)
    /\ StartImport(t, KekMaterial(env[t], v))
    /\ imported' = [imported EXCEPT ![KekMaterial(env[t], v)] = t]
    /\ Await(t, v, t)

KeyImported(t, v) ==
    /\ pc[t] = "ready"
    /\ HasKek(env[t], v)
    /\ imported[KekMaterial(env[t], v)] = None
    /\ StartImport(t, KekMaterial(env[t], v))
    /\ imported' = [imported EXCEPT ![KekMaterial(env[t], v)] = t]
    /\ Await(t, v, t)

(***************************************************************************)
(* crypto.subtle.importKey settles.  On failure the catch handler deletes  *)
(* the cache entry and rethrows, before any waiter is resumed.             *)
(***************************************************************************)
ImportSucceeds(p) ==
    /\ promise[p] = "pending"
    /\ promise' = [promise EXCEPT ![p] = "fulfilled"]
    /\ UNCHANGED <<memo, imported, importing, taskVars>>

\* The catch handler is missing: the rejected promise stays cached.
ImportFails_KeepsEntry(p) ==
    /\ promise[p] = "pending"
    /\ promise' = [promise EXCEPT ![p] = "rejected"]
    /\ UNCHANGED <<memo, imported, importing, taskVars>>

ImportFails(p) ==
    /\ promise[p] = "pending"
    /\ promise' = [promise EXCEPT ![p] = "rejected"]
    /\ imported' = [imported EXCEPT ![importing[p]] = None]
    /\ UNCHANGED <<memo, importing, taskVars>>

(***************************************************************************)
(* The await of keks.key resumes once the promise it waits on has settled. *)
(***************************************************************************)
\* A rejection never reaches the waiter.
Resume_OnlyFulfilled(t) ==
    /\ pc[t] = "waiting"
    /\ promise[waits[t]] = "fulfilled"
    /\ pc' = [pc EXCEPT ![t] = "holds"]
    /\ UNCHANGED <<registryVars, env, ver, waits>>

Resume(t) ==
    /\ pc[t] = "waiting"
    /\ \/ /\ promise[waits[t]] = "fulfilled"
          /\ pc' = [pc EXCEPT ![t] = "holds"]
       \/ /\ promise[waits[t]] = "rejected"
          /\ pc' = [pc EXCEPT ![t] = "failed"]
    /\ UNCHANGED <<registryVars, env, ver, waits>>

-----------------------------------------------------------------------------
AssertEnvironment(t, e) ==
    RuntimeCached(t, e) \/ RuntimeBuilt(t, e) \/ RuntimeRefused(t, e)

Key(t, v) == KeyUnknown(t, v) \/ KeyCached(t, v) \/ KeyImported(t, v)

ImportSettles(p) == ImportSucceeds(p) \/ ImportFails(p)

Next ==
    \E t \in Tasks :
        \/ \E e \in Envs : AssertEnvironment(t, e)
        \/ \E v \in Versions : Key(t, v)
        \/ ImportSettles(t)
        \/ Resume(t)

\* Requests arrive when they like; an import started settles, and a settled
\* promise resumes its waiters (WebCrypto and the microtask queue).
Fairness == \A t \in Tasks : WF_vars(ImportSettles(t)) /\ WF_vars(Resume(t))

Spec == Init /\ [][Next]_vars /\ Fairness

-----------------------------------------------------------------------------
(***************************************************************************)
(* What the caches owe the requests.                                       *)
(***************************************************************************)

\* A task that gets a key gets the key imported from the material that its own
\* env object binds to the version it asked for, also when several env objects
\* with different material under one version share the isolate (kek.ts:24-30).
RightKey ==
    \A t \in Tasks : pc[t] = "holds" =>
        importing[waits[t]] = KekMaterial(env[t], ver[t])

\* A configuration that does not validate never serves a request, no matter how
\* many requests have tried it before: a refusal leaves nothing in the memo
\* (env.ts:7-10, "it keeps throwing until it is fixed").
BrokenNeverServes ==
    \A t \in Tasks : pc[t] \in {"ready", "waiting", "holds"} => EnvironmentValid(env[t])

\* However many requests ask at once, one import of a material is under way.
SingleFlight ==
    \A p, q \in Tasks :
        /\ promise[p] = "pending"
        /\ promise[q] = "pending"
        /\ importing[p] = importing[q]
        => p = q

EntryStays ==
    \A m \in Materials : imported[m] # None /\ imported'[m] # imported[m] =>
        /\ imported'[m] = None
        /\ promise'[imported[m]] = "rejected"

\* A cached key stays the isolate's key for its material; an entry disappears
\* only because its own import failed, never because an older one did.
CachedKeyStable == [][EntryStays]_vars

CallRetries ==
    \A t \in Tasks : pc[t] = "ready" /\ pc'[t] = "waiting" => promise'[waits'[t]] # "rejected"

\* A transient import failure is not sticky: a call made after the failure
\* waits on an import that can still succeed.
FailureNotSticky == [][CallRetries]_vars

\* Every call of keks.key is answered, with a key or with an error, whichever
\* way the import it shares with others ends.
Settles ==
    \A t \in Tasks : pc[t] = "waiting" ~> pc[t] \in {"holds", "failed"}

-----------------------------------------------------------------------------
(***************************************************************************)
(* The refinement: the key of a task is the material of the import whose   *)
(* promise it got.                                                         *)
(***************************************************************************)
Lookup == INSTANCE KekLookup WITH
    Accepted <- {e \in Envs : EnvironmentValid(e)},
    Keks     <- [e \in Envs |-> Bindings[e].keks],
    key      <- [t \in Tasks |-> IF pc[t] = "holds" THEN importing[waits[t]] ELSE None]

\* To every request the caches are as if they were not there: each step of any
\* interleaving of requests, imports and failures is one step of a lookup in the
\* request's own configuration, valid or refused, or is not seen by any of them
\* (env.ts:19-38, kek.ts:69-86, 143-151).
ImplementsLookup == Lookup!Spec
=============================================================================
