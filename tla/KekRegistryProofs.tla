------------------------- MODULE KekRegistryProofs -------------------------
(***************************************************************************)
(* Proofs about KekRegistry, for any env objects, materials and number of  *)
(* requests.                                                               *)
(*                                                                         *)
(* None of the properties is inductive by itself.  What makes them so is   *)
(* how the cache, the promises and the waiters agree: a cached promise is  *)
(* about the material it is cached under and has not been rejected, an     *)
(* import under way is the cached one, and a task waits on a promise about *)
(* its own material.                                                       *)
(***************************************************************************)
EXTENDS KekRegistry, TLAPS

\* A task past assertEnvironment has a valid configuration.
ServesValid ==
    \A t \in Tasks : pc[t] \in {"ready", "waiting", "holds"} =>
        env[t] \in Envs /\ EnvironmentValid(env[t])

\* So has every memoised runtime.
MemoValid == \A e \in Envs : memo[e] => EnvironmentValid(e)

\* A task that has not called keks.key has started no import.
NotStarted == \A t \in Tasks : pc[t] \in {"idle", "ready"} => promise[t] = "none"

\* A cached promise is about the material it is cached under, and not rejected.
CacheSound ==
    \A m \in Materials : imported[m] # None =>
        /\ importing[imported[m]] = m
        /\ promise[imported[m]] \in {"pending", "fulfilled"}

\* An import under way is the cached one.
PendingCached ==
    \A p \in Tasks : promise[p] = "pending" =>
        importing[p] \in Materials /\ imported[importing[p]] = p

\* A waiter waits on an import of its own material.
WaitsRight ==
    \A t \in Tasks : pc[t] \in {"waiting", "holds"} =>
        /\ waits[t] \in Tasks
        /\ promise[waits[t]] # "none"
        /\ importing[waits[t]] = KekMaterial(env[t], ver[t])

\* The inductive invariant.
IInv ==
    /\ TypeOK
    /\ ServesValid
    /\ MemoValid
    /\ NotStarted
    /\ CacheSound
    /\ PendingCached
    /\ WaitsRight

-----------------------------------------------------------------------------
\* A configuration that validates has well-formed material for every version
\* it has: keks.key never hands importKek anything else (kek.ts:100-121).
LEMMA MaterialOfValid ==
    ASSUME NEW e \in Envs, NEW v, EnvironmentValid(e), HasKek(e, v)
    PROVE  KekMaterial(e, v) \in Materials
  BY BindingsAssumption DEF EnvironmentValid, KekRegistryValid, HasKek, KekVersions, KekMaterial

\* The initial state satisfies the invariant.
LEMMA InitIInv == Init => IInv
  BY TasksAssumption, SentinelAssumption
  DEF Init, IInv, TypeOK, ServesValid, MemoValid, NotStarted, CacheSound, PendingCached, WaitsRight

\* assertEnvironment preserves it.
LEMMA AssertEnvironmentIInv ==
    ASSUME IInv, NEW t \in Tasks, NEW e \in Envs, AssertEnvironment(t, e)
    PROVE  IInv'
<1> USE DEF IInv, TypeOK, Enter
<1>1. CASE RuntimeCached(t, e)
  BY <1>1 DEF RuntimeCached, ServesValid, MemoValid, NotStarted, CacheSound, PendingCached, WaitsRight
<1>2. CASE RuntimeBuilt(t, e)
  BY <1>2 DEF RuntimeBuilt, ServesValid, MemoValid, NotStarted, CacheSound, PendingCached, WaitsRight
<1>3. CASE RuntimeRefused(t, e)
  BY <1>3 DEF RuntimeRefused, ServesValid, MemoValid, NotStarted, CacheSound, PendingCached, WaitsRight
<1>4. QED BY <1>1, <1>2, <1>3 DEF AssertEnvironment
\* keks.key up to its await preserves it.
LEMMA KeyIInv ==
    ASSUME IInv, NEW t \in Tasks, NEW v \in Versions, Key(t, v)
    PROVE  IInv'
<1> USE DEF IInv, TypeOK
<1>1. CASE KeyUnknown(t, v)
  BY <1>1 DEF KeyUnknown, registryVars, ServesValid, MemoValid, NotStarted, CacheSound,
              PendingCached, WaitsRight
<1>2. CASE KeyCached(t, v)
  <2> DEFINE m == KekMaterial(env[t], v)
  <2>1. m \in Materials
    BY <1>2, MaterialOfValid DEF KeyCached, ServesValid
  <2>2. /\ imported[m] \in Tasks
        /\ importing[imported[m]] = m
        /\ promise[imported[m]] # "none"
    BY <1>2, <2>1 DEF KeyCached, CacheSound
  <2>3. TypeOK'
    BY <1>2, <2>2 DEF KeyCached, Await
  <2>4. ServesValid' /\ MemoValid' /\ NotStarted'
    BY <1>2 DEF KeyCached, Await, ServesValid, MemoValid, NotStarted
  <2>5. CacheSound' /\ PendingCached'
    BY <1>2 DEF KeyCached, Await, CacheSound, PendingCached
  <2>6. WaitsRight'
    BY <1>2, <2>2 DEF KeyCached, Await, WaitsRight
  <2>7. QED BY <2>3, <2>4, <2>5, <2>6
<1>3. CASE KeyImported(t, v)
  <2> DEFINE m == KekMaterial(env[t], v)
  <2>1. m \in Materials /\ imported[m] = None
    BY <1>3, MaterialOfValid DEF KeyImported, ServesValid
  <2>2. promise[t] = "none"
    BY <1>3 DEF KeyImported, NotStarted
  <2>3. TypeOK'
    BY <1>3, <2>1 DEF KeyImported, StartImport, Await
  <2>4. ServesValid' /\ MemoValid' /\ NotStarted'
    BY <1>3 DEF KeyImported, StartImport, Await, ServesValid, MemoValid, NotStarted
  <2>5. CacheSound'
    BY <1>3, <2>1, <2>2 DEF KeyImported, StartImport, Await, CacheSound
  <2>6. PendingCached'
    BY <1>3, <2>1, <2>2, TasksAssumption DEF KeyImported, StartImport, Await, PendingCached
  <2>7. WaitsRight'
    BY <1>3, <2>1, <2>2 DEF KeyImported, StartImport, Await, WaitsRight
  <2>8. QED BY <2>3, <2>4, <2>5, <2>6, <2>7
<1>4. QED BY <1>1, <1>2, <1>3 DEF Key

\* The end of an import preserves it.
LEMMA ImportSettlesIInv ==
    ASSUME IInv, NEW p \in Tasks, ImportSettles(p)
    PROVE  IInv'
<1> USE DEF IInv, TypeOK
<1>1. CASE ImportSucceeds(p)
  BY <1>1 DEF ImportSucceeds, taskVars, ServesValid, MemoValid, NotStarted, CacheSound,
              PendingCached, WaitsRight
<1>2. CASE ImportFails(p)
  <2>1. promise[p] = "pending" /\ importing[p] \in Materials /\ imported[importing[p]] = p
    BY <1>2 DEF ImportFails, PendingCached
  <2>2. TypeOK' /\ ServesValid' /\ MemoValid' /\ NotStarted' /\ WaitsRight'
    BY <1>2, <2>1 DEF ImportFails, taskVars, ServesValid, MemoValid, NotStarted, WaitsRight
  <2>3. CacheSound'
    BY <1>2, <2>1, TasksAssumption DEF ImportFails, taskVars, CacheSound
  <2>4. PendingCached'
    BY <1>2, <2>1 DEF ImportFails, taskVars, PendingCached
  <2>5. QED BY <2>2, <2>3, <2>4
<1>3. QED BY <1>1, <1>2 DEF ImportSettles

\* The end of an await preserves it.
LEMMA ResumeIInv ==
    ASSUME IInv, NEW t \in Tasks, Resume(t)
    PROVE  IInv'
  BY DEF Resume, registryVars, IInv, TypeOK, ServesValid, MemoValid, NotStarted, CacheSound,
         PendingCached, WaitsRight

\* Every step preserves it.
LEMMA NextIInv == IInv /\ [Next]_vars => IInv'
<1> SUFFICES ASSUME IInv, [Next]_vars PROVE IInv'
  OBVIOUS
<1>1. CASE UNCHANGED vars
  BY <1>1 DEF vars, IInv, TypeOK, ServesValid, MemoValid, NotStarted, CacheSound, PendingCached,
              WaitsRight
<1>2. ASSUME NEW t \in Tasks, NEW e \in Envs, AssertEnvironment(t, e) PROVE IInv'
  BY <1>2, AssertEnvironmentIInv
<1>3. ASSUME NEW t \in Tasks, NEW v \in Versions, Key(t, v) PROVE IInv'
  BY <1>3, KeyIInv
<1>4. ASSUME NEW t \in Tasks, ImportSettles(t) PROVE IInv'
  BY <1>4, ImportSettlesIInv
<1>5. ASSUME NEW t \in Tasks, Resume(t) PROVE IInv'
  BY <1>5, ResumeIInv
<1>6. QED BY <1>1, <1>2, <1>3, <1>4, <1>5 DEF Next

\* The strengthening holds in every reachable state.
THEOREM Invariance == Spec => []IInv
<1>1. QED BY InitIInv, NextIInv, PTL DEF Spec

-----------------------------------------------------------------------------
\* The caches and the tasks have their types.
THEOREM TypeCorrect == Spec => []TypeOK
<1>1. IInv => TypeOK
  BY DEF IInv
<1>2. QED BY <1>1, Invariance, PTL

\* No request is ever served a key of other material than its own
\* configuration binds to the version it asked for (kek.ts:24-30).
THEOREM KeysAreRight == Spec => []RightKey
<1>1. IInv => RightKey
  BY DEF IInv, WaitsRight, RightKey
<1>2. QED BY <1>1, Invariance, PTL

\* A configuration that does not validate serves no request (env.ts:7-10).
THEOREM BrokenRefused == Spec => []BrokenNeverServes
<1>1. IInv => BrokenNeverServes
  BY DEF IInv, ServesValid, BrokenNeverServes
<1>2. QED BY <1>1, Invariance, PTL

\* One import of a material at a time, however many requests want it.
THEOREM ImportsAreShared == Spec => []SingleFlight
<1>1. IInv => SingleFlight
  BY DEF IInv, PendingCached, SingleFlight
<1>2. QED BY <1>1, Invariance, PTL

\* A cache entry goes only when its own import fails (kek.ts:78-81).
THEOREM EntriesAreStable == Spec => CachedKeyStable
<1>1. ASSUME IInv, [Next]_vars, NEW m \in Materials, imported[m] # None, imported'[m] # imported[m]
      PROVE  imported'[m] = None /\ promise'[imported[m]] = "rejected"
  <2>1. imported' # imported
    BY <1>1
  <2>2. ASSUME NEW t \in Tasks, NEW v \in Versions, KeyImported(t, v)
        PROVE  imported'[m] = imported[m]
    BY <1>1, <2>2 DEF KeyImported, IInv, TypeOK
  <2>3. PICK p \in Tasks : ImportFails(p)
    BY <1>1, <2>1, <2>2 DEF vars, Next, AssertEnvironment, RuntimeCached, RuntimeBuilt,
       RuntimeRefused, Enter, Key, KeyUnknown, KeyCached, registryVars, ImportSettles,
       ImportSucceeds, Resume
  <2>4. promise[p] = "pending" /\ importing[p] \in Materials /\ imported[importing[p]] = p
    BY <1>1, <2>3 DEF ImportFails, IInv, PendingCached
  <2>5. importing[p] = m
    BY <1>1, <2>3, <2>4 DEF ImportFails, IInv, TypeOK
  <2>6. QED BY <1>1, <2>3, <2>4, <2>5 DEF ImportFails, IInv, TypeOK
<1>2. IInv /\ [Next]_vars => [EntryStays]_vars
  BY <1>1 DEF EntryStays
<1>3. QED BY <1>2, Invariance, PTL DEF Spec, CachedKeyStable

\* A call made after a failed import never waits on that failure.
THEOREM FailuresAreRetried == Spec => FailureNotSticky
<1>1. ASSUME IInv, [Next]_vars, NEW t \in Tasks, pc[t] = "ready", pc'[t] = "waiting"
      PROVE  promise'[waits'[t]] # "rejected"
  <2>1. PICK v \in Versions : KeyCached(t, v) \/ KeyImported(t, v)
    BY <1>1 DEF vars, Next, AssertEnvironment, RuntimeCached, RuntimeBuilt, RuntimeRefused,
       Enter, Key, KeyUnknown, KeyCached, KeyImported, Await, ImportSettles, ImportSucceeds,
       ImportFails, taskVars, Resume, IInv, TypeOK
  <2>2. KekMaterial(env[t], v) \in Materials
    BY <1>1, <2>1, MaterialOfValid DEF KeyCached, KeyImported, IInv, ServesValid
  <2>3. CASE KeyCached(t, v)
    BY <1>1, <2>2, <2>3 DEF KeyCached, Await, IInv, TypeOK, CacheSound
  <2>4. CASE KeyImported(t, v)
    BY <1>1, <2>4 DEF KeyImported, StartImport, Await, IInv, TypeOK
  <2>5. QED BY <2>1, <2>3, <2>4
<1>2. IInv /\ [Next]_vars => [CallRetries]_vars
  BY <1>1 DEF CallRetries
<1>3. QED BY <1>2, Invariance, PTL DEF Spec, FailureNotSticky

-----------------------------------------------------------------------------
(***************************************************************************)
(* The refinement of KekLookup.                                            *)
(***************************************************************************)
Accepted == {e \in Envs : EnvironmentValid(e)}
Keks == [e \in Envs |-> Bindings[e].keks]
KeyOf(t) == IF pc[t] = "holds" THEN importing[waits[t]] ELSE None
Keys == [t \in Tasks |-> KeyOf(t)]

\* What the registry knows of its configuration is what the lookup knows.
LEMMA SameKeks ==
    ASSUME IInv, NEW t \in Tasks, NEW v, pc[t] \in {"ready", "waiting"}
    PROVE  /\ HasKek(env[t], v) <=> v \in DOMAIN Keks[env[t]]
           /\ KekMaterial(env[t], v) = Keks[env[t]][v]
  BY DEF IInv, ServesValid, HasKek, KekVersions, KekMaterial, Keks

\* As long as no task gets its key, the keys that tasks hold stay.
LEMMA KeysStay ==
    ASSUME \A t \in Tasks : pc'[t] = "holds" <=> pc[t] = "holds",
           \A t \in Tasks : pc[t] = "holds" => importing'[waits'[t]] = importing[waits[t]]
    PROVE  Keys' = Keys
<1>1. ASSUME NEW t \in Tasks
      PROVE  KeyOf(t)' = KeyOf(t)
  BY DEF KeyOf
<1>2. QED BY <1>1 DEF Keys

\* assertEnvironment is the entry of a lookup.
LEMMA AssertEnvironmentLookup ==
    ASSUME IInv, NEW t \in Tasks, NEW e \in Envs, AssertEnvironment(t, e)
    PROVE  Lookup!Enter(t, e)
<1>1. /\ pc[t] = "idle"
      /\ pc' = [pc EXCEPT ![t] = IF e \in Accepted THEN "ready" ELSE "failed"]
      /\ env' = [env EXCEPT ![t] = e]
      /\ UNCHANGED <<ver, waits, importing>>
  BY DEF AssertEnvironment, RuntimeCached, RuntimeBuilt, RuntimeRefused, Enter, Accepted, IInv, MemoValid
<1>2. Keys' = Keys
  BY <1>1, KeysStay DEF IInv, TypeOK
<1>3. QED BY <1>1, <1>2 DEF Lookup!Enter, Lookup!Goes, Accepted, Keys, KeyOf

\* keks.key up to its await asks for a version, or finds it unknown.
LEMMA KeyLookup ==
    ASSUME IInv, NEW t \in Tasks, NEW v \in Versions, Key(t, v)
    PROVE  Lookup!Ask(t, v)
<1>1. /\ pc[t] = "ready"
      /\ pc' = [pc EXCEPT ![t] = IF HasKek(env[t], v) THEN "waiting" ELSE "failed"]
      /\ ver' = [ver EXCEPT ![t] = v]
      /\ env' = env
      /\ \A s \in Tasks \ {t} : waits'[s] = waits[s]
      /\ \A p \in Tasks \ {t} : importing'[p] = importing[p]
      /\ importing'[t] # importing[t] => promise[t] = "none"
  BY DEF Key, KeyUnknown, KeyCached, KeyImported, Await, StartImport, registryVars, IInv, TypeOK, NotStarted
<1>2. HasKek(env[t], v) <=> v \in DOMAIN Keks[env[t]]
  <2>1. pc[t] \in {"ready", "waiting"}
    BY <1>1
  <2>2. QED BY <2>1, SameKeks
<1>3. ASSUME NEW s \in Tasks, pc[s] = "holds"
      PROVE  importing'[waits'[s]] = importing[waits[s]]
  <2>1. s # t /\ waits[s] \in Tasks /\ promise[waits[s]] # "none"
    BY <1>1, <1>3 DEF IInv, WaitsRight
  <2>2. QED BY <1>1, <2>1
<1>4. Keys' = Keys
  BY <1>1, <1>3, KeysStay DEF IInv, TypeOK
<1>5. QED BY <1>1, <1>2, <1>4 DEF Lookup!Ask, Lookup!Goes, Keks, Keys, KeyOf

\* A task that resumes has its answer, or the failure of the import it shares.
LEMMA ResumeLookup ==
    ASSUME IInv, NEW t \in Tasks, Resume(t)
    PROVE  Lookup!Answer(t) \/ Lookup!Fail(t)
<1>1. /\ pc[t] = "waiting"
      /\ UNCHANGED <<importing, env, ver, waits>>
      /\ pc' = [pc EXCEPT ![t] = "holds"] \/ pc' = [pc EXCEPT ![t] = "failed"]
  BY DEF Resume, registryVars
<1>2. CASE pc' = [pc EXCEPT ![t] = "holds"]
  <2>1. importing[waits[t]] = Keks[env[t]][ver[t]]
    BY <1>1, SameKeks DEF IInv, WaitsRight
  <2>2. ASSUME NEW s \in Tasks
        PROVE  KeyOf(s)' = IF s = t THEN Keks[env[t]][ver[t]] ELSE KeyOf(s)
    BY <1>1, <1>2, <2>1 DEF KeyOf, IInv, TypeOK
  <2>3. Keys' = [Keys EXCEPT ![t] = Keks[env[t]][ver[t]]]
    BY <2>2 DEF Keys
  <2>4. QED BY <1>1, <1>2, <2>3 DEF Lookup!Answer, Lookup!Goes, Keks, Keys, KeyOf
<1>3. CASE pc' = [pc EXCEPT ![t] = "failed"]
  <2>1. Keys' = Keys
    BY <1>1, <1>3, KeysStay DEF IInv, TypeOK
  <2>2. QED BY <1>1, <1>3, <2>1 DEF Lookup!Fail, Lookup!Goes, Keys, KeyOf
<1>4. QED BY <1>1, <1>2, <1>3

\* To the requests the two caches are as if they were not there: every step of
\* the registry is a step of one lookup in the request's own configuration, or
\* none that a request can see (env.ts:19-38, kek.ts:69-86, 143-151).
THEOREM RegistryImplementsLookup == Spec => ImplementsLookup
<1>1. Init => Lookup!Init
  BY DEF Init, Lookup!Init
<1>2. IInv /\ [Next]_vars => [Lookup!Next]_<<pc, env, ver, Keys>>
  <2> SUFFICES ASSUME IInv, [Next]_vars
               PROVE  Lookup!Next \/ UNCHANGED <<pc, env, ver, Keys>>
    OBVIOUS
  <2>1. ASSUME NEW t \in Tasks, NEW e \in Envs, AssertEnvironment(t, e) PROVE Lookup!Next
    BY <2>1, AssertEnvironmentLookup DEF Lookup!Next
  <2>2. ASSUME NEW t \in Tasks, NEW v \in Versions, Key(t, v) PROVE Lookup!Next
    BY <2>2, KeyLookup DEF Lookup!Next
  <2>3. ASSUME NEW t \in Tasks, ImportSettles(t) PROVE UNCHANGED <<pc, env, ver, Keys>>
    BY <2>3 DEF ImportSettles, ImportSucceeds, ImportFails, taskVars, Keys, KeyOf
  <2>4. ASSUME NEW t \in Tasks, Resume(t) PROVE Lookup!Next
    BY <2>4, ResumeLookup DEF Lookup!Next
  <2>5. CASE UNCHANGED vars
    BY <2>5 DEF vars, Keys, KeyOf
  <2>6. QED BY <2>1, <2>2, <2>3, <2>4, <2>5 DEF Next
<1>3. [Lookup!Next]_<<pc, env, ver, Keys>> => [Lookup!Next]_(Lookup!vars)
  BY DEF Lookup!vars, Keys, KeyOf
<1>4. QED BY <1>1, <1>2, <1>3, Invariance, PTL DEF Spec, ImplementsLookup, Lookup!Spec
=============================================================================
