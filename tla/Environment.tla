---------------------------- MODULE Environment ----------------------------
(***************************************************************************)
(* The deployment configuration a request reads off its env object, and    *)
(* the validation that turns it into a runtime (src/src/env.ts,            *)
(* src/src/crypto/kek.ts, parseCallers of src/src/auth.ts).                *)
(*                                                                         *)
(* An env object is an element of Envs.  Its bindings never change: a      *)
(* deployment or a change of a secret hands the isolate another object.    *)
(* Bindings[e] is a record                                                 *)
(*   keks      function from the versions n that have a KEK_V<n> binding   *)
(*             to the key material found there (trimmed), or Malformed     *)
(*   misnamed  whether some binding starts with KEK_V and is no KEK_V<n>   *)
(*   current   KEK_CURRENT_VERSION as a version number, or Malformed       *)
(*   callers   the sequence read from CALLERS, or Malformed when it is no  *)
(*             JSON, no array, or an entry does not fit callerSchema       *)
(***************************************************************************)
EXTENDS Naturals, Sequences

CONSTANTS
    Envs,         \* the env objects
    Bindings,     \* what each env object binds
    Versions,     \* the numbers n a KEK_V<n> name can carry
    Materials,    \* well-formed KEK material: the base64 text of 32 bytes
    Malformed,    \* any value the validators refuse
    None,         \* null, undefined, nothing there
    MAX_CALLERS   \* the longest caller list accepted

ASSUME SentinelAssumption ==
    /\ Malformed \notin Versions
    /\ Malformed \notin Materials
    /\ None \notin Versions
    /\ None \notin Materials
    /\ None \notin Envs
    /\ None # Malformed
    /\ MAX_CALLERS \in Nat

ASSUME BindingsAssumption ==
    \A e \in Envs :
        /\ DOMAIN Bindings[e].keks \subseteq Versions
        /\ \A v \in DOMAIN Bindings[e].keks :
               Bindings[e].keks[v] \in Materials \union {Malformed}
        /\ Bindings[e].current \in Versions \union {Malformed}

KekVersions(e) == DOMAIN Bindings[e].keks

\* keks.has(v): the registry accepts v for unwrap.
HasKek(e, v) == v \in KekVersions(e)

\* The material the registry of e imports for version v.
KekMaterial(e, v) == Bindings[e].keks[v]

\* keks.currentVersion: the version of every new wrap.
CurrentVersion(e) == Bindings[e].current

\* createKekRegistry returns.  Any malformed or misnamed KEK_V binding makes
\* it throw, whether or not that version is the current one.
KekRegistryValid(e) ==
    /\ ~ Bindings[e].misnamed
    /\ \A v \in KekVersions(e) : KekMaterial(e, v) # Malformed
    /\ KekVersions(e) # {}
    /\ CurrentVersion(e) # Malformed
    /\ HasKek(e, CurrentVersion(e))

\* parseCallers returns: names and token hashes are unique within the list.
CallersValid(e) ==
    LET callers == Bindings[e].callers IN
    /\ callers # Malformed
    /\ Len(callers) <= MAX_CALLERS
    /\ \A i, j \in DOMAIN callers :
           i # j => /\ callers[i].name # callers[j].name
                    /\ callers[i].tokenHash # callers[j].tokenHash

\* assertEnvironment finds nothing wrong: the runtime is built from both parts
\* before it is memoised.
EnvironmentValid(e) == KekRegistryValid(e) /\ CallersValid(e)
=============================================================================
