----------------------------- MODULE KekLookup -----------------------------
(***************************************************************************)
(* What the registry promises each use of it, without its caches: a valid  *)
(* configuration is accepted and any other refused, a version without a    *)
(* KEK is unknown, and a lookup ends with the material that its own        *)
(* configuration binds or with an error.  There are no memo, no imports    *)
(* and nothing that lookups share.  KekRegistry is shown to implement it   *)
(* (KekRegistry!Lookup); Worker is built on it.                            *)
(***************************************************************************)
CONSTANTS
    Tasks,      \* the uses of the registry
    Envs,       \* the configurations
    Accepted,   \* those that are valid
    Keks,       \* Keks[e][v]: the material of version v in e
    Versions,
    None

VARIABLES
    pc,    \* pc[t]: how far t is
    env,   \* env[t]: its configuration
    ver,   \* ver[t]: the version it asks for
    key    \* key[t]: the material of the key it holds

vars == <<pc, env, ver, key>>

Init ==
    /\ pc = [t \in Tasks |-> "idle"]
    /\ env = [t \in Tasks |-> None]
    /\ ver = [t \in Tasks |-> None]
    /\ key = [t \in Tasks |-> None]

\* t and only t goes on.
Goes(t, from, to) ==
    /\ pc[t] = from
    /\ pc' = [pc EXCEPT ![t] = to]

Enter(t, e) ==
    /\ Goes(t, "idle", IF e \in Accepted THEN "ready" ELSE "failed")
    /\ env' = [env EXCEPT ![t] = e]
    /\ UNCHANGED <<ver, key>>

Ask(t, v) ==
    /\ Goes(t, "ready", IF v \in DOMAIN Keks[env[t]] THEN "waiting" ELSE "failed")
    /\ ver' = [ver EXCEPT ![t] = v]
    /\ UNCHANGED <<env, key>>

Answer(t) ==
    /\ Goes(t, "waiting", "holds")
    /\ key' = [key EXCEPT ![t] = Keks[env[t]][ver[t]]]
    /\ UNCHANGED <<env, ver>>

Fail(t) ==
    /\ Goes(t, "waiting", "failed")
    /\ UNCHANGED <<env, ver, key>>

Next ==
    \E t \in Tasks :
        \/ \E e \in Envs : Enter(t, e)
        \/ \E v \in Versions : Ask(t, v)
        \/ Answer(t)
        \/ Fail(t)

Spec == Init /\ [][Next]_vars
=============================================================================
