------------------------------ MODULE Rotation ------------------------------
(***************************************************************************)
(* Changing the root key: the worker's handlers (as whole operations, see  *)
(* Worker for their awaits) under the configurations that a rotation       *)
(* deploys one after the other, with isolates that trail the deployment,   *)
(* services that hold a reply before they save it, the job that re-wraps   *)
(* the store and the operator who removes the old version at the end       *)
(* (test/rotation.test.ts, docs/index.md:308-352).                         *)
(*                                                                         *)
(* The store, the job and the operator are the users of this code and      *)
(* external.  A row is written once; its data key and the ivs of its wraps *)
(* are named by the row.                                                   *)
(***************************************************************************)
EXTENDS Wrap

CONSTANTS
    Runbook,          \* the configurations, in the order they are deployed
    OldVersion,       \* the version that the last of them does without
    Isolates,
    Rows,
    Forms,            \* what services store: the "wrappedKey", or the
                      \* "envelope" of encryptSecret with the key inside
    RowContext,       \* the encryption context of the rows
    WaitsForRollout,  \* the operator goes on once every isolate has followed
    WaitsForWriters,  \* the operator looks at the store when no reply is unsaved
    MaxLost           \* bound: how many replies are lost

Wrapped == [ver : Versions, iv : Rows,
            box : {Sealed(m, w, CanonicalizeContext(RowContext), w) : m \in Materials, w \in Rows}]

Stored == [form : {"wrappedKey", "envelope"}, key : Wrapped]

ASSUME RotationAssumption ==
    /\ Runbook \in Seq(Envs)
    /\ Len(Runbook) > 1
    /\ IsContext(RowContext)
    /\ None \notin Stored \union {key.box : key \in Wrapped}
    /\ Malformed \notin Wrapped
    /\ Forms \subseteq {"wrappedKey", "envelope"}
    /\ {WaitsForRollout, WaitsForWriters} \subseteq BOOLEAN
    /\ MaxLost \in Nat

VARIABLES
    deployed,   \* the step of the runbook that is deployed
    serving,    \* serving[i]: the step whose configuration isolate i runs
    row,        \* row[w]: what is stored, [form, key], or None
    reply,      \* reply[w]: a reply about row w on its way to the store, or None
    checked,    \* the operator has found nothing left on the old version
    lost        \* how many replies were lost

vars == <<deployed, serving, row, reply, checked, lost>>

\* One type invariant: what is deployed, stored and on its way.
TypeOK ==
    /\ deployed \in DOMAIN Runbook
    /\ serving \in [Isolates -> DOMAIN Runbook]
    /\ row \in [Rows -> Stored \union {None}]
    /\ reply \in [Rows -> Stored \union {None}]
    /\ checked \in BOOLEAN
    /\ lost \in 0 .. MaxLost

Init ==
    /\ deployed = 1
    /\ serving = [i \in Isolates |-> 1]
    /\ row = [w \in Rows |-> None]
    /\ reply = [w \in Rows |-> None]
    /\ checked = FALSE
    /\ lost = 0

-----------------------------------------------------------------------------
(***************************************************************************)
(* The operations of the worker in isolate i.                              *)
(***************************************************************************)
EnvOf(i) == Runbook[serving[i]]

\* decrypt and re-wrap get at the data key.
Readable(e, key) == TokenAccepted(e, key) /\ TokenOpens(e, key, RowContext)

Generate(w, i, form) ==
    /\ row[w] = None
    /\ reply[w] = None
    /\ reply' = [reply EXCEPT ![w] = [form |-> form, key |-> WrapDek(EnvOf(i), w, w, RowContext)]]
    /\ UNCHANGED <<deployed, serving, row, checked, lost>>

\* The wrap keeps the version that the wrapped key came with.
ReWrap_SameVersion(w, i) ==
    /\ deployed = Len(Runbook) - 1
    /\ row[w] # None
    /\ row[w].key.ver = OldVersion
    /\ reply[w] = None
    /\ Readable(EnvOf(i), row[w].key)
    /\ reply' = [reply EXCEPT ![w] = row[w]]
    /\ UNCHANGED <<deployed, serving, row, checked, lost>>

\* The job asks for the rows on the old version, once the new one is current;
\* a refusal changes nothing.
ReWrap(w, i) ==
    /\ deployed = Len(Runbook) - 1
    /\ row[w] # None
    /\ row[w].key.ver = OldVersion
    /\ reply[w] = None
    /\ Readable(EnvOf(i), row[w].key)
    /\ reply' = [reply EXCEPT ![w] =
           [row[w] EXCEPT !.key = WrapDek(EnvOf(i), w, row[w].key.box.dek, RowContext)]]
    /\ UNCHANGED <<deployed, serving, row, checked, lost>>

-----------------------------------------------------------------------------
(***************************************************************************)
(* The services' store, the runtime and the operator (external).           *)
(***************************************************************************)
Save(w) ==
    /\ reply[w] # None
    /\ row' = [row EXCEPT ![w] = reply[w]]
    /\ reply' = [reply EXCEPT ![w] = None]
    /\ UNCHANGED <<deployed, serving, checked, lost>>

\* The reply never arrives, or whoever waits for it crashes.
Lose(w) ==
    /\ reply[w] # None
    /\ lost < MaxLost
    /\ lost' = lost + 1
    /\ reply' = [reply EXCEPT ![w] = None]
    /\ UNCHANGED <<deployed, serving, row, checked>>

\* Isolate i gets the env object of the deployment.
Follow(i) ==
    /\ serving[i] < deployed
    /\ serving' = [serving EXCEPT ![i] = deployed]
    /\ UNCHANGED <<deployed, row, reply, checked, lost>>

RolledOut == \A i \in Isolates : serving[i] = deployed

\* The text of row w starts with cfkms1.<OldVersion>.
Found(w) == row[w] # None /\ row[w].form = "wrappedKey" /\ row[w].key.ver = OldVersion

Check ==
    /\ ~ checked
    /\ deployed = Len(Runbook) - 1
    /\ WaitsForRollout => RolledOut
    /\ WaitsForWriters => \A w \in Rows : reply[w] = None
    /\ ~ \E w \in Rows : Found(w)
    /\ checked' = TRUE
    /\ UNCHANGED <<deployed, serving, row, reply, lost>>

\* KEK_V<n> is added, KEK_CURRENT_VERSION switched, the old version removed.
Deploy ==
    /\ deployed < Len(Runbook)
    /\ WaitsForRollout => RolledOut
    /\ deployed = Len(Runbook) - 1 => checked
    /\ deployed' = deployed + 1
    /\ UNCHANGED <<serving, row, reply, checked, lost>>

-----------------------------------------------------------------------------
Next ==
    \/ \E w \in Rows, i \in Isolates :
           ReWrap(w, i) \/ \E form \in Forms : Generate(w, i, form)
    \/ \E w \in Rows : Save(w) \/ Lose(w)
    \/ \E i \in Isolates : Follow(i)
    \/ Check
    \/ Deploy

\* The runtime brings a deployment to every isolate, replies that are not lost
\* are saved, the job tries every row in every isolate, the operator goes on.
\* No service has to write.
Fairness ==
    /\ \A i \in Isolates : WF_vars(Follow(i))
    /\ \A w \in Rows : WF_vars(Save(w)) /\ WF_vars(\E i \in Isolates : ReWrap(w, i))
    /\ WF_vars(Check)
    /\ WF_vars(Deploy)

Spec == Init /\ [][Next]_vars /\ Fairness

-----------------------------------------------------------------------------
(***************************************************************************)
(* What a rotation owes the services.                                      *)
(***************************************************************************)
\* What a runbook has to be for it, whatever versions it goes through
\* (docs/index.md:308-352): each configuration is valid, a version keeps its
\* material, a version is there before it becomes current and stays until the
\* end, only OldVersion goes, and it is not current when the check is made.
SafeRunbook ==
    LET last == Len(Runbook)
        Keks(s) == KekVersions(Runbook[s])
    IN  /\ \A s \in DOMAIN Runbook : KekRegistryValid(Runbook[s])
        /\ \A s, t \in DOMAIN Runbook : \A v \in Keks(s) \intersect Keks(t) :
               KekMaterial(Runbook[s], v) = KekMaterial(Runbook[t], v)
        /\ \A s \in 1 .. last - 1 :
               /\ CurrentVersion(Runbook[s + 1]) \in Keks(s)
               /\ Keks(s) \subseteq Keks(s + 1) \union (IF s = last - 1 THEN {OldVersion} ELSE {})
        /\ OldVersion \notin {CurrentVersion(Runbook[s]) : s \in {last - 1, last}}

\* Every wrapped key that a service holds, stored or just received, opens to
\* the row's own data key in every isolate at every moment of the rotation:
\* while isolates trail the deployment, while the job is at work, when replies
\* were lost, and after the old version is gone, which nobody takes back
\* (docs/index.md:310-311 and 337-338, test/rotation.test.ts:76).
NothingLost ==
    \A w \in Rows, i \in Isolates : \A held \in {row[w], reply[w]} \ {None} :
        Readable(EnvOf(i), held.key) /\ held.key.box.dek = w

\* Once the new version has been deployed everywhere, nothing is put on the
\* old one any more: the job's work has an end.
NoNewOld ==
    [][\A w \in Rows :
           /\ deployed = Len(Runbook) - 1
           /\ RolledOut
           /\ reply[w] = None
           /\ reply'[w] # None
           => reply'[w].key.ver # OldVersion]_vars

\* The rotation reaches its end: the job leaves nothing on the old version, the
\* check passes and the old version is removed, although replies are lost.
RotationEnds == <>(deployed = Len(Runbook) /\ RolledOut)
=============================================================================
