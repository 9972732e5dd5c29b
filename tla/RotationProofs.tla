--------------------------- MODULE RotationProofs ---------------------------
(***************************************************************************)
(* Why a rotation loses nothing, for every safe runbook of any length, any *)
(* number of isolates, rows and lost replies, as long as the operator waits*)
(* for rollouts and writers and services store wrapped keys as such.       *)
(*                                                                         *)
(* Since the operator waits, isolates are at most one deployment behind.   *)
(* A wrapped key is therefore safe if the deployment and the one before it *)
(* both have its version; and what the check has found to be gone cannot   *)
(* come back, since no isolate is left that would wrap with it.            *)
(***************************************************************************)
EXTENDS Rotation, TLAPS

\* The operator's discipline (docs/index.md:310-311, 337-338).
Disciplined == WaitsForRollout /\ WaitsForWriters /\ Forms \subseteq {"wrappedKey"}

\* The wrapped keys that are somewhere for a row: the stored one and a reply.
Held(w) == {row[w], reply[w]} \ {None}

\* What is held for a row is a wrap of the row's own data key.
OwnKey(w, held) == held.key.iv = w /\ held.key.box.dek = w

\* Types, and every row's key its own.
TypeInv ==
    /\ TypeOK
    /\ \A w \in Rows : \A held \in Held(w) : OwnKey(w, held)

\* No isolate is more than one deployment behind.
Trailing == \A i \in Isolates : serving[i] \in {deployed - 1, deployed}

\* held opens under step s of the runbook.
OpensAt(s, held) ==
    LET e == Runbook[s] IN
    HasKek(e, held.key.ver) /\ held.key.box.material = KekMaterial(e, held.key.ver)

\* What is held opens where the deployment has arrived and where it has not.
HeldOpens ==
    \A w \in Rows : \A held \in Held(w) : \A s \in {deployed - 1, deployed} :
        s \in DOMAIN Runbook => OpensAt(s, held)

\* What the check has found stays so.
CheckedForGood ==
    checked =>
        /\ deployed >= Len(Runbook) - 1
        /\ \A i \in Isolates : serving[i] >= Len(Runbook) - 1
        /\ \A w \in Rows : \A held \in Held(w) : held.key.ver # OldVersion

\* Services that store wrapped keys as such hold nothing else.
PlainForms == \A w \in Rows : \A held \in Held(w) : held.form = "wrappedKey"

IInv == TypeInv /\ Trailing /\ HeldOpens /\ CheckedForGood /\ PlainForms

\* Every configuration of the runbook is valid.
ValidRunbook == \A s \in DOMAIN Runbook : KekRegistryValid(Runbook[s])

-----------------------------------------------------------------------------
(***************************************************************************)
(* Types.                                                                  *)
(***************************************************************************)
\* A wrap of row w under a valid configuration is a wrapped key of its version
\* and the material of that version, and holds the data key it was given.
LEMMA WrapIsWrapped ==
    ASSUME NEW s \in DOMAIN Runbook, KekRegistryValid(Runbook[s]), NEW w \in Rows
    PROVE  LET k == WrapDek(Runbook[s], w, w, RowContext) IN
           /\ k \in Wrapped
           /\ k.ver = CurrentVersion(Runbook[s])
           /\ k.iv = w /\ k.box.dek = w
           /\ HasKek(Runbook[s], k.ver)
           /\ k.box.material = KekMaterial(Runbook[s], k.ver)
  <1> DEFINE e == Runbook[s]
             v == CurrentVersion(e)
  <1>1. e \in Envs
    BY RotationAssumption
  <1>2. v \in Versions /\ HasKek(e, v)
    BY <1>1, BindingsAssumption DEF KekRegistryValid, HasKek, KekVersions, CurrentVersion
  <1>3. KekMaterial(e, v) \in Materials
    BY <1>1, <1>2, BindingsAssumption DEF KekRegistryValid, HasKek, KekVersions, KekMaterial
  <1>4. WrapDek(e, w, w, RowContext) =
            [ver |-> v, iv |-> w,
             box |-> Sealed(KekMaterial(e, v), w, CanonicalizeContext(RowContext), w)]
    BY DEF WrapDek
  <1> HIDE DEF e, v
  <1> QED  BY <1>2, <1>3, <1>4 DEF Wrapped, Sealed, e, v

\* The box of a wrapped key was sealed with the iv and the additional data of
\* the row whose data key it holds.
LEMMA BoxOfWrapped ==
    ASSUME NEW k \in Wrapped
    PROVE  /\ k.ver \in Versions /\ k.iv \in Rows /\ k.box.dek \in Rows
           /\ k.box.iv = k.box.dek /\ k.box.aad = CanonicalizeContext(RowContext)
  BY DEF Wrapped, Sealed

\* Only what generate-data-key and re-wrap reply with is new, and it is a wrap
\* of the row's own data key under the current version of the isolate.
LEMMA NewReply ==
    ASSUME TypeInv, ValidRunbook, NEW w \in Rows, NEW i \in Isolates,
           ReWrap(w, i) \/ \E form \in Forms : Generate(w, i, form)
    PROVE  /\ UNCHANGED <<deployed, serving, row, checked, lost>>
           /\ reply' \in [Rows -> Stored \union {None}]
           /\ reply[w] = None /\ reply'[w] # None
           /\ \A u \in Rows \ {w} : reply'[u] = reply[u]
           /\ reply'[w].form \in Forms \union (IF row[w] = None THEN {} ELSE {row[w].form})
           /\ LET k == reply'[w].key IN
              /\ k.ver = CurrentVersion(EnvOf(i))
              /\ k.iv = w /\ k.box.dek = w
              /\ HasKek(EnvOf(i), k.ver)
              /\ k.box.material = KekMaterial(EnvOf(i), k.ver)
  <1> DEFINE k == WrapDek(EnvOf(i), w, w, RowContext)
  <1>1. /\ k \in Wrapped
        /\ k.ver = CurrentVersion(EnvOf(i))
        /\ k.iv = w /\ k.box.dek = w
        /\ HasKek(EnvOf(i), k.ver)
        /\ k.box.material = KekMaterial(EnvOf(i), k.ver)
    <2>1. serving[i] \in DOMAIN Runbook /\ KekRegistryValid(Runbook[serving[i]])
      BY DEF TypeInv, TypeOK, ValidRunbook
    <2> QED  BY <2>1, WrapIsWrapped DEF EnvOf
  <1>2. reply \in [Rows -> Stored \union {None}] /\ row \in [Rows -> Stored \union {None}]
    BY DEF TypeInv, TypeOK
  <1> HIDE DEF k
  <1>3. CASE \E form \in Forms : Generate(w, i, form)
    <2>1. PICK form \in Forms : Generate(w, i, form)
      BY <1>3
    <2> DEFINE new == [form |-> form, key |-> k]
    <2>2. new \in Stored
      BY <1>1, RotationAssumption DEF Stored
    <2>3. reply' = [reply EXCEPT ![w] = new] /\ reply[w] = None
             /\ UNCHANGED <<deployed, serving, row, checked, lost>>
      BY <2>1 DEF Generate, k
    <2>4. new # None /\ new.form \in Forms /\ new.key = k
      BY <2>2, RotationAssumption
    <2> HIDE DEF new
    <2> QED  BY <1>1, <1>2, <2>2, <2>3, <2>4
  <1>4. CASE ReWrap(w, i)
    <2>1. row[w] \in Stored /\ row[w] # None /\ row[w].key.box.dek = w
      BY <1>2, <1>4 DEF ReWrap, TypeInv, Held, OwnKey
    <2> DEFINE new == [row[w] EXCEPT !.key = k]
    <2>2. new \in Stored /\ new.form = row[w].form /\ new.key = k
      BY <1>1, <2>1 DEF Stored
    <2>3. reply' = [reply EXCEPT ![w] = new] /\ reply[w] = None
             /\ UNCHANGED <<deployed, serving, row, checked, lost>>
      BY <1>4, <2>1 DEF ReWrap, k
    <2>4. new # None
      BY <2>2, RotationAssumption
    <2> HIDE DEF new
    <2> QED  BY <1>1, <1>2, <2>1, <2>2, <2>3, <2>4
  <1> QED  BY <1>3, <1>4

\* Nothing is held at the start.
LEMMA InitTypeInv == Init => TypeInv /\ \A w \in Rows : Held(w) = {}
  <1> SUFFICES ASSUME Init
               PROVE  TypeInv /\ \A w \in Rows : Held(w) = {}
    OBVIOUS
  <1>1. \A w \in Rows : Held(w) = {}
    BY DEF Init, Held
  <1>2. 1 \in DOMAIN Runbook
    BY RotationAssumption
  <1>3. 0 \in 0 .. MaxLost
    BY RotationAssumption
  <1>4. TypeOK
    BY <1>2, <1>3 DEF Init, TypeOK
  <1> QED  BY <1>1, <1>4 DEF TypeInv

\* A reply that is new is a wrap of its row's data key; every other step only
\* moves or drops what is held.
LEMMA NextTypeInv ==
    ASSUME TypeInv, ValidRunbook, [Next]_vars
    PROVE  TypeInv'
  <1> USE DEF TypeInv, TypeOK, Held
  <1>1. ASSUME NEW w \in Rows, NEW i \in Isolates,
               ReWrap(w, i) \/ \E form \in Forms : Generate(w, i, form)
        PROVE  TypeInv'
    BY <1>1, NewReply DEF OwnKey
  <1>2. ASSUME NEW w \in Rows, Save(w)
        PROVE  TypeInv'
    BY <1>2 DEF Save, OwnKey
  <1>3. ASSUME NEW w \in Rows, Lose(w)
        PROVE  TypeInv'
    BY <1>3, RotationAssumption DEF Lose, OwnKey
  <1>4. ASSUME NEW i \in Isolates, Follow(i)
        PROVE  TypeInv'
    BY <1>4 DEF Follow, OwnKey
  <1>5. CASE Check
    BY <1>5 DEF Check, OwnKey
  <1>6. CASE Deploy
    BY <1>6, RotationAssumption DEF Deploy, OwnKey
  <1>7. CASE UNCHANGED vars
    BY <1>7 DEF vars, OwnKey
  <1> QED  BY <1>1, <1>2, <1>3, <1>4, <1>5, <1>6, <1>7 DEF Next

\* The shape of the rotation's state, for every runbook of valid configurations.
THEOREM TypeCorrect ==
    ASSUME ValidRunbook
    PROVE  Spec => []TypeOK
  <1>1. TypeInv /\ [Next]_vars => TypeInv'
    BY NextTypeInv
  <1>2. TypeInv => TypeOK
    BY DEF TypeInv
  <1>3. Init => TypeInv
    BY InitTypeInv
  <1> QED  BY <1>1, <1>2, <1>3, PTL DEF Spec

-----------------------------------------------------------------------------
(***************************************************************************)
(* Under a safe runbook and a disciplined operator.                        *)
(***************************************************************************)
\* A wrapped key that opens at a step opens at the next one, unless it is on
\* the version that the last step does without.
LEMMA OpensAtNext ==
    ASSUME SafeRunbook, NEW s \in DOMAIN Runbook, s + 1 \in DOMAIN Runbook,
           NEW held, OpensAt(s, held),
           s + 1 = Len(Runbook) => held.key.ver # OldVersion
    PROVE  OpensAt(s + 1, held)
  <1>1. s \in 1 .. Len(Runbook) - 1 /\ Len(Runbook) \in Nat
    BY RotationAssumption
  <1>2. held.key.ver \in KekVersions(Runbook[s])
    BY DEF OpensAt, HasKek
  <1>3. held.key.ver \in KekVersions(Runbook[s + 1])
    <2>1. KekVersions(Runbook[s]) \subseteq
              KekVersions(Runbook[s + 1]) \union (IF s = Len(Runbook) - 1 THEN {OldVersion} ELSE {})
      BY <1>1 DEF SafeRunbook
    <2>2. s = Len(Runbook) - 1 => s + 1 = Len(Runbook)
      BY <1>1
    <2> QED  BY <1>2, <2>1, <2>2
  <1>4. KekMaterial(Runbook[s], held.key.ver) = KekMaterial(Runbook[s + 1], held.key.ver)
    BY <1>2, <1>3 DEF SafeRunbook
  <1> QED  BY <1>3, <1>4 DEF OpensAt, HasKek

\* A wrapped key on the current version of a step opens at the step before.
LEMMA OpensAtPrevious ==
    ASSUME SafeRunbook, NEW s \in DOMAIN Runbook, s + 1 \in DOMAIN Runbook,
           NEW held, OpensAt(s + 1, held),
           held.key.ver = CurrentVersion(Runbook[s + 1])
    PROVE  OpensAt(s, held)
  <1>1. s \in 1 .. Len(Runbook) - 1
    BY RotationAssumption
  <1>2. held.key.ver \in KekVersions(Runbook[s]) /\ held.key.ver \in KekVersions(Runbook[s + 1])
    BY <1>1 DEF SafeRunbook, OpensAt, HasKek
  <1>3. KekMaterial(Runbook[s], held.key.ver) = KekMaterial(Runbook[s + 1], held.key.ver)
    BY <1>2 DEF SafeRunbook
  <1> QED  BY <1>2, <1>3 DEF OpensAt, HasKek

\* The steps that isolates can run, in numbers.
LEMMA StepsThatServe ==
    ASSUME TypeInv, Trailing, NEW i \in Isolates
    PROVE  /\ Len(Runbook) \in Nat /\ deployed \in 1 .. Len(Runbook)
           /\ serving[i] \in 1 .. Len(Runbook)
           /\ serving[i] = deployed - 1 \/ serving[i] = deployed
  BY RotationAssumption DEF TypeInv, TypeOK, Trailing

\* What a step does not add to what is held, it leaves as it was.
LEMMA NextHeld ==
    ASSUME TypeInv, ValidRunbook, [Next]_vars
    PROVE  \/ \A w \in Rows : Held(w)' \subseteq Held(w)
           \/ \E w \in Rows, i \in Isolates :
                  ReWrap(w, i) \/ \E form \in Forms : Generate(w, i, form)
  <1>1. ASSUME NEW w \in Rows, Save(w)
        PROVE  \A u \in Rows : Held(u)' \subseteq Held(u)
    BY <1>1 DEF Save, Held, TypeInv, TypeOK
  <1>2. ASSUME NEW w \in Rows, Lose(w)
        PROVE  \A u \in Rows : Held(u)' \subseteq Held(u)
    BY <1>2 DEF Lose, Held, TypeInv, TypeOK
  <1>3. ASSUME UNCHANGED <<row, reply>>
        PROVE  \A u \in Rows : Held(u)' \subseteq Held(u)
    BY <1>3 DEF Held
  <1> QED  BY <1>1, <1>2, <1>3 DEF Next, Follow, Check, Deploy, vars

\* Isolates stay within one step of the deployment, because the next one waits
\* for all of them.
LEMMA NextTrailing ==
    ASSUME TypeInv, Trailing, Disciplined, [Next]_vars
    PROVE  Trailing'
  <1>1. ASSUME UNCHANGED <<deployed, serving>>
        PROVE  Trailing'
    BY <1>1 DEF Trailing
  <1>2. ASSUME NEW i \in Isolates, Follow(i)
        PROVE  Trailing'
    BY <1>2 DEF Follow, Trailing, TypeInv, TypeOK
  <1>3. CASE Deploy
    <2>1. \A i \in Isolates : serving'[i] = deployed /\ deployed' = deployed + 1
      BY <1>3 DEF Deploy, RolledOut, Disciplined
    <2> QED  BY <2>1, RotationAssumption DEF Trailing, TypeInv, TypeOK
  <1> QED  BY <1>1, <1>2, <1>3 DEF Next, Generate, ReWrap, Save, Lose, Check, vars

\* Nothing but wrapped keys as such is put into the store.
LEMMA NextPlainForms ==
    ASSUME TypeInv, ValidRunbook, PlainForms, Disciplined, [Next]_vars
    PROVE  PlainForms'
  <1>1. ASSUME NEW w \in Rows, NEW i \in Isolates,
               ReWrap(w, i) \/ \E form \in Forms : Generate(w, i, form)
        PROVE  PlainForms'
    <2>1. row[w] = None \/ row[w].form = "wrappedKey"
      BY DEF PlainForms, Held
    <2>2. reply'[w].form = "wrappedKey" /\ row' = row /\ \A u \in Rows \ {w} : reply'[u] = reply[u]
      BY <1>1, <2>1, NewReply DEF Disciplined
    <2> QED  BY <2>2 DEF PlainForms, Held
  <1> QED  BY <1>1, NextHeld DEF PlainForms

\* Whatever isolate wraps, the result opens where the deployment has arrived and
\* where it has not; and the last deployment waits for the check.
LEMMA NextHeldOpens ==
    ASSUME IInv, SafeRunbook, ValidRunbook, Disciplined, [Next]_vars
    PROVE  HeldOpens'
  <1> USE DEF IInv
  <1>1. ASSUME NEW w \in Rows, NEW i \in Isolates,
               ReWrap(w, i) \/ \E form \in Forms : Generate(w, i, form)
        PROVE  HeldOpens'
    <2> DEFINE s == serving[i]
               new == reply'[w]
    <2>1. /\ UNCHANGED <<deployed, row>>
          /\ \A u \in Rows \ {w} : reply'[u] = reply[u]
          /\ OpensAt(s, new)
          /\ new.key.ver = CurrentVersion(Runbook[s])
      BY <1>1, NewReply DEF OpensAt, EnvOf
    <2>2. /\ Len(Runbook) \in Nat /\ deployed \in 1 .. Len(Runbook)
          /\ s \in 1 .. Len(Runbook)
          /\ s = deployed - 1 \/ s = deployed
      BY StepsThatServe
    <2>3. DOMAIN Runbook = 1 .. Len(Runbook)
      BY RotationAssumption
    <2> HIDE DEF new, s
    <2>4. CASE s = deployed - 1
      <3>1. s + 1 = deployed /\ s \in DOMAIN Runbook /\ s + 1 \in DOMAIN Runbook
        BY <2>2, <2>3, <2>4
      <3>2. s + 1 = Len(Runbook) => new.key.ver # OldVersion
        BY <2>1, <2>2, <3>1 DEF SafeRunbook
      <3>3. OpensAt(deployed, new)
        BY <2>1, <3>1, <3>2, OpensAtNext
      <3> QED  BY <2>1, <2>4, <3>3 DEF HeldOpens, Held, new
    <2>5. CASE s = deployed
      <3>1. ASSUME deployed - 1 \in DOMAIN Runbook
            PROVE  OpensAt(deployed - 1, new)
        <4>1. (deployed - 1) + 1 = s /\ s \in DOMAIN Runbook
          BY <2>2, <2>3, <2>5
        <4> QED  BY <2>1, <3>1, <4>1, OpensAtPrevious
      <3> QED  BY <2>1, <2>5, <3>1 DEF HeldOpens, Held, new
    <2> QED  BY <2>2, <2>4, <2>5
  <1>2. ASSUME \A w \in Rows : Held(w)' \subseteq Held(w), deployed' = deployed
        PROVE  HeldOpens'
    BY <1>2 DEF HeldOpens
  <1>3. CASE Deploy
    <2>1. /\ deployed \in Nat /\ deployed' = deployed + 1
          /\ deployed \in DOMAIN Runbook /\ deployed + 1 \in DOMAIN Runbook
          /\ Len(Runbook) \in Nat
          /\ deployed = Len(Runbook) - 1 => checked
      BY <1>3, RotationAssumption DEF Deploy, TypeInv, TypeOK
    <2>2. \A w \in Rows : Held(w)' = Held(w)
      BY <1>3 DEF Deploy, Held
    <2>3. ASSUME NEW w \in Rows, NEW held \in Held(w)
          PROVE  OpensAt(deployed, held) /\ OpensAt(deployed + 1, held)
      <3>1. OpensAt(deployed, held)
        BY <2>1 DEF HeldOpens
      <3>2. deployed + 1 = Len(Runbook) => held.key.ver # OldVersion
        BY <2>1 DEF CheckedForGood
      <3> QED  BY <2>1, <3>1, <3>2, OpensAtNext
    <2>4. {deployed - 1, deployed}' = {deployed, deployed + 1}
      BY <2>1
    <2> QED  BY <2>2, <2>3, <2>4 DEF HeldOpens
  <1>4. deployed' = deployed \/ Deploy
    BY DEF Next, Generate, ReWrap, Save, Lose, Check, Follow, vars
  <1>5. Deploy => \A w \in Rows : Held(w)' \subseteq Held(w)
    BY DEF Deploy, Held
  <1> QED  BY <1>1, <1>2, <1>3, <1>4, NextHeld

\* What the check found cannot come back: no isolate is left that wraps with the
\* old version, and no reply was on its way.
LEMMA NextCheckedForGood ==
    ASSUME IInv, SafeRunbook, ValidRunbook, Disciplined, [Next]_vars
    PROVE  CheckedForGood'
  <1> USE DEF IInv
  <1> DEFINE last == Len(Runbook)
  <1>1. /\ last \in Nat /\ last > 1 /\ deployed \in 1 .. last
        /\ serving \in [Isolates -> 1 .. last]
    BY RotationAssumption DEF TypeInv, TypeOK
  <1>2. ASSUME NEW w \in Rows, NEW i \in Isolates,
               ReWrap(w, i) \/ \E form \in Forms : Generate(w, i, form)
        PROVE  CheckedForGood'
    <2>1. /\ UNCHANGED <<deployed, serving, row, checked>>
          /\ \A u \in Rows \ {w} : reply'[u] = reply[u]
          /\ reply'[w].key.ver = CurrentVersion(Runbook[serving[i]])
      BY <1>2, NewReply DEF EnvOf
    <2>2. checked => reply'[w].key.ver # OldVersion
      <3>1. checked => serving[i] \in {last - 1, last}
        BY <1>1 DEF CheckedForGood
      <3> QED  BY <2>1, <3>1 DEF SafeRunbook
    <2> QED  BY <2>1, <2>2 DEF CheckedForGood, Held
  <1>3. ASSUME NEW w \in Rows, Save(w) \/ Lose(w)
        PROVE  CheckedForGood'
    <2>1. UNCHANGED <<deployed, serving, checked>>
      BY <1>3 DEF Save, Lose
    <2>2. \A u \in Rows : Held(u)' \subseteq Held(u)
      BY <1>3 DEF Save, Lose, Held, TypeInv, TypeOK
    <2> QED  BY <2>1, <2>2 DEF CheckedForGood
  <1>4. ASSUME NEW i \in Isolates, Follow(i)
        PROVE  CheckedForGood'
    <2>1. UNCHANGED <<deployed, row, reply, checked>> /\ serving' = [serving EXCEPT ![i] = deployed]
      BY <1>4 DEF Follow
    <2> QED  BY <1>1, <2>1 DEF CheckedForGood, Held
  <1>5. CASE Check
    <2>1. /\ deployed = last - 1
          /\ \A i \in Isolates : serving[i] = deployed
          /\ \A w \in Rows : reply[w] = None /\ ~ Found(w)
          /\ UNCHANGED <<deployed, serving, row, reply>>
      BY <1>5 DEF Check, RolledOut, Disciplined
    <2>2. ASSUME NEW w \in Rows, NEW held \in Held(w)
          PROVE  held.key.ver # OldVersion
      BY <2>1 DEF Held, Found, PlainForms
    <2> HIDE DEF last
    <2> QED  BY <1>1, <2>1, <2>2 DEF CheckedForGood, Held, last
  <1>6. CASE Deploy
    <2>1. deployed' = deployed + 1 /\ UNCHANGED <<serving, row, reply, checked>>
      BY <1>6 DEF Deploy
    <2> QED  BY <1>1, <2>1 DEF CheckedForGood, Held
  <1>7. CASE UNCHANGED vars
    BY <1>7 DEF vars, CheckedForGood, Held
  <1> QED  BY <1>2, <1>3, <1>4, <1>5, <1>6, <1>7 DEF Next

\* A safe runbook is one of valid configurations.
LEMMA SafeIsValid == SafeRunbook => ValidRunbook
  BY DEF SafeRunbook, ValidRunbook

\* Nothing is held at first.
LEMMA InitIInv == Init => IInv
  <1> SUFFICES ASSUME Init
               PROVE  IInv
    OBVIOUS
  <1>1. TypeInv /\ \A w \in Rows : Held(w) = {}
    BY InitTypeInv
  <1>2. Trailing /\ ~ checked
    BY DEF Init, Trailing
  <1> QED  BY <1>1, <1>2 DEF IInv, HeldOpens, CheckedForGood, PlainForms

\* Under the discipline every step keeps the invariant.
LEMMA NextIInv ==
    ASSUME SafeRunbook, Disciplined
    PROVE  IInv /\ [Next]_vars => IInv'
  BY SafeIsValid, NextTypeInv, NextTrailing, NextPlainForms, NextHeldOpens, NextCheckedForGood
     DEF IInv

\* What the inductive invariant is for: what is held opens in every isolate.
LEMMA IInvNothingLost == IInv => NothingLost
  <1> SUFFICES ASSUME IInv, NEW w \in Rows, NEW i \in Isolates, NEW held \in Held(w)
               PROVE  Readable(EnvOf(i), held.key) /\ held.key.box.dek = w
    BY DEF NothingLost, Held
  <1> USE DEF IInv
  <1>1. held.key \in Wrapped /\ held.key # Malformed /\ held.key.box # None
    <2>1. held \in Stored
      BY DEF Held, TypeInv, TypeOK
    <2> QED  BY <2>1, RotationAssumption DEF Stored
  <1>2. held.key.box.dek = w /\ held.key.iv = w
    BY DEF TypeInv, OwnKey
  <1>3. held.key.box.iv = held.key.iv /\ held.key.box.aad = CanonicalizeContext(RowContext)
    BY <1>1, <1>2, BoxOfWrapped
  <1>4. OpensAt(serving[i], held)
    <2>1. serving[i] \in {deployed - 1, deployed} /\ serving[i] \in DOMAIN Runbook
      BY DEF Trailing, TypeInv, TypeOK
    <2> QED  BY <2>1 DEF HeldOpens
  <1> QED  BY <1>1, <1>2, <1>3, <1>4
           DEF Readable, TokenAccepted, TokenOpens, OpensBox, OpensAt, EnvOf

\* Every wrapped key a service holds opens to the row's own data key in every
\* isolate, at every moment of the rotation and after the old version is gone,
\* provided that the runbook is safe and the operator and the services keep to
\* the docs: docs/index.md:308-352.
THEOREM RotationLosesNothing ==
    ASSUME SafeRunbook, Disciplined
    PROVE  Spec => []NothingLost
  <1>1. IInv /\ [Next]_vars => IInv'
    BY NextIInv
  <1>2. Init => IInv
    BY InitIInv
  <1>3. IInv => NothingLost
    BY IInvNothingLost
  <1> QED  BY <1>1, <1>2, <1>3, PTL DEF Spec

\* Once the new version is deployed everywhere no step puts anything on the old
\* one, whether the operator waits or not: the job's work has an end.
THEOREM JobHasAnEnd ==
    ASSUME SafeRunbook
    PROVE  Spec => NoNewOld
  <1> DEFINE Step == \A w \in Rows :
                 /\ deployed = Len(Runbook) - 1
                 /\ RolledOut
                 /\ reply[w] = None
                 /\ reply'[w] # None
                 => reply'[w].key.ver # OldVersion
  <1>1. TypeInv /\ [Next]_vars => TypeInv'
    BY NextTypeInv, SafeIsValid
  <1>2. ASSUME TypeInv, [Next]_vars
        PROVE  [Step]_vars
    <2> SUFFICES ASSUME NEW w \in Rows, deployed = Len(Runbook) - 1, RolledOut,
                        reply[w] = None, reply'[w] # None
                 PROVE  reply'[w].key.ver # OldVersion
      OBVIOUS
    <2>1. PICK u \in Rows, i \in Isolates : ReWrap(u, i) \/ \E form \in Forms : Generate(u, i, form)
      BY <1>2 DEF Next, Save, Lose, Follow, Check, Deploy, vars, TypeInv, TypeOK
    <2>2. u = w /\ reply'[u].key.ver = CurrentVersion(Runbook[serving[i]])
      BY <1>2, <2>1, NewReply, SafeIsValid DEF EnvOf
    <2>3. serving[i] = Len(Runbook) - 1
      BY DEF RolledOut
    <2> QED  BY <2>2, <2>3 DEF SafeRunbook
  <1>3. Init => TypeInv
    BY InitTypeInv
  <1> HIDE DEF Step
  <1>4. Spec => [][Step]_vars
    BY <1>1, <1>2, <1>3, PTL DEF Spec
  <1> QED  BY <1>4 DEF NoNewOld, Step
=============================================================================
