--------------------------- MODULE ContextProofs ---------------------------
(***************************************************************************)
(* Canonicalization keeps every byte of a context: two contexts that       *)
(* canonicalize alike are the same context.  The proofs about the client   *)
(* and the worker rest on it, where a context is only compared by its      *)
(* additional data or as part of a cache key.                              *)
(***************************************************************************)
EXTENDS Context, Induction, FiniteSetTheorems, SequenceTheorems, TLAPS

\* FirstAt is the first place of a member of a sequence.
LEMMA FirstAtIsAPlace ==
    ASSUME NEW s, Len(s) \in Nat, DOMAIN s = 1 .. Len(s), NEW k \in Range(s)
    PROVE  FirstAt(s, k) \in DOMAIN s /\ s[FirstAt(s, k)] = k
  <1> DEFINE places == {i \in DOMAIN s : s[i] = k}
  <1>1. places \in SUBSET Nat /\ places # {}
    BY DEF Range
  <1>2. PICK i \in places : \A j \in places : i <= j
    <2> HIDE DEF places
    <2> QED  BY <1>1, LeastNatural
  <1> QED  BY <1>2 DEF FirstAt

\* InOrder(S, s) lists every member of S, and lists it once.
LEMMA InOrderEnumerates ==
    ASSUME NEW X, NEW s \in Seq(X), NEW S, S \subseteq Range(s)
    PROVE  /\ InOrder(S, s) \in Seq(S)
           /\ Range(InOrder(S, s)) = S
           /\ IsInjective(InOrder(S, s))
  <1> DEFINE place == [k \in S |-> FirstAt(s, k)]
             Before(k) == {l \in S : place[l] < place[k]}
             rank == [k \in S |-> Cardinality(Before(k)) + 1]
             n == Cardinality(S)
             o == InOrder(S, s)
  <1>1. \A k \in S : place[k] \in 1 .. Len(s) /\ s[place[k]] = k
    BY FirstAtIsAPlace
  <1>2. IsFiniteSet(S)
    <2>1. place \in Injection(S, 1 .. Len(s))
      BY <1>1 DEF Injection, IsInjective
    <2>2. IsFiniteSet(1 .. Len(s))
      BY FS_Interval
    <2> QED  BY <2>1, <2>2, FS_Injection
  <1>3. n \in Nat
    BY <1>2, FS_CardinalityType
  <1>4. \A k, l \in S : l \in Before(k) <=> place[l] < place[k]
    OBVIOUS
  <1>5. \A k : Before(k) \in SUBSET S
    OBVIOUS
  <1>6. \A k \in S : place[k] \in Int
    BY <1>1
  <1>7. o = [m \in 1 .. n |-> CHOOSE k \in S : Cardinality(Before(k)) = m - 1]
    BY DEF InOrder
  <1> HIDE DEF place, Before, n, o
  <1>8. \A k \in S : IsFiniteSet(Before(k)) /\ Cardinality(Before(k)) \in Nat
    <2>1. ASSUME NEW k \in S
          PROVE  IsFiniteSet(Before(k))
      BY <1>2, <1>5, FS_Subset
    <2> QED  BY <2>1, FS_CardinalityType
  <1>9. ASSUME NEW k \in S
        PROVE  rank[k] \in 1 .. n
    <2>1. Before(k) \in SUBSET S /\ Before(k) # S
      BY <1>4, <1>5, <1>6
    <2>2. Cardinality(Before(k)) <= n /\ Cardinality(Before(k)) # n
      BY <1>2, <2>1, FS_Subset DEF n
    <2> QED  BY <1>3, <1>8, <2>2
  <1>10. ASSUME NEW k \in S, NEW l \in S, place[k] < place[l]
        PROVE  Cardinality(Before(k)) < Cardinality(Before(l))
    <2>1. Before(k) \in SUBSET Before(l) /\ Before(k) # Before(l)
      BY <1>4, <1>5, <1>6, <1>10
    <2>2. Cardinality(Before(k)) <= Cardinality(Before(l))
             /\ Cardinality(Before(k)) # Cardinality(Before(l))
      BY <1>8, <2>1, FS_Subset
    <2> QED  BY <1>8, <2>2
  <1>11. rank \in Injection(S, 1 .. n)
    <2>1. rank \in [S -> 1 .. n]
      BY <1>9
    <2>2. ASSUME NEW k \in S, NEW l \in S, rank[k] = rank[l]
          PROVE  k = l
      <3>1. Cardinality(Before(k)) = Cardinality(Before(l))
        BY <1>8, <2>2
      <3>2. ~(place[k] < place[l]) /\ ~(place[l] < place[k])
        BY <1>8, <1>10, <3>1
      <3>3. place[k] = place[l]
        BY <1>1, <3>2
      <3> QED  BY <1>1, <3>3
    <2> QED  BY <2>1, <2>2 DEF Injection, IsInjective
  <1>12. \A k \in S : rank[k] = Cardinality(Before(k)) + 1
    OBVIOUS
  <1> HIDE DEF rank
  <1>13. rank \in Surjection(S, 1 .. n)
    <2>1. IsFiniteSet(1 .. n) /\ Cardinality(1 .. n) = Cardinality(S)
      BY <1>3, FS_Interval DEF n
    <2> QED  BY <1>11, <2>1, FS_Injection
  <1>14. ASSUME NEW m \in 1 .. n
        PROVE  o[m] \in S /\ rank[o[m]] = m
    <2>1. PICK k \in S : rank[k] = m
      BY <1>13 DEF Surjection
    <2>2. Cardinality(Before(k)) = m - 1
      BY <1>3, <1>8, <1>12, <2>1
    <2>3. o[m] \in S /\ Cardinality(Before(o[m])) = m - 1
      BY <1>7, <2>2
    <2> QED  BY <1>3, <1>8, <1>12, <2>3
  <1>15. DOMAIN o = 1 .. n
    BY <1>7
  <1>16. o \in Seq(S)
    <2>1. o \in [1 .. n -> S]
      BY <1>7, <1>14
    <2> QED  BY <1>3, <2>1
  <1>17. IsInjective(o)
    BY <1>14, <1>15 DEF IsInjective
  <1>18. ASSUME NEW k \in S
         PROVE  k \in Range(o)
    <2>1. rank[k] \in 1 .. n /\ rank[o[rank[k]]] = rank[k] /\ o[rank[k]] \in S
      BY <1>9, <1>14
    <2>2. o[rank[k]] = k
      BY <1>11, <2>1 DEF Injection, IsInjective
    <2> QED  BY <1>15, <2>1, <2>2 DEF Range
  <1>19. Range(o) = S
    BY <1>14, <1>15, <1>18 DEF Range
  <1> QED  BY <1>16, <1>17, <1>19 DEF o

\* The keys of a canonical form are the keys of the context, each once: no
\* entry is lost or doubled on the way through two orders.
LEMMA CanonicalKeysEnumerate ==
    ASSUME NEW c, IsContext(c)
    PROVE  /\ CanonicalKeys(c) \in Seq(DOMAIN c)
           /\ Range(CanonicalKeys(c)) = DOMAIN c
           /\ IsInjective(CanonicalKeys(c))
  <1> DEFINE sorted == InOrder(DOMAIN c, KeyOrder)
             X == Range(KeyOrder)
  <1>1. sorted \in Seq(DOMAIN c) /\ Range(sorted) = DOMAIN c
    BY InOrderEnumerates, KeyOrderAssumption DEF IsContext
  <1> HIDE DEF sorted
  <1>2. sorted \in Seq(X) /\ IntegerKeys \in Seq(X)
    BY <1>1, KeyOrderAssumption, SeqMonotonic DEF IsContext
  <1>3. IntegerKeys \o sorted \in Seq(X) /\ DOMAIN c \subseteq Range(IntegerKeys \o sorted)
    BY <1>1, <1>2, RangeConcatenation
  <1>4. CanonicalKeys(c) = InOrder(DOMAIN c, IntegerKeys \o sorted)
    BY <1>1 DEF CanonicalKeys, Listed, sorted
  <1> HIDE DEF X
  <1> QED  BY <1>3, <1>4, InOrderEnumerates

\* The canonical form of a context stands for that context alone: the
\* additional data two wraps are bound to are equal only if their contexts
\* are, whatever keys there are and however many of them are array indices.
THEOREM CanonicalFormsDiffer ==
    ASSUME NEW c, NEW d, IsContext(c), IsContext(d),
           CanonicalizeContext(c) = CanonicalizeContext(d)
    PROVE  c = d
  <1> DEFINE cKeys == CanonicalKeys(c)
             dKeys == CanonicalKeys(d)
  <1>1. CanonicalizeContext(c) = [i \in DOMAIN cKeys |-> <<cKeys[i], c[cKeys[i]]>>]
    BY DEF CanonicalizeContext
  <1>2. CanonicalizeContext(d) = [i \in DOMAIN dKeys |-> <<dKeys[i], d[dKeys[i]]>>]
    BY DEF CanonicalizeContext
  <1>3. Range(cKeys) = DOMAIN c /\ Range(dKeys) = DOMAIN d
    BY CanonicalKeysEnumerate
  <1> HIDE DEF cKeys, dKeys
  <1>4. DOMAIN cKeys = DOMAIN dKeys
    BY <1>1, <1>2
  <1>5. \A i \in DOMAIN cKeys : cKeys[i] = dKeys[i] /\ c[cKeys[i]] = d[dKeys[i]]
    <2> TAKE i \in DOMAIN cKeys
    <2>1. CanonicalizeContext(c)[i] = <<cKeys[i], c[cKeys[i]]>>
      BY <1>1
    <2>2. CanonicalizeContext(d)[i] = <<dKeys[i], d[dKeys[i]]>>
      BY <1>2, <1>4
    <2> QED  BY <2>1, <2>2
  <1>6. DOMAIN c = DOMAIN d
    BY <1>3, <1>4, <1>5 DEF Range
  <1>7. \A k \in DOMAIN c : c[k] = d[k]
    BY <1>3, <1>5 DEF Range
  <1> QED  BY <1>6, <1>7 DEF IsContext
=============================================================================
