------------------------------ MODULE Context ------------------------------
(***************************************************************************)
(* Encryption contexts (src/src/crypto/context.ts).  A context is a        *)
(* function from keys to values, the object JSON.parse and zod hand to the *)
(* handlers; Formats shows that the order its entries were written in does *)
(* not survive canonicalization.                                           *)
(***************************************************************************)
EXTENDS Naturals, Sequences, FiniteSets, Functions

CONSTANTS
    KeyOrder,             \* every context key once, by UTF-16 code unit
    IntegerKeys,          \* those that are array indices, in numeric order
    MAX_CONTEXT_ENTRIES

ASSUME KeyOrderAssumption ==
    /\ MAX_CONTEXT_ENTRIES \in Nat
    /\ KeyOrder \in Seq(Range(KeyOrder))
    /\ IntegerKeys \in Seq(Range(KeyOrder))
    /\ IsInjective(KeyOrder)
    /\ IsInjective(IntegerKeys)

\* A context that got past the schema's alphabet: a function over some keys.
IsContext(c) == DOMAIN c \subseteq Range(KeyOrder) /\ c = [k \in DOMAIN c |-> c[k]]

\* encryptionContextSchema accepts c (what is no record of strings, or has a
\* key of another alphabet, is not a function over KeyOrder's keys at all).
ContextValid(c) == Cardinality(DOMAIN c) <= MAX_CONTEXT_ENTRIES

\* Where k occurs in s for the first time.
FirstAt(s, k) == CHOOSE i \in DOMAIN s : s[i] = k /\ \A j \in DOMAIN s : s[j] = k => i <= j

\* The members of S in the order in which they first occur in s: the n-th is
\* the one that n - 1 others come before.
InOrder(S, s) ==
    LET place == [k \in S |-> FirstAt(s, k)]
        Before(k) == {l \in S : place[l] < place[k]}
    IN  [n \in 1 .. Cardinality(S) |-> CHOOSE k \in S : Cardinality(Before(k)) = n - 1]

\* The order in which an object lists its keys once they were put into it in
\* the order of the sequence keys: array indices come first, by number.
Listed(keys) == InOrder(Range(keys), IntegerKeys \o keys)

\* The keys of c, sorted and then put into an object.
CanonicalKeys(c) == Listed(InOrder(DOMAIN c, KeyOrder))

\* Every value with its key left out: what JSON.stringify of the values gives.
CanonicalizeContext_ValuesOnly(c) ==
    LET keys == CanonicalKeys(c) IN [i \in DOMAIN keys |-> c[keys[i]]]

\* The entries, sorted by key and then as an object lists them: the additional
\* data every wrap is bound to.
CanonicalizeContext(c) ==
    LET keys == CanonicalKeys(c) IN [i \in DOMAIN keys |-> <<keys[i], c[keys[i]]>>]

\* Every required entry is present in c with the same value.
ContextSatisfies(c, required) ==
    \A k \in DOMAIN required : k \in DOMAIN c /\ c[k] = required[k]
=============================================================================
