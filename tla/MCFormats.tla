----------------------------- MODULE MCFormats -----------------------------
(***************************************************************************)
(* Versions of one, two and four digits, bytes at the ends of their range, *)
(* payloads of every length modulo three, contexts with and without keys   *)
(* that are array indices.                                                 *)
(***************************************************************************)
EXTENDS Formats, TLC

Bytes(length, first, then) == [i \in 1 .. length |-> IF i = 1 THEN first ELSE then]

MCWrappedKeys ==
    {[version |-> v, iv |-> Bytes(IV_BYTE_LENGTH, 0, b),
      ciphertext |-> Bytes(WRAPPED_CIPHERTEXT_BYTE_LENGTH, b, 3)] :
         v \in {1, 10, 9999}, b \in {0, 255}}

MCPayloads ==
    {[iv |-> Bytes(IV_BYTE_LENGTH, 255, 1), ciphertext |-> Bytes(16 + n, 254, 129)] : n \in 0 .. 2}

\* "10" is before "9" by code unit, after it by number.
MCKeyOrder == <<"10", "9", "service", "tenant">>
MCIntegerKeys == <<"9", "10">>

\* The entries in two orders each, and contexts that differ by a key or a value.
MCWrittenContexts ==
    {<< <<"tenant", v>>, <<"9", "a">>, <<"service", "a">>, <<"10", "a">> >> : v \in {"a", "b"}}
    \union {<< <<"10", "a">>, <<"service", "a">>, <<"9", "a">>, <<"tenant", v>> >> : v \in {"a", "b"}}
    \union {<< <<k, "a">> >> : k \in {"9", "10"}}

MCEditChars == {0, 1, 52, 53, 62, 64}
=============================================================================
