------------------------------ MODULE MCClient ------------------------------
(***************************************************************************)
(* Four calls, enough for an encryptSecret whose cached key is evicted,    *)
(* expired or cleared under two later readers and a re-wrap.  Two contexts *)
(* with the same values, so that only their keys tell them apart.          *)
(***************************************************************************)
EXTENDS Client, TLC

MCKeyOrder == <<"service", "tenant">>
MCIntegerKeys == <<>>
MCContexts == {"service" :> "a", "tenant" :> "a"}

MCTexts == {<<"a", "BOM">>}
MCTextsInFront == {<<"BOM", "a">>}

Symmetry == Permutations(Calls)
=============================================================================
