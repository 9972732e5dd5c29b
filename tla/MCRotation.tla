----------------------------- MODULE MCRotation -----------------------------
(***************************************************************************)
(* The four configurations of the runbook: one KEK, the new one added, the *)
(* new one current, the old one removed.                                   *)
(***************************************************************************)
EXTENDS Rotation, TLC

CONSTANTS before, added, during, after, m1, m2

Deployment(keks, current) ==
    [keks |-> keks, misnamed |-> FALSE, current |-> current, callers |-> <<>>]

MCBindings ==
       before :> Deployment(1 :> m1, 1)
    @@ added  :> Deployment(1 :> m1 @@ 2 :> m2, 1)
    @@ during :> Deployment(1 :> m1 @@ 2 :> m2, 2)
    @@ after  :> Deployment(2 :> m2, 2)

MCRunbook == <<before, added, during, after>>
MCKeyOrder == <<"service">>
MCIntegerKeys == <<>>
MCRowContext == "service" :> "acme"

\* The runbook of the docs is a safe one.
ASSUME RunbookAssumption == SafeRunbook
=============================================================================
