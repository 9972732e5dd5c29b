--------------------------- MODULE MCKekRegistry ---------------------------
(***************************************************************************)
(* Three uses of the registry over the configurations a rotation and its   *)
(* mistakes produce: before, with other material under the same version    *)
(* (a replaced secret), with a KEK registry that is right next to a caller *)
(* list that is not, and with a malformed KEK that is not the current one. *)
(***************************************************************************)
EXTENDS KekRegistry, TLC

CONSTANTS e1, e2, eBadCallers, eBadKek, m1, m2

MCBindings ==
    e1 :> [keks |-> 1 :> m1 @@ 2 :> m2, misnamed |-> FALSE, current |-> 2, callers |-> <<>>]
    @@ e2 :> [keks |-> 1 :> m2, misnamed |-> FALSE, current |-> 1, callers |-> <<>>]
    @@ eBadCallers :> [keks |-> 1 :> m1, misnamed |-> FALSE, current |-> 1, callers |-> Malformed]
    @@ eBadKek :> [keks |-> 1 :> m1 @@ 2 :> Malformed, misnamed |-> FALSE, current |-> 1,
                   callers |-> <<>>]
=============================================================================
