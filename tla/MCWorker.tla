------------------------------ MODULE MCWorker ------------------------------
(***************************************************************************)
(* The configurations of a rotation (one KEK, both with the new one        *)
(* current, the new one alone), one that binds one material under two      *)
(* versions, and a broken one; a caller scoped to a service and one that   *)
(* is not; three contexts, two of which have the same values.              *)
(***************************************************************************)
EXTENDS Worker, TLC

CONSTANTS before, during, after, alias, broken, m1, m2

Token(name, id) ==
    [head |-> "ckms", name |-> name, secret |-> 32, length |-> 42, id |-> id]

ScopedToken == Token("acme", 1)
OpenToken == Token("ops", 2)
OtherToken == Token("acme", 3)     \* nobody's
MisnamedToken == Token("bot", 4)   \* its hash was put under the name ops2

Bearer(token) == [scheme |-> "bearer", token |-> token]

Caller(name, token, required) ==
    [name |-> name, tokenHash |-> Sha256Hex(token), requiredContext |-> required]

MCCallers ==
    << Caller("acme", ScopedToken, "service" :> "a"),
       Caller("ops", OpenToken, <<>>),
       Caller("ops2", MisnamedToken, <<>>) >>

Deployment(keks, current, callers) ==
    [keks |-> keks, misnamed |-> FALSE, current |-> current, callers |-> callers]

MCBindings ==
       before :> Deployment(1 :> m1, 1, MCCallers)
    @@ during :> Deployment(1 :> m1 @@ 2 :> m2, 2, MCCallers)
    @@ after  :> Deployment(2 :> m2, 2, MCCallers)
    @@ alias  :> Deployment(1 :> m1 @@ 2 :> m1, 1, MCCallers)
    @@ broken :> Deployment(1 :> m1, 2, MCCallers)

MCHeaders == {None, Bearer(ScopedToken), Bearer(OpenToken), Bearer(OtherToken), Bearer(MisnamedToken)}
MCFewHeaders == {Bearer(ScopedToken), Bearer(OpenToken)}
MCOneHeader == {Bearer(ScopedToken)}

MCKeyOrder == <<"service", "tenant">>
MCIntegerKeys == <<>>
MCContexts ==
    {"service" :> "a", "tenant" :> "a", "service" :> "a" @@ "tenant" :> "t", Malformed}
MCFewContexts == {"service" :> "a", "tenant" :> "a"}
MCFaultyContexts == MCFewContexts \union {Malformed}

Symmetry == Permutations(Req)
=============================================================================
