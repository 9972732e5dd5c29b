--------------------------- MODULE MCDeployConfig ---------------------------
(***************************************************************************)
(* Every merge of small configurations up to two levels deep, and every    *)
(* command line of up to four arguments.                                   *)
(***************************************************************************)
EXTENDS DeployConfig, TLC

Leaf(kind, from) == [kind |-> kind, from |-> from]
ObjectOf(f) == [kind |-> "object", fields |-> f]

\* The objects over keys K with values in V.
ObjectsOf(K, V) == {ObjectOf(f) : f \in UNION {[D -> V] : D \in SUBSET K}}

Scalar(from) == Leaf("scalar", from)

MCBases ==
    ObjectsOf({"a", "b"},
        {Scalar("base"), Leaf("array", "base")} \union ObjectsOf({"c", "d"}, {Scalar("base")}))

OverlayLeaves == {Scalar("overlay"), Leaf("null", "overlay")}

MCOverlays ==
    ObjectsOf({"a", "b"}, OverlayLeaves \union ObjectsOf({"c", "d"}, OverlayLeaves))

EarlierRun == Scalar("an earlier run")

Input(b, o, args) ==
    [base |-> b, overlays |-> ("p" :> o @@ "q" :> None), argv |-> args,
     generated |-> ("p" :> EarlierRun @@ "q" :> None)]

Broken == Leaf("broken", "base")

MCJson ==
    MCBases \union MCOverlays \union OverlayLeaves \union ObjectsOf({"c", "d"}, OverlayLeaves)
    \union ObjectsOf({"c", "d"}, {Scalar("base")})
    \union {Scalar("base"), Leaf("array", "base"), Leaf("array", "overlay"), Broken, Leaf("broken", "overlay")}

Nested(value) == value.kind = "object" /\ DOMAIN value.fields # {}

MCDepth ==
    [value \in MCJson |->
        IF ~ Nested(value) THEN 0
        ELSE IF \A k \in DOMAIN value.fields : ~ Nested(value.fields[k]) THEN 1
        ELSE 2]

MCKeys == {"a", "b", "c", "d"}
MCPaths == UNION {[1 .. n -> MCKeys] : n \in 1 .. 3}

MCProfileForms == "--profile=p" :> "p" @@ "--profile=" :> ""
MCArguments == {"--profile", "--profile=p", "--profile=", "--cwd", ".", "p", "q"}

SomeBase == ObjectOf("a" :> Scalar("base"))
SomeOverlay == ObjectOf("a" :> Leaf("null", "overlay"))

MCInputs ==
    {Input(b, o, <<"--profile", "p", "deploy">>) : b \in MCBases, o \in MCOverlays}
    \union {Input(SomeBase, SomeOverlay, args) : args \in UNION {[1 .. n -> MCArguments] : n \in 0 .. 4}}
    \union {Input(b, o, <<"--profile=p">>) :
                b \in {SomeBase, Broken},
                o \in {Leaf("array", "overlay"), Leaf("broken", "overlay"), None}}
=============================================================================
