------------------------- MODULE DeployConfigProofs -------------------------
(***************************************************************************)
(* That Wrangler runs with what the documents say, for command lines of    *)
(* any length and configurations of any keys and any depth.  First that    *)
(* the recursive functions of the model are what their definitions say;    *)
(* then the merge, by induction down a path; the loop over the arguments,  *)
(* by induction over them; and the theorems of Spec.                       *)
(***************************************************************************)
EXTENDS DeployConfig, Induction, FiniteSetTheorems

\* at is the walk down a path from value, for m keys.
IsWalk(at, value, path, m) ==
    \A n \in 0 .. m : at[n] = IF n = 0 THEN value ELSE Field(at[n - 1], path[n])

\* A walk goes from value to value by the keys of the path.
LEMMA WalkSteps ==
    ASSUME NEW value, NEW path, Len(path) \in Nat
    PROVE  /\ Walk(value, path)[0] = value
           /\ \A n \in 1 .. Len(path) :
                  Walk(value, path)[n] = Field(Walk(value, path)[n - 1], path[n])
  <1> DEFINE L == Len(path)
             Walked == {m \in Nat : \E at : IsWalk(at, value, path, m)}
  <1>1. 0 \in Walked
    <2>1. IsWalk([n \in {0} |-> value], value, path, 0)
      BY DEF IsWalk
    <2> QED  BY <2>1
  <1>2. ASSUME NEW m \in Walked
        PROVE  m + 1 \in Walked
    <2>1. PICK at : IsWalk(at, value, path, m)
      OBVIOUS
    <2> DEFINE further == [n \in 0 .. m + 1 |-> IF n = m + 1 THEN Field(at[m], path[m + 1]) ELSE at[n]]
    <2>2. ASSUME NEW n \in 0 .. m + 1
          PROVE  further[n] = IF n = 0 THEN value ELSE Field(further[n - 1], path[n])
      <3>1. CASE n = m + 1
        BY <3>1
      <3>2. CASE n \in 0 .. m
        <4>1. further[n] = at[n] /\ (n # 0 => further[n - 1] = at[n - 1])
          BY <3>2
        <4> QED  BY <2>1, <3>2, <4>1 DEF IsWalk
      <3> QED  BY <3>1, <3>2
    <2>3. IsWalk(further, value, path, m + 1)
      <3> HIDE DEF further
      <3> QED  BY <2>2 DEF IsWalk
    <2> QED  BY <2>3
  <1>3. Walked = Nat
    <2> HIDE DEF Walked
    <2> QED  BY <1>1, <1>2, NaturalInduction, Walked \in SUBSET Nat DEF Walked
  <1>4. PICK at : IsWalk(at, value, path, L)
    BY <1>3
  <1> DEFINE all == [n \in 0 .. L |-> at[n]]
             Is(f) == f = [n \in 0 .. L |-> IF n = 0 THEN value ELSE Field(f[n - 1], path[n])]
  <1>5. Is(all)
    <2>1. ASSUME NEW n \in 0 .. L
          PROVE  at[n] = IF n = 0 THEN value ELSE Field(all[n - 1], path[n])
      BY <1>4 DEF IsWalk
    <2> QED  BY <2>1
  <1>6. Walk(value, path) = CHOOSE f : Is(f)
    BY DEF Walk
  <1>7. Is(Walk(value, path))
    <2> HIDE DEF Is, all
    <2> QED  BY <1>5, <1>6
  <1> QED  BY <1>7

\* What the loop over the arguments starts with.
Start == [profile |-> None, rest |-> <<>>, value |-> FALSE]

\* taken is what the loop has after each of the first m arguments.
IsTaken(taken, args, m) ==
    \A n \in 0 .. m : taken[n] = IF n = 0 THEN Start ELSE TakeArgument(taken[n - 1], args[n])

\* The loop goes from argument to argument.
LEMMA TakenSteps ==
    ASSUME NEW args, Len(args) \in Nat
    PROVE  /\ Taken(args)[0] = Start
           /\ \A n \in 1 .. Len(args) : Taken(args)[n] = TakeArgument(Taken(args)[n - 1], args[n])
  <1> DEFINE L == Len(args)
             Done == {m \in Nat : \E taken : IsTaken(taken, args, m)}
  <1>1. 0 \in Done
    <2>1. IsTaken([n \in {0} |-> Start], args, 0)
      BY DEF IsTaken
    <2> QED  BY <2>1
  <1>2. ASSUME NEW m \in Done
        PROVE  m + 1 \in Done
    <2>1. PICK taken : IsTaken(taken, args, m)
      OBVIOUS
    <2> DEFINE further ==
            [n \in 0 .. m + 1 |-> IF n = m + 1 THEN TakeArgument(taken[m], args[m + 1]) ELSE taken[n]]
    <2>2. ASSUME NEW n \in 0 .. m + 1
          PROVE  further[n] = IF n = 0 THEN Start ELSE TakeArgument(further[n - 1], args[n])
      <3>1. CASE n = m + 1
        BY <3>1
      <3>2. CASE n \in 0 .. m
        <4>1. further[n] = taken[n] /\ (n # 0 => further[n - 1] = taken[n - 1])
          BY <3>2
        <4> QED  BY <2>1, <3>2, <4>1 DEF IsTaken
      <3> QED  BY <3>1, <3>2
    <2>3. IsTaken(further, args, m + 1)
      <3> HIDE DEF further
      <3> QED  BY <2>2 DEF IsTaken
    <2> QED  BY <2>3
  <1>3. Done = Nat
    <2> HIDE DEF Done
    <2> QED  BY <1>1, <1>2, NaturalInduction, Done \in SUBSET Nat DEF Done
  <1>4. PICK taken : IsTaken(taken, args, L)
    BY <1>3
  <1> DEFINE all == [n \in 0 .. L |-> taken[n]]
             Is(f) == f = [n \in 0 .. L |-> IF n = 0 THEN Start ELSE TakeArgument(f[n - 1], args[n])]
  <1>5. Is(all)
    <2>1. ASSUME NEW n \in 0 .. L
          PROVE  taken[n] = IF n = 0 THEN Start ELSE TakeArgument(all[n - 1], args[n])
      BY <1>4 DEF IsTaken
    <2> QED  BY <2>1
  <1>6. Taken(args) = CHOOSE f : Is(f)
    BY DEF Taken, Start
  <1>7. Is(Taken(args))
    <2> HIDE DEF Is, all
    <2> QED  BY <1>5, <1>6
  <1> QED  BY <1>7

-----------------------------------------------------------------------------
(***************************************************************************)
(* The merge.                                                              *)
(***************************************************************************)
\* What mergeWranglerConfig returns, if merge is what it returns further down.
MergeBody(merge, b, o) ==
    IF ~ IsPlainObject(b) \/ ~ IsPlainObject(o) THEN o
    ELSE LET deleted == {k \in DOMAIN o.fields : IsNull(o.fields[k])} IN
         [kind   |-> "object",
          fields |-> [k \in (DOMAIN b.fields \union DOMAIN o.fields) \ deleted |->
                         Merged(merge, b.fields, o.fields, k)]]

\* The values nested less than m deep.
Shallower(m) == {b \in Json : Depth[b] < m}

\* merge is right for bases that are nested less than m deep.
IsMerge(merge, m) == \A b \in Shallower(m), o \in Json : merge[b][o] = MergeBody(merge, b, o)

\* Only what is under a base is needed to merge something over it.
LEMMA MergeBodyDependsOn ==
    ASSUME NEW m \in Nat, NEW f, NEW g, NEW b \in Json, NEW o \in Json, Depth[b] <= m,
           \A c \in Shallower(m), d \in Json : f[c][d] = g[c][d]
    PROVE  MergeBody(f, b, o) = MergeBody(g, b, o)
  <1>1. CASE ~ IsPlainObject(b) \/ ~ IsPlainObject(o)
    BY <1>1 DEF MergeBody
  <1>2. CASE IsPlainObject(b) /\ IsPlainObject(o)
    <2> DEFINE keys == (DOMAIN b.fields \union DOMAIN o.fields) \ {k \in DOMAIN o.fields : IsNull(o.fields[k])}
    <2>1. ASSUME NEW k \in keys
          PROVE  Merged(f, b.fields, o.fields, k) = Merged(g, b.fields, o.fields, k)
      <3>1. CASE k \in DOMAIN o.fields /\ k \in DOMAIN b.fields
        <4>1. b.fields[k] \in Shallower(m) /\ o.fields[k] \in Json
          BY <1>2, <3>1, DeployAssumption DEF Shallower
        <4> QED  BY <4>1, <3>1 DEF Merged
      <3> QED  BY <3>1 DEF Merged
    <2> QED  BY <1>2, <2>1 DEF MergeBody
  <1> QED  BY <1>1, <1>2

\* mergeWranglerConfig is defined for every base and overlay.
LEMMA MergeSteps ==
    ASSUME NEW b \in Json, NEW o \in Json
    PROVE  MergeWranglerConfig[b][o] = MergeBody(MergeWranglerConfig, b, o)
  <1> DEFINE Defined == {m \in Nat : \E f : IsMerge(f, m)}
  <1>1. 0 \in Defined
    <2>1. Shallower(0) = {}
      BY DeployAssumption DEF Shallower
    <2> QED  BY <2>1 DEF IsMerge
  <1>2. ASSUME NEW m \in Defined
        PROVE  m + 1 \in Defined
    <2>1. PICK f : IsMerge(f, m)
      OBVIOUS
    <2> DEFINE g == [c \in Shallower(m + 1) |-> [d \in Json |-> MergeBody(f, c, d)]]
    <2>2. ASSUME NEW c \in Shallower(m), NEW d \in Json
          PROVE  f[c][d] = g[c][d]
      <3>1. c \in Shallower(m + 1)
        BY DeployAssumption DEF Shallower
      <3> QED  BY <2>1, <3>1 DEF IsMerge
    <2>3. ASSUME NEW c \in Shallower(m + 1), NEW d \in Json
          PROVE  g[c][d] = MergeBody(g, c, d)
      <3>1. c \in Json /\ Depth[c] <= m
        BY DeployAssumption DEF Shallower
      <3>2. g[c][d] = MergeBody(f, c, d)
        OBVIOUS
      <3> HIDE DEF g
      <3> QED  BY <2>2, <3>1, <3>2, MergeBodyDependsOn
    <2> HIDE DEF g
    <2> QED  BY <2>3 DEF IsMerge
  <1>3. Defined = Nat
    <2> HIDE DEF Defined
    <2> QED  BY <1>1, <1>2, NaturalInduction, Defined \in SUBSET Nat DEF Defined
  <1>4. ASSUME NEW m \in Nat, NEW n \in Nat, NEW f, NEW g, IsMerge(f, m), IsMerge(g, n), m <= n
        PROVE  \A c \in Shallower(m), d \in Json : f[c][d] = g[c][d]
    <2> DEFINE Same == {k \in Nat : k <= m => \A c \in Shallower(k), d \in Json : f[c][d] = g[c][d]}
    <2>1. 0 \in Same
      BY DeployAssumption DEF Shallower
    <2>2. ASSUME NEW k \in Same
          PROVE  k + 1 \in Same
      <3> SUFFICES ASSUME k + 1 <= m, NEW c \in Shallower(k + 1), NEW d \in Json
                   PROVE  f[c][d] = g[c][d]
        OBVIOUS
      <3>1. k \in Nat /\ \A x \in Shallower(k), y \in Json : f[x][y] = g[x][y]
        OBVIOUS
      <3>2. c \in Json /\ Depth[c] <= k /\ c \in Shallower(m) /\ c \in Shallower(n)
        BY <1>4, DeployAssumption DEF Shallower
      <3>3. MergeBody(f, c, d) = MergeBody(g, c, d)
        BY <3>1, <3>2, MergeBodyDependsOn
      <3> QED  BY <1>4, <3>2, <3>3 DEF IsMerge
    <2>3. Same = Nat
      <3> HIDE DEF Same
      <3> QED  BY <2>1, <2>2, NaturalInduction, Same \in SUBSET Nat DEF Same
    <2> QED  BY <2>3
  <1> DEFINE Upto(m) == CHOOSE f : IsMerge(f, m)
             whole == [c \in Json |-> [d \in Json |-> Upto(Depth[c] + 1)[c][d]]]
             Is(f) == f = [c \in Json |-> [d \in Json |-> MergeBody(f, c, d)]]
  <1>5. \A m \in Nat : IsMerge(Upto(m), m)
    BY <1>3
  <1> HIDE DEF Upto, Defined
  <1>6. ASSUME NEW c \in Json, NEW d \in Json
        PROVE  whole[c][d] = MergeBody(whole, c, d)
    <2> DEFINE m == Depth[c]
    <2>1. m \in Nat /\ m + 1 \in Nat /\ c \in Shallower(m + 1) /\ Depth[c] <= m
      BY DeployAssumption DEF Shallower
    <2>2. ASSUME NEW x \in Shallower(m), NEW y \in Json
          PROVE  Upto(m + 1)[x][y] = whole[x][y]
      <3>1. x \in Json /\ Depth[x] \in Nat /\ Depth[x] + 1 <= m + 1 /\ x \in Shallower(Depth[x] + 1)
        BY <2>1, DeployAssumption DEF Shallower
      <3>2. Upto(Depth[x] + 1)[x][y] = Upto(m + 1)[x][y]
        <4> HIDE DEF m
        <4> DEFINE n == Depth[x] + 1
        <4>1. n \in Nat /\ IsMerge(Upto(n), n) /\ IsMerge(Upto(m + 1), m + 1)
          BY <1>5, <2>1, <3>1
        <4> HIDE DEF n
        <4>2. n <= m + 1 /\ x \in Shallower(n)
          BY <3>1 DEF n
        <4>3. Upto(n)[x][y] = Upto(m + 1)[x][y]
          BY <1>4, <2>1, <4>1, <4>2
        <4> QED  BY <4>3 DEF n
      <3> QED  BY <3>1, <3>2
    <2>3. MergeBody(Upto(m + 1), c, d) = MergeBody(whole, c, d)
      <3> DEFINE u == Upto(m + 1)
      <3>1. \A x \in Shallower(m), y \in Json : u[x][y] = whole[x][y]
        BY <2>2
      <3> HIDE DEF whole, u, m
      <3>2. MergeBody(u, c, d) = MergeBody(whole, c, d)
        BY <2>1, <3>1, MergeBodyDependsOn
      <3> QED  BY <3>2 DEF u
    <2>4. Upto(m + 1)[c][d] = MergeBody(Upto(m + 1), c, d)
      BY <1>5, <2>1 DEF IsMerge
    <2> QED  BY <2>3, <2>4
  <1>7. Is(whole)
    <2>1. whole = [c \in Json |-> [d \in Json |-> whole[c][d]]]
      OBVIOUS
    <2> HIDE DEF whole
    <2> QED  BY <1>6, <2>1
  <1>8. MergeWranglerConfig = CHOOSE f : Is(f)
    BY DEF MergeWranglerConfig, MergeBody
  <1>9. Is(MergeWranglerConfig)
    <2> HIDE DEF Is, whole
    <2> QED  BY <1>7, <1>8
  <1> HIDE DEF whole
  <1> QED  BY <1>9

\* The merged value, where a path has come to, from the two values there.
Merges(from, over, got, n) ==
    IF over[n] = Undefined
    THEN got[n] = IF \E m \in 0 .. n - 1 : IsLeaf(over[m]) THEN Undefined ELSE from[n]
    ELSE IF n > 0 /\ IsNull(over[n]) /\ IsPlainObject(from[n - 1])
    THEN got[n] = Undefined
    ELSE IF from[n] = Undefined
    THEN got[n] = over[n]
    ELSE got[n] = MergeWranglerConfig[from[n]][over[n]]

\* What is under a key of a JSON value, or Undefined.
LEMMA FieldsAreJson ==
    ASSUME NEW v \in Json \union {Undefined}, NEW k
    PROVE  Field(v, k) \in Json \union {Undefined}
  BY DeployAssumption DEF Field, IsPlainObject, Undefined

\* No JSON value is Undefined.
LEMMA JsonIsDefined ==
    ASSUME NEW v \in Json
    PROVE  v # Undefined
  BY DeployAssumption DEF Undefined

\* One key further down, from the merge of two objects.
LEMMA MergedField ==
    ASSUME NEW b \in Json, NEW o \in Json, NEW k
    PROVE  Field(MergeWranglerConfig[b][o], k) =
               IF ~ IsPlainObject(b) \/ ~ IsPlainObject(o) THEN Field(o, k)
               ELSE IF Field(o, k) = Undefined THEN Field(b, k)
               ELSE IF IsNull(Field(o, k)) THEN Undefined
               ELSE IF Field(b, k) = Undefined THEN Field(o, k)
               ELSE MergeWranglerConfig[Field(b, k)][Field(o, k)]
  <1> DEFINE r == MergeWranglerConfig[b][o]
             keys == (DOMAIN b.fields \union DOMAIN o.fields) \ {x \in DOMAIN o.fields : IsNull(o.fields[x])}
  <1>1. r = MergeBody(MergeWranglerConfig, b, o)
    BY MergeSteps
  <1>2. CASE ~ IsPlainObject(b) \/ ~ IsPlainObject(o)
    BY <1>1, <1>2 DEF MergeBody
  <1>3. CASE IsPlainObject(b) /\ IsPlainObject(o)
    <2>1. r = [kind |-> "object", fields |-> [x \in keys |-> Merged(MergeWranglerConfig, b.fields, o.fields, x)]]
      BY <1>1, <1>3 DEF MergeBody
    <2>2. IsPlainObject(r) /\ DOMAIN r.fields = keys
          /\ \A x \in keys : r.fields[x] = Merged(MergeWranglerConfig, b.fields, o.fields, x)
      BY <2>1 DEF IsPlainObject
    <2> HIDE DEF r
    <2>3. Field(r, k) = IF k \in keys THEN Merged(MergeWranglerConfig, b.fields, o.fields, k) ELSE Undefined
      BY <2>2 DEF Field
    <2>4. /\ k \in DOMAIN b.fields => Field(b, k) = b.fields[k] /\ b.fields[k] # Undefined
          /\ k \notin DOMAIN b.fields => Field(b, k) = Undefined
          /\ k \in DOMAIN o.fields => Field(o, k) = o.fields[k] /\ o.fields[k] # Undefined
          /\ k \notin DOMAIN o.fields => Field(o, k) = Undefined
      BY <1>3, DeployAssumption, JsonIsDefined DEF Field
    <2> QED  BY <1>3, <2>3, <2>4 DEF Merged, r
  <1> QED  BY <1>2, <1>3

\* mergeWranglerConfig keeps to the documented rules at exactly the paths that
\* do not lead to a stray null: a null of the overlay for which the base has no
\* object (wrangler-config.mjs:31-48).
THEOREM MergeIsDocumented ==
    ASSUME NEW b \in Json, NEW o \in Json, NEW path, Len(path) \in Nat \ {0}
    PROVE  Documented(b, o, path, MergeWranglerConfig[b][o]) <=> ~ StrayNull(b, o, path)
  <1> DEFINE L == Len(path)
             from == Walk(b, path)
             over == Walk(o, path)
             got == Walk(MergeWranglerConfig[b][o], path)
             Down == {n \in Nat : n <= L => /\ from[n] \in Json \union {Undefined}
                                            /\ over[n] \in Json \union {Undefined}
                                            /\ over[n] # Undefined =>
                                                   \A m \in 0 .. n - 1 : ~ IsLeaf(over[m])
                                            /\ Merges(from, over, got, n)}
  <1>1. /\ from[0] = b /\ over[0] = o /\ got[0] = MergeWranglerConfig[b][o]
        /\ \A n \in 1 .. L : /\ from[n] = Field(from[n - 1], path[n])
                             /\ over[n] = Field(over[n - 1], path[n])
                             /\ got[n] = Field(got[n - 1], path[n])
    BY WalkSteps
  <1> HIDE DEF from, over, got
  <1>2. 0 \in Down
    BY <1>1, JsonIsDefined DEF Merges
  <1>3. ASSUME NEW n \in Down
        PROVE  n + 1 \in Down
    <2> SUFFICES ASSUME n + 1 <= L
                 PROVE  /\ from[n + 1] \in Json \union {Undefined}
                        /\ over[n + 1] \in Json \union {Undefined}
                        /\ over[n + 1] # Undefined => \A m \in 0 .. n : ~ IsLeaf(over[m])
                        /\ Merges(from, over, got, n + 1)
      OBVIOUS
    <2> DEFINE k == path[n + 1]
               F == from[n]
               O == over[n]
               G == got[n]
    <2>1. n \in Nat /\ n + 1 > 0 /\ (n + 1) - 1 = n
      OBVIOUS
    <2>2. from[n + 1] = Field(F, k) /\ over[n + 1] = Field(O, k) /\ got[n + 1] = Field(G, k)
      BY <1>1
    <2>3. /\ F \in Json \union {Undefined} /\ O \in Json \union {Undefined}
          /\ Merges(from, over, got, n)
          /\ O # Undefined => \A m \in 0 .. n - 1 : ~ IsLeaf(over[m])
      BY <2>1
    <2> HIDE DEF Down
    <2>4. Field(Undefined, k) = Undefined /\ ~ IsPlainObject(Undefined)
      BY DEF Field, Undefined, IsPlainObject
    <2>5. /\ from[n + 1] \in Json \union {Undefined}
          /\ over[n + 1] \in Json \union {Undefined}
      BY <2>2, <2>3, FieldsAreJson
    <2>6. CASE O = Undefined
      <3>1. over[n + 1] = Undefined
        BY <2>2, <2>4, <2>6
      <3>2. (\E m \in 0 .. n : IsLeaf(over[m])) <=> \E m \in 0 .. n - 1 : IsLeaf(over[m])
        BY <2>1, <2>6 DEF IsLeaf
      <3> QED  BY <2>1, <2>2, <2>3, <2>4, <2>5, <2>6, <3>1, <3>2 DEF Merges
    <2>7. CASE IsLeaf(O)
      <3>1. over[n + 1] = Undefined
        BY <2>2, <2>7 DEF IsLeaf, Field
      <3>2. \E m \in 0 .. n : IsLeaf(over[m])
        BY <2>1, <2>7
      <3>3. G = Undefined \/ G = O
        <4>1. CASE F = Undefined
          BY <2>3, <2>7, <4>1 DEF Merges, IsLeaf
        <4>2. CASE F # Undefined
          <5>1. F \in Json /\ O \in Json
            BY <2>3, <2>7, <4>2 DEF IsLeaf
          <5>2. MergeWranglerConfig[F][O] = O
            BY <2>7, <5>1, MergeSteps DEF MergeBody, IsLeaf
          <5> QED  BY <2>3, <2>7, <4>2, <5>2 DEF Merges, IsLeaf
        <4> QED  BY <4>1, <4>2
      <3>4. got[n + 1] = Undefined
        BY <2>2, <2>4, <3>1, <3>3
      <3> QED  BY <2>1, <2>5, <3>1, <3>2, <3>4 DEF Merges
    <2>8. CASE IsPlainObject(O)
      <3>1. O \in Json /\ O # Undefined /\ ~ IsNull(O)
        BY <2>3, <2>4, <2>8 DEF IsNull, IsPlainObject
      <3>4. \A m \in 0 .. n : ~ IsLeaf(over[m])
        BY <2>1, <2>3, <2>8, <3>1 DEF IsLeaf
      <3>2. CASE F = Undefined
        <4>1. got[n + 1] = over[n + 1] /\ from[n + 1] = Undefined
          BY <2>2, <2>3, <2>4, <3>1, <3>2 DEF Merges
        <4> QED  BY <2>1, <2>4, <2>5, <3>2, <3>4, <4>1 DEF Merges
      <3>3. CASE F # Undefined
        <4>1. F \in Json /\ G = MergeWranglerConfig[F][O]
          BY <2>3, <3>1, <3>3 DEF Merges
        <4>2. got[n + 1] =
                  IF ~ IsPlainObject(F) THEN over[n + 1]
                  ELSE IF over[n + 1] = Undefined THEN from[n + 1]
                  ELSE IF IsNull(over[n + 1]) THEN Undefined
                  ELSE IF from[n + 1] = Undefined THEN over[n + 1]
                  ELSE MergeWranglerConfig[from[n + 1]][over[n + 1]]
          BY <2>2, <2>8, <3>1, <4>1, MergedField
        <4>3. ~ IsPlainObject(F) => from[n + 1] = Undefined
          BY <2>2 DEF Field
        <4> QED  BY <2>1, <2>5, <3>4, <4>2, <4>3 DEF Merges
      <3> QED  BY <3>2, <3>3
    <2> QED  BY <2>3, <2>6, <2>7, <2>8 DEF IsLeaf
  <1>4. Down = Nat
    <2> HIDE DEF Down
    <2> QED  BY <1>2, <1>3, NaturalInduction, Down \in SUBSET Nat DEF Down
  <1>5. /\ from[L] \in Json \union {Undefined} /\ over[L] \in Json \union {Undefined}
        /\ Merges(from, over, got, L)
    BY <1>4
  <1>6. L \in Nat /\ L > 0 /\ from[L] = Field(from[L - 1], path[L])
    BY <1>1
  <1> HIDE DEF Down
  <1>7. StrayNull(b, o, path) <=> IsNull(over[L]) /\ ~ IsPlainObject(from[L - 1])
    BY DEF StrayNull, from, over
  <1>8. CASE over[L] = Undefined
    BY <1>5, <1>7, <1>8 DEF Merges, IsNull, Documented, IsLeaf, IsPlainObject, Undefined, from, over, got
  <1>9. CASE over[L] # Undefined /\ ~ IsPlainObject(over[L])
    <2>1. from[L] # Undefined => MergeWranglerConfig[from[L]][over[L]] = over[L]
      BY <1>5, <1>9, MergeSteps DEF MergeBody
    <2>2. ~ IsPlainObject(from[L - 1]) => from[L] = Undefined
      BY <1>6 DEF Field
    <2>3. got[L] = IF IsNull(over[L]) /\ IsPlainObject(from[L - 1]) THEN Undefined ELSE over[L]
      BY <1>5, <1>6, <1>9, <2>1, <2>2 DEF Merges
    <2>4. IsNull(over[L]) => (Documented(b, o, path, MergeWranglerConfig[b][o]) <=> got[L] = Undefined)
      BY <1>9 DEF Documented, IsLeaf, from, over, got
    <2>5. ~ IsNull(over[L]) => Documented(b, o, path, MergeWranglerConfig[b][o])
      BY <1>9, <2>3 DEF Documented, IsLeaf, from, over, got
    <2> QED  BY <1>7, <1>9, <2>3, <2>4, <2>5
  <1>10. CASE IsPlainObject(over[L])
    <2>1. over[L] \in Json /\ ~ IsNull(over[L]) /\ over[L] # Undefined
      BY <1>5, <1>10 DEF IsPlainObject, IsNull, Undefined
    <2>2. from[L] # Undefined => IsPlainObject(MergeWranglerConfig[from[L]][over[L]])
      <3> SUFFICES ASSUME from[L] # Undefined
                   PROVE  IsPlainObject(MergeWranglerConfig[from[L]][over[L]])
        OBVIOUS
      <3>1. MergeWranglerConfig[from[L]][over[L]] = MergeBody(MergeWranglerConfig, from[L], over[L])
        BY <1>5, <2>1, MergeSteps
      <3>2. CASE IsPlainObject(from[L])
        <4>1. MergeBody(MergeWranglerConfig, from[L], over[L]).kind = "object"
          BY <1>10, <3>2 DEF MergeBody
        <4> QED  BY <3>1, <4>1 DEF IsPlainObject
      <3>3. CASE ~ IsPlainObject(from[L])
        BY <1>10, <3>1, <3>3 DEF MergeBody
      <3> QED  BY <3>2, <3>3
    <2>3. IsPlainObject(got[L])
      BY <1>5, <1>10, <2>1, <2>2 DEF Merges
    <2> QED  BY <1>7, <1>10, <2>1, <2>3 DEF Documented, IsLeaf, from, over, got
  <1> QED  BY <1>8, <1>9, <1>10

-----------------------------------------------------------------------------
(***************************************************************************)
(* Members of a set of places, by their rank.                              *)
(***************************************************************************)
\* How many members of S there are up to i.
Rank(S, i) == Cardinality({j \in S : j <= i})

\* The member of S with m members up to it, as ArgumentsKept chooses it.
Ranked(S, m) == CHOOSE i \in S : Rank(S, i) = m

\* Every rank is that of a member.
AllRanked(S) == \A m \in 1 .. Cardinality(S) : \E i \in S : Rank(S, i) = m

\* Places in a sequence are finitely many.
LEMMA PlacesAreFinite ==
    ASSUME NEW n \in Nat, NEW S \in SUBSET (1 .. n)
    PROVE  IsFiniteSet(S) /\ Cardinality(S) \in Nat
  <1>1. IsFiniteSet(1 .. n)
    BY FS_Interval
  <1> QED  BY <1>1, FS_Subset, FS_CardinalityType

\* No two members have one rank.
LEMMA RanksDiffer ==
    ASSUME NEW n \in Nat, NEW S \in SUBSET (1 .. n), NEW i \in S, NEW k \in S, Rank(S, i) = Rank(S, k)
    PROVE  i = k
  <1>1. ASSUME NEW a \in S, NEW b \in S, a < b, Rank(S, a) = Rank(S, b)
        PROVE  FALSE
    <2> DEFINE A == {j \in S : j <= a}
               B == {j \in S : j <= b}
    <2>1. A \subseteq B /\ b \in B /\ b \notin A
      <3>1. a \in Nat /\ b \in Nat /\ \A j \in S : j \in Nat
        OBVIOUS
      <3>2. b <= b /\ ~ (b <= a) /\ \A j \in S : j <= a => j <= b
        BY <1>1, <3>1
      <3> QED  BY <3>2, Zenon
    <2>2. IsFiniteSet(B)
      BY PlacesAreFinite, B \in SUBSET (1 .. n)
    <2>3. Cardinality(A) = Cardinality(B)
      BY <1>1 DEF Rank
    <2> HIDE DEF A, B
    <2> QED  BY <2>1, <2>2, <2>3, FS_Subset
  <1>2. i \in Nat /\ k \in Nat
    OBVIOUS
  <1> QED  BY <1>1, <1>2

\* A member is found by its rank.
LEMMA RankedIs ==
    ASSUME NEW n \in Nat, NEW S \in SUBSET (1 .. n), NEW i \in S
    PROVE  Ranked(S, Rank(S, i)) = i
  <1>1. \A k \in S : Rank(S, k) = Rank(S, i) => k = i
    BY RanksDiffer
  <1> QED  BY <1>1 DEF Ranked

\* A further place takes the next rank and leaves the others theirs.
LEMMA NextIsRanked ==
    ASSUME NEW n \in Nat \ {0}, NEW S \in SUBSET (1 .. n - 1), AllRanked(S)
    PROVE  LET T == S \union {n} IN
           /\ Cardinality(T) = Cardinality(S) + 1
           /\ AllRanked(T)
           /\ Ranked(T, Cardinality(T)) = n
           /\ \A m \in 1 .. Cardinality(S) : Ranked(T, m) = Ranked(S, m)
  <1> DEFINE T == S \union {n}
             c == Cardinality(S)
  <1>1. n - 1 \in Nat /\ n \notin S /\ T \in SUBSET (1 .. n) /\ S \in SUBSET (1 .. n)
    OBVIOUS
  <1>2. IsFiniteSet(S) /\ c \in Nat
    BY <1>1, PlacesAreFinite
  <1>3. Cardinality(T) = c + 1
    BY <1>1, <1>2, FS_AddElement
  <1>4. ASSUME NEW i \in S
        PROVE  Rank(T, i) = Rank(S, i)
    <2>1. ~ (n <= i)
      <3>1. i \in 1 .. n - 1
        OBVIOUS
      <3> QED  BY <3>1
    <2>2. {j \in T : j <= i} = {j \in S : j <= i}
      BY <2>1, Zenon
    <2> QED  BY <2>2 DEF Rank
  <1>5. Rank(T, n) = c + 1
    <2>1. \A j \in T : j <= n
      BY <1>1
    <2>2. {j \in T : j <= n} = T
      BY <2>1, Zenon
    <2> QED  BY <1>3, <2>2 DEF Rank
  <1> HIDE DEF c
  <1>6. ASSUME NEW m \in 1 .. c
        PROVE  \E i \in S : Rank(T, i) = m /\ Ranked(T, m) = i /\ Ranked(S, m) = i
    <2>1. PICK i \in S : Rank(S, i) = m
      BY DEF AllRanked, c
    <2>2. Rank(T, i) = m
      BY <1>4, <2>1
    <2>3. Ranked(S, m) = i
      BY <1>1, <2>1, RankedIs
    <2>4. Ranked(T, m) = i
      BY <1>1, <2>2, RankedIs, i \in T
    <2> QED  BY <2>2, <2>3, <2>4
  <1>7. Ranked(T, c + 1) = n
    BY <1>1, <1>5, RankedIs, n \in T
  <1>8. AllRanked(T)
    <2> SUFFICES ASSUME NEW m \in 1 .. c + 1
                 PROVE  \E i \in T : Rank(T, i) = m
      BY <1>3 DEF AllRanked
    <2>1. CASE m = c + 1
      BY <1>5, <2>1
    <2>2. CASE m \in 1 .. c
      BY <1>6, <2>2
    <2> QED  BY <1>2, <2>1, <2>2
  <1> QED  BY <1>3, <1>6, <1>7, <1>8 DEF c

-----------------------------------------------------------------------------
(***************************************************************************)
(* The loop over the arguments.                                            *)
(***************************************************************************)
\* n arguments before i, no more and no less, are --profile.
Run(i, n) ==
    /\ \A j \in i - n .. i - 1 : argv[j] = "--profile"
    /\ i - n = 1 \/ argv[i - n - 1] # "--profile"

\* Before every argument stands a run of so many --profile, possibly none.
LEMMA RunsAreUnique ==
    ASSUME NEW i \in Nat \ {0}
    PROVE  \E n \in 0 .. i - 1 : Run(i, n) /\ \A m \in 0 .. i - 1 : Run(i, m) => m = n
  <1> DEFINE ends == {n \in 0 .. i - 1 : i - n = 1 \/ argv[i - n - 1] # "--profile"}
  <1>1. ends \in SUBSET Nat /\ i - 1 \in ends
    OBVIOUS
  <1>2. PICK n \in ends : \A m \in ends : n <= m
    <2> HIDE DEF ends
    <2> QED  BY <1>1, LeastNatural
  <1>3. Run(i, n)
    <2>1. ASSUME NEW j \in i - n .. i - 1
          PROVE  argv[j] = "--profile"
      <3>1. i - 1 - j \in 0 .. i - 1 /\ i - 1 - j < n /\ i - (i - 1 - j) - 1 = j /\ j >= 1
        OBVIOUS
      <3>2. i - 1 - j \notin ends
        <4> HIDE DEF ends
        <4> QED  BY <1>1, <1>2, <3>1
      <3> QED  BY <3>1, <3>2
    <2> QED  BY <2>1 DEF Run
  <1>4. ASSUME NEW m \in 0 .. i - 1, Run(i, m)
        PROVE  m = n
    <2>1. m \in ends
      BY <1>4 DEF Run
    <2>2. n <= m
      BY <1>2, <2>1
    <2>3. ASSUME n < m
          PROVE  FALSE
      <3>1. i - n - 1 \in i - m .. i - 1 /\ i - n # 1
        BY <2>3
      <3> QED  BY <1>2, <1>4, <3>1 DEF Run
    <2> QED  BY <2>2, <2>3
  <1> QED  BY <1>3, <1>4

\* What follows a --profile is its value, unless that --profile was a value.
LEMMA ValueFollows ==
    ASSUME NEW i \in Nat \ {0}
    PROVE  /\ IsProfileValue(i + 1) <=> argv[i] = "--profile" /\ ~ IsProfileValue(i)
           /\ ~ IsProfileValue(1)
  <1>1. \A k \in Nat \ {0} : IsProfileValue(k) <=> \E n \in 1 .. k - 1 : n % 2 = 1 /\ Run(k, n)
    BY DEF IsProfileValue, Run
  <1>2. ASSUME NEW n \in 1 .. i
        PROVE  Run(i + 1, n) <=> argv[i] = "--profile" /\ Run(i, n - 1)
    <2>1. /\ (i + 1) - n = i - (n - 1) /\ (i + 1) - n - 1 = i - (n - 1) - 1 /\ (i + 1) - 1 = i
          /\ i - (n - 1) .. i = (i - (n - 1) .. i - 1) \union {i}
      OBVIOUS
    <2> QED  BY <2>1 DEF Run
  <1>3. ASSUME NEW n \in 1 .. i
        PROVE  n % 2 = 1 <=> (n - 1) % 2 # 1
    OBVIOUS
  <1>4. PICK r \in 0 .. i - 1 : Run(i, r) /\ \A m \in 0 .. i - 1 : Run(i, m) => m = r
    BY RunsAreUnique
  <1>5. IsProfileValue(i) <=> r % 2 = 1
    <2>1. r % 2 = 1 => r \in 1 .. i - 1
      OBVIOUS
    <2> QED  BY <1>1, <1>4, <2>1
  <1>6. IsProfileValue(i + 1) <=> argv[i] = "--profile" /\ r % 2 # 1
    <2>1. i + 1 \in Nat \ {0} /\ (i + 1) - 1 = i
      OBVIOUS
    <2>2. IsProfileValue(i + 1) <=> \E n \in 1 .. i : n % 2 = 1 /\ Run(i + 1, n)
      BY <1>1, <2>1
    <2>3. ASSUME NEW n \in 1 .. i, n % 2 = 1, Run(i + 1, n)
          PROVE  argv[i] = "--profile" /\ r % 2 # 1
      <3>1. n - 1 \in 0 .. i - 1 /\ argv[i] = "--profile" /\ Run(i, n - 1)
        BY <1>2, <2>3
      <3>2. n - 1 = r
        BY <1>4, <3>1
      <3> QED  BY <1>3, <2>3, <3>1, <3>2
    <2>4. ASSUME argv[i] = "--profile", r % 2 # 1
          PROVE  \E n \in 1 .. i : n % 2 = 1 /\ Run(i + 1, n)
      <3>1. r + 1 \in 1 .. i /\ (r + 1) - 1 = r
        OBVIOUS
      <3>2. (r + 1) % 2 = 1
        BY <1>3, <2>4, <3>1
      <3>3. Run(i + 1, r + 1)
        BY <1>2, <1>4, <2>4, <3>1
      <3> QED  BY <3>1, <3>2, <3>3
    <2> QED  BY <2>2, <2>3, <2>4
  <1>7. ~ IsProfileValue(1)
    BY <1>1
  <1> QED  BY <1>5, <1>6, <1>7

\* A set of places has every rank up to its size.
LEMMA EveryRank ==
    ASSUME NEW n \in Nat, NEW S \in SUBSET (1 .. n)
    PROVE  AllRanked(S)
  <1> DEFINE Good == {m \in Nat : \A U \in SUBSET (1 .. m) : AllRanked(U)}
  <1>1. 0 \in Good
    <2>1. ASSUME NEW U \in SUBSET (1 .. 0)
          PROVE  AllRanked(U)
      <3>1. U = {}
        OBVIOUS
      <3>2. Cardinality(U) = 0
        BY <3>1, FS_EmptySet
      <3> QED  BY <3>2 DEF AllRanked
    <2> QED  BY <2>1
  <1>2. ASSUME NEW m \in Good
        PROVE  m + 1 \in Good
    <2>1. ASSUME NEW U \in SUBSET (1 .. m + 1)
          PROVE  AllRanked(U)
      <3> DEFINE V == U \ {m + 1}
      <3>1. m + 1 \in Nat \ {0} /\ (m + 1) - 1 = m /\ V \in SUBSET (1 .. m)
        OBVIOUS
      <3>2. AllRanked(V)
        BY <3>1
      <3>3. AllRanked(V \union {m + 1})
        <4> HIDE DEF V
        <4> QED  BY <3>1, <3>2, NextIsRanked
      <3>4. U = V \/ U = V \union {m + 1}
        OBVIOUS
      <3> HIDE DEF V
      <3> QED  BY <3>2, <3>3, <3>4
    <2> QED  BY <2>1
  <1>3. Good = Nat
    <2> HIDE DEF Good
    <2> QED  BY <1>1, <1>2, NaturalInduction, Good \in SUBSET Nat DEF Good
  <1> QED  BY <1>3

\* Argument i is a profile option, as ArgumentsKept has it.
IsOption(i) == ~ IsProfileValue(i) /\ argv[i] \in {"--profile"} \union DOMAIN ProfileForms

\* Among the first n arguments: the profile options, and those Wrangler gets.
Options(n) == {i \in 1 .. n : IsOption(i)}
Others(n) == {i \in 1 .. n : ~ IsOption(i) /\ ~ IsProfileValue(i)}

\* What Wrangler gets of them, in order.
Kept(n) == [m \in 1 .. Cardinality(Others(n)) |-> argv[Ranked(Others(n), m)]]

\* The name the last option gave: none yet when it is a --profile at the end.
Named(n) ==
    IF Options(n) = {} THEN None
    ELSE LET last == Max(Options(n)) IN
         IF argv[last] = "--profile" THEN IF last = n THEN None ELSE argv[last + 1]
         ELSE ProfileForms[argv[last]]

\* The last of the places up to n.
LEMMA LastIs ==
    ASSUME NEW n \in Nat, NEW S \in SUBSET (1 .. n), NEW i \in S, \A j \in S : j <= i
    PROVE  Max(S) = i
  <1>1. \A x \in S : (\A y \in S : x >= y) => x = i
    OBVIOUS
  <1>2. \A y \in S : i >= y
    OBVIOUS
  <1> QED  BY <1>1, <1>2 DEF Max

\* Among places there is a last one.
LEMMA LastExists ==
    ASSUME NEW n \in Nat, NEW S \in SUBSET (1 .. n), S # {}
    PROVE  Max(S) \in S
  <1> DEFINE back == {n - i : i \in S}
  <1>1. back \in SUBSET Nat /\ back # {}
    <2>1. ASSUME NEW i \in S
          PROVE  n - i \in Nat
      <3>1. i \in 1 .. n
        OBVIOUS
      <3> QED  BY <3>1
    <2>2. PICK i \in S : TRUE
      OBVIOUS
    <2>3. n - i \in back
      OBVIOUS
    <2> QED  BY <2>1, <2>3
  <1>2. PICK x \in back : \A y \in back : x <= y
    <2> HIDE DEF back
    <2> QED  BY <1>1, LeastNatural
  <1>3. PICK i \in S : x = n - i
    OBVIOUS
  <1>4. \A j \in S : j <= i
    BY <1>2, <1>3
  <1> QED  BY <1>4, LastIs

\* s is a record as the loop carries it.
IsLoopState(s) == s = [profile |-> s.profile, rest |-> s.rest, value |-> s.value]

\* TakeArgument, case by case.
LEMMA TakeArgumentIs ==
    ASSUME NEW s, IsLoopState(s), NEW arg
    PROVE  /\ s.value = TRUE =>
                  TakeArgument(s, arg) = [profile |-> arg, rest |-> s.rest, value |-> FALSE]
           /\ s.value = FALSE /\ arg = "--profile" =>
                  TakeArgument(s, arg) = [profile |-> None, rest |-> s.rest, value |-> TRUE]
           /\ s.value = FALSE /\ arg # "--profile" /\ arg \in DOMAIN ProfileForms =>
                  TakeArgument(s, arg) = [profile |-> ProfileForms[arg], rest |-> s.rest, value |-> FALSE]
           /\ s.value = FALSE /\ arg # "--profile" /\ arg \notin DOMAIN ProfileForms =>
                  TakeArgument(s, arg) = [profile |-> s.profile, rest |-> Append(s.rest, arg), value |-> FALSE]
  <1> DEFINE p == s.profile
             r == s.rest
             v == s.value
  <1>1. s = [profile |-> p, rest |-> r, value |-> v]
    BY DEF IsLoopState
  <1> HIDE DEF p, r, v
  <1>2. \A x : [s EXCEPT !.profile = x] = [profile |-> x, rest |-> r, value |-> v]
    BY <1>1
  <1>3. \A x, y : [s EXCEPT !.profile = x, !.value = y] = [profile |-> x, rest |-> r, value |-> y]
    <2>1. \A x, y : [[profile |-> x, rest |-> r, value |-> v] EXCEPT !.value = y]
                        = [profile |-> x, rest |-> r, value |-> y]
      OBVIOUS
    <2> QED  BY <1>2, <2>1
  <1>4. \A x : [s EXCEPT !.rest = x] = [profile |-> p, rest |-> x, value |-> v]
    BY <1>1
  <1>5. ASSUME v = TRUE
        PROVE  TakeArgument(s, arg) = [profile |-> arg, rest |-> r, value |-> FALSE]
    <2>1. TakeArgument(s, arg) = [s EXCEPT !.profile = arg, !.value = FALSE]
      BY <1>5 DEF TakeArgument, v
    <2> QED  BY <1>3, <2>1
  <1>6. ASSUME v = FALSE, arg = "--profile"
        PROVE  TakeArgument(s, arg) = [profile |-> None, rest |-> r, value |-> TRUE]
    <2>1. TakeArgument(s, arg) = [s EXCEPT !.profile = None, !.value = TRUE]
      BY <1>6, DeployAssumption DEF TakeArgument, v
    <2> QED  BY <1>3, <2>1
  <1>7. ASSUME v = FALSE, arg # "--profile", arg \in DOMAIN ProfileForms
        PROVE  TakeArgument(s, arg) = [profile |-> ProfileForms[arg], rest |-> r, value |-> FALSE]
    <2>1. TakeArgument(s, arg) = [s EXCEPT !.profile = ProfileForms[arg]]
      BY <1>7 DEF TakeArgument, v
    <2> QED  BY <1>2, <1>7, <2>1
  <1>8. ASSUME v = FALSE, arg # "--profile", arg \notin DOMAIN ProfileForms
        PROVE  TakeArgument(s, arg) = [profile |-> p, rest |-> Append(r, arg), value |-> FALSE]
    <2>1. TakeArgument(s, arg) = [s EXCEPT !.rest = Append(r, arg)]
      BY <1>8 DEF TakeArgument, v, r
    <2> QED  BY <1>4, <1>8, <2>1
  <1> QED  BY <1>5, <1>6, <1>7, <1>8 DEF p, r, v

\* What the loop has after n arguments.
TakenState(n) == [profile |-> Named(n), rest |-> Kept(n), value |-> IsProfileValue(n + 1)]

\* One turn of the loop goes from what it has to what it should have next.
LEMMA Turn ==
    ASSUME NEW n \in Nat
    PROVE  TakeArgument(TakenState(n), argv[n + 1]) = TakenState(n + 1)
  <1> DEFINE i == n + 1
             arg == argv[i]
  <1>1. /\ i \in Nat \ {0} /\ i - 1 = n /\ i # n /\ 1 .. i = (1 .. n) \union {i} /\ i \notin 1 .. n
        /\ Options(n) \in SUBSET (1 .. n) /\ Others(n) \in SUBSET (1 .. n)
    BY DEF Options, Others
  <1>2. IsProfileValue(i + 1) <=> arg = "--profile" /\ ~ IsProfileValue(i)
    BY <1>1, ValueFollows
  <1>3. /\ Options(i) = IF IsOption(i) THEN Options(n) \union {i} ELSE Options(n)
        /\ Others(i) = IF ~ IsOption(i) /\ ~ IsProfileValue(i) THEN Others(n) \union {i} ELSE Others(n)
    <2> HIDE DEF i
    <2> QED  BY <1>1 DEF Options, Others
  \* A value follows its --profile, the last option so far.
  <1>4. IsProfileValue(i) => n \in Options(n) /\ Max(Options(n)) = n /\ argv[n] = "--profile"
    <2> SUFFICES ASSUME IsProfileValue(i)
                 PROVE  n \in Options(n) /\ Max(Options(n)) = n /\ argv[n] = "--profile"
      OBVIOUS
    <2>1. n # 0
      <3> SUFFICES ASSUME n = 0
                   PROVE  FALSE
        OBVIOUS
      <3>1. i = 1
        OBVIOUS
      <3>2. ~ IsProfileValue(1)
        BY ValueFollows, 1 \in Nat \ {0}
      <3> QED  BY <3>1, <3>2
    <2>2. argv[n] = "--profile" /\ ~ IsProfileValue(n)
      BY <2>1, ValueFollows, n \in Nat \ {0}
    <2>3. n \in Options(n) /\ \A j \in Options(n) : j <= n
      BY <2>1, <2>2 DEF Options, IsOption
    <2> QED  BY <1>1, <2>2, <2>3, LastIs
  <1>5. IsOption(i) => Options(i) # {} /\ Max(Options(i)) = i
    <2>1. IsOption(i) => i \in Options(i) /\ \A j \in Options(i) : j <= i
      BY <1>1 DEF Options
    <2>2. Options(i) \in SUBSET (1 .. i)
      BY DEF Options
    <2> HIDE DEF i
    <2> QED  BY <1>1, <2>1, <2>2, LastIs
  <1>6. IsProfileValue(i) \in BOOLEAN /\ IsProfileValue(i + 1) \in BOOLEAN
    BY DEF IsProfileValue
  <1> DEFINE s == TakenState(n)
  <1>7. IsLoopState(s) /\ s.profile = Named(n) /\ s.rest = Kept(n) /\ s.value = IsProfileValue(i)
    BY DEF TakenState, IsLoopState
  <1>8. CASE IsProfileValue(i)
    <2>1. ~ IsOption(i) /\ Options(i) = Options(n) /\ Others(i) = Others(n) /\ ~ IsProfileValue(i + 1)
      BY <1>2, <1>3, <1>8 DEF IsOption
    <2>2. Named(i) = arg
      BY <1>1, <1>4, <1>8, <2>1 DEF Named
    <2>3. Kept(i) = Kept(n)
      BY <2>1 DEF Kept
    <2>4. IsProfileValue(i) = TRUE /\ IsProfileValue(i + 1) = FALSE
      BY <1>8, <2>1, <1>6
    <2>5. TakenState(i) = [profile |-> Named(i), rest |-> Kept(i), value |-> IsProfileValue(i + 1)]
      BY DEF TakenState
    <2> HIDE DEF s
    <2>6. TakeArgument(s, arg) = [profile |-> arg, rest |-> Kept(n), value |-> FALSE]
      <3>1. IsLoopState(s) /\ s.value = TRUE
        BY <1>7, <2>4
      <3>2. TakeArgument(s, arg) = [profile |-> arg, rest |-> s.rest, value |-> FALSE]
        <4> HIDE DEF arg, i
        <4> QED  BY <3>1, TakeArgumentIs
      <3> QED  BY <1>7, <3>2
    <2> QED  BY <2>2, <2>3, <2>4, <2>5, <2>6 DEF s
  <1>9. CASE ~ IsProfileValue(i) /\ arg = "--profile"
    <2>1. IsOption(i) /\ Others(i) = Others(n) /\ IsProfileValue(i + 1)
      BY <1>2, <1>3, <1>9 DEF IsOption
    <2>2. Named(i) = None
      BY <1>5, <1>9, <2>1 DEF Named
    <2>3. Kept(i) = Kept(n)
      BY <2>1 DEF Kept
    <2>4. IsProfileValue(i) = FALSE /\ IsProfileValue(i + 1) = TRUE
      BY <1>9, <2>1, <1>6
    <2>5. TakenState(i) = [profile |-> Named(i), rest |-> Kept(i), value |-> IsProfileValue(i + 1)]
      BY DEF TakenState
    <2> HIDE DEF s
    <2>6. TakeArgument(s, arg) = [profile |-> None, rest |-> Kept(n), value |-> TRUE]
      <3>1. IsLoopState(s) /\ s.value = FALSE
        BY <1>7, <2>4
      <3>2. TakeArgument(s, arg) = [profile |-> None, rest |-> s.rest, value |-> TRUE]
        <4> HIDE DEF arg, i
        <4> QED  BY <1>9, <3>1, TakeArgumentIs
      <3> QED  BY <1>7, <3>2
    <2> QED  BY <2>2, <2>3, <2>4, <2>5, <2>6 DEF s
  <1>10. CASE ~ IsProfileValue(i) /\ arg # "--profile" /\ arg \in DOMAIN ProfileForms
    <2>1. IsOption(i) /\ Others(i) = Others(n) /\ ~ IsProfileValue(i + 1)
      BY <1>2, <1>3, <1>10 DEF IsOption
    <2>2. Named(i) = ProfileForms[arg]
      BY <1>5, <1>10, <2>1 DEF Named
    <2>3. Kept(i) = Kept(n)
      BY <2>1 DEF Kept
    <2>4. IsProfileValue(i) = FALSE /\ IsProfileValue(i + 1) = FALSE
      BY <1>10, <2>1, <1>6
    <2>5. TakenState(i) = [profile |-> Named(i), rest |-> Kept(i), value |-> IsProfileValue(i + 1)]
      BY DEF TakenState
    <2> HIDE DEF s
    <2>6. TakeArgument(s, arg) = [profile |-> ProfileForms[arg], rest |-> Kept(n), value |-> FALSE]
      <3>1. IsLoopState(s) /\ s.value = FALSE
        BY <1>7, <2>4
      <3>2. TakeArgument(s, arg) = [profile |-> ProfileForms[arg], rest |-> s.rest, value |-> FALSE]
        <4> HIDE DEF arg, i
        <4> QED  BY <1>10, <3>1, TakeArgumentIs
      <3> QED  BY <1>7, <3>2
    <2> QED  BY <2>2, <2>3, <2>4, <2>5, <2>6 DEF s
  <1>11. CASE ~ IsProfileValue(i) /\ arg # "--profile" /\ arg \notin DOMAIN ProfileForms
    <2>1. /\ ~ IsOption(i) /\ Options(i) = Options(n) /\ Others(i) = Others(n) \union {i}
          /\ ~ IsProfileValue(i + 1)
      BY <1>2, <1>3, <1>11 DEF IsOption
    <2>2. Named(i) = Named(n)
      <3>1. CASE Options(n) = {}
        BY <2>1, <3>1 DEF Named
      <3>2. CASE Options(n) # {}
        <4> DEFINE last == Max(Options(n))
        <4>1. last \in Options(n)
          <5>1. IsFiniteSet(Options(n))
            BY <1>1, PlacesAreFinite
          <5> QED  BY <1>1, <3>2, LastExists
        <4>2. last # i
          BY <1>1, <4>1
        <4>3. argv[last] = "--profile" => last # n
          <5> SUFFICES ASSUME argv[last] = "--profile", last = n
                       PROVE  FALSE
            OBVIOUS
          <5>1. n \in Nat \ {0} /\ ~ IsProfileValue(n)
            BY <4>1 DEF Options, IsOption
          <5>2. IsProfileValue(i)
            BY <5>1, ValueFollows
          <5> QED  BY <1>11, <5>2
        <4> QED  BY <2>1, <3>2, <4>2, <4>3 DEF Named
      <3> QED  BY <3>1, <3>2
    <2>3. Kept(i) = Append(Kept(n), arg)
      <3> DEFINE c == Cardinality(Others(n))
                 U == Others(n)
                 V == Others(n) \union {i}
      <3>1. c \in Nat /\ AllRanked(U)
        BY <1>1, PlacesAreFinite, EveryRank
      <3>2. /\ Cardinality(V) = c + 1
            /\ Ranked(V, Cardinality(V)) = i
            /\ \A m \in 1 .. c : Ranked(V, m) = Ranked(U, m)
        <4> HIDE DEF i
        <4> QED  BY <1>1, <3>1, NextIsRanked
      <3>3. Kept(i) = [m \in 1 .. c + 1 |-> argv[Ranked(V, m)]] /\ Kept(n) = [m \in 1 .. c |-> argv[Ranked(U, m)]]
        BY <2>1, <3>2 DEF Kept
      <3>4. Len(Kept(n)) = c
        BY <3>1, <3>3
      <3> HIDE DEF c, U, V, i
      <3>5. Append(Kept(n), arg) = [m \in 1 .. c + 1 |-> IF m = c + 1 THEN arg ELSE Kept(n)[m]]
        BY <3>1, <3>3, <3>4
      <3>6. ASSUME NEW m \in 1 .. c + 1
            PROVE  argv[Ranked(V, m)] = IF m = c + 1 THEN arg ELSE Kept(n)[m]
        <4>1. m = c + 1 \/ m \in 1 .. c
          BY <3>1
        <4> QED  BY <3>2, <3>3, <4>1
      <3> QED  BY <3>3, <3>5, <3>6
    <2>4. IsProfileValue(i) = FALSE /\ IsProfileValue(i + 1) = FALSE
      BY <1>11, <2>1, <1>6
    <2>5. TakenState(i) = [profile |-> Named(i), rest |-> Kept(i), value |-> IsProfileValue(i + 1)]
      BY DEF TakenState
    <2> HIDE DEF s
    <2>6. TakeArgument(s, arg) = [profile |-> Named(n), rest |-> Append(Kept(n), arg), value |-> FALSE]
      <3>1. IsLoopState(s) /\ s.value = FALSE
        BY <1>7, <2>4
      <3>2. TakeArgument(s, arg) = [profile |-> s.profile, rest |-> Append(s.rest, arg), value |-> FALSE]
        <4> HIDE DEF arg, i
        <4> QED  BY <1>11, <3>1, TakeArgumentIs
      <3> QED  BY <1>7, <3>2
    <2> QED  BY <2>2, <2>3, <2>4, <2>5, <2>6 DEF s
  <1> QED  BY <1>8, <1>9, <1>10, <1>11

\* So the loop does what it should, for any arguments.
LEMMA LoopIs ==
    ASSUME argv \in Seq(Range(argv))
    PROVE  TakeProfileArgument(argv) = TakenState(Len(argv))
  <1> DEFINE L == Len(argv)
             Good == {n \in Nat : n <= L => Taken(argv)[n] = TakenState(n)}
  <1>1. L \in Nat
    OBVIOUS
  <1>2. /\ Taken(argv)[0] = Start
        /\ \A n \in 1 .. L : Taken(argv)[n] = TakeArgument(Taken(argv)[n - 1], argv[n])
    BY <1>1, TakenSteps
  <1>3. 0 \in Good
    <2>1. Options(0) = {} /\ Others(0) = {}
      BY DEF Options, Others
    <2>2. Named(0) = None
      BY <2>1 DEF Named
    <2>3. Kept(0) = <<>>
      <3>1. Cardinality(Others(0)) = 0
        BY <2>1, FS_EmptySet
      <3> QED  BY <3>1 DEF Kept
    <2>4. IsProfileValue(0 + 1) = FALSE
      <3>1. ~ IsProfileValue(1)
        BY ValueFollows, 1 \in Nat \ {0}
      <3>2. 0 + 1 = 1 /\ IsProfileValue(0 + 1) \in BOOLEAN
        BY DEF IsProfileValue
      <3> QED  BY <3>1, <3>2
    <2> HIDE DEF L
    <2> QED  BY <1>2, <2>2, <2>3, <2>4 DEF TakenState, Start
  <1>4. ASSUME NEW n \in Good
        PROVE  n + 1 \in Good
    <2> SUFFICES ASSUME n + 1 <= L
                 PROVE  Taken(argv)[n + 1] = TakenState(n + 1)
      OBVIOUS
    <2>1. n \in Nat /\ n <= L /\ n + 1 \in 1 .. L /\ (n + 1) - 1 = n
      BY <1>1
    <2>2. Taken(argv)[n] = TakenState(n)
      BY <2>1
    <2> HIDE DEF L, Good
    <2> QED  BY <1>2, <2>1, <2>2, Turn
  <1>5. Good = Nat
    <2> HIDE DEF Good
    <2> QED  BY <1>3, <1>4, NaturalInduction, Good \in SUBSET Nat DEF Good
  <1> QED  BY <1>1, <1>5 DEF TakeProfileArgument

-----------------------------------------------------------------------------
(***************************************************************************)
(* The script.                                                             *)
(***************************************************************************)
\* What the files hold and the arguments are.
FilesOK ==
    /\ base \in Json
    /\ \A p \in Profiles : overlays[p] \in Json \union {None}
    /\ DOMAIN generated = Profiles
    /\ argv \in Seq(Range(argv))

\* Between the parse and the resolution: what the loop took, a name among it
\* if there was an option.
ParsedOK ==
    pc = "parsed" =>
        /\ profile = TakeProfileArgument(argv).profile
        /\ rest = TakeProfileArgument(argv).rest
        /\ ~ NameMissing(argv, profile)

\* After the resolution: the file Wrangler is pointed at is the merge of this run.
ResolvedOK ==
    pc \in {"resolved", "ran"} /\ profile # None =>
        /\ profile \in Profiles
        /\ overlays[profile] \in Json
        /\ generated[profile] = MergeWranglerConfig[base][overlays[profile]]

\* What Wrangler ran with is what it was pointed at.
RanOK == pc = "ran" => config = IF profile = None THEN base ELSE generated[profile]

\* The inductive invariant.
ScriptInv == FilesOK /\ ParsedOK /\ ResolvedOK /\ RanOK

\* The invariant holds at the start.
LEMMA ScriptInvInit == Init => ScriptInv
  <1> SUFFICES ASSUME Init
               PROVE  ScriptInv
    OBVIOUS
  <1>1. PICK input \in Inputs : /\ base = input.base /\ overlays = input.overlays
                                /\ generated = input.generated /\ argv = input.argv
    BY DEF Init
  <1>2. FilesOK
    BY <1>1, DeployAssumption DEF FilesOK
  <1>3. pc = "start"
    BY DEF Init
  <1> QED  BY <1>2, <1>3 DEF ScriptInv, ParsedOK, ResolvedOK, RanOK

\* Every action of the script preserves it.
LEMMA ScriptInvNext == ScriptInv /\ [Next]_vars => ScriptInv'
  <1> SUFFICES ASSUME ScriptInv, [Next]_vars
               PROVE  ScriptInv'
    OBVIOUS
  <1> USE DEF ScriptInv
  <1>1. CASE ParseRefused
    BY <1>1 DEF ParseRefused, Throw, files, FilesOK, ParsedOK, ResolvedOK, RanOK
  <1>2. CASE Parse
    <2>1. FilesOK'
      BY <1>2 DEF Parse, files, FilesOK
    <2>2. ParsedOK'
      BY <1>2 DEF Parse, files, ParsedOK
    <2>3. ResolvedOK' /\ RanOK'
      BY <1>2 DEF Parse, ResolvedOK, RanOK
    <2> QED  BY <2>1, <2>2, <2>3
  <1>3. CASE ResolveRefused
    BY <1>3 DEF ResolveRefused, Throw, files, FilesOK, ParsedOK, ResolvedOK, RanOK
  <1>4. CASE ResolveTracked
    <2>1. FilesOK'
      BY <1>4 DEF ResolveTracked, files, FilesOK
    <2>2. ParsedOK' /\ ResolvedOK' /\ RanOK'
      BY <1>4 DEF ResolveTracked, ParsedOK, ResolvedOK, RanOK
    <2> QED  BY <2>1, <2>2
  <1>5. CASE ResolveProfile
    <2>1. profile \in Profiles /\ overlays[profile] \in Json
      BY <1>5 DEF ResolveProfile, CanMerge, FilesOK
    <2>2. /\ DOMAIN generated = Profiles
          /\ generated' = [generated EXCEPT ![profile] = MergeWranglerConfig[base][overlays[profile]]]
      BY <1>5 DEF ResolveProfile, FilesOK
    <2>3. FilesOK'
      BY <1>5, <2>2 DEF ResolveProfile, files, FilesOK
    <2>4. ResolvedOK'
      BY <1>5, <2>1, <2>2 DEF ResolveProfile, files, ResolvedOK
    <2>5. ParsedOK' /\ RanOK'
      BY <1>5 DEF ResolveProfile, ParsedOK, RanOK
    <2> QED  BY <2>3, <2>4, <2>5
  <1>6. CASE Spawn
    <2>1. FilesOK'
      BY <1>6 DEF Spawn, files, FilesOK
    <2>2. ParsedOK' /\ ResolvedOK' /\ RanOK'
      BY <1>6 DEF Spawn, files, ParsedOK, ResolvedOK, RanOK
    <2> QED  BY <2>1, <2>2
  <1>7. CASE SpawnFails
    BY <1>7 DEF SpawnFails, Throw, files, FilesOK, ParsedOK, ResolvedOK, RanOK
  <1>8. CASE UNCHANGED vars
    BY <1>8 DEF vars, files, FilesOK, ParsedOK, ResolvedOK, RanOK
  <1> QED  BY <1>1, <1>2, <1>3, <1>4, <1>5, <1>6, <1>7, <1>8 DEF Next

\* The invariant of the script: what it parsed, resolved and ran with fit
\* together in every reachable state.
THEOREM ScriptSafe == Spec => []ScriptInv
  <1> QED  BY ScriptInvInit, ScriptInvNext, PTL DEF Spec

\* RunsWithMerge of every run, for any configurations and any path into them:
\* Wrangler runs with the tracked file or with the documented merge of that file
\* and the overlay as they are now, stray nulls apart (mergeWranglerConfig,
\* resolveWranglerConfig).
THEOREM WranglerRunsWithMerge == Spec => []RunsWithMerge
  <1>1. ScriptInv => RunsWithMerge
    <2> SUFFICES ASSUME ScriptInv, pc = "ran", profile # None, NEW path \in Paths,
                        ~ StrayNull(base, overlays[profile], path)
                 PROVE  Documented(base, overlays[profile], path, config)
      BY DEF ScriptInv, RanOK, RunsWithMerge
    <2>1. /\ base \in Json /\ overlays[profile] \in Json
          /\ config = MergeWranglerConfig[base][overlays[profile]]
      BY DEF ScriptInv, FilesOK, ResolvedOK, RanOK
    <2>2. Len(path) \in Nat \ {0}
      BY DeployAssumption
    <2> QED  BY <2>1, <2>2, MergeIsDocumented
  <1> QED  BY <1>1, ScriptSafe, PTL

\* ArgumentsKept of every run, for command lines of any length: what is neither
\* a profile option nor its value is left, in order, and the profile is that of
\* the last option (takeProfileArgument).
THEOREM OnlyTheProfileIsTaken == Spec => []ArgumentsKept
  <1>1. ScriptInv => ArgumentsKept
    <2> SUFFICES ASSUME ScriptInv, pc = "parsed"
                 PROVE  ArgumentsKept
      BY DEF ArgumentsKept
    <2> DEFINE L == Len(argv)
               others == {i \in DOMAIN argv : ~ IsOption(i) /\ ~ IsProfileValue(i)}
               options == {i \in DOMAIN argv : IsOption(i)}
    <2>1. argv \in Seq(Range(argv))
      BY DEF ScriptInv, FilesOK
    <2>2. L \in Nat /\ DOMAIN argv = 1 .. L
      BY <2>1
    <2>3. others = Others(L) /\ options = Options(L)
      BY <2>2 DEF Others, Options
    <2>4. profile = Named(L) /\ rest = Kept(L) /\ ~ NameMissing(argv, profile)
      BY <2>1, LoopIs DEF ScriptInv, ParsedOK, TakenState
    <2> HIDE DEF L, others, options
    <2>5. rest = [n \in 1 .. Cardinality(others) |->
                     argv[CHOOSE i \in others : Cardinality({j \in others : j <= i}) = n]]
      BY <2>3, <2>4 DEF Kept, Ranked, Rank
    <2>6. profile = IF options = {} THEN None
                    ELSE LET last == Max(options) IN
                         IF argv[last] = "--profile" THEN argv[last + 1] ELSE ProfileForms[argv[last]]
      <3>1. CASE options = {}
        BY <2>3, <2>4, <3>1 DEF Named
      <3>2. CASE options # {}
        <4>1. Max(options) \in 1 .. L
          <5>1. options \in SUBSET (1 .. L)
            BY <2>3 DEF Options
          <5> QED  BY <2>2, <3>2, <5>1, LastExists
        <4>2. argv[Max(options)] = "--profile" => profile # None
          BY <2>2, <2>4, <4>1 DEF NameMissing
        <4> QED  BY <2>3, <2>4, <3>2, <4>2 DEF Named
      <3> QED  BY <3>1, <3>2
    <2> QED  BY <2>5, <2>6 DEF ArgumentsKept, IsOption, others, options
  <1> QED  BY <1>1, ScriptSafe, PTL

=============================================================================
