---------------------------- MODULE DeployConfig ----------------------------
(***************************************************************************)
(* Deployment profiles: node scripts/wrangler.mjs [--profile <name>]       *)
(* [--cwd <dir>] <wrangler arguments> (scripts/wrangler.mjs,               *)
(* scripts/wrangler-config.mjs).  One run of the script over the files it  *)
(* finds: the tracked wrangler.jsonc, the overlays next to it and what     *)
(* earlier runs generated.                                                 *)
(*                                                                         *)
(* A JSON value is a record: an object [kind |-> "object", fields |-> f],  *)
(* with f a function from its keys to values, or a leaf [kind |-> k, ...]  *)
(* of kind "array", "scalar" or "null"; a file that does not parse has the *)
(* kind "broken".                                                          *)
(***************************************************************************)
EXTENDS Naturals, Sequences, FiniteSets, SequencesExt

CONSTANTS
    Inputs,       \* what a run can meet: [base, overlays, generated, argv]
    Depth,        \* the JSON values, each with how deep it is nested
    Paths,        \* paths of keys, for the properties
    Profiles,     \* the names PROFILE_PATTERN accepts
    ProfileForms, \* ProfileForms[a]: v, for every argument a = --profile=v
    Dirs,         \* the values of --cwd with a wrangler.jsonc, for this model
                  \* the project root
    None          \* undefined; no such file

Json == DOMAIN Depth

IsPlainObject(value) == value.kind = "object"
IsNull(value) == value.kind = "null"

\* A JSON text is finite, and no argument of a program is undefined.
ASSUME DeployAssumption ==
    /\ \A value \in Json :
           /\ value.kind # "undefined"
           /\ Depth[value] \in Nat
           /\ IsPlainObject(value) => \A k \in DOMAIN value.fields :
                  value.fields[k] \in Json /\ Depth[value.fields[k]] < Depth[value]
    /\ None \notin Json /\ None \notin Profiles
    /\ "--profile" \notin DOMAIN ProfileForms
    /\ \A input \in Inputs :
           /\ input.base \in Json
           /\ \A p \in Profiles : input.overlays[p] \in Json \union {None}
           /\ DOMAIN input.generated = Profiles
           /\ input.argv \in Seq(Range(input.argv))
    /\ \A path \in Paths : Len(path) \in Nat \ {0}

VARIABLES
    base,        \* wrangler.jsonc
    overlays,    \* overlays[p]: wrangler.<p>.overlay.jsonc, or None
    generated,   \* generated[p]: wrangler.<p>.generated.jsonc, or None
    argv,        \* the arguments of the script
    pc,          \* "start", "parsed", "resolved", "ran" or "threw"
    profile,     \* what takeProfileArgument found, or None
    rest,        \* the arguments for Wrangler
    config       \* the configuration Wrangler ran with, or None

files == <<base, overlays, argv>>
vars == <<files, generated, pc, profile, rest, config>>

Init ==
    /\ \E input \in Inputs :
           /\ base = input.base
           /\ overlays = input.overlays
           /\ generated = input.generated
           /\ argv = input.argv
    /\ pc = "start"
    /\ profile = None
    /\ rest = <<>>
    /\ config = None

-----------------------------------------------------------------------------
(***************************************************************************)
(* mergeWranglerConfig                                                     *)
(***************************************************************************)
\* An object in the overlay replaces the one in the base.
Merged_Shallow(merge, b, o, k) == IF k \in DOMAIN o THEN o[k] ELSE b[k]

\* The value under key k of two merged objects with the fields b and o.
Merged(merge, b, o, k) ==
    IF k \notin DOMAIN o THEN b[k]
    ELSE IF k \in DOMAIN b THEN merge[b[k]][o[k]]
    ELSE o[k]

MergeWranglerConfig[b \in Json] == [o \in Json |->
    IF ~ IsPlainObject(b) \/ ~ IsPlainObject(o) THEN o
    ELSE LET deleted == {k \in DOMAIN o.fields : IsNull(o.fields[k])} IN
         [kind   |-> "object",
          fields |-> [k \in (DOMAIN b.fields \union DOMAIN o.fields) \ deleted |->
                         Merged(MergeWranglerConfig, b.fields, o.fields, k)]]]

-----------------------------------------------------------------------------
(***************************************************************************)
(* takeProfileArgument and takeOption.                                     *)
(***************************************************************************)
\* The value of --profile stays among the arguments.
TakeArgument_KeepsValue(s, arg) ==
    CASE s.value -> [s EXCEPT !.profile = arg, !.value = FALSE, !.rest = Append(@, arg)]
      [] ~ s.value /\ arg = "--profile" -> [s EXCEPT !.profile = None, !.value = TRUE]
      [] ~ s.value /\ arg \in DOMAIN ProfileForms -> [s EXCEPT !.profile = ProfileForms[arg]]
      [] OTHER -> [s EXCEPT !.rest = Append(@, arg)]

\* One turn of the loop; s.value: arg is the value of the --profile before it.
TakeArgument(s, arg) ==
    CASE s.value -> [s EXCEPT !.profile = arg, !.value = FALSE]
      [] ~ s.value /\ arg = "--profile" -> [s EXCEPT !.profile = None, !.value = TRUE]
      [] ~ s.value /\ arg \in DOMAIN ProfileForms -> [s EXCEPT !.profile = ProfileForms[arg]]
      [] OTHER -> [s EXCEPT !.rest = Append(@, arg)]

\* The loop: what is taken from the first n arguments.
Taken(args) ==
    LET taken[n \in 0 .. Len(args)] ==
            IF n = 0 THEN [profile |-> None, rest |-> <<>>, value |-> FALSE]
            ELSE TakeArgument(taken[n - 1], args[n])
    IN  taken

TakeProfileArgument(args) == Taken(args)[Len(args)]

\* --profile without a name, or with an empty one.
NameMissing(args, found) ==
    found = "" \/ (found = None /\ \E i \in DOMAIN args : args[i] = "--profile")

\* The value of the first --cwd, None without one or when nothing follows it.
CwdOf(args) ==
    LET at == SelectInSeq(args, LAMBDA arg : arg = "--cwd")
    IN  IF at \in 1 .. Len(args) - 1 THEN args[at + 1] ELSE None

WithoutCwd(args) ==
    LET at == SelectInSeq(args, LAMBDA arg : arg = "--cwd")
    IN  IF at = 0 THEN args ELSE SubSeq(args, 1, at - 1) \o SubSeq(args, at + 2, Len(args))

-----------------------------------------------------------------------------
(***************************************************************************)
(* The script.                                                             *)
(***************************************************************************)
Throw ==
    /\ pc' = "threw"
    /\ UNCHANGED <<files, generated, profile, rest, config>>

ParseRefused ==
    /\ pc = "start"
    /\ NameMissing(argv, TakeProfileArgument(argv).profile)
    /\ Throw

Parse ==
    LET taken == TakeProfileArgument(argv) IN
    /\ pc = "start"
    /\ ~ NameMissing(argv, taken.profile)
    /\ pc' = "parsed"
    /\ profile' = taken.profile
    /\ rest' = taken.rest
    /\ UNCHANGED <<files, generated, config>>

\* resolveWranglerConfig throws: a file is missing or does not parse, or the
\* name is not one of a profile.
CanRead == CwdOf(rest) \in Dirs \union {None} /\ base.kind # "broken"

CanMerge == profile \in Profiles /\ overlays[profile] # None /\ overlays[profile].kind # "broken"

ResolveRefused ==
    /\ pc = "parsed"
    /\ ~ CanRead \/ (profile # None /\ ~ CanMerge)
    /\ Throw

\* Without a profile the tracked file is used as it is.
ResolveTracked ==
    /\ pc = "parsed"
    /\ CanRead
    /\ profile = None
    /\ pc' = "resolved"
    /\ rest' = WithoutCwd(rest)
    /\ UNCHANGED <<files, generated, profile, config>>

\* What an earlier run generated is used again.
ResolveProfile_Reuses ==
    /\ pc = "parsed"
    /\ CanRead
    /\ CanMerge
    /\ generated' = [generated EXCEPT ![profile] =
           IF @ = None THEN MergeWranglerConfig[base][overlays[profile]] ELSE @]
    /\ pc' = "resolved"
    /\ rest' = WithoutCwd(rest) \o <<"--config", profile>>
    /\ UNCHANGED <<files, profile, config>>

ResolveProfile ==
    /\ pc = "parsed"
    /\ CanRead
    /\ CanMerge
    /\ generated' = [generated EXCEPT ![profile] = MergeWranglerConfig[base][overlays[profile]]]
    /\ pc' = "resolved"
    /\ rest' = WithoutCwd(rest) \o <<"--config", profile>>
    /\ UNCHANGED <<files, profile, config>>

\* Wrangler runs and reads the file it was pointed at.  Its exit status becomes
\* the script's and changes nothing else.
Spawn ==
    /\ pc = "resolved"
    /\ pc' = "ran"
    /\ config' = IF profile = None THEN base ELSE generated[profile]
    /\ UNCHANGED <<files, generated, profile, rest>>

\* result.error: Wrangler is not installed, or there is no such directory.
SpawnFails == pc = "resolved" /\ Throw

Next ==
    \/ ParseRefused \/ Parse
    \/ ResolveRefused \/ ResolveTracked \/ ResolveProfile
    \/ Spawn \/ SpawnFails

Spec == Init /\ [][Next]_vars

-----------------------------------------------------------------------------
(***************************************************************************)
(* What an operator relies on.                                             *)
(***************************************************************************)
Undefined == [kind |-> "undefined"]

Field(value, k) ==
    IF IsPlainObject(value) /\ k \in DOMAIN value.fields THEN value.fields[k] ELSE Undefined

\* The values on the way down a path: behind n keys, Undefined where there is none.
Walk(value, path) ==
    LET at[n \in 0 .. Len(path)] == IF n = 0 THEN value ELSE Field(at[n - 1], path[n])
    IN  at

IsLeaf(value) == value # Undefined /\ ~ IsPlainObject(value)

\* What the documented rules put at a path: an overlay's leaf wins, also over
\* an object; null deletes; an object stays one; all else comes from the base
\* (docs/index.md:219-220, wrangler-config.mjs:31-34).
Documented(b, o, path, result) ==
    LET n == Len(path)
        from == Walk(b, path)
        over == Walk(o, path)
        got == Walk(result, path)[n]
    IN  CASE IsLeaf(over[n]) /\ IsNull(over[n]) -> got = Undefined
          [] IsLeaf(over[n]) /\ ~ IsNull(over[n]) -> got = over[n]
          [] IsPlainObject(over[n]) -> IsPlainObject(got)
          [] OTHER -> got = IF \E m \in 0 .. n - 1 : IsLeaf(over[m]) THEN Undefined ELSE from[n]

\* The overlay has a null at the path, the base no object for it to be deleted
\* from: mergeWranglerConfig copies what is there (wrangler-config.mjs:43-45).
StrayNull(b, o, path) ==
    LET n == Len(path) IN
    IsNull(Walk(o, path)[n]) /\ ~ IsPlainObject(Walk(b, path)[n - 1])

\* Wrangler runs with the tracked file, or with it and the overlay as they are
\* now merged by the documented rules; never with what an earlier run generated
\* (wrangler-config.mjs:8-9 "merged over the tracked file on every run",
\* docs/index.md:217-220).  A stray null is where the code departs from those
\* rules: NullRemovesKey is about it.
RunsWithMerge ==
    pc = "ran" =>
        IF profile = None THEN config = base
        ELSE LET o == overlays[profile] IN
             \A path \in Paths : ~ StrayNull(base, o, path) => Documented(base, o, path, config)

\* docs/index.md:220: "`null` removes a key"; wrangler-config.mjs:32-33: "`null`
\* deletes a key".  Wherever the overlay has a null, Wrangler is given nothing.
NullRemovesKey ==
    pc = "ran" /\ profile # None =>
        \A path \in Paths : LET n == Len(path) IN
            IsNull(Walk(overlays[profile], path)[n]) => Walk(config, path)[n] = Undefined

\* Argument i is the value of a --profile: what stands before it ends in an odd
\* number of them.
IsProfileValue(i) ==
    \E n \in {m \in 1 .. i - 1 : m % 2 = 1} :
        /\ \A j \in i - n .. i - 1 : argv[j] = "--profile"
        /\ i - n = 1 \/ argv[i - n - 1] # "--profile"

\* takeProfileArgument leaves every argument that is neither a profile option
\* nor its value, in order, also when a name looks like an option, and the
\* profile is that of the last option (wrangler-config.mjs:110-131).  takeOption
\* takes the --cwd out of what is left only after that.
ArgumentsKept ==
    pc = "parsed" =>
        LET IsOption(i) == ~ IsProfileValue(i) /\ argv[i] \in {"--profile"} \union DOMAIN ProfileForms
            others == {i \in DOMAIN argv : ~ IsOption(i) /\ ~ IsProfileValue(i)}
            options == {i \in DOMAIN argv : IsOption(i)}
        IN  /\ rest = [n \in 1 .. Cardinality(others) |->
                          argv[CHOOSE i \in others : Cardinality({j \in others : j <= i}) = n]]
            /\ profile = IF options = {} THEN None
                         ELSE LET last == Max(options) IN
                              IF argv[last] = "--profile" THEN argv[last + 1]
                              ELSE ProfileForms[argv[last]]
=============================================================================
