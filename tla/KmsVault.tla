------------------------------ MODULE KmsVault ------------------------------
(***************************************************************************)
(* What cf-kms promises, without any of its machinery: data keys, each     *)
(* bound for good to the context it was generated for, and a trail with at *)
(* most one entry per request.  There are no tokens, configurations, wraps *)
(* or awaits here; an operation is one step that checks the caller's       *)
(* scope, uses the data key and leaves its entry in the trail, all or      *)
(* nothing.  Worker is shown to implement it (Worker!Vault).               *)
(***************************************************************************)
EXTENDS Context

CONSTANTS
    Req,        \* the requests, and the data keys they generate
    Callers,    \* the caller entries: [name, requiredContext, ...]
    Contexts,   \* the encryption contexts
    None

VARIABLES
    bound,   \* bound[d]: the context of data key d, for every d generated
    trail    \* trail[r]: what request r came to, None as long as it is open

Entry(caller, operation, context, dek) ==
    [caller |-> caller, op |-> operation, ctx |-> context, dek |-> dek]

Init ==
    /\ bound = <<>>
    /\ trail = [r \in Req |-> None]

\* r and only r comes to an end.
Decides(r) ==
    /\ trail[r] = None
    /\ trail'[r] # None
    /\ trail' = [trail EXCEPT ![r] = trail'[r]]

Generate(r) ==
    \E who \in Callers, c \in Contexts :
        /\ ContextSatisfies(c, who.requiredContext)
        /\ trail'[r] = Entry(who.name, "generate-data-key", c, r)
        /\ bound' = [d \in DOMAIN bound \union {r} |-> IF d = r THEN c ELSE bound[d]]

\* decrypt hands the key out, re-wrap a new wrapped key for it.
Use(r, operation) ==
    \E who \in Callers, d \in DOMAIN bound :
        /\ ContextSatisfies(bound[d], who.requiredContext)
        /\ trail'[r] = Entry(who.name, operation, bound[d], d)
        /\ UNCHANGED bound

Refuse(r, operation) ==
    \E name \in {who.name : who \in Callers} \union {None}, c \in Contexts \union {None} :
        /\ trail'[r] = Entry(name, operation, c, None)
        /\ UNCHANGED bound

Next ==
    \E r \in Req :
        /\ Decides(r)
        /\ \/ Generate(r)
           \/ \E operation \in {"decrypt", "re-wrap"} : Use(r, operation)
           \/ \E operation \in {"generate-data-key", "decrypt", "re-wrap"} : Refuse(r, operation)

Spec == Init /\ [][Next]_<<bound, trail>>
=============================================================================
