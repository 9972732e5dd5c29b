------------------------------- MODULE Worker -------------------------------
(***************************************************************************)
(* The request pipeline of the cf-kms worker: routes.ts with the audit     *)
(* wrapper of audit.ts and the error mapping of errors.ts, over the        *)
(* operators of Auth, Wrap and Context.                                    *)
(*                                                                         *)
(* A request is handled in steps that end at the handler's awaits: the     *)
(* digest of the token, the body, a key, a GCM operation.  Requests        *)
(* interleave at the awaits, and share nothing but what clients carry from *)
(* a reply to a later request: the wrapped keys.  keys.key is used by its  *)
(* contract, which KekRegistry checks: the key of the env's own material   *)
(* for the version, or an error.  A fresh DEK and a fresh iv are named by  *)
(* the request that drew them.                                             *)
(***************************************************************************)
EXTENDS Auth, Wrap

CONSTANTS
    Req,           \* the requests (one-shot)
    Headers,       \* the Authorization headers clients send; None: there is none
    Contexts,      \* the contexts in request bodies; Malformed: a body that is
                   \* no JSON or does not match the schema
    MaxInFlight,   \* bound: how many requests the worker handles at a time
    MaxDropped     \* bound: how many requests the runtime drops

Operations == {"generate-data-key", "decrypt", "re-wrap"}
Unaudited == {"health", "not_found"}
Awaits == {"digest", "body", "unwrapKey", "open", "wrapKey", "seal"}
Codes == {"ok", "invalid_request", "unauthorized", "decrypt_failed", "not_found", "internal_error"}

Bodies == Contexts \ {Malformed}

CallersOf(e) == {Bindings[e].callers[i] : i \in DOMAIN Bindings[e].callers}

Callers == UNION {CallersOf(e) : e \in {f \in Envs : EnvironmentValid(f)}}

\* Everything that can come as a wrapped key and has its shape.
Boxes == [material : Materials, iv : Req, aad : {CanonicalizeContext(c) : c \in Bodies}, dek : Req]

WrappedKeys == [ver : Versions, iv : Req \union {None}, box : Boxes \union {None}]

TrailEntries ==
    [caller : CallerNames \union {None}, op : Operations,
     ctx : Bodies \union {None}, dek : Req \union {None}]

\* callerSchema gives callers names of callerNameSchema, encryptionContextSchema
\* contexts of its alphabet; the null of the code is none of its values.
ASSUME ReqAssumption ==
    /\ None \notin Req
    /\ None \notin Bodies
    /\ None \notin Callers
    /\ None \notin Boxes
    /\ None \notin WrappedKeys
    /\ Malformed \notin WrappedKeys
    /\ None \notin TrailEntries
    /\ None \notin Operations \union Codes
    /\ \A e \in Envs : EnvironmentValid(e) => Bindings[e].callers \in Seq(Callers)
    /\ \A w \in Callers : w.name \in CallerNames
    /\ \A c \in Bodies : IsContext(c)
    /\ MaxInFlight \in Nat \ {0}
    /\ MaxDropped \in Nat

VARIABLE req   \* req[r]: the state of request r

Line(caller, operation, version, context, success) ==
    [caller |-> caller, op |-> operation, ver |-> version, ctx |-> context, success |-> success]

Error(code) == [code |-> code, key |-> None, wrapped |-> None, ver |-> None]

NoReply == Error(None)

New ==
    [pc     |-> "new",     \* the await it is at
     op     |-> None,      \* the route it was sent to
     env    |-> None,      \* c.env
     bearer |-> None,      \* its Authorization header
     who    |-> None,      \* the authenticated caller entry
     ctx    |-> None,      \* draft.context
     tok    |-> None,      \* the wrapped key in its body
     dek    |-> None,      \* the plaintext DEK the handler holds
     log    |-> <<>>,      \* the audit lines written for it
     resp   |-> NoReply]   \* its reply

Init == req = [r \in Req |-> New]

\* What clients can put in the body: a wrapped key some reply gave them, one of
\* those with another version written into it, one whose iv or ciphertext no
\* wrap produced, or a string of another shape.
Issued == {req[r].resp.wrapped : r \in {q \in Req : req[q].pc = "answered"}} \ {None}

Presented ==
    Issued
    \union {[t EXCEPT !.ver = v] : t \in Issued, v \in Versions}
    \union {[ver |-> v, iv |-> None, box |-> None] : v \in Versions}
    \union {Malformed}

Lines ==
    [caller : CallerNames \union {None}, op : Operations, ver : Versions \union {None},
     ctx : Bodies \union {None}, success : BOOLEAN]

Replies ==
    [code : Codes \union {None}, key : Req \union {None},
     wrapped : WrappedKeys \union {None}, ver : Versions \union {None}]

Requests ==
    [pc     : {"new", "reply", "answered", "lost"} \union Awaits,
     op     : Operations \union Unaudited \union {None},
     env    : Envs \union {None},
     bearer : Headers \union {None},
     who    : Callers \union {None},
     ctx    : Bodies \union {None},
     tok    : WrappedKeys \union {None, Malformed},
     dek    : Req \union {None},
     log    : Seq(Lines),
     resp   : Replies]

\* One type invariant: the shape of every request's state, lines and reply.
TypeOK == req \in [Req -> Requests]

-----------------------------------------------------------------------------
(***************************************************************************)
(* Ways a step ends, as functions of a request's state q.                  *)
(***************************************************************************)
Replied(q, answer) == [q EXCEPT !.pc = "reply", !.resp = answer]

Logged(q, line) == [q EXCEPT !.log = Append(@, line)]

\* The reply goes out without its line.
Succeeded_Unlogged(q, version, answer) == Replied(q, answer)

\* audited: the operation returned; its line is written, then it is answered.
Succeeded(q, version, answer) ==
    Replied(Logged(q, Line(q.who.name, q.op, version, q.ctx, TRUE)), answer)

\* audited, without the line of the catch block.
Failed_Unlogged(q, code) == Replied(q, Error(code))

\* audited: the operation threw; draft.kekVersion is not set yet on any path
\* that throws.  The error goes on to onError.
Failed(q, code) ==
    Replied(Logged(q, Line(q.who.name, q.op, None, q.ctx, FALSE)), Error(code))

-----------------------------------------------------------------------------
(***************************************************************************)
(* Arrival and authenticateRequest.                                        *)
(***************************************************************************)
CanArrive(r) ==
    /\ req[r].pc = "new"
    /\ Cardinality({q \in Req : req[q].pc \notin {"new", "answered", "lost"}}) < MaxInFlight

\* GET /v1/health, and any path or method without a route.
ServeUnaudited(r, o) ==
    /\ CanArrive(r)
    /\ req' = [req EXCEPT ![r] = Replied([@ EXCEPT !.op = o],
           [NoReply EXCEPT !.code = IF o = "health" THEN "ok" ELSE "not_found"])]

\* assertEnvironment, outside the try: a broken configuration is an internal
\* error with no audit line.
Arrive(r, o, e, h) ==
    LET arrived == [req[r] EXCEPT !.pc = "digest", !.op = o, !.env = e, !.bearer = h] IN
    /\ CanArrive(r)
    /\ req' = [req EXCEPT ![r] =
           IF EnvironmentValid(e) THEN arrived ELSE Replied(arrived, Error("internal_error"))]

CallerOf(q) == AuthenticateCaller(Bindings[q.env].callers, q.bearer)

\* authenticateCaller throws: the line names nobody.
AuthFails(r) ==
    /\ req[r].pc = "digest"
    /\ CallerOf(req[r]) = None
    /\ req' = [req EXCEPT ![r] =
           Replied(Logged(@, Line(None, @.op, None, None, FALSE)), Error("unauthorized"))]

\* crypto.subtle.digest rejects, when there is a token to digest: the same
\* line, and an internal error.
DigestFails(r) ==
    /\ req[r].pc = "digest"
    /\ ReadBearerToken(req[r].bearer) # None
    /\ req' = [req EXCEPT ![r] =
           Replied(Logged(@, Line(None, @.op, None, None, FALSE)), Error("internal_error"))]

AuthSucceeds(r) ==
    /\ req[r].pc = "digest"
    /\ CallerOf(req[r]) # None
    /\ req' = [req EXCEPT ![r].pc = "body", ![r].who = CallerOf(req[r])]

-----------------------------------------------------------------------------
(***************************************************************************)
(* readBody, then assertCallerContext, then the route's operation up to    *)
(* its first await.                                                        *)
(***************************************************************************)
BodyParses(c) == c # Malformed /\ ContextValid(c)

\* The draft takes the context before the schema is checked.
BodyRefused_DraftedFirst(r, c) ==
    /\ req[r].pc = "body"
    /\ ~ BodyParses(c)
    /\ req' = [req EXCEPT ![r] = Failed([@ EXCEPT !.ctx = c], "invalid_request")]

BodyRefused(r, c) ==
    /\ req[r].pc = "body"
    /\ ~ BodyParses(c)
    /\ req' = [req EXCEPT ![r] = Failed(@, "invalid_request")]

\* The draft's context is set first, so the failure line shows it.
OutOfScope(r, c) ==
    /\ req[r].pc = "body"
    /\ BodyParses(c)
    /\ ~ ContextSatisfies(c, req[r].who.requiredContext)
    /\ req' = [req EXCEPT ![r] = Failed([@ EXCEPT !.ctx = c], "unauthorized")]

\* assertCallerContext is not called.
InScope_Unchecked(q, c) == q.pc = "body" /\ BodyParses(c)

InScope(q, c) ==
    q.pc = "body" /\ BodyParses(c) /\ ContextSatisfies(c, q.who.requiredContext)

Generate(r, c) ==
    /\ req[r].op = "generate-data-key"
    /\ InScope(req[r], c)
    /\ req' = [req EXCEPT ![r].pc = "wrapKey", ![r].ctx = c, ![r].dek = r]

\* keks.has is not asked: keks.key throws for the versions it does not know.
UnwrapRefused_ByKey(r, c, t) ==
    /\ req[r].op \in {"decrypt", "re-wrap"}
    /\ InScope(req[r], c)
    /\ ~ TokenAccepted(req[r].env, t)
    /\ req' = [req EXCEPT ![r] = Failed([@ EXCEPT !.ctx = c, !.tok = t],
           IF t = Malformed THEN "decrypt_failed" ELSE "internal_error")]

UnwrapRefused(r, c, t) ==
    /\ req[r].op \in {"decrypt", "re-wrap"}
    /\ InScope(req[r], c)
    /\ ~ TokenAccepted(req[r].env, t)
    /\ req' = [req EXCEPT ![r] = Failed([@ EXCEPT !.ctx = c, !.tok = t], "decrypt_failed")]

Unwrap(r, c, t) ==
    /\ req[r].op \in {"decrypt", "re-wrap"}
    /\ InScope(req[r], c)
    /\ TokenAccepted(req[r].env, t)
    /\ req' = [req EXCEPT ![r].pc = "unwrapKey", ![r].ctx = c, ![r].tok = t]

-----------------------------------------------------------------------------
(***************************************************************************)
(* The awaits of unwrapDek and wrapDek.                                    *)
(***************************************************************************)
KeyArrives(r) ==
    /\ req[r].pc \in {"unwrapKey", "wrapKey"}
    /\ req' = [req EXCEPT ![r].pc = IF @ = "unwrapKey" THEN "open" ELSE "seal"]

\* The import failed.  The await is outside the try of unwrapDek, so this is no
\* decrypt_failed.
KeyFails(r) ==
    /\ req[r].pc \in {"unwrapKey", "wrapKey"}
    /\ req' = [req EXCEPT ![r] = Failed(@, "internal_error")]

Opens(q) == q.pc = "open" /\ TokenOpens(q.env, q.tok, q.ctx)

OpenFails(r) ==
    /\ req[r].pc = "open"
    /\ ~ Opens(req[r])
    /\ req' = [req EXCEPT ![r] = Failed(@, "decrypt_failed")]

\* decrypt: the DEK goes out, and the line shows the version the token names.
DecryptReturns(r) ==
    LET token == req[r].tok IN
    /\ req[r].op = "decrypt"
    /\ Opens(req[r])
    /\ req' = [req EXCEPT ![r] = Succeeded([@ EXCEPT !.dek = token.box.dek], token.ver,
           [code |-> "ok", key |-> token.box.dek, wrapped |-> None, ver |-> token.ver])]

\* The key is rotated with its wrap: re-wrap seals a new DEK.
ReWrapUnwrapped_FreshDek(r) ==
    /\ req[r].op = "re-wrap"
    /\ Opens(req[r])
    /\ req' = [req EXCEPT ![r].pc = "wrapKey", ![r].dek = r]

\* re-wrap: on to wrapDek with the DEK.
ReWrapUnwrapped(r) ==
    /\ req[r].op = "re-wrap"
    /\ Opens(req[r])
    /\ req' = [req EXCEPT ![r].pc = "wrapKey", ![r].dek = req[r].tok.box.dek]

\* generate-data-key and re-wrap: a fresh iv, the wrap, the current version in
\* line and reply; only generate-data-key replies with the DEK.
SealReturns(r) ==
    LET q == req[r]
        version == CurrentVersion(q.env)
    IN
    /\ q.pc = "seal"
    /\ req' = [req EXCEPT ![r] = Succeeded(@, version,
           [code |-> "ok",
            key |-> IF q.op = "generate-data-key" THEN q.dek ELSE None,
            wrapped |-> WrapDek(q.env, r, q.dek, q.ctx),
            ver |-> version])]

\* crypto.subtle.encrypt rejects: no decrypt_failed either, and the version of
\* the wrap is not in the line.
SealFails(r) ==
    /\ req[r].pc = "seal"
    /\ req' = [req EXCEPT ![r] = Failed(@, "internal_error")]

-----------------------------------------------------------------------------
\* The reply reaches the client.
Deliver(r) ==
    /\ req[r].pc = "reply"
    /\ req' = [req EXCEPT ![r].pc = "answered"]

\* The runtime drops the request at any await, or its reply: the isolate is
\* torn down, or the client has gone.
Vanish(r) ==
    /\ req[r].pc \in Awaits \union {"reply"}
    /\ Cardinality({q \in Req : req[q].pc = "lost"}) < MaxDropped
    /\ req' = [req EXCEPT ![r].pc = "lost"]

Receive(r) ==
    \/ \E o \in Unaudited : ServeUnaudited(r, o)
    \/ \E o \in Operations, e \in Envs, h \in Headers : Arrive(r, o, e, h)

AuthenticateRequest(r) == AuthFails(r) \/ DigestFails(r) \/ AuthSucceeds(r)

ReadBody(r) ==
    \E c \in Contexts :
        \/ BodyRefused(r, c)
        \/ OutOfScope(r, c)
        \/ Generate(r, c)
        \/ \E t \in Presented : UnwrapRefused(r, c, t) \/ Unwrap(r, c, t)

Resume(r) ==
    \/ KeyArrives(r)
    \/ KeyFails(r)
    \/ OpenFails(r)
    \/ DecryptReturns(r)
    \/ ReWrapUnwrapped(r)
    \/ SealReturns(r)
    \/ SealFails(r)

Next ==
    \E r \in Req :
        Receive(r) \/ AuthenticateRequest(r) \/ ReadBody(r) \/ Resume(r) \/ Deliver(r) \/ Vanish(r)

Spec == Init /\ [][Next]_req

-----------------------------------------------------------------------------
(***************************************************************************)
(* What clients and auditors rely on.                                      *)
(***************************************************************************)
Answered(q) == q.pc = "answered"

\* It is answered, and with a key, plain or wrapped.
GotKey(q) == Answered(q) /\ q.resp.code = "ok" /\ q.dek # None

\* An operation that got past assertEnvironment has one audit line by the time
\* it has a reply, none before, and none when it was dropped at an await; a
\* broken configuration and the unaudited routes write none (audit.ts:46-75,
\* routes.ts:43-58).  Every path that throws has to come past exactly one of
\* the two places that write the line.
AuditExactlyOnce ==
    \A r \in Req : LET q == req[r] IN
        Len(q.log) =
            IF q.op \in Operations /\ EnvironmentValid(q.env) /\ q.resp # NoReply THEN 1 ELSE 0

\* The line tells what happened: its success is the reply's, its caller is the
\* name in the token that was presented, its context is the one the key is
\* bound to, and its version names, under the request's own configuration, the
\* material the operation used: the unwrap version for decrypt, the wrap
\* version for the other two (audit.ts:13-26).
AuditTruth ==
    \A r \in Req : \A i \in DOMAIN req[r].log :
        LET q == req[r]
            line == q.log[i]
            box == IF q.op = "decrypt" THEN q.tok.box ELSE q.resp.wrapped.box
        IN  /\ line.success <=> q.resp.code = "ok"
            /\ line.caller # None => line.caller = CallerNameOfToken(q.bearer.token)
            /\ line.success => /\ box.material = KekMaterial(q.env, line.ver)
                               /\ box.aad = CanonicalizeContext(line.ctx)
                               /\ line.ver = q.resp.ver

\* No key without a trail: whoever is handed a DEK, plain or wrapped, got it in
\* a reply whose line reports the context of the one successful
\* generate-data-key line of that DEK, however many re-wraps lie between and
\* whichever requests were dropped on the way.
Traceable ==
    \A r \in Req : GotKey(req[r]) =>
        LET line == req[r].log
            origin == req[req[r].dek].log
        IN  /\ line # <<>>
            /\ origin # <<>>
            /\ origin[1].op = "generate-data-key"
            /\ origin[1].success
            /\ origin[1].ctx = line[1].ctx

\* A DEK comes back, plain or wrapped, under the context it was generated for
\* and no other, also through chains of re-wraps, relabelled tokens and versions
\* that share their material (wrap.ts:8-12, the context is the AAD).
ContextBinding ==
    \A r \in Req : GotKey(req[r]) => req[r].ctx = req[req[r].dek].ctx

\* A caller with a required context never gets hold of a DEK, plain or
\* re-wrapped, that was generated for a context outside its scope, whoever
\* generated it (auth.ts:159-167).
ScopeEnforced ==
    \A r \in Req : GotKey(req[r]) =>
        ContextSatisfies(req[req[r].dek].ctx, req[r].who.requiredContext)

\* A wrapped key that was handed out opens, to the DEK it was made for, under
\* every configuration that still binds the version of the reply to the same
\* material, whatever the current version is there: nothing stored becomes
\* unreadable before its version is removed (docs/index.md:310-311).
StaysReadable ==
    \A r \in Req : \A e \in Envs :
        LET q == req[r]
            t == q.resp.wrapped
        IN  /\ t # None
            /\ EnvironmentValid(e)
            /\ HasKek(e, q.resp.ver)
            /\ KekMaterial(e, q.resp.ver) = KekMaterial(q.env, q.resp.ver)
            => /\ TokenAccepted(e, t)
               /\ TokenOpens(e, t, q.ctx)
               /\ t.box.dek = IF q.op = "re-wrap" THEN q.tok.box.dek ELSE r

\* One verdict for every wrapped key that does not open: decrypt_failed, for a
\* malformed or tampered one, another context, and a version that is unknown
\* or retired; a version the configuration does not have never shows as an
\* internal error, which is left to WebCrypto's own failures, and a wrapped key
\* that opens is never refused as one that does not (errors.ts:1-8).
UnwrapVerdict ==
    \A r \in Req : req[r].tok # None /\ req[r].resp # NoReply =>
        LET q == req[r]
            known == TokenAccepted(q.env, q.tok)
            opens == known /\ TokenOpens(q.env, q.tok, q.ctx)
        IN  /\ q.resp.code \in {"ok", "decrypt_failed", "internal_error"}
            /\ q.resp.code = "ok" => opens
            /\ q.resp.code = "decrypt_failed" => ~ opens
            /\ q.resp.code = "internal_error" => known

(***************************************************************************)
(* The vault the worker implements: a data key is in it once its           *)
(* generate-data-key has succeeded, and the trail is read off the lines.   *)
(***************************************************************************)
Generated == {r \in Req : req[r].op = "generate-data-key" /\ req[r].resp.code = "ok"}

TrailEntry(q) ==
    IF q.log = <<>> THEN None
    ELSE LET line == q.log[1] IN
         [caller |-> line.caller, op |-> line.op, ctx |-> line.ctx,
          dek |-> IF line.success THEN q.dek ELSE None]

Vault == INSTANCE KmsVault WITH
    Callers  <- Callers,
    Contexts <- Bodies,
    bound    <- [d \in Generated |-> req[d].ctx],
    trail    <- [r \in Req |-> TrailEntry(req[r])]

\* Every step of every interleaving of handlers is one all-or-nothing operation
\* of the vault, done by one caller of the configuration within its scope on a
\* data key under its own context, or changes nothing in the vault: also when
\* replies are dropped, keys re-wrapped in chains, labels rewritten and
\* configurations mixed (routes.ts:82-133, audit.ts:42-75).
ImplementsVault == Vault!Spec

\* docs/index.md:370: "Every request with a token writes exactly one line".
EveryRequestLogged ==
    \A r \in Req : LET q == req[r] IN
        Answered(q) /\ q.op \in Operations /\ q.bearer # None => Len(q.log) = 1
=============================================================================
