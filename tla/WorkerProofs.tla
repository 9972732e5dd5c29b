---------------------------- MODULE WorkerProofs ----------------------------
(***************************************************************************)
(* What the worker keeps to, for any number of requests in flight, any     *)
(* configurations, callers, contexts and headers: the audit trail, the     *)
(* binding of data keys to their contexts, the scope of callers and the    *)
(* refinement of the vault.                                                *)
(*                                                                         *)
(* A request knows of another only what a wrapped key tells: the invariant *)
(* says of every box that is on its way that its data key was generated by *)
(* a request that has succeeded, under the context the box is sealed with; *)
(* and such a request does not change any more but for its await.          *)
(***************************************************************************)
EXTENDS Worker, ContextProofs

\* The line a request has by the time it has a reply.
LineOf(q) ==
    Line(IF q.who = None THEN None ELSE q.who.name, q.op, q.resp.ver, q.ctx, q.resp.code = "ok")

LogOK(q) ==
    q.log = IF q.op \in Operations /\ EnvironmentValid(q.env) /\ q.resp # NoReply
            THEN <<LineOf(q)>>
            ELSE <<>>

\* How r got past the checks that come before its keys are used.
Admitted(q) ==
    /\ q.who # None
    /\ q.ctx # None
    /\ ContextSatisfies(q.ctx, q.who.requiredContext)

\* r came by its data key by drawing it, or by opening the wrapped key it was sent.
ComesByDek(r, q) ==
    IF q.op = "generate-data-key"
    THEN q.tok = None /\ q.dek = r
    ELSE /\ q.tok \in WrappedKeys
         /\ TokenAccepted(q.env, q.tok)
         /\ TokenOpens(q.env, q.tok, q.ctx)
         /\ q.dek = q.tok.box.dek

\* What a request knows at each of its awaits.
AwaitOK(r, q) ==
    /\ q.pc = "new" => q = New
    /\ q.pc \in Awaits =>
           q.op \in Operations /\ q.env \in Envs /\ EnvironmentValid(q.env) /\ q.resp = NoReply
    /\ q.pc = "digest" => q.who = None
    /\ q.pc \in Awaits \ {"digest"} => q.who # None
    /\ q.pc \in {"digest", "body"} => q.ctx = None /\ q.tok = None
    /\ q.pc \in {"digest", "body", "unwrapKey", "open"} => q.dek = None
    /\ q.pc \in {"unwrapKey", "open", "wrapKey", "seal"} => Admitted(q)
    /\ q.pc \in {"unwrapKey", "open"} =>
           /\ q.op \in {"decrypt", "re-wrap"}
           /\ q.tok \in WrappedKeys
           /\ TokenAccepted(q.env, q.tok)
    /\ q.pc \in {"wrapKey", "seal"} => q.op \in {"generate-data-key", "re-wrap"} /\ ComesByDek(r, q)

\* What its reply says is true of it.
ReplyOK(r, q) ==
    /\ q.pc \in {"reply", "answered"} => q.resp # NoReply
    /\ q.resp.code = None <=> q.resp = NoReply
    /\ q.op \notin Operations => q.dek = None
    /\ q.resp.code = "ok" /\ q.op \in Operations =>
           /\ q.env \in Envs /\ EnvironmentValid(q.env)
           /\ Admitted(q)
           /\ ComesByDek(r, q)
           /\ q.resp.ver = IF q.op = "decrypt" THEN q.tok.ver ELSE CurrentVersion(q.env)
           /\ q.resp.wrapped =
                  IF q.op = "decrypt" THEN None ELSE WrapDek(q.env, r, q.dek, q.ctx)
    /\ q.resp.code # "ok" \/ q.op \notin Operations => q.resp.wrapped = None
    /\ q.who # None => q.who.name = CallerNameOfToken(q.bearer.token)

\* UnwrapVerdict, of one request.
VerdictOK(q) ==
    q.tok # None /\ q.resp # NoReply =>
        LET known == TokenAccepted(q.env, q.tok)
            opens == known /\ TokenOpens(q.env, q.tok, q.ctx)
        IN  /\ q.resp.code \in {"ok", "decrypt_failed", "internal_error"}
            /\ q.resp.code = "ok" => opens
            /\ q.resp.code = "decrypt_failed" => ~ opens
            /\ q.resp.code = "internal_error" => known

Sound(r, q) == AwaitOK(r, q) /\ ReplyOK(r, q) /\ LogOK(q) /\ VerdictOK(q)

\* q generated the data key in box, and has been granted it.
Origin(q, box) ==
    /\ q.op = "generate-data-key"
    /\ q.resp.code = "ok"
    /\ box.aad = CanonicalizeContext(q.ctx)

\* The boxes q was sent and was given.
BoxesOf(q) ==
    (IF q.tok \in WrappedKeys THEN {q.tok.box} ELSE {})
    \union (IF q.resp.wrapped # None THEN {q.resp.wrapped.box} ELSE {})

\* Every box anybody holds leads back to the request that generated its data key.
Traced == \A r \in Req : \A box \in BoxesOf(req[r]) \ {None} : Origin(req[box.dek], box)

\* The inductive invariant.
IInv == TypeOK /\ (\A r \in Req : Sound(r, req[r])) /\ Traced

-----------------------------------------------------------------------------
(***************************************************************************)
(* One step of one request.                                                *)
(***************************************************************************)
\* The boxes of a request are boxes some wrap has produced.
LEMMA BoxesAreBoxes ==
    ASSUME NEW q \in Requests
    PROVE  BoxesOf(q) \subseteq Boxes \union {None}
  BY DEF BoxesOf, Requests, Replies, WrappedKeys

\* Whoever has been granted a key changes nothing any more but its await.
Kept(k, l) ==
    k.resp.code = "ok" => l.op = k.op /\ l.ctx = k.ctx /\ l.resp = k.resp /\ l.dek = k.dek /\ l.log = k.log

\* A step that takes r to a state that is sound by itself keeps the invariant,
\* if the boxes r has got hold of are those of granted data keys.
LEMMA RequestStep ==
    ASSUME IInv, NEW r \in Req, NEW l \in Requests,
           req' = [req EXCEPT ![r] = l], Sound(r, l), Kept(req[r], l),
           \A box \in BoxesOf(l) \ {None} :
               Origin(req[box.dek], box) \/ (box.dek = r /\ Origin(l, box))
    PROVE  IInv'
  <1>1. TypeOK' /\ req'[r] = l /\ \A q \in Req \ {r} : req'[q] = req[q]
    BY DEF IInv, TypeOK
  <1>2. \A q \in Req : Sound(q, req'[q])
    BY <1>1 DEF IInv
  <1>3. ASSUME NEW q \in Req, NEW box \in BoxesOf(req'[q]) \ {None}
        PROVE  Origin(req'[box.dek], box)
    <2>1. box.dek \in Req
      <3>1. req'[q] \in Requests
        BY <1>1 DEF TypeOK
      <3>2. box \in Boxes
        BY <1>3, <3>1, BoxesAreBoxes
      <3> QED  BY <3>2 DEF Boxes
    <2>2. Origin(req[box.dek], box) \/ (box.dek = r /\ Origin(l, box))
      <3>1. CASE q = r
        <4>1. box \in BoxesOf(l) \ {None}
          BY <1>1, <1>3, <3>1
        <4> QED  BY <4>1
      <3>2. CASE q # r
        <4>1. box \in BoxesOf(req[q]) \ {None}
          BY <1>1, <1>3, <3>2
        <4> QED  BY <4>1 DEF IInv, Traced
      <3> QED  BY <3>1, <3>2
    <2>3. Origin(req[r], box) => Origin(l, box)
      BY DEF Origin, Kept
    <2> QED  BY <1>1, <2>1, <2>2, <2>3
  <1>4. Traced'
    BY <1>3 DEF Traced
  <1> QED  BY <1>1, <1>2, <1>4 DEF IInv

\* The same for a step that gets hold of no other boxes.
LEMMA RequestStepNoBox ==
    ASSUME IInv, NEW r \in Req, NEW l \in Requests,
           req' = [req EXCEPT ![r] = l], Sound(r, l), Kept(req[r], l),
           BoxesOf(l) \subseteq BoxesOf(req[r]) \union {None}
    PROVE  IInv'
  <1>1. \A box \in BoxesOf(l) \ {None} : Origin(req[box.dek], box)
    <2> SUFFICES ASSUME NEW box \in BoxesOf(l) \ {None}
                 PROVE  Origin(req[box.dek], box)
      OBVIOUS
    <2>1. box \in BoxesOf(req[r]) \ {None}
      OBVIOUS
    <2> QED  BY <2>1 DEF IInv, Traced
  <1> QED  BY <1>1, RequestStep

\* What a request is before it has a reply.
LEMMA RequestFacts ==
    ASSUME IInv, NEW r \in Req
    PROVE  /\ req[r] \in Requests /\ Sound(r, req[r])
           /\ req[r].pc \in Awaits \union {"new"} => req[r].resp = NoReply /\ req[r].log = <<>>
  <1>1. req[r] \in Requests /\ Sound(r, req[r])
    BY DEF IInv, TypeOK
  <1>2. req[r].pc = "new" => req[r].resp = NoReply /\ req[r].log = <<>>
    BY <1>1 DEF Sound, AwaitOK, New
  <1>3. req[r].pc \in Awaits => req[r].resp = NoReply /\ req[r].log = <<>>
    BY <1>1 DEF Sound, AwaitOK, LogOK
  <1> QED  BY <1>1, <1>2, <1>3

\* A request's fields may be set one by one.
LEMMA FieldsSet ==
    ASSUME NEW q \in Requests
    PROVE  /\ \A v \in {"new", "reply", "answered", "lost"} \union Awaits : [q EXCEPT !.pc = v] \in Requests
           /\ \A v \in Operations \union Unaudited : [q EXCEPT !.op = v] \in Requests
           /\ \A v \in Envs : [q EXCEPT !.env = v] \in Requests
           /\ \A v \in Headers : [q EXCEPT !.bearer = v] \in Requests
           /\ \A v \in Callers : [q EXCEPT !.who = v] \in Requests
           /\ \A v \in Bodies : [q EXCEPT !.ctx = v] \in Requests
           /\ \A v \in WrappedKeys \union {Malformed} : [q EXCEPT !.tok = v] \in Requests
           /\ \A v \in Req : [q EXCEPT !.dek = v] \in Requests
           /\ \A v \in Seq(Lines) : [q EXCEPT !.log = v] \in Requests
           /\ \A v \in Replies : [q EXCEPT !.resp = v] \in Requests
  BY SMTT(20) DEF Requests

\* Once a reply is set and, with it, the one line of the request.
LEMMA RepliedSet ==
    ASSUME NEW q \in Requests, NEW answer \in Replies, NEW l, l = Replied(q, answer)
    PROVE  /\ l \in Requests
           /\ l.pc = "reply" /\ l.resp = answer
           /\ l.op = q.op /\ l.env = q.env /\ l.bearer = q.bearer /\ l.who = q.who
           /\ l.ctx = q.ctx /\ l.tok = q.tok /\ l.dek = q.dek /\ l.log = q.log
  <1> DEFINE l1 == [q EXCEPT !.pc = "reply"]
             l2 == [l1 EXCEPT !.resp = answer]
  <1>1. l1 \in Requests
    BY FieldsSet
  <1>2. l = l2
    BY DEF Replied
  <1>3. l2 \in Requests
    <2> HIDE DEF l1
    <2> QED  BY <1>1, FieldsSet
  <1> QED  BY <1>2, <1>3 DEF Requests

\* A line of the audit trail is added to a request that has none.
LEMMA LoggedSet ==
    ASSUME NEW q \in Requests, NEW line \in Lines, q.log = <<>>, NEW l, l = Logged(q, line)
    PROVE  /\ l \in Requests
           /\ l.log = <<line>>
           /\ l.pc = q.pc /\ l.op = q.op /\ l.env = q.env /\ l.bearer = q.bearer /\ l.who = q.who
           /\ l.ctx = q.ctx /\ l.tok = q.tok /\ l.dek = q.dek /\ l.resp = q.resp
  <1>1. Append(q.log, line) = <<line>> /\ <<line>> \in Seq(Lines)
    OBVIOUS
  <1>2. l = [q EXCEPT !.log = <<line>>]
    BY <1>1 DEF Logged
  <1>3. l \in Requests
    BY <1>1, <1>2, FieldsSet, ZenonT(30)
  <1> HIDE DEF Logged
  <1> QED  BY <1>2, <1>3 DEF Requests

\* Error replies and lines are of their kinds.
LEMMA ErrorIsReply ==
    ASSUME NEW code \in Codes
    PROVE  /\ Error(code) \in Replies /\ Error(code) # NoReply
           /\ Error(code).code = code /\ Error(code).wrapped = None /\ Error(code).ver = None
  BY ReqAssumption DEF Error, NoReply, Replies

\* A request that fails in its operation.
LEMMA FailedSet ==
    ASSUME NEW q \in Requests, q.op \in Operations, q.log = <<>>, q.who # None,
           NEW code \in Codes, NEW l, l = Failed(q, code)
    PROVE  /\ l \in Requests
           /\ l.pc = "reply" /\ l.resp = Error(code)
           /\ l.log = <<Line(q.who.name, q.op, None, q.ctx, FALSE)>>
           /\ l.op = q.op /\ l.env = q.env /\ l.bearer = q.bearer /\ l.who = q.who
           /\ l.ctx = q.ctx /\ l.tok = q.tok /\ l.dek = q.dek
  <1> DEFINE line == Line(q.who.name, q.op, None, q.ctx, FALSE)
             m == Logged(q, line)
  <1>1. line \in Lines
    BY ReqAssumption DEF Line, Lines, Requests
  <1>2. Error(code) \in Replies
    BY ErrorIsReply
  <1>3. l = Replied(m, Error(code))
    BY DEF Failed
  <1> HIDE DEF line
  <1>4. /\ m \in Requests
        /\ m.log = <<line>>
        /\ m.op = q.op /\ m.env = q.env /\ m.bearer = q.bearer /\ m.who = q.who
        /\ m.ctx = q.ctx /\ m.tok = q.tok /\ m.dek = q.dek
    BY <1>1, LoggedSet
  <1> HIDE DEF m
  <1>5. /\ l \in Requests
        /\ l.pc = "reply" /\ l.resp = Error(code)
        /\ l.op = m.op /\ l.env = m.env /\ l.bearer = m.bearer /\ l.who = m.who
        /\ l.ctx = m.ctx /\ l.tok = m.tok /\ l.dek = m.dek /\ l.log = m.log
    BY <1>2, <1>3, <1>4, RepliedSet
  <1> QED  BY <1>4, <1>5 DEF line

\* It is sound if the code is the right one for the wrapped key it was sent.
LEMMA FailedIsSound ==
    ASSUME NEW r \in Req, NEW q \in Requests, NEW code \in Codes \ {"ok"}, NEW l, l = Failed(q, code),
           q.op \in Operations, EnvironmentValid(q.env), q.log = <<>>,
           q.who # None, q.who.name = CallerNameOfToken(q.bearer.token),
           q.tok # None =>
               \/ /\ code = "decrypt_failed"
                  /\ ~ (TokenAccepted(q.env, q.tok) /\ TokenOpens(q.env, q.tok, q.ctx))
               \/ /\ code = "internal_error"
                  /\ TokenAccepted(q.env, q.tok)
    PROVE  l \in Requests /\ Sound(r, l) /\ BoxesOf(l) \subseteq BoxesOf(q)
  <1>1. /\ l \in Requests
        /\ l.pc = "reply" /\ l.resp = Error(code)
        /\ l.log = <<Line(q.who.name, q.op, None, q.ctx, FALSE)>>
        /\ l.op = q.op /\ l.env = q.env /\ l.bearer = q.bearer /\ l.who = q.who
        /\ l.ctx = q.ctx /\ l.tok = q.tok /\ l.dek = q.dek
    <2>1. q \in Requests /\ code \in Codes /\ l = Failed(q, code) /\ q.op \in Operations
             /\ q.log = <<>> /\ q.who # None
      OBVIOUS
    <2> QED  BY <2>1, FailedSet, ZenonT(30)
  <1>2. /\ l.resp # NoReply
        /\ l.resp.code = code /\ l.resp.wrapped = None /\ l.resp.ver = None
    BY <1>1, ErrorIsReply
  <1>3. AwaitOK(r, l)
    BY <1>1 DEF AwaitOK, Awaits
  <1>4. ReplyOK(r, l)
    BY <1>1, <1>2, ReqAssumption DEF ReplyOK
  <1>5. LogOK(l)
    BY <1>1, <1>2 DEF LogOK, LineOf
  <1>6. VerdictOK(l)
    BY <1>1, <1>2 DEF VerdictOK
  <1>7. BoxesOf(l) \subseteq BoxesOf(q)
    BY <1>1, <1>2 DEF BoxesOf
  <1> QED  BY <1>1, <1>3, <1>4, <1>5, <1>6, <1>7 DEF Sound

-----------------------------------------------------------------------------
(***************************************************************************)
(* Arrival and authentication.                                             *)
(***************************************************************************)
\* What the unaudited routes answer.
LEMMA ServeUnauditedStep ==
    ASSUME IInv, NEW r \in Req, NEW o \in Unaudited, ServeUnaudited(r, o)
    PROVE  IInv'
  <1> DEFINE q == req[r]
             q1 == [q EXCEPT !.op = o]
             answer == [NoReply EXCEPT !.code = IF o = "health" THEN "ok" ELSE "not_found"]
             l == Replied(q1, answer)
  <1>1. q \in Requests /\ q = New /\ q.pc = "new"
    BY RequestFacts DEF ServeUnaudited, CanArrive, Sound, AwaitOK
  <1>2. req' = [req EXCEPT ![r] = l]
    BY DEF ServeUnaudited
  <1>3. q1 \in Requests
    BY <1>1, FieldsSet
  <1>4. /\ answer \in Replies /\ answer # NoReply /\ answer.code # None
        /\ answer.wrapped = None
    BY ReqAssumption DEF NoReply, Error, Replies, Codes
  <1>5. /\ q1.op = o /\ q1.who = None /\ q1.ctx = None /\ q1.tok = None /\ q1.dek = None
        /\ q1.log = <<>>
    BY <1>1 DEF New
  <1> HIDE DEF q1, answer, l
  <1>6. /\ l \in Requests
        /\ l.pc = "reply" /\ l.resp = answer
        /\ l.op = o /\ l.who = None /\ l.ctx = None /\ l.tok = None /\ l.dek = None
        /\ l.log = <<>>
    BY <1>3, <1>4, <1>5, RepliedSet DEF l
  <1>7. o \notin Operations
    BY DEF Unaudited, Operations
  <1>8. Sound(r, l)
    <2>1. AwaitOK(r, l)
      BY <1>6 DEF AwaitOK, Awaits
    <2>2. ReplyOK(r, l)
      BY <1>4, <1>6, <1>7 DEF ReplyOK
    <2>3. LogOK(l) /\ VerdictOK(l)
      BY <1>6, <1>7 DEF LogOK, VerdictOK
    <2> QED  BY <2>1, <2>2, <2>3 DEF Sound
  <1>9. BoxesOf(l) \subseteq BoxesOf(q) /\ Kept(q, l)
    <2>1. None \notin WrappedKeys /\ "ok" # None
      BY ReqAssumption DEF Codes
    <2>2. q.resp = NoReply /\ NoReply.code = None
      BY <1>1 DEF New, NoReply, Error
    <2>3. BoxesOf(l) = {}
      BY <1>4, <1>6, <2>1 DEF BoxesOf
    <2> QED  BY <2>1, <2>2, <2>3 DEF Kept
  <1> QED  BY <1>2, <1>6, <1>8, <1>9, RequestStepNoBox

\* assertEnvironment lets a request in, or answers it.
LEMMA ArriveStep ==
    ASSUME IInv, NEW r \in Req, NEW o \in Operations, NEW e \in Envs, NEW h \in Headers,
           Arrive(r, o, e, h)
    PROVE  IInv'
  <1> DEFINE q == req[r]
             q1 == [q EXCEPT !.pc = "digest"]
             q2 == [q1 EXCEPT !.op = o]
             q3 == [q2 EXCEPT !.env = e]
             a == [q3 EXCEPT !.bearer = h]
             l == IF EnvironmentValid(e) THEN a ELSE Replied(a, Error("internal_error"))
  <1>1. q \in Requests /\ q = New /\ q.pc = "new"
    BY RequestFacts DEF Arrive, CanArrive, Sound, AwaitOK
  <1>2. req' = [req EXCEPT ![r] = l]
    BY DEF Arrive
  <1>3. /\ a.pc = "digest" /\ a.op = o /\ a.env = e /\ a.who = None /\ a.ctx = None
        /\ a.tok = None /\ a.dek = None /\ a.log = <<>> /\ a.resp = NoReply
    BY <1>1 DEF New
  <1>4. a \in Requests
    <2> HIDE DEF q1, q2, q3, a
    <2>1. q1 \in Requests
      BY <1>1, FieldsSet DEF q1, Awaits
    <2>2. q2 \in Requests
      BY <2>1, FieldsSet DEF q2
    <2>3. q3 \in Requests
      BY <2>2, FieldsSet DEF q3
    <2> QED  BY <2>3, FieldsSet DEF a
  <1> HIDE DEF a
  <1>5. NoReply.code = None /\ NoReply.wrapped = None /\ None \notin WrappedKeys
           /\ "ok" # None /\ "internal_error" \in Codes
    BY ReqAssumption DEF NoReply, Error, Codes
  <1>6. BoxesOf(q) = {} /\ q.resp = NoReply
    BY <1>1, <1>5 DEF BoxesOf, New
  <1>7. CASE EnvironmentValid(e)
    <2>1. l = a
      BY <1>7
    <2>2. AwaitOK(r, a)
      BY <1>3, <1>7 DEF AwaitOK, Awaits
    <2>3. ReplyOK(r, a)
      BY <1>3, <1>5 DEF ReplyOK
    <2>4. LogOK(a) /\ VerdictOK(a)
      BY <1>3 DEF LogOK, VerdictOK
    <2>5. BoxesOf(a) = {}
      BY <1>3, <1>5 DEF BoxesOf
    <2>6. Kept(q, a)
      BY <1>5, <1>6 DEF Kept
    <2> QED  BY <1>2, <1>4, <2>1, <2>2, <2>3, <2>4, <2>5, <2>6, RequestStepNoBox DEF Sound
  <1>8. CASE ~ EnvironmentValid(e)
    <2> DEFINE m == Replied(a, Error("internal_error"))
    <2>1. l = m
      BY <1>8
    <2>2. /\ Error("internal_error") \in Replies /\ Error("internal_error") # NoReply
          /\ Error("internal_error").code = "internal_error"
          /\ Error("internal_error").wrapped = None
      BY <1>5, ErrorIsReply
    <2> HIDE DEF m
    <2>3. /\ m \in Requests
          /\ m.pc = "reply" /\ m.resp = Error("internal_error")
          /\ m.op = o /\ m.env = e /\ m.who = None /\ m.ctx = None
          /\ m.tok = None /\ m.dek = None /\ m.log = <<>>
      BY <1>3, <1>4, <2>2, RepliedSet DEF m
    <2>4. AwaitOK(r, m)
      BY <2>3 DEF AwaitOK, Awaits
    <2>5. ReplyOK(r, m)
      BY <1>5, <2>2, <2>3, ReqAssumption DEF ReplyOK, Codes
    <2>6. LogOK(m) /\ VerdictOK(m)
      BY <1>8, <2>3 DEF LogOK, VerdictOK
    <2>7. BoxesOf(m) = {} /\ Kept(q, m)
      BY <1>5, <1>6, <2>2, <2>3, SMTT(30) DEF BoxesOf, Kept
    <2> QED  BY <1>2, <2>1, <2>3, <2>4, <2>5, <2>6, <2>7, RequestStepNoBox DEF Sound
  <1> QED  BY <1>7, <1>8

\* The caller found for a header is one of the configuration, with the name that
\* is in its token.
LEMMA CallerFound ==
    ASSUME NEW e \in Envs, EnvironmentValid(e), NEW h,
           AuthenticateCaller(Bindings[e].callers, h) # None
    PROVE  LET who == AuthenticateCaller(Bindings[e].callers, h) IN
           who \in Callers /\ who.name = CallerNameOfToken(h.token)
  <1> DEFINE callers == Bindings[e].callers
             token == ReadBearerToken(h)
             matches == {i \in DOMAIN callers : callers[i].tokenHash = Sha256Hex(token)}
             matched == CHOOSE i \in matches : \A j \in matches : j <= i
  <1>1. /\ token # None /\ matches # {}
        /\ CallerNameOfToken(token) = callers[matched].name
        /\ AuthenticateCaller(callers, h) = callers[matched]
    BY ZenonT(40) DEF AuthenticateCaller
  <1>2. token = h.token
    BY <1>1, ZenonT(30) DEF ReadBearerToken
  <1>3. matched \in DOMAIN callers
    <2>1. \E i \in matches : \A j \in matches : j <= i
      <3>1. PICK i \in matches : TRUE
        BY <1>1
      <3>2. \A j \in matches : j = i
        BY <3>1 DEF EnvironmentValid, CallersValid
      <3>3. i \in Nat
        BY <3>1, ReqAssumption
      <3> QED  BY <3>1, <3>2, <3>3
    <2> QED  BY <2>1
  <1>4. callers[matched] \in Callers
    <2>1. callers \in Seq(Callers)
      BY ReqAssumption
    <2> HIDE DEF matched, callers
    <2> QED  BY <1>3, <2>1
  <1> QED  BY <1>1, <1>2, <1>4, ZenonT(40)

\* A request that is refused before anybody is known for it: one line, and the
\* code, whichever it is.
LEMMA NobodyStep ==
    ASSUME IInv, NEW r \in Req, NEW code \in Codes \ {"ok"},
           req[r].pc = "digest",
           req' = [req EXCEPT ![r] =
               Replied(Logged(req[r], Line(None, req[r].op, None, None, FALSE)), Error(code))]
    PROVE  IInv'
  <1> DEFINE q == req[r]
             line == Line(None, q.op, None, None, FALSE)
             m == Logged(q, line)
             l == Replied(m, Error(code))
  <1>1. /\ q \in Requests /\ q.pc = "digest" /\ q.op \in Operations /\ EnvironmentValid(q.env)
        /\ q.resp = NoReply /\ q.log = <<>>
        /\ q.who = None /\ q.ctx = None /\ q.tok = None /\ q.dek = None
    BY RequestFacts DEF Sound, AwaitOK, Awaits
  <1>2. req' = [req EXCEPT ![r] = l]
    OBVIOUS
  <1>3. line \in Lines
    BY <1>1 DEF Line, Lines
  <1> HIDE DEF line
  <1>4. /\ m \in Requests
        /\ m.log = <<line>>
        /\ m.op = q.op /\ m.env = q.env /\ m.who = q.who
        /\ m.ctx = q.ctx /\ m.tok = q.tok /\ m.dek = q.dek
    BY <1>1, <1>3, LoggedSet
  <1>5. /\ Error(code) \in Replies /\ Error(code) # NoReply
        /\ Error(code).code = code /\ code # "ok"
        /\ Error(code).wrapped = None /\ Error(code).ver = None
    BY ErrorIsReply DEF Codes
  <1> HIDE DEF m, l, q
  <1>6. /\ l \in Requests
        /\ l.pc = "reply" /\ l.resp = Error(code)
        /\ l.op = m.op /\ l.env = m.env /\ l.who = m.who
        /\ l.ctx = m.ctx /\ l.tok = m.tok /\ l.dek = m.dek /\ l.log = m.log
    BY <1>4, <1>5, RepliedSet DEF l
  <1>7. AwaitOK(r, l)
    BY <1>6 DEF AwaitOK, Awaits
  <1>8. ReplyOK(r, l)
    BY <1>1, <1>4, <1>5, <1>6, ReqAssumption DEF ReplyOK, Codes
  <1>9. LogOK(l) /\ VerdictOK(l)
    BY <1>1, <1>4, <1>5, <1>6 DEF LogOK, VerdictOK, LineOf, line
  <1>10. BoxesOf(l) = {} /\ Kept(q, l)
    BY <1>1, <1>4, <1>5, <1>6, ReqAssumption DEF BoxesOf, Kept, NoReply, Error, Codes
  <1> QED  BY <1>2, <1>6, <1>7, <1>8, <1>9, <1>10, RequestStepNoBox DEF Sound, q

\* A bearer that no caller has, or one that cannot be digested.
LEMMA AuthFailsStep ==
    ASSUME IInv, NEW r \in Req, AuthFails(r) \/ DigestFails(r)
    PROVE  IInv'
  <1> DEFINE Refused(code) ==
                 Replied(Logged(req[r], Line(None, req[r].op, None, None, FALSE)), Error(code))
  <1>1. PICK code \in Codes \ {"ok"} : req[r].pc = "digest" /\ req' = [req EXCEPT ![r] = Refused(code)]
    <2>1. {"unauthorized", "internal_error"} \subseteq Codes \ {"ok"}
      BY DEF Codes
    <2>2. CASE AuthFails(r)
      <3>1. req[r].pc = "digest" /\ req' = [req EXCEPT ![r] = Refused("unauthorized")]
        BY <2>2 DEF AuthFails
      <3> QED  BY <2>1, <3>1
    <2>3. CASE DigestFails(r)
      <3>1. req[r].pc = "digest" /\ req' = [req EXCEPT ![r] = Refused("internal_error")]
        BY <2>3 DEF DigestFails
      <3> QED  BY <2>1, <3>1
    <2> QED  BY <2>2, <2>3
  <1> QED  BY <1>1, NobodyStep

\* The caller a bearer belongs to is the one that goes on.
LEMMA AuthSucceedsStep ==
    ASSUME IInv, NEW r \in Req, AuthSucceeds(r)
    PROVE  IInv'
  <1> DEFINE q == req[r]
             who == CallerOf(q)
             q1 == [q EXCEPT !.pc = "body"]
             l == [q1 EXCEPT !.who = who]
  <1>1. /\ q \in Requests /\ q.pc = "digest" /\ q.op \in Operations
        /\ q.env \in Envs /\ EnvironmentValid(q.env)
        /\ q.resp = NoReply /\ q.log = <<>>
        /\ q.who = None /\ q.ctx = None /\ q.tok = None /\ q.dek = None
        /\ ReplyOK(r, q)
    BY RequestFacts DEF AuthSucceeds, Sound, AwaitOK, Awaits
  <1>2. req' = [req EXCEPT ![r] = l]
    BY DEF AuthSucceeds, IInv, TypeOK
  <1>3. who # None /\ who \in Callers /\ who.name = CallerNameOfToken(q.bearer.token)
    BY <1>1, CallerFound DEF AuthSucceeds, CallerOf
  <1> HIDE DEF who
  <1>4. l \in Requests
    <2>1. q1 \in Requests
      BY <1>1, FieldsSet DEF Awaits
    <2> HIDE DEF q1
    <2> QED  BY <1>3, <2>1, FieldsSet
  <1>5. /\ l.pc = "body" /\ l.who = who /\ l.bearer = q.bearer
        /\ l.op = q.op /\ l.env = q.env /\ l.resp = q.resp /\ l.log = q.log
        /\ l.ctx = q.ctx /\ l.tok = q.tok /\ l.dek = q.dek
    BY <1>1 DEF Requests
  <1> HIDE DEF l, q
  <1>6. AwaitOK(r, l)
    BY <1>1, <1>3, <1>5 DEF AwaitOK, Awaits
  <1>7. ReplyOK(r, l)
    BY <1>1, <1>3, <1>5, ReqAssumption DEF ReplyOK, NoReply, Error, Codes
  <1>8. LogOK(l) /\ VerdictOK(l)
    BY <1>1, <1>5 DEF LogOK, VerdictOK
  <1>9. BoxesOf(l) = {} /\ Kept(q, l)
    BY <1>1, <1>5, ReqAssumption DEF BoxesOf, Kept, NoReply, Error, Codes
  <1> QED  BY <1>2, <1>4, <1>6, <1>7, <1>8, <1>9, RequestStepNoBox DEF Sound, q

-----------------------------------------------------------------------------
(***************************************************************************)
(* The body.                                                               *)
(***************************************************************************)
\* What a request knows when its body arrives.
LEMMA AtBody ==
    ASSUME IInv, NEW r \in Req, req[r].pc = "body"
    PROVE  LET q == req[r] IN
           /\ q \in Requests /\ q.op \in Operations
           /\ q.env \in Envs /\ EnvironmentValid(q.env)
           /\ q.resp = NoReply /\ q.log = <<>> /\ BoxesOf(q) = {}
           /\ q.who # None /\ q.who.name = CallerNameOfToken(q.bearer.token)
           /\ q.ctx = None /\ q.tok = None /\ q.dek = None
  <1> DEFINE q == req[r]
  <1>1. /\ q \in Requests /\ Sound(r, q) /\ q.log = <<>> /\ q.pc = "body"
    BY RequestFacts DEF Awaits
  <1> HIDE DEF q
  <1>2. /\ q.op \in Operations
        /\ q.env \in Envs /\ EnvironmentValid(q.env)
        /\ q.resp = NoReply
        /\ q.who # None /\ q.who.name = CallerNameOfToken(q.bearer.token)
        /\ q.ctx = None /\ q.tok = None /\ q.dek = None
    BY <1>1 DEF Sound, AwaitOK, ReplyOK, Awaits
  <1>3. BoxesOf(q) = {}
    BY <1>2, ReqAssumption DEF BoxesOf, NoReply, Error
  <1> QED  BY <1>1, <1>2, <1>3 DEF q

\* A request that has no reply has been granted nothing that it has to keep.
LEMMA NothingKept ==
    ASSUME NEW k, NEW l, k.resp = NoReply
    PROVE  Kept(k, l)
  BY ReqAssumption DEF Kept, NoReply, Error, Codes

\* What clients present are wrapped keys with the boxes of granted data keys.
LEMMA PresentedTraced ==
    ASSUME IInv, NEW t \in Presented
    PROVE  /\ t \in WrappedKeys \union {Malformed}
           /\ t \in WrappedKeys /\ t.box # None => Origin(req[t.box.dek], t.box)
  <1>1. ASSUME NEW u \in Issued
        PROVE  u \in WrappedKeys /\ (u.box # None => Origin(req[u.box.dek], u.box))
    <2>1. PICK q \in Req : u = req[q].resp.wrapped /\ u # None
      BY DEF Issued
    <2>2. u \in WrappedKeys
      BY <2>1, RequestFacts DEF Requests, Replies
    <2>3. u.box \in BoxesOf(req[q])
      BY <2>1 DEF BoxesOf
    <2> QED  BY <2>2, <2>3 DEF IInv, Traced
  <1>2. CASE t \in Issued
    BY <1>1, <1>2
  <1>3. CASE \E u \in Issued, v \in Versions : t = [u EXCEPT !.ver = v]
    <2>1. PICK u \in Issued, v \in Versions : t = [u EXCEPT !.ver = v]
      BY <1>3
    <2>2. u \in WrappedKeys /\ (u.box # None => Origin(req[u.box.dek], u.box))
      BY <1>1
    <2>3. t \in WrappedKeys /\ t.box = u.box
      BY <2>1, <2>2 DEF WrappedKeys
    <2> QED  BY <2>2, <2>3
  <1>4. CASE \E v \in Versions : t = [ver |-> v, iv |-> None, box |-> None]
    BY <1>4 DEF WrappedKeys
  <1>5. CASE t = Malformed
    BY <1>5, ReqAssumption
  <1> QED  BY <1>2, <1>3, <1>4, <1>5 DEF Presented

\* A body that does not validate leaves no context behind.
LEMMA BodyRefusedStep ==
    ASSUME IInv, NEW r \in Req, NEW c \in Contexts, BodyRefused(r, c)
    PROVE  IInv'
  <1> DEFINE q == req[r]
             l == Failed(q, "invalid_request")
  <1>1. /\ q \in Requests /\ q.op \in Operations
        /\ EnvironmentValid(q.env) /\ q.resp = NoReply /\ q.log = <<>>
        /\ q.who # None /\ q.who.name = CallerNameOfToken(q.bearer.token)
        /\ q.tok = None
    BY AtBody DEF BodyRefused
  <1>2. req' = [req EXCEPT ![r] = l]
    BY DEF BodyRefused
  <1>3. "invalid_request" \in Codes \ {"ok"}
    BY DEF Codes
  <1> HIDE DEF q, l
  <1>4. l \in Requests /\ Sound(r, l) /\ BoxesOf(l) \subseteq BoxesOf(q)
    BY <1>1, <1>3, FailedIsSound DEF l
  <1>5. Kept(q, l)
    BY <1>1, NothingKept
  <1> QED  BY <1>2, <1>4, <1>5, RequestStepNoBox DEF q

\* A caller outside its scope is told so, and audited with the context.
LEMMA OutOfScopeStep ==
    ASSUME IInv, NEW r \in Req, NEW c \in Contexts, OutOfScope(r, c)
    PROVE  IInv'
  <1> DEFINE q == req[r]
             q1 == [q EXCEPT !.ctx = c]
             l == Failed(q1, "unauthorized")
  <1>1. /\ q \in Requests /\ q.op \in Operations
        /\ EnvironmentValid(q.env) /\ q.resp = NoReply /\ q.log = <<>>
        /\ q.who # None /\ q.who.name = CallerNameOfToken(q.bearer.token)
        /\ q.tok = None
    BY AtBody DEF OutOfScope
  <1>2. req' = [req EXCEPT ![r] = l] /\ c \in Bodies
    BY DEF OutOfScope, BodyParses, Bodies
  <1>3. "unauthorized" \in Codes \ {"ok"}
    BY DEF Codes
  <1>4. q1 \in Requests
    BY <1>1, <1>2, FieldsSet
  <1>5. /\ q1.op = q.op /\ q1.env = q.env /\ q1.resp = q.resp /\ q1.log = q.log
        /\ q1.who = q.who /\ q1.bearer = q.bearer /\ q1.tok = q.tok
    BY <1>1 DEF Requests
  <1>6. BoxesOf(q1) = BoxesOf(q)
    BY <1>5 DEF BoxesOf
  <1> HIDE DEF q, q1, l
  <1>7. l \in Requests /\ Sound(r, l) /\ BoxesOf(l) \subseteq BoxesOf(q1)
    BY <1>1, <1>3, <1>4, <1>5, FailedIsSound DEF l
  <1>8. Kept(q, l)
    BY <1>1, NothingKept
  <1> QED  BY <1>2, <1>6, <1>7, <1>8, RequestStepNoBox DEF q

\* A body that is in scope sets the context and the wrapped key.
Sent(q, c, t) == [q EXCEPT !.ctx = c, !.tok = t]

\* What is set by a body in scope, and what is not.
LEMMA BodySet ==
    ASSUME NEW q \in Requests, NEW c \in Bodies, NEW t \in WrappedKeys \union {Malformed}, NEW m,
           m = Sent(q, c, t)
    PROVE  /\ m \in Requests
           /\ m.ctx = c /\ m.tok = t
           /\ m.pc = q.pc /\ m.op = q.op /\ m.env = q.env /\ m.bearer = q.bearer /\ m.who = q.who
           /\ m.dek = q.dek /\ m.log = q.log /\ m.resp = q.resp
  <1> DEFINE q1 == [q EXCEPT !.ctx = c]
  <1>1. m = [q1 EXCEPT !.tok = t]
    BY DEF Sent
  <1>2. q1 \in Requests
    BY FieldsSet
  <1>3. m \in Requests
    <2> HIDE DEF q1
    <2> QED  BY <1>1, <1>2, FieldsSet
  <1> QED  BY <1>3 DEF Requests, Sent

\* A data key is generated for the context of the request.
LEMMA GenerateStep ==
    ASSUME IInv, NEW r \in Req, NEW c \in Contexts, Generate(r, c)
    PROVE  IInv'
  <1> DEFINE q == req[r]
             q1 == [q EXCEPT !.pc = "wrapKey"]
             q2 == [q1 EXCEPT !.ctx = c]
             l == [q2 EXCEPT !.dek = r]
  <1>1. /\ q \in Requests /\ q.op = "generate-data-key" /\ q.op \in Operations
        /\ q.env \in Envs /\ EnvironmentValid(q.env)
        /\ q.resp = NoReply /\ q.log = <<>> /\ BoxesOf(q) = {}
        /\ q.who # None /\ q.who.name = CallerNameOfToken(q.bearer.token)
        /\ q.tok = None
    BY AtBody DEF Generate, InScope
  <1>2. c \in Bodies /\ c # None /\ ContextSatisfies(c, q.who.requiredContext)
    BY ReqAssumption DEF Generate, InScope, BodyParses, Bodies
  <1>3. req' = [req EXCEPT ![r] = l]
    BY DEF Generate, IInv, TypeOK
  <1>4. l \in Requests
    <2>1. q1 \in Requests
      BY <1>1, FieldsSet DEF Awaits
    <2> HIDE DEF q1
    <2>2. q2 \in Requests
      BY <1>2, <2>1, FieldsSet
    <2> HIDE DEF q2
    <2> QED  BY <2>2, FieldsSet
  <1>5. /\ l.pc = "wrapKey" /\ l.ctx = c /\ l.dek = r
        /\ l.op = q.op /\ l.env = q.env /\ l.bearer = q.bearer /\ l.who = q.who
        /\ l.tok = q.tok /\ l.log = q.log /\ l.resp = q.resp
    BY <1>1 DEF Requests
  <1> HIDE DEF q, l
  <1>6. AwaitOK(r, l)
    BY <1>1, <1>2, <1>5 DEF AwaitOK, Awaits, Admitted, ComesByDek
  <1>7. ReplyOK(r, l)
    BY <1>1, <1>5, ReqAssumption DEF ReplyOK, NoReply, Error, Codes
  <1>8. LogOK(l) /\ VerdictOK(l)
    BY <1>1, <1>5 DEF LogOK, VerdictOK
  <1>9. BoxesOf(l) = BoxesOf(q) /\ Kept(q, l)
    BY <1>1, <1>5, NothingKept DEF BoxesOf
  <1> QED  BY <1>3, <1>4, <1>6, <1>7, <1>8, <1>9, RequestStepNoBox DEF Sound, q

\* A text that is no wrapped key, or names a version that is not there.
LEMMA UnwrapRefusedStep ==
    ASSUME IInv, NEW r \in Req, NEW c \in Contexts, NEW t \in Presented, UnwrapRefused(r, c, t)
    PROVE  IInv'
  <1> DEFINE q == req[r]
             m == Sent(q, c, t)
             l == Failed(m, "decrypt_failed")
  <1>1. /\ q \in Requests /\ q.op \in Operations
        /\ EnvironmentValid(q.env) /\ q.resp = NoReply /\ q.log = <<>>
        /\ q.who # None /\ q.who.name = CallerNameOfToken(q.bearer.token)
    BY AtBody DEF UnwrapRefused, InScope
  <1>2. c \in Bodies /\ ~ TokenAccepted(q.env, t) /\ req' = [req EXCEPT ![r] = l]
    BY DEF UnwrapRefused, InScope, BodyParses, Bodies, Sent
  <1>3. /\ t \in WrappedKeys \union {Malformed}
        /\ t \in WrappedKeys /\ t.box # None => Origin(req[t.box.dek], t.box)
    BY PresentedTraced
  <1> HIDE DEF q
  <1>4. /\ m \in Requests
        /\ m.ctx = c /\ m.tok = t
        /\ m.op = q.op /\ m.env = q.env /\ m.bearer = q.bearer /\ m.who = q.who
        /\ m.log = q.log /\ m.resp = q.resp
    BY <1>1, <1>2, <1>3, BodySet
  <1>5. "decrypt_failed" \in Codes \ {"ok"}
    BY DEF Codes
  <1> HIDE DEF m, l
  <1>6. l \in Requests /\ Sound(r, l) /\ BoxesOf(l) \subseteq BoxesOf(m)
    BY <1>1, <1>2, <1>4, <1>5, FailedIsSound DEF l
  <1>7. Kept(q, l)
    BY <1>1, NothingKept
  <1>8. \A box \in BoxesOf(l) \ {None} : Origin(req[box.dek], box)
    <2>1. m.resp.wrapped = None
      BY <1>1, <1>4 DEF NoReply, Error
    <2> QED  BY <1>3, <1>4, <1>6, <2>1 DEF BoxesOf
  <1> QED  BY <1>2, <1>6, <1>7, <1>8, RequestStep DEF q

\* A wrapped key of a version that is there waits for its KEK.
LEMMA UnwrapStep ==
    ASSUME IInv, NEW r \in Req, NEW c \in Contexts, NEW t \in Presented, Unwrap(r, c, t)
    PROVE  IInv'
  <1> DEFINE q == req[r]
             m == Sent(q, c, t)
             l == [m EXCEPT !.pc = "unwrapKey"]
  <1>1. /\ q \in Requests /\ q.op \in {"decrypt", "re-wrap"} /\ q.op \in Operations
        /\ q.env \in Envs /\ EnvironmentValid(q.env) /\ q.resp = NoReply /\ q.log = <<>>
        /\ q.who # None /\ q.who.name = CallerNameOfToken(q.bearer.token)
        /\ q.dek = None
    BY AtBody DEF Unwrap, InScope
  <1>2. /\ c \in Bodies /\ c # None /\ ContextSatisfies(c, q.who.requiredContext)
        /\ TokenAccepted(q.env, t)
    BY ReqAssumption DEF Unwrap, InScope, BodyParses, Bodies
  <1>3. /\ t \in WrappedKeys \union {Malformed}
        /\ t \in WrappedKeys /\ t.box # None => Origin(req[t.box.dek], t.box)
    BY PresentedTraced
  <1>4. t \in WrappedKeys
    BY <1>2, <1>3 DEF TokenAccepted
  <1>5. req' = [req EXCEPT ![r] = l]
    BY DEF Unwrap, IInv, TypeOK, Sent
  <1> HIDE DEF q
  <1>6. /\ m \in Requests
        /\ m.ctx = c /\ m.tok = t
        /\ m.op = q.op /\ m.env = q.env /\ m.bearer = q.bearer /\ m.who = q.who
        /\ m.dek = q.dek /\ m.log = q.log /\ m.resp = q.resp
    BY <1>1, <1>2, <1>3, BodySet
  <1> HIDE DEF m
  <1>7. /\ l \in Requests
        /\ l.pc = "unwrapKey" /\ l.ctx = c /\ l.tok = t
        /\ l.op = q.op /\ l.env = q.env /\ l.bearer = q.bearer /\ l.who = q.who
        /\ l.dek = q.dek /\ l.log = q.log /\ l.resp = q.resp
    <2>1. l \in Requests
      BY <1>6, FieldsSet DEF Awaits
    <2> QED  BY <1>6, <2>1 DEF Requests
  <1> HIDE DEF l
  <1>8. AwaitOK(r, l)
    BY <1>1, <1>2, <1>4, <1>7 DEF AwaitOK, Awaits, Admitted
  <1>9. ReplyOK(r, l)
    BY <1>1, <1>7, ReqAssumption DEF ReplyOK, NoReply, Error, Codes
  <1>10. LogOK(l) /\ VerdictOK(l)
    BY <1>1, <1>7 DEF LogOK, VerdictOK
  <1>11. Kept(q, l)
    BY <1>1, NothingKept
  <1>12. \A box \in BoxesOf(l) \ {None} : Origin(req[box.dek], box)
    <2>1. l.resp.wrapped = None
      BY <1>1, <1>7 DEF NoReply, Error
    <2> QED  BY <1>3, <1>4, <1>7, <2>1 DEF BoxesOf
  <1> QED  BY <1>5, <1>7, <1>8, <1>9, <1>10, <1>11, <1>12, RequestStep DEF Sound, q

-----------------------------------------------------------------------------
(***************************************************************************)
(* The awaits of unwrapDek and wrapDek.                                    *)
(***************************************************************************)
\* What a request knows at them.
LEMMA AtKey ==
    ASSUME IInv, NEW r \in Req, req[r].pc \in {"unwrapKey", "open", "wrapKey", "seal"}
    PROVE  LET q == req[r] IN
           /\ q \in Requests /\ q.op \in Operations
           /\ q.env \in Envs /\ EnvironmentValid(q.env)
           /\ q.resp = NoReply /\ q.log = <<>>
           /\ q.who # None /\ q.who.name = CallerNameOfToken(q.bearer.token)
           /\ q.ctx \in Bodies /\ Admitted(q) /\ AwaitOK(r, q)
  <1> DEFINE q == req[r]
  <1>1. /\ q \in Requests /\ Sound(r, q) /\ q.log = <<>>
        /\ q.pc \in {"unwrapKey", "open", "wrapKey", "seal"}
    BY RequestFacts DEF Awaits
  <1> HIDE DEF q
  <1>2. /\ q.op \in Operations
        /\ q.env \in Envs /\ EnvironmentValid(q.env)
        /\ q.resp = NoReply
        /\ q.who # None /\ q.who.name = CallerNameOfToken(q.bearer.token)
        /\ Admitted(q) /\ AwaitOK(r, q)
    BY <1>1 DEF Sound, AwaitOK, ReplyOK, Awaits
  <1>3. q.ctx \in Bodies
    BY <1>1, <1>2 DEF Admitted, Requests
  <1> QED  BY <1>1, <1>2, <1>3 DEF q

\* The KEK arrives: the request goes on to open or to seal.
LEMMA KeyArrivesStep ==
    ASSUME IInv, NEW r \in Req, KeyArrives(r)
    PROVE  IInv'
  <1> DEFINE q == req[r]
             next == IF q.pc = "unwrapKey" THEN "open" ELSE "seal"
             l == [q EXCEPT !.pc = next]
  <1>1. /\ q \in Requests /\ q.op \in Operations
        /\ q.env \in Envs /\ EnvironmentValid(q.env)
        /\ q.resp = NoReply /\ q.log = <<>>
        /\ q.who # None /\ q.who.name = CallerNameOfToken(q.bearer.token)
        /\ q.ctx \in Bodies /\ Admitted(q) /\ AwaitOK(r, q)
    BY AtKey DEF KeyArrives
  <1>2. req' = [req EXCEPT ![r] = l] /\ q.pc \in {"unwrapKey", "wrapKey"}
    BY DEF KeyArrives, IInv, TypeOK
  <1>3. /\ (next = "open" /\ q.pc = "unwrapKey") \/ (next = "seal" /\ q.pc = "wrapKey")
        /\ next \in Awaits
    BY <1>2 DEF Awaits
  <1> HIDE DEF q, next
  <1>4. l \in Requests
    BY <1>1, <1>3, FieldsSet
  <1>5. /\ l.pc = next
        /\ l.op = q.op /\ l.env = q.env /\ l.bearer = q.bearer /\ l.who = q.who /\ l.ctx = q.ctx
        /\ l.tok = q.tok /\ l.dek = q.dek /\ l.log = q.log /\ l.resp = q.resp
    BY <1>1 DEF Requests
  <1> HIDE DEF l
  <1>6. AwaitOK(r, l)
    BY <1>1, <1>3, <1>5 DEF AwaitOK, Awaits, Admitted, ComesByDek
  <1>7. ReplyOK(r, l)
    BY <1>1, <1>3, <1>5, ReqAssumption DEF ReplyOK, NoReply, Error, Codes
  <1>8. LogOK(l) /\ VerdictOK(l)
    BY <1>1, <1>5 DEF LogOK, VerdictOK
  <1>9. BoxesOf(l) = BoxesOf(q) /\ Kept(q, l)
    BY <1>1, <1>5, NothingKept DEF BoxesOf
  <1> QED  BY <1>2, <1>4, <1>6, <1>7, <1>8, <1>9, RequestStepNoBox DEF Sound, q

\* The KEK does not arrive, or AES-GCM does not seal: the request fails as an
\* internal error.
LEMMA KeyFailsStep ==
    ASSUME IInv, NEW r \in Req, KeyFails(r) \/ SealFails(r)
    PROVE  IInv'
  <1> DEFINE q == req[r]
             l == Failed(q, "internal_error")
  <1>1. /\ q \in Requests /\ q.op \in Operations /\ EnvironmentValid(q.env)
        /\ q.resp = NoReply /\ q.log = <<>>
        /\ q.who # None /\ q.who.name = CallerNameOfToken(q.bearer.token)
        /\ AwaitOK(r, q)
    BY AtKey DEF KeyFails, SealFails
  <1>2. req' = [req EXCEPT ![r] = l] /\ q.pc \in {"unwrapKey", "wrapKey", "seal"}
    BY DEF KeyFails, SealFails
  <1>3. "internal_error" \in Codes \ {"ok"}
    BY DEF Codes
  <1> HIDE DEF q
  <1>4. q.tok # None => TokenAccepted(q.env, q.tok)
    BY <1>1, <1>2 DEF AwaitOK, ComesByDek
  <1> HIDE DEF l
  <1>5. l \in Requests /\ Sound(r, l) /\ BoxesOf(l) \subseteq BoxesOf(q)
    BY <1>1, <1>3, <1>4, FailedIsSound DEF l
  <1>6. Kept(q, l)
    BY <1>1, NothingKept
  <1> QED  BY <1>2, <1>5, <1>6, RequestStepNoBox DEF q

\* AES-GCM refuses: another KEK, another context, or not what was sealed.
LEMMA OpenFailsStep ==
    ASSUME IInv, NEW r \in Req, OpenFails(r)
    PROVE  IInv'
  <1> DEFINE q == req[r]
             l == Failed(q, "decrypt_failed")
  <1>1. /\ q \in Requests /\ q.op \in Operations /\ EnvironmentValid(q.env)
        /\ q.resp = NoReply /\ q.log = <<>>
        /\ q.who # None /\ q.who.name = CallerNameOfToken(q.bearer.token)
    BY AtKey DEF OpenFails
  <1>2. req' = [req EXCEPT ![r] = l] /\ ~ TokenOpens(q.env, q.tok, q.ctx)
    BY DEF OpenFails, Opens
  <1>3. "decrypt_failed" \in Codes \ {"ok"}
    BY DEF Codes
  <1> HIDE DEF q, l
  <1>4. l \in Requests /\ Sound(r, l) /\ BoxesOf(l) \subseteq BoxesOf(q)
    BY <1>1, <1>2, <1>3, FailedIsSound DEF l
  <1>5. Kept(q, l)
    BY <1>1, NothingKept
  <1> QED  BY <1>2, <1>4, <1>5, RequestStepNoBox DEF q

\* The reply of a request that has what it asked for.
Granted(q, key, wrapped, version) ==
    Succeeded(q, version, [code |-> "ok", key |-> key, wrapped |-> wrapped, ver |-> version])

\* It is sound if it is admitted and came by its data key as it should.
LEMMA GrantedIsSound ==
    ASSUME NEW r \in Req, NEW q \in Requests, NEW version \in Versions, NEW key \in Req \union {None},
           NEW wrapped \in WrappedKeys \union {None}, NEW l, l = Granted(q, key, wrapped, version),
           q.op \in Operations, q.env \in Envs, EnvironmentValid(q.env), q.log = <<>>,
           q.who.name = CallerNameOfToken(q.bearer.token),
           Admitted(q), ComesByDek(r, q),
           version = IF q.op = "decrypt" THEN q.tok.ver ELSE CurrentVersion(q.env),
           wrapped = IF q.op = "decrypt" THEN None ELSE WrapDek(q.env, r, q.dek, q.ctx)
    PROVE  /\ l \in Requests /\ Sound(r, l)
           /\ l.resp.code = "ok" /\ l.resp.wrapped = wrapped
           /\ l.op = q.op /\ l.ctx = q.ctx /\ l.tok = q.tok /\ l.dek = q.dek
  <1> DEFINE answer == [code |-> "ok", key |-> key, wrapped |-> wrapped, ver |-> version]
             line == Line(q.who.name, q.op, version, q.ctx, TRUE)
             m == Logged(q, line)
  <1>1. /\ q.who # None /\ q.who \in Callers /\ q.who.name \in CallerNames
        /\ q.ctx \in Bodies \union {None}
    BY ReqAssumption DEF Admitted, Requests
  <1>2. line \in Lines
    BY <1>1 DEF Line, Lines
  <1>3. /\ answer \in Replies /\ answer # NoReply
        /\ answer.code = "ok" /\ answer.wrapped = wrapped /\ answer.ver = version
    BY ReqAssumption DEF Replies, NoReply, Error, Codes
  <1>4. l = Replied(m, answer)
    BY DEF Granted, Succeeded
  <1> HIDE DEF line, answer
  <1>5. /\ m \in Requests
        /\ m.log = <<line>>
        /\ m.op = q.op /\ m.env = q.env /\ m.bearer = q.bearer /\ m.who = q.who
        /\ m.ctx = q.ctx /\ m.tok = q.tok /\ m.dek = q.dek
    BY <1>2, LoggedSet
  <1> HIDE DEF m
  <1>6. /\ l \in Requests
        /\ l.pc = "reply" /\ l.resp = answer
        /\ l.op = m.op /\ l.env = m.env /\ l.bearer = m.bearer /\ l.who = m.who
        /\ l.ctx = m.ctx /\ l.tok = m.tok /\ l.dek = m.dek /\ l.log = m.log
    BY <1>3, <1>4, <1>5, RepliedSet
  <1>7. AwaitOK(r, l)
    BY <1>6 DEF AwaitOK, Awaits
  <1>8. Admitted(l) /\ ComesByDek(r, l)
    BY <1>5, <1>6, SMTT(20) DEF Admitted, ComesByDek
  <1>9. ReplyOK(r, l)
    <2>1. l.resp # NoReply /\ l.resp.code = "ok" /\ "ok" # None
      BY <1>3, <1>6, ReqAssumption DEF Codes
    <2>2. /\ l.op \in Operations /\ l.env \in Envs /\ EnvironmentValid(l.env)
          /\ l.who.name = CallerNameOfToken(l.bearer.token)
      BY <1>5, <1>6
    <2>3. /\ l.resp.ver = IF l.op = "decrypt" THEN l.tok.ver ELSE CurrentVersion(l.env)
          /\ l.resp.wrapped = IF l.op = "decrypt" THEN None ELSE WrapDek(l.env, r, l.dek, l.ctx)
      BY <1>3, <1>5, <1>6
    <2> QED  BY <1>8, <2>1, <2>2, <2>3 DEF ReplyOK
  <1>10. LogOK(l)
    BY <1>1, <1>3, <1>5, <1>6 DEF LogOK, LineOf, line
  <1>11. VerdictOK(l)
    BY <1>3, <1>6, <1>8 DEF VerdictOK, ComesByDek
  <1> QED  BY <1>3, <1>5, <1>6, <1>7, <1>9, <1>10, <1>11 DEF Sound

\* What is opened with the wrapped key of a request is its own.
LEMMA OpenedDek ==
    ASSUME IInv, NEW r \in Req, Opens(req[r])
    PROVE  LET q == req[r] IN
           /\ q.op \in {"decrypt", "re-wrap"}
           /\ q.tok \in WrappedKeys /\ q.tok.box \in Boxes /\ q.tok.box # None
           /\ TokenAccepted(q.env, q.tok) /\ TokenOpens(q.env, q.tok, q.ctx)
  <1> DEFINE q == req[r]
  <1>1. q.pc = "open" /\ TokenOpens(q.env, q.tok, q.ctx) /\ AwaitOK(r, q)
    BY AtKey DEF Opens
  <1> HIDE DEF q
  <1>2. q.op \in {"decrypt", "re-wrap"} /\ q.tok \in WrappedKeys /\ TokenAccepted(q.env, q.tok)
    BY <1>1 DEF AwaitOK
  <1>3. q.tok.box # None
    BY <1>1 DEF TokenOpens, OpensBox
  <1> QED  BY <1>1, <1>2, <1>3 DEF WrappedKeys, q

\* The data key of a box that opened is the one that was sealed in it.
LEMMA DecryptReturnsStep ==
    ASSUME IInv, NEW r \in Req, DecryptReturns(r)
    PROVE  IInv'
  <1> DEFINE q == req[r]
             d == q.tok.box.dek
             version == q.tok.ver
             m == [q EXCEPT !.dek = d]
             l == Granted(m, d, None, version)
  <1>1. /\ q \in Requests /\ q.op \in Operations
        /\ q.env \in Envs /\ EnvironmentValid(q.env)
        /\ q.resp = NoReply /\ q.log = <<>>
        /\ q.who.name = CallerNameOfToken(q.bearer.token)
        /\ Admitted(q)
    BY AtKey DEF DecryptReturns, Opens
  <1>2. /\ q.tok \in WrappedKeys /\ q.tok.box \in Boxes /\ q.tok.box # None
        /\ TokenAccepted(q.env, q.tok) /\ TokenOpens(q.env, q.tok, q.ctx)
    BY OpenedDek DEF DecryptReturns
  <1>3. q.op = "decrypt" /\ req' = [req EXCEPT ![r] = l]
    BY DEF DecryptReturns, Granted
  <1>4. d \in Req /\ version \in Versions
    BY <1>2 DEF Boxes, WrappedKeys
  <1> HIDE DEF q, d, version
  <1>5. /\ m \in Requests /\ m.dek = d
        /\ m.op = q.op /\ m.env = q.env /\ m.bearer = q.bearer /\ m.who = q.who /\ m.ctx = q.ctx
        /\ m.tok = q.tok /\ m.log = q.log
    <2>1. m \in Requests
      BY <1>1, <1>4, FieldsSet
    <2> QED  BY <1>1, <2>1 DEF Requests
  <1> HIDE DEF m
  <1>6. Admitted(m) /\ ComesByDek(r, m)
    BY <1>1, <1>2, <1>3, <1>5 DEF Admitted, ComesByDek, d
  <1>7. version = IF m.op = "decrypt" THEN m.tok.ver ELSE CurrentVersion(m.env)
    BY <1>3, <1>5 DEF version
  <1>8. None = IF m.op = "decrypt" THEN None ELSE WrapDek(m.env, r, m.dek, m.ctx)
    BY <1>3, <1>5
  <1>9. /\ l \in Requests /\ Sound(r, l)
        /\ l.resp.wrapped = None /\ l.tok = m.tok
    <2>1. /\ m.op \in Operations /\ m.env \in Envs /\ EnvironmentValid(m.env) /\ m.log = <<>>
          /\ m.who.name = CallerNameOfToken(m.bearer.token)
          /\ d \in Req \union {None} /\ None \in WrappedKeys \union {None}
      BY <1>1, <1>4, <1>5
    <2> QED  BY <1>4, <1>5, <1>6, <1>7, <1>8, <2>1, GrantedIsSound
  <1> HIDE DEF l
  <1>10. BoxesOf(l) \subseteq BoxesOf(q)
    BY <1>5, <1>9 DEF BoxesOf
  <1> QED  BY <1>1, <1>3, <1>9, <1>10, NothingKept, RequestStepNoBox DEF q

\* A re-wrap goes on with the data key and the context it opened with.
LEMMA ReWrapUnwrappedStep ==
    ASSUME IInv, NEW r \in Req, ReWrapUnwrapped(r)
    PROVE  IInv'
  <1> DEFINE q == req[r]
             d == q.tok.box.dek
             q1 == [q EXCEPT !.pc = "wrapKey"]
             l == [q1 EXCEPT !.dek = d]
  <1>1. /\ q \in Requests /\ q.op \in Operations
        /\ q.env \in Envs /\ EnvironmentValid(q.env)
        /\ q.resp = NoReply /\ q.log = <<>>
        /\ q.who # None /\ q.who.name = CallerNameOfToken(q.bearer.token)
        /\ Admitted(q)
    BY AtKey DEF ReWrapUnwrapped, Opens
  <1>2. /\ q.tok \in WrappedKeys /\ q.tok.box \in Boxes
        /\ TokenAccepted(q.env, q.tok) /\ TokenOpens(q.env, q.tok, q.ctx)
    BY OpenedDek DEF ReWrapUnwrapped
  <1>3. q.op = "re-wrap" /\ req' = [req EXCEPT ![r] = l]
    BY DEF ReWrapUnwrapped, IInv, TypeOK
  <1>4. d \in Req
    BY <1>2 DEF Boxes
  <1> HIDE DEF q, d
  <1>5. l \in Requests
    <2>1. q1 \in Requests
      BY <1>1, FieldsSet DEF Awaits
    <2> HIDE DEF q1
    <2> QED  BY <1>4, <2>1, FieldsSet
  <1>6. /\ l.pc = "wrapKey" /\ l.dek = d
        /\ l.op = q.op /\ l.env = q.env /\ l.bearer = q.bearer /\ l.who = q.who /\ l.ctx = q.ctx
        /\ l.tok = q.tok /\ l.log = q.log /\ l.resp = q.resp
    BY <1>1 DEF Requests
  <1> HIDE DEF l
  <1>7. Admitted(l) /\ ComesByDek(r, l)
    BY <1>1, <1>2, <1>3, <1>6 DEF Admitted, ComesByDek, d
  <1>8. AwaitOK(r, l)
    BY <1>1, <1>3, <1>6, <1>7 DEF AwaitOK, Awaits
  <1>9. ReplyOK(r, l)
    BY <1>1, <1>6, ReqAssumption DEF ReplyOK, NoReply, Error, Codes
  <1>10. LogOK(l) /\ VerdictOK(l)
    BY <1>1, <1>6 DEF LogOK, VerdictOK
  <1>11. BoxesOf(l) = BoxesOf(q) /\ Kept(q, l)
    BY <1>1, <1>6, NothingKept DEF BoxesOf
  <1> QED  BY <1>3, <1>5, <1>8, <1>9, <1>10, <1>11, RequestStepNoBox DEF Sound, q

\* A wrap under a valid configuration is a wrapped key of its current version,
\* and opens under it.
LEMMA WrapIsWrapped ==
    ASSUME NEW e \in Envs, EnvironmentValid(e), NEW r \in Req, NEW d \in Req, NEW c \in Bodies
    PROVE  LET w == WrapDek(e, r, d, c)
               v == CurrentVersion(e)
           IN  /\ w \in WrappedKeys /\ w.box \in Boxes /\ v \in Versions /\ HasKek(e, v)
               /\ w.ver = v /\ w.iv = r
               /\ w.box.material = KekMaterial(e, v) /\ w.box.iv = r
               /\ w.box.aad = CanonicalizeContext(c) /\ w.box.dek = d
  <1> DEFINE v == CurrentVersion(e)
             box == Sealed(KekMaterial(e, v), r, CanonicalizeContext(c), d)
             w == WrapDek(e, r, d, c)
  <1>1. v \in Versions /\ HasKek(e, v)
    BY BindingsAssumption DEF EnvironmentValid, KekRegistryValid, HasKek, KekVersions, CurrentVersion
  <1>2. KekMaterial(e, v) \in Materials
    BY <1>1, BindingsAssumption DEF EnvironmentValid, KekRegistryValid, HasKek, KekVersions, KekMaterial
  <1>3. w = [ver |-> v, iv |-> r, box |-> box]
    BY DEF WrapDek
  <1>4. /\ box \in Boxes
        /\ box.material = KekMaterial(e, v) /\ box.iv = r
        /\ box.aad = CanonicalizeContext(c) /\ box.dek = d
    BY <1>2 DEF Boxes, Sealed
  <1> HIDE DEF v, box, w
  <1> QED  BY <1>1, <1>3, <1>4 DEF WrappedKeys, v, w

\* A box is sealed: it is of the data key and the context of the request.
LEMMA SealReturnsStep ==
    ASSUME IInv, NEW r \in Req, SealReturns(r)
    PROVE  IInv'
  <1> DEFINE q == req[r]
             version == CurrentVersion(q.env)
             key == IF q.op = "generate-data-key" THEN q.dek ELSE None
             wrapped == WrapDek(q.env, r, q.dek, q.ctx)
             l == Granted(q, key, wrapped, version)
  <1>1. /\ q \in Requests /\ q.op \in Operations
        /\ q.env \in Envs /\ EnvironmentValid(q.env)
        /\ q.resp = NoReply /\ q.log = <<>>
        /\ q.who.name = CallerNameOfToken(q.bearer.token)
        /\ q.ctx \in Bodies /\ Admitted(q) /\ AwaitOK(r, q)
    BY AtKey DEF SealReturns
  <1>2. q.pc = "seal" /\ req' = [req EXCEPT ![r] = l]
    BY DEF SealReturns, Granted
  <1> HIDE DEF q
  <1>3. q.op \in {"generate-data-key", "re-wrap"} /\ ComesByDek(r, q)
    BY <1>1, <1>2 DEF AwaitOK
  <1>4. /\ q.dek \in Req
        /\ q.op = "re-wrap" => q.tok.box # None /\ q.tok.box.aad = CanonicalizeContext(q.ctx)
    BY <1>3 DEF ComesByDek, TokenOpens, OpensBox, WrappedKeys, Boxes
  <1>5. /\ wrapped \in WrappedKeys /\ version \in Versions
        /\ wrapped.box.aad = CanonicalizeContext(q.ctx) /\ wrapped.box.dek = q.dek
    BY <1>1, <1>4, WrapIsWrapped
  <1>6. key \in Req \union {None}
    BY <1>4
  <1>7. /\ version = IF q.op = "decrypt" THEN q.tok.ver ELSE CurrentVersion(q.env)
        /\ wrapped = IF q.op = "decrypt" THEN None ELSE WrapDek(q.env, r, q.dek, q.ctx)
    BY <1>3
  <1> HIDE DEF key, wrapped, version
  <1>8. /\ l \in Requests /\ Sound(r, l)
        /\ l.resp.code = "ok" /\ l.resp.wrapped = wrapped
        /\ l.op = q.op /\ l.ctx = q.ctx /\ l.tok = q.tok /\ l.dek = q.dek
    <2>1. wrapped \in WrappedKeys \union {None}
      BY <1>5
    <2> QED  BY <1>1, <1>3, <1>5, <1>6, <1>7, <2>1, GrantedIsSound
  <1> HIDE DEF l
  <1>9. Kept(q, l)
    BY <1>1, NothingKept
  <1>10. ASSUME NEW box \in BoxesOf(l) \ {None}
         PROVE  Origin(req[box.dek], box) \/ (box.dek = r /\ Origin(l, box))
    <2>1. ASSUME q.tok \in WrappedKeys, q.tok.box # None
          PROVE  Origin(req[q.tok.box.dek], q.tok.box)
      BY <2>1 DEF IInv, Traced, BoxesOf, q
    <2>2. CASE q.tok \in WrappedKeys /\ box = q.tok.box
      BY <2>1, <2>2
    <2>3. CASE box = wrapped.box
      <3>1. CASE q.op = "generate-data-key"
        BY <1>3, <1>5, <1>8, <2>3, <3>1 DEF ComesByDek, Origin
      <3>2. CASE q.op = "re-wrap"
        <4>1. Origin(req[q.dek], q.tok.box)
          BY <1>3, <1>4, <2>1, <3>2 DEF ComesByDek
        <4> QED  BY <1>4, <1>5, <2>3, <3>2, <4>1 DEF Origin
      <3> QED  BY <1>3, <3>1, <3>2
    <2> QED  BY <1>8, <2>2, <2>3 DEF BoxesOf
  <1> QED  BY <1>2, <1>8, <1>9, <1>10, RequestStep DEF q

-----------------------------------------------------------------------------
\* A reply arrives, or a request is dropped: nothing but its await changes.
LEMMA PcStep ==
    ASSUME IInv, NEW r \in Req, Deliver(r) \/ Vanish(r)
    PROVE  IInv'
  <1> DEFINE q == req[r]
  <1>1. q \in Requests /\ Sound(r, q)
    BY RequestFacts
  <1>2. PICK v \in {"answered", "lost"} :
            req' = [req EXCEPT ![r] = [q EXCEPT !.pc = v]] /\ (v = "answered" => q.pc = "reply")
    BY DEF Deliver, Vanish, IInv, TypeOK
  <1> DEFINE l == [q EXCEPT !.pc = v]
  <1> HIDE DEF q
  <1>3. l \in Requests
    BY <1>1, FieldsSet
  <1>4. /\ l.pc = v
        /\ l.op = q.op /\ l.env = q.env /\ l.bearer = q.bearer /\ l.who = q.who /\ l.ctx = q.ctx
        /\ l.tok = q.tok /\ l.dek = q.dek /\ l.log = q.log /\ l.resp = q.resp
    BY <1>1 DEF Requests
  <1>5. req' = [req EXCEPT ![r] = l]
    BY <1>2
  <1> HIDE DEF l
  <1>6. AwaitOK(r, l)
    BY <1>4 DEF AwaitOK, Awaits
  <1>7. ReplyOK(r, l)
    BY <1>1, <1>2, <1>4 DEF Sound, ReplyOK, Admitted, ComesByDek
  <1>8. LogOK(l) /\ VerdictOK(l)
    BY <1>1, <1>4 DEF Sound, LogOK, LineOf, VerdictOK
  <1>9. BoxesOf(l) = BoxesOf(q) /\ Kept(q, l)
    BY <1>4 DEF BoxesOf, Kept
  <1> QED  BY <1>3, <1>5, <1>6, <1>7, <1>8, <1>9, RequestStepNoBox DEF Sound, q

-----------------------------------------------------------------------------
\* No request has a data key, a line or a reply at first.
LEMMA InitIInv == Init => IInv
  <1> SUFFICES ASSUME Init
               PROVE  IInv
    OBVIOUS
  <1>1. New \in Requests
    <2>1. NoReply \in Replies
      BY DEF NoReply, Error, Replies
    <2>2. <<>> \in Seq(Lines)
      OBVIOUS
    <2> QED  BY <2>1, <2>2 DEF New, Requests
  <1>2. /\ New.pc = "new" /\ New.op = None /\ New.who = None /\ New.tok = None /\ New.dek = None
        /\ New.log = <<>> /\ New.resp = NoReply
        /\ NoReply.code = None /\ NoReply.wrapped = None
        /\ None \notin Operations /\ None \notin WrappedKeys /\ None # "ok"
    BY ReqAssumption DEF New, NoReply, Error, Codes
  <1>3. ASSUME NEW r \in Req
        PROVE  Sound(r, New)
    BY <1>2 DEF Sound, AwaitOK, Awaits, ReplyOK, LogOK, VerdictOK
  <1>4. BoxesOf(New) = {}
    BY <1>2 DEF BoxesOf
  <1>5. TypeOK /\ \A r \in Req : req[r] = New
    BY <1>1 DEF Init, TypeOK
  <1> QED  BY <1>3, <1>4, <1>5 DEF IInv, Traced

\* Every step of every request keeps the invariant.
LEMMA NextIInv == IInv /\ [Next]_req => IInv'
  <1> SUFFICES ASSUME IInv, [Next]_req
               PROVE  IInv'
    OBVIOUS
  <1>1. ASSUME NEW r \in Req, Receive(r)
        PROVE  IInv'
    BY <1>1, ServeUnauditedStep, ArriveStep DEF Receive
  <1>2. ASSUME NEW r \in Req, AuthenticateRequest(r)
        PROVE  IInv'
    BY <1>2, AuthFailsStep, AuthSucceedsStep DEF AuthenticateRequest
  <1>3. ASSUME NEW r \in Req, ReadBody(r)
        PROVE  IInv'
    BY <1>3, BodyRefusedStep, OutOfScopeStep, GenerateStep, UnwrapRefusedStep, UnwrapStep DEF ReadBody
  <1>4. ASSUME NEW r \in Req, Resume(r)
        PROVE  IInv'
    BY <1>4, KeyArrivesStep, KeyFailsStep, OpenFailsStep, DecryptReturnsStep, ReWrapUnwrappedStep,
       SealReturnsStep DEF Resume
  <1>5. ASSUME NEW r \in Req, Deliver(r) \/ Vanish(r)
        PROVE  IInv'
    BY <1>5, PcStep
  <1>6. ASSUME UNCHANGED req
        PROVE  IInv'
    BY <1>6 DEF IInv, TypeOK, Traced
  <1> QED  BY <1>1, <1>2, <1>3, <1>4, <1>5, <1>6 DEF Next

\* The invariant holds of every behaviour.
LEMMA Invariance == Spec => []IInv
  BY InitIInv, NextIInv, PTL DEF Spec

\* Whoever has been granted a data key shares its context with the request that
\* generated it, and that request has been granted it: the box of the key tells
\* its additional data, and those the context.
LEMMA GrantedOrigin ==
    ASSUME IInv, NEW r \in Req, req[r].resp.code = "ok", req[r].op \in Operations
    PROVE  LET q == req[r]
               o == req[q.dek]
           IN  /\ q.dek \in Req /\ Admitted(q)
               /\ o.op = "generate-data-key" /\ o.resp.code = "ok" /\ o.ctx = q.ctx
               /\ o.ctx \in Bodies /\ EnvironmentValid(o.env)
  <1> DEFINE q == req[r]
             o == req[q.dek]
  <1>1. q \in Requests /\ ReplyOK(r, q)
    BY RequestFacts DEF Sound
  <1>2. Admitted(q) /\ ComesByDek(r, q) /\ EnvironmentValid(q.env)
    BY <1>1 DEF ReplyOK
  <1>3. CASE q.op = "generate-data-key"
    BY <1>1, <1>2, <1>3 DEF ComesByDek, Admitted, Requests
  <1>4. CASE q.op # "generate-data-key"
    <2>1. /\ q.tok \in WrappedKeys /\ TokenOpens(q.env, q.tok, q.ctx)
          /\ q.dek = q.tok.box.dek
      BY <1>2, <1>4 DEF ComesByDek
    <2>2. q.tok.box \in Boxes /\ q.tok.box # None
      BY <2>1 DEF TokenOpens, OpensBox, WrappedKeys
    <2>3. q.dek \in Req /\ q.tok.box.aad = CanonicalizeContext(q.ctx)
      BY <2>1, <2>2 DEF TokenOpens, OpensBox, Boxes
    <2>4. q.tok.box \in BoxesOf(q) \ {None}
      BY <2>1, <2>2 DEF BoxesOf
    <2>5. Origin(o, q.tok.box)
      BY <2>1, <2>4 DEF IInv, Traced
    <2>6. o \in Requests /\ ReplyOK(q.dek, o)
      BY <2>3, RequestFacts DEF Sound
    <2> HIDE DEF o
    <2>7. /\ o.op = "generate-data-key" /\ o.resp.code = "ok"
          /\ CanonicalizeContext(o.ctx) = CanonicalizeContext(q.ctx)
      BY <2>3, <2>5 DEF Origin
    <2>8. Admitted(o) /\ EnvironmentValid(o.env)
      BY <2>6, <2>7 DEF ReplyOK, Operations
    <2>9. o.ctx \in Bodies /\ q.ctx \in Bodies
      BY <1>1, <1>2, <2>6, <2>8 DEF Admitted, Requests
    <2>10. o.ctx = q.ctx
      BY <2>7, <2>9, ReqAssumption, CanonicalFormsDiffer
    <2> QED  BY <1>2, <2>3, <2>7, <2>8, <2>9, <2>10 DEF o
  <1> QED  BY <1>3, <1>4

\* A request that got a key has been granted one.
LEMMA GotKeyGranted ==
    ASSUME IInv, NEW r \in Req, GotKey(req[r])
    PROVE  req[r].resp.code = "ok" /\ req[r].op \in Operations
  <1>1. ReplyOK(r, req[r])
    BY RequestFacts DEF Sound
  <1> QED  BY <1>1 DEF GotKey, ReplyOK

\* A granted request has the one line that says so.
LEMMA GrantedLine ==
    ASSUME IInv, NEW r \in Req, req[r].resp.code = "ok", req[r].op \in Operations
    PROVE  LET q == req[r] IN q.log = <<Line(q.who.name, q.op, q.resp.ver, q.ctx, TRUE)>>
  <1> DEFINE q == req[r]
  <1>1. ReplyOK(r, q) /\ LogOK(q)
    BY RequestFacts DEF Sound
  <1>2. q.resp # NoReply
    BY ReqAssumption DEF NoReply, Error, Codes
  <1> HIDE DEF q
  <1>3. q.resp.code = "ok" /\ q.op \in Operations
    BY DEF q
  <1>4. EnvironmentValid(q.env) /\ q.who # None
    BY <1>1, <1>3 DEF ReplyOK, Admitted
  <1> QED  BY <1>1, <1>2, <1>3, <1>4 DEF LogOK, LineOf, q

-----------------------------------------------------------------------------
(***************************************************************************)
(* What follows for clients and auditors.                                  *)
(***************************************************************************)
\* The shape of every request, its lines and its reply.
THEOREM TypeCorrect == Spec => []TypeOK
  <1>1. IInv => TypeOK
    BY DEF IInv
  <1> QED  BY <1>1, Invariance, PTL

\* One audit line for every operation past assertEnvironment that has a reply, on
\* every path (audit.ts:46-75).
THEOREM AuditedOnce == Spec => []AuditExactlyOnce
  <1>1. IInv => AuditExactlyOnce
    <2> SUFFICES ASSUME IInv, NEW r \in Req
                 PROVE  Len(req[r].log) =
                            IF req[r].op \in Operations /\ EnvironmentValid(req[r].env)
                                   /\ req[r].resp # NoReply
                            THEN 1 ELSE 0
      BY DEF AuditExactlyOnce
    <2>1. LogOK(req[r])
      BY RequestFacts DEF Sound
    <2> QED  BY <2>1 DEF LogOK
  <1> QED  BY <1>1, Invariance, PTL

\* The line tells what happened: caller, context, version and success
\* (audit.ts:13-26).
THEOREM AuditTrue == Spec => []AuditTruth
  <1>1. IInv => AuditTruth
    <2> SUFFICES ASSUME IInv, NEW r \in Req, NEW i \in DOMAIN req[r].log
                 PROVE  LET q == req[r]
                            line == q.log[i]
                            box == IF q.op = "decrypt" THEN q.tok.box ELSE q.resp.wrapped.box
                        IN  /\ line.success <=> q.resp.code = "ok"
                            /\ line.caller # None => line.caller = CallerNameOfToken(q.bearer.token)
                            /\ line.success => /\ box.material = KekMaterial(q.env, line.ver)
                                               /\ box.aad = CanonicalizeContext(line.ctx)
                                               /\ line.ver = q.resp.ver
      BY DEF AuditTruth
    <2> DEFINE q == req[r]
    <2>1. ReplyOK(r, q) /\ LogOK(q)
      BY RequestFacts DEF Sound
    <2>2. i \in DOMAIN q.log
      OBVIOUS
    <2> HIDE DEF q
    <2>3. q.op \in Operations /\ q.log = <<LineOf(q)>>
      BY <2>1, <2>2 DEF LogOK
    <2>4. q.log[i] = LineOf(q)
      BY <2>2, <2>3
    <2>5. /\ LineOf(q).success <=> q.resp.code = "ok"
          /\ LineOf(q).caller = IF q.who = None THEN None ELSE q.who.name
          /\ LineOf(q).ver = q.resp.ver /\ LineOf(q).ctx = q.ctx
      BY DEF LineOf, Line
    <2>6. LineOf(q).caller # None => LineOf(q).caller = CallerNameOfToken(q.bearer.token)
      BY <2>1, <2>5 DEF ReplyOK
    <2>7. ASSUME q.resp.code = "ok", q.op = "decrypt"
          PROVE  /\ q.tok.box.material = KekMaterial(q.env, q.resp.ver)
                 /\ q.tok.box.aad = CanonicalizeContext(q.ctx)
      BY <2>1, <2>3, <2>7 DEF ReplyOK, ComesByDek, TokenOpens, OpensBox
    <2>8. ASSUME q.resp.code = "ok", q.op # "decrypt"
          PROVE  /\ q.resp.wrapped.box.material = KekMaterial(q.env, q.resp.ver)
                 /\ q.resp.wrapped.box.aad = CanonicalizeContext(q.ctx)
      BY <2>1, <2>3, <2>8 DEF ReplyOK, WrapDek, Sealed
    <2> QED  BY <2>4, <2>5, <2>6, <2>7, <2>8 DEF q
  <1> QED  BY <1>1, Invariance, PTL

\* Every wrapped key that does not open gets the same verdict (errors.ts:1-8).
THEOREM OneVerdict == Spec => []UnwrapVerdict
  <1>1. IInv => UnwrapVerdict
    <2> SUFFICES ASSUME IInv, NEW r \in Req
                 PROVE  VerdictOK(req[r])
      BY DEF UnwrapVerdict, VerdictOK
    <2> QED  BY RequestFacts DEF Sound
  <1> QED  BY <1>1, Invariance, PTL

\* A data key comes back under the context it was generated for and no other, also
\* through chains of re-wraps (wrap.ts:8-12).
THEOREM KeysStayBound == Spec => []ContextBinding
  <1>1. IInv => ContextBinding
    BY GotKeyGranted, GrantedOrigin DEF ContextBinding
  <1> QED  BY <1>1, Invariance, PTL

\* No caller gets hold of a data key outside its scope (auth.ts:159-167).
THEOREM ScopeHolds == Spec => []ScopeEnforced
  <1>1. IInv => ScopeEnforced
    BY GotKeyGranted, GrantedOrigin DEF ScopeEnforced, Admitted
  <1> QED  BY <1>1, Invariance, PTL

\* No key without a trail that leads to the line of its generation.
THEOREM KeysAreTraceable == Spec => []Traceable
  <1>1. IInv => Traceable
    <2> SUFFICES ASSUME IInv, NEW r \in Req, GotKey(req[r])
                 PROVE  LET line == req[r].log
                            origin == req[req[r].dek].log
                        IN  /\ line # <<>>
                            /\ origin # <<>>
                            /\ origin[1].op = "generate-data-key"
                            /\ origin[1].success
                            /\ origin[1].ctx = line[1].ctx
      BY DEF Traceable
    <2> DEFINE q == req[r]
               o == req[q.dek]
    <2>1. q.resp.code = "ok" /\ q.op \in Operations
      BY GotKeyGranted
    <2>2. /\ q.dek \in Req /\ o.op = "generate-data-key" /\ o.resp.code = "ok" /\ o.ctx = q.ctx
      BY <2>1, GrantedOrigin
    <2>3. q.log = <<Line(q.who.name, q.op, q.resp.ver, q.ctx, TRUE)>>
      BY <2>1, GrantedLine
    <2>4. o.log = <<Line(o.who.name, o.op, o.resp.ver, o.ctx, TRUE)>>
      BY <2>2, GrantedLine DEF Operations
    <2> HIDE DEF o, q
    <2>5. q.log # <<>> /\ o.log # <<>> /\ q.log[1].ctx = q.ctx
          /\ o.log[1].op = o.op /\ o.log[1].ctx = o.ctx /\ o.log[1].success
      BY <2>3, <2>4 DEF Line
    <2> QED  BY <2>2, <2>5 DEF q, o
  <1> QED  BY <1>1, Invariance, PTL

\* What was handed out opens under every configuration that still has its version,
\* whatever its current version is (docs/index.md:310-311).
THEOREM WrappedStaysReadable == Spec => []StaysReadable
  <1>1. IInv => StaysReadable
    <2> SUFFICES ASSUME IInv, NEW r \in Req, NEW e \in Envs,
                        req[r].resp.wrapped # None, EnvironmentValid(e), HasKek(e, req[r].resp.ver),
                        KekMaterial(e, req[r].resp.ver) = KekMaterial(req[r].env, req[r].resp.ver)
                 PROVE  LET q == req[r]
                            t == q.resp.wrapped
                        IN  /\ TokenAccepted(e, t)
                            /\ TokenOpens(e, t, q.ctx)
                            /\ t.box.dek = IF q.op = "re-wrap" THEN q.tok.box.dek ELSE r
      BY DEF StaysReadable
    <2> DEFINE q == req[r]
               t == q.resp.wrapped
    <2>1. ReplyOK(r, q) /\ q \in Requests
      BY RequestFacts DEF Sound
    <2>2. t # None /\ HasKek(e, q.resp.ver) /\ KekMaterial(e, q.resp.ver) = KekMaterial(q.env, q.resp.ver)
      OBVIOUS
    <2> HIDE DEF q
    <2>3. t \in WrappedKeys /\ t # Malformed /\ t.box # None
      <3>1. q.resp.code = "ok" /\ q.op \in Operations /\ q.op # "decrypt"
        BY <2>1, <2>2 DEF ReplyOK
      <3>2. t = WrapDek(q.env, r, q.dek, q.ctx)
        BY <2>1, <3>1 DEF ReplyOK
      <3>3. q.env \in Envs /\ EnvironmentValid(q.env) /\ q.ctx \in Bodies
        BY <2>1, <3>1 DEF ReplyOK, Admitted, Requests
      <3>4. q.dek \in Req
        <4>1. ComesByDek(r, q)
          BY <2>1, <3>1 DEF ReplyOK
        <4> QED  BY <3>1, <4>1 DEF ComesByDek, TokenOpens, OpensBox, WrappedKeys, Boxes
      <3>5. t \in WrappedKeys /\ t.box \in Boxes
        BY <3>2, <3>3, <3>4, WrapIsWrapped
      <3> QED  BY <3>5, ReqAssumption
    <2>4. /\ t.ver = q.resp.ver /\ t.iv = t.box.iv
          /\ t.box.material = KekMaterial(q.env, q.resp.ver)
          /\ t.box.aad = CanonicalizeContext(q.ctx)
          /\ t.box.dek = q.dek
      BY <2>1, <2>2 DEF ReplyOK, WrapDek, Sealed
    <2>5. q.dek = IF q.op = "re-wrap" THEN q.tok.box.dek ELSE r
      BY <2>1, <2>2 DEF ReplyOK, ComesByDek, Operations
    <2> HIDE DEF t
    <2>6. TokenAccepted(e, t) /\ TokenOpens(e, t, q.ctx)
      BY <2>2, <2>3, <2>4 DEF TokenAccepted, TokenOpens, OpensBox
    <2> QED  BY <2>4, <2>5, <2>6 DEF q, t
  <1> QED  BY <1>1, Invariance, PTL

-----------------------------------------------------------------------------
(***************************************************************************)
(* The vault.  A step of the worker is a step of one request; before the   *)
(* request has a reply the vault knows nothing of it, and afterwards       *)
(* nothing changes that the vault knows.  What it knows when the reply is  *)
(* set is what the invariant says of the state after the step.             *)
(***************************************************************************)
\* The vault's two variables, as KmsVault is instantiated in Worker.
Bound == [d \in Generated |-> req[d].ctx]

Trail == [r \in Req |-> TrailEntry(req[r])]

\* What the vault sees of a request is the same in k and l.
Frozen(k, l) == l.op = k.op /\ l.ctx = k.ctx /\ l.resp = k.resp /\ l.dek = k.dek /\ l.log = k.log

\* Whoever takes a step has no reply yet, or changes nothing but its await.
LEMMA OneRequestSteps ==
    ASSUME IInv, Next
    PROVE  \E r \in Req :
               /\ \A q \in Req \ {r} : req'[q] = req[q]
               /\ req[r].resp = NoReply \/ Frozen(req[r], req'[r])
  <1> USE DEF IInv, TypeOK
  <1>1. ASSUME NEW r \in Req, Receive(r) \/ AuthenticateRequest(r) \/ ReadBody(r) \/ Resume(r)
        PROVE  req[r].resp = NoReply /\ \A q \in Req \ {r} : req'[q] = req[q]
    <2>1. req[r].pc \in Awaits \union {"new"}
      BY <1>1 DEF Receive, ServeUnaudited, Arrive, CanArrive, AuthenticateRequest, AuthFails,
                  DigestFails, AuthSucceeds, ReadBody, BodyRefused, OutOfScope, Generate, UnwrapRefused, Unwrap,
                  InScope, Resume, KeyArrives, KeyFails, SealFails, OpenFails, DecryptReturns, ReWrapUnwrapped,
                  SealReturns, Opens, Awaits
    <2>2. \A q \in Req \ {r} : req'[q] = req[q]
      BY <1>1 DEF Receive, ServeUnaudited, Arrive, AuthenticateRequest, AuthFails,
                  DigestFails, AuthSucceeds, ReadBody, BodyRefused, OutOfScope, Generate, UnwrapRefused, Unwrap,
                  Resume, KeyArrives, KeyFails, SealFails, OpenFails, DecryptReturns, ReWrapUnwrapped,
                  SealReturns
    <2> QED  BY <2>1, <2>2, RequestFacts
  <1>2. ASSUME NEW r \in Req, Deliver(r) \/ Vanish(r)
        PROVE  Frozen(req[r], req'[r]) /\ \A q \in Req \ {r} : req'[q] = req[q]
    <2>1. req[r] \in Requests
      OBVIOUS
    <2>2. PICK v \in {"answered", "lost"} : req' = [req EXCEPT ![r] = [req[r] EXCEPT !.pc = v]]
      BY <1>2 DEF Deliver, Vanish
    <2> QED  BY <2>1, <2>2 DEF Frozen, Requests
  <1> QED  BY <1>1, <1>2 DEF Next

\* What the vault knows of r, and of the others, after a step of r.
LEMMA VaultOf ==
    ASSUME NEW r \in Req, \A q \in Req \ {r} : req'[q] = req[q]
    PROVE  /\ Trail' = [Trail EXCEPT ![r] = TrailEntry(req'[r])]
           /\ Trail[r] = TrailEntry(req[r])
           /\ Generated' \ {r} = Generated \ {r}
           /\ /\ r \in Generated <=> r \in Generated'
              /\ r \in Generated => req'[r].ctx = req[r].ctx
              => Bound' = Bound
           /\ r \in Generated' =>
                  Bound' = [d \in DOMAIN Bound \union {r} |-> IF d = r THEN req'[r].ctx ELSE Bound[d]]
  <1>1. Trail' = [q \in Req |-> TrailEntry(req'[q])]
    BY DEF Trail, TrailEntry
  <1>2. Trail' = [Trail EXCEPT ![r] = TrailEntry(req'[r])] /\ Trail[r] = TrailEntry(req[r])
    BY <1>1 DEF Trail
  <1>3. Generated' \ {r} = Generated \ {r} /\ Generated \subseteq Req /\ Generated' \subseteq Req
    BY DEF Generated
  <1>4. ASSUME r \in Generated <=> r \in Generated', r \in Generated => req'[r].ctx = req[r].ctx
        PROVE  Bound' = Bound
    <2>1. Generated' = Generated
      BY <1>3, <1>4
    <2>2. \A d \in Generated : req'[d].ctx = req[d].ctx
      BY <1>3, <1>4
    <2> QED  BY <2>1, <2>2 DEF Bound
  <1>5. ASSUME r \in Generated'
        PROVE  Bound' = [d \in DOMAIN Bound \union {r} |-> IF d = r THEN req'[r].ctx ELSE Bound[d]]
    <2>1. Generated' = Generated \union {r}
      BY <1>3, <1>5
    <2>2. \A d \in Generated' \ {r} : req'[d].ctx = req[d].ctx /\ d \in Generated
      BY <1>3
    <2> QED  BY <2>1, <2>2 DEF Bound
  <1> QED  BY <1>2, <1>3, <1>4, <1>5

\* What the vault hears of a request that has its line.
EntryOf(q) ==
    [caller |-> IF q.who = None THEN None ELSE q.who.name, op |-> q.op, ctx |-> q.ctx,
     dek |-> IF q.resp.code = "ok" THEN q.dek ELSE None]

\* The vault hears the line of a request as it was written.
LineHeard(q) ==
    q.log # <<>> =>
        /\ TrailEntry(q) = EntryOf(q)
        /\ TrailEntry(q) # None
        /\ q.op \in Operations
        /\ q.who \in Callers \union {None}
        /\ q.ctx \in Bodies \union {None}

\* A granted data key was generated by a granted request, under the same context.
GrantHeard(r) ==
    req[r].resp.code = "ok" /\ req[r].op \in Operations =>
        /\ req[r].log # <<>>
        /\ req[r].who \in Callers /\ ContextSatisfies(req[r].ctx, req[r].who.requiredContext)
        /\ req[r].ctx \in Bodies
        /\ req[r].op = "generate-data-key" => req[r].dek = r
        /\ req[r].dek \in Generated
        /\ req[req[r].dek].ctx = req[r].ctx

\* Both, of every request.
Heard == \A r \in Req : LineHeard(req[r]) /\ GrantHeard(r)

\* The invariant says what the vault hears.
LEMMA IInvHeard == IInv => Heard
  <1> SUFFICES ASSUME IInv, NEW r \in Req
               PROVE  LineHeard(req[r]) /\ GrantHeard(r)
    BY DEF Heard
  <1> DEFINE q == req[r]
  <1>1. q \in Requests /\ LogOK(q) /\ ReplyOK(r, q)
    BY RequestFacts DEF Sound
  <1>2. LineHeard(q)
    <2> HIDE DEF q
    <2> SUFFICES ASSUME q.log # <<>>
                 PROVE  /\ TrailEntry(q) = EntryOf(q) /\ TrailEntry(q) # None
                        /\ q.op \in Operations
                        /\ q.who \in Callers \union {None}
                        /\ q.ctx \in Bodies \union {None}
      BY DEF LineHeard
    <2>1. q.op \in Operations /\ q.log = <<LineOf(q)>>
      BY <1>1 DEF LogOK
    <2>2. q.who \in Callers \union {None} /\ q.ctx \in Bodies \union {None} /\ q.dek \in Req \union {None}
      BY <1>1 DEF Requests
    <2>3. EntryOf(q) \in TrailEntries
      BY <2>1, <2>2, ReqAssumption DEF TrailEntries, EntryOf
    <2>4. /\ LineOf(q).caller = IF q.who = None THEN None ELSE q.who.name
          /\ LineOf(q).op = q.op /\ LineOf(q).ctx = q.ctx
          /\ LineOf(q).success <=> q.resp.code = "ok"
      BY DEF LineOf, Line
    <2>5. q.log[1] = LineOf(q)
      BY <2>1
    <2>6. TrailEntry(q) = EntryOf(q)
      BY <2>4, <2>5 DEF TrailEntry, EntryOf
    <2> QED  BY <2>1, <2>2, <2>3, <2>6, ReqAssumption
  <1>3. GrantHeard(r)
    <2> SUFFICES ASSUME q.resp.code = "ok", q.op \in Operations
                 PROVE  GrantHeard(r)
      BY DEF GrantHeard
    <2>1. /\ q.dek \in Generated /\ Admitted(q) /\ req[q.dek].ctx = q.ctx
      BY GrantedOrigin DEF Generated
    <2>2. q.log # <<>>
      <3>1. \E line : q.log = <<line>>
        BY GrantedLine
      <3> QED  BY <3>1
    <2>3. q.op = "generate-data-key" => q.dek = r
      BY <1>1 DEF ReplyOK, ComesByDek
    <2> QED  BY <1>1, <2>1, <2>2, <2>3 DEF GrantHeard, Admitted, Requests
  <1> QED  BY <1>2, <1>3

\* Every step of the worker is a step of the vault, or none.
LEMMA NextVault ==
    ASSUME IInv, IInv', Next
    PROVE  Vault!Next \/ UNCHANGED <<Bound, Trail>>
  <1>1. PICK r \in Req :
            /\ \A q \in Req \ {r} : req'[q] = req[q]
            /\ req[r].resp = NoReply \/ Frozen(req[r], req'[r])
    BY OneRequestSteps
  <1> DEFINE k == req[r]
             l == req'[r]
  <1>2. /\ Trail' = [Trail EXCEPT ![r] = TrailEntry(l)]
        /\ Trail[r] = TrailEntry(k)
        /\ Generated' \ {r} = Generated \ {r}
        /\ /\ r \in Generated <=> r \in Generated'
           /\ r \in Generated => l.ctx = k.ctx
           => Bound' = Bound
        /\ r \in Generated' =>
               Bound' = [d \in DOMAIN Bound \union {r} |-> IF d = r THEN l.ctx ELSE Bound[d]]
    BY <1>1, VaultOf
  <1>3. r \in Generated <=> k.op = "generate-data-key" /\ k.resp.code = "ok"
    BY DEF Generated
  <1>4. r \in Generated' <=> l.op = "generate-data-key" /\ l.resp.code = "ok"
    BY DEF Generated
  <1>5. Trail \in [Req -> {TrailEntry(req[q]) : q \in Req}]
    BY DEF Trail
  <1>6. CASE Frozen(k, l)
    <2>1. TrailEntry(l) = TrailEntry(k)
      BY <1>6 DEF Frozen, TrailEntry
    <2>2. Trail' = Trail
      BY <1>2, <1>5, <2>1
    <2>3. Bound' = Bound
      BY <1>2, <1>3, <1>4, <1>6 DEF Frozen
    <2> QED  BY <2>2, <2>3
  <1>7. CASE k.resp = NoReply
    <2>1. TrailEntry(k) = None /\ r \notin Generated
      <3>1. LogOK(k)
        BY RequestFacts DEF Sound
      <3> QED  BY <1>3, <1>7, <3>1, ReqAssumption DEF LogOK, TrailEntry, NoReply, Error, Codes
    <2>2. Heard'
      BY IInvHeard, PTL
    <2>3. LineHeard(l) /\ GrantHeard(r)'
      BY <2>2 DEF Heard, LineHeard
    <2>4. CASE l.log = <<>>
      <3>1. TrailEntry(l) = None
        BY <2>4 DEF TrailEntry
      <3>2. r \notin Generated'
        BY <1>4, <2>3, <2>4 DEF GrantHeard, Operations
      <3>3. Trail' = Trail /\ Bound' = Bound
        BY <1>2, <1>5, <2>1, <3>1, <3>2
      <3> QED  BY <3>3
    <2>5. CASE l.log # <<>>
      <3>1. /\ Trail'[r] = EntryOf(l) /\ Trail'[r] # None
            /\ l.op \in Operations
            /\ l.who \in Callers \union {None} /\ l.ctx \in Bodies \union {None}
        BY <1>2, <1>5, <2>3, <2>5 DEF LineHeard
      <3>2. Vault!Decides(r)
        <4>1. Trail[r] = None /\ Trail' = [Trail EXCEPT ![r] = Trail'[r]]
          BY <1>2, <1>5, <2>1
        <4> QED  BY <3>1, <4>1 DEF Vault!Decides, Trail
      <3>3. CASE l.resp.code = "ok" /\ l.op = "generate-data-key"
        <4>1. /\ l.who \in Callers /\ l.ctx \in Bodies
              /\ ContextSatisfies(l.ctx, l.who.requiredContext) /\ l.dek = r /\ l.who # None
          BY <2>3, <3>1, <3>3, ReqAssumption DEF GrantHeard
        <4>2. Trail'[r] = Vault!Entry(l.who.name, "generate-data-key", l.ctx, r)
          BY <3>1, <3>3, <4>1 DEF EntryOf, Vault!Entry
        <4>3. Bound' = [d \in DOMAIN Bound \union {r} |-> IF d = r THEN l.ctx ELSE Bound[d]]
          BY <1>2, <1>4, <3>3
        <4> HIDE DEF l
        <4>4. Vault!Generate(r)
          BY <4>1, <4>2, <4>3 DEF Vault!Generate, Vault!ContextSatisfies, ContextSatisfies, Trail, Bound
        <4> QED  BY <3>2, <4>4 DEF Vault!Next
      <3>4. CASE l.resp.code = "ok" /\ l.op # "generate-data-key"
        <4>1. /\ l.who \in Callers /\ l.who # None
              /\ ContextSatisfies(l.ctx, l.who.requiredContext)
              /\ l.dek \in Generated' /\ req'[l.dek].ctx = l.ctx
          BY <2>3, <3>1, <3>4, ReqAssumption DEF GrantHeard
        <4>2. r \notin Generated' /\ Bound' = Bound
          BY <1>2, <1>4, <2>1, <3>4
        <4>3. l.dek \in DOMAIN Bound /\ Bound[l.dek] = l.ctx
          <5>1. l.dek \in Generated /\ l.dek \in Req /\ l.dek # r
            BY <1>2, <4>1, <4>2 DEF Generated
          <5> QED  BY <1>1, <4>1, <5>1 DEF Bound
        <4>4. Trail'[r] = Vault!Entry(l.who.name, l.op, Bound[l.dek], l.dek)
          BY <3>1, <3>4, <4>1, <4>3 DEF EntryOf, Vault!Entry
        <4>5. l.op \in {"decrypt", "re-wrap"}
          BY <3>1, <3>4 DEF Operations
        <4>6. ContextSatisfies(Bound[l.dek], l.who.requiredContext)
          BY <4>1, <4>3
        <4> HIDE DEF l
        <4>7. Vault!Use(r, l.op)
          BY <4>1, <4>2, <4>3, <4>4, <4>6
             DEF Vault!Use, Vault!ContextSatisfies, ContextSatisfies, Trail, Bound
        <4> QED  BY <3>2, <4>5, <4>7 DEF Vault!Next
      <3>5. CASE l.resp.code # "ok"
        <4>1. r \notin Generated' /\ Bound' = Bound
          BY <1>2, <1>4, <2>1, <3>5
        <4> DEFINE name == IF l.who = None THEN None ELSE l.who.name
        <4>2. Trail'[r] = Vault!Entry(name, l.op, l.ctx, None)
          BY <3>1, <3>5 DEF EntryOf, Vault!Entry
        <4>3. name \in {who.name : who \in Callers} \union {None}
          BY <3>1
        <4>4. l.op \in {"generate-data-key", "decrypt", "re-wrap"}
          BY <3>1 DEF Operations
        <4> HIDE DEF l, name
        <4>5. Vault!Refuse(r, l.op)
          BY <3>1, <4>1, <4>2, <4>3 DEF Vault!Refuse, Trail, Bound
        <4> QED  BY <3>2, <4>4, <4>5 DEF Vault!Next
      <3> QED  BY <3>3, <3>4, <3>5
    <2> QED  BY <2>4, <2>5
  <1> QED  BY <1>1, <1>6, <1>7

\* At the start no data key has been generated and no trail is left.
LEMMA InitVault == Init => Vault!Init
  <1> SUFFICES ASSUME Init
               PROVE  Vault!Init
    OBVIOUS
  <1>1. \A r \in Req : req[r] = New
    BY DEF Init
  <1>2. Generated = {}
    BY <1>1 DEF Generated, New, NoReply, Error
  <1>3. [d \in Generated |-> req[d].ctx] = <<>>
    BY <1>2
  <1>4. \A r \in Req : TrailEntry(req[r]) = None
    BY <1>1 DEF TrailEntry, New
  <1> QED  BY <1>3, <1>4 DEF Vault!Init

\* The worker implements the vault: every interleaving of handlers, with every
\* reply that is dropped, is a sequence of all-or-nothing operations, each done by
\* a caller of the configuration within its scope, on a data key under its own
\* context, with its entry in the trail (routes.ts:82-133, audit.ts:42-75).
THEOREM WorkerImplementsVault == Spec => ImplementsVault
  <1>1. IInv /\ IInv' /\ [Next]_req => [Vault!Next]_<<Bound, Trail>>
    <2> SUFFICES ASSUME IInv, IInv', [Next]_req
                 PROVE  Vault!Next \/ UNCHANGED <<Bound, Trail>>
      OBVIOUS
    <2>1. CASE Next
      BY <2>1, NextVault
    <2>2. CASE UNCHANGED req
      BY <2>2 DEF Bound, Trail, Generated, TrailEntry
    <2> QED  BY <2>1, <2>2
  <1>2. [Vault!Next]_<<Bound, Trail>> =>
            [Vault!Next]_<<[d \in Generated |-> req[d].ctx], [r \in Req |-> TrailEntry(req[r])]>>
    BY DEF Bound, Trail
  <1> QED  BY <1>1, <1>2, InitVault, Invariance, PTL DEF Spec, ImplementsVault, Vault!Spec
=============================================================================
