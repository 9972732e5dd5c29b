-------------------------------- MODULE Wrap --------------------------------
(***************************************************************************)
(* Wrapped keys (src/src/crypto/wrap.ts).  WebCrypto's AES-GCM is external *)
(* and taken as ideal: a box is what was sealed, and opens only with the   *)
(* material, the iv and the additional data it was sealed with.            *)
(*                                                                         *)
(* A wrapped key is a record [ver, iv, box]: the version it names, its iv  *)
(* and its ciphertext, or Malformed when decodeToken refuses its shape.    *)
(* The box None is any ciphertext that no wrap produced.                   *)
(***************************************************************************)
EXTENDS Environment, Context

\* crypto.subtle.encrypt
Sealed(material, iv, aad, dek) ==
    [material |-> material, iv |-> iv, aad |-> aad, dek |-> dek]

\* crypto.subtle.decrypt does not throw
OpensBox(box, material, iv, aad) ==
    /\ box # None
    /\ box.material = material
    /\ box.iv = iv
    /\ box.aad = aad

\* The label is the lowest version there is, the key the current one.
WrapDek_LowestLabel(e, iv, dek, context) ==
    [ver |-> CHOOSE v \in KekVersions(e) : \A w \in KekVersions(e) : v <= w, iv |-> iv,
     box |-> Sealed(KekMaterial(e, CurrentVersion(e)), iv, CanonicalizeContext(context), dek)]

\* The wrap is made without additional data.
WrapDek_NoContext(e, iv, dek, context) ==
    [ver |-> CurrentVersion(e), iv |-> iv,
     box |-> Sealed(KekMaterial(e, CurrentVersion(e)), iv, <<>>, dek)]

\* wrapDek under the configuration e, once the key is there.
WrapDek(e, iv, dek, context) ==
    [ver |-> CurrentVersion(e), iv |-> iv,
     box |-> Sealed(KekMaterial(e, CurrentVersion(e)), iv, CanonicalizeContext(context), dek)]

\* Only the current version is accepted.
TokenAccepted_CurrentOnly(e, token) == token # Malformed /\ token.ver = CurrentVersion(e)

\* unwrapDek up to its first await: decodeToken, then keks.has.
TokenAccepted(e, token) == token # Malformed /\ HasKek(e, token.ver)

\* The rest of unwrapDek: the GCM open under the version the token names.
TokenOpens(e, token, context) ==
    OpensBox(token.box, KekMaterial(e, token.ver), token.iv, CanonicalizeContext(context))
=============================================================================
