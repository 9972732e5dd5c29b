-------------------------------- MODULE Auth --------------------------------
(***************************************************************************)
(* Caller authentication (src/src/auth.ts), a function of the caller list  *)
(* and the Authorization header.                                           *)
(*                                                                         *)
(* A bearer token is a record                                              *)
(*   head    its text up to the first underscore                           *)
(*   name    its text from there up to the next underscore, or None        *)
(*   secret  how many characters follow that underscore                    *)
(*   length  how many characters it has                                    *)
(* and a header a record [scheme, token], or None when there is none.      *)
(***************************************************************************)
EXTENDS Environment

CONSTANTS
    CallerNames,               \* the names callerNameSchema accepts
    MIN_TOKEN_SECRET_LENGTH,
    MAX_TOKEN_LENGTH

ASSUME AuthAssumption ==
    /\ None \notin CallerNames
    /\ MIN_TOKEN_SECRET_LENGTH \in Nat
    /\ MAX_TOKEN_LENGTH \in Nat

\* SHA-256, taken to be injective and never the value it digests.
Sha256Hex(token) == <<"sha256", token>>

\* The token of a well-formed header, None otherwise.
ReadBearerToken(header) ==
    IF /\ header # None
       /\ header.scheme = "bearer"
       /\ header.token.length \in 1 .. MAX_TOKEN_LENGTH
    THEN header.token
    ELSE None

\* The name a token of the shape ckms_<name>_<random> carries, or None.
CallerNameOfToken(token) ==
    IF /\ token.head = "ckms"
       /\ token.name \in CallerNames
       /\ token.secret >= MIN_TOKEN_SECRET_LENGTH
    THEN token.name
    ELSE None

\* The name in the token is not compared with the name of the entry.
AuthenticateCaller_AnyName(callers, header) ==
    LET token == ReadBearerToken(header)
        matches == {i \in DOMAIN callers : callers[i].tokenHash = Sha256Hex(token)}
    IN  IF token = None \/ matches = {}
        THEN None
        ELSE callers[CHOOSE i \in matches : \A j \in matches : j <= i]

\* The caller behind the header, or None for a thrown unauthorized: the last
\* entry whose hash matches, when the token carries that entry's name.
AuthenticateCaller(callers, header) ==
    LET token == ReadBearerToken(header)
        matches == {i \in DOMAIN callers : callers[i].tokenHash = Sha256Hex(token)}
        matched == CHOOSE i \in matches : \A j \in matches : j <= i
    IN  IF token = None \/ matches = {}
        THEN None
        ELSE IF CallerNameOfToken(token) = callers[matched].name
             THEN callers[matched]
             ELSE None
=============================================================================
