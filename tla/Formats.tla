------------------------------ MODULE Formats ------------------------------
(***************************************************************************)
(* What is at rest in the services' stores, as text: the wrapped key       *)
(* cfkms1.<version>.<iv>.<ciphertext> (crypto/wrap.ts), the envelope       *)
(* cfkms-env1.<wrapped key>.<iv>.<ciphertext> (client/index.ts), their     *)
(* base64url, and the context an envelope is read under, written down      *)
(* again by whoever reads it.                                              *)
(*                                                                         *)
(* A text is the sequence of its segments between dots, a segment the      *)
(* sequence of its characters, a character its value in the base64url      *)
(* alphabet (A..Z are 0..25, a..z 26..51, 0..9 52..61, - and _ 62 and 63)  *)
(* or Foreign.  A context as written is the sequence of its entries.       *)
(***************************************************************************)
EXTENDS Context

CONSTANTS
    Foreign,        \* a character outside the alphabet, other than the dot
    WrappedKeys,    \* what wrapDek seals: [version, iv, ciphertext]
    Payloads,       \* what encryptSecret seals: [iv, ciphertext]
    WrittenContexts,\* contexts as services write them
    EditChars       \* bound: the characters that stored text is edited with

IV_BYTE_LENGTH == 12
WRAPPED_CIPHERTEXT_BYTE_LENGTH == 32 + 16
MAX_WRAPPED_KEY_LENGTH == 256

\* cfkms1 and cfkms-env1
TOKEN_PREFIX == <<28, 31, 36, 38, 44, 53>>
ENVELOPE_PREFIX == <<28, 31, 36, 38, 44, 62, 30, 39, 47, 53>>

\* A byte, the versions the pattern of decodeToken has room for, and what a
\* wrapped key stands for.
ByteValue == 0 .. 255
Version == 1 .. 9999
KeyRecords ==
    [version : Version, iv : [1 .. IV_BYTE_LENGTH -> ByteValue],
     ciphertext : [1 .. WRAPPED_CIPHERTEXT_BYTE_LENGTH -> ByteValue]]

\* A context as written has every key once, as the objects it stands for do.
ASSUME FormatsAssumption ==
    /\ Foreign \in Nat \ (0 .. 63)
    /\ EditChars \subseteq (0 .. 63) \union {Foreign}
    /\ WrappedKeys \subseteq KeyRecords
    /\ Payloads \subseteq [iv : [1 .. IV_BYTE_LENGTH -> ByteValue], ciphertext : Seq(ByteValue)]
    /\ \A c \in WrittenContexts :
           /\ c \in Seq(Range(c))
           /\ \A i \in DOMAIN c : c[i] = <<c[i][1], c[i][2]>> /\ c[i][1] \in Range(KeyOrder)
           /\ \A i, j \in DOMAIN c : c[i][1] = c[j][1] => i = j

VARIABLES
    pc,       \* "new", "stored", "edited", "parsed", "done" or "refused"
    sealed,   \* what encryptSecret sealed: [key, payload, written]
    blob,     \* the envelope as it is stored
    parsed,   \* what decryptSecret took out of it: [wrapped, iv, ciphertext]
    written,  \* the context it is read under
    key       \* what decodeToken took out of the wrapped key

vars == <<pc, sealed, blob, parsed, written, key>>

\* A value of a sequence of none or one: null or refused, or the value.
Init ==
    /\ pc = "new"
    /\ sealed = <<>>
    /\ blob = <<>>
    /\ parsed = <<>>
    /\ written = <<>>
    /\ key = <<>>

-----------------------------------------------------------------------------
(***************************************************************************)
(* base64url: four characters for three bytes, two or three for the rest.  *)
(***************************************************************************)
EncodeBase64Url(bytes) ==
    LET Byte(n) == IF n \in DOMAIN bytes THEN bytes[n] ELSE 0
        Char(group, place) ==
            CASE place = 0 -> Byte(group + 1) \div 4
              [] place = 1 -> (Byte(group + 1) % 4) * 16 + Byte(group + 2) \div 16
              [] place = 2 -> (Byte(group + 2) % 16) * 4 + Byte(group + 3) \div 64
              [] place = 3 -> Byte(group + 3) % 64
    IN  [i \in 1 .. (8 * Len(bytes) + 5) \div 6 |-> Char(3 * ((i - 1) \div 4), (i - 1) % 4)]

\* The test of the alphabet; atob refuses what leaves a single character over.
InAlphabet(chars) == \A i \in DOMAIN chars : chars[i] # Foreign
Decodes(chars) == InAlphabet(chars) /\ Len(chars) % 4 # 1

\* The bits of the group before are not masked.
DecodeBase64Url_Unmasked(chars) ==
    LET Byte(group, place) ==
            CASE place = 0 -> chars[group + 1] * 4 + chars[group + 2] \div 16
              [] place = 1 -> chars[group + 2] * 16 + chars[group + 3] \div 4
              [] place = 2 -> chars[group + 3] * 64 + chars[group + 4]
    IN  [i \in 1 .. (6 * Len(chars)) \div 8 |-> Byte(4 * ((i - 1) \div 3), (i - 1) % 3)]

\* The bits that a last group has too many are dropped.
DecodeBase64Url(chars) ==
    LET Byte(group, place) ==
            CASE place = 0 -> chars[group + 1] * 4 + chars[group + 2] \div 16
              [] place = 1 -> (chars[group + 2] % 16) * 16 + chars[group + 3] \div 4
              [] place = 2 -> (chars[group + 3] % 4) * 64 + chars[group + 4]
    IN  [i \in 1 .. (6 * Len(chars)) \div 8 |-> Byte(4 * ((i - 1) \div 3), (i - 1) % 3)]

-----------------------------------------------------------------------------
(***************************************************************************)
(* The wrapped key.                                                        *)
(***************************************************************************)
\* The decimal digits of a version below 10000.
Digits(version) ==
    LET length == CHOOSE n \in 1 .. 4 : version < 10 ^ n /\ (n = 1 \/ version >= (10 ^ (n - 1)))
    IN  [i \in 1 .. length |-> 52 + ((version \div (10 ^ (length - i))) % 10)]

Number(digits) ==
    LET Place(i) == IF i \in DOMAIN digits THEN (digits[i] - 52) * (10 ^ (Len(digits) - i)) ELSE 0
    IN  Place(1) + Place(2) + Place(3) + Place(4)

WrappedKeyText(w) ==
    <<TOKEN_PREFIX, Digits(w.version), EncodeBase64Url(w.iv), EncodeBase64Url(w.ciphertext)>>

\* A version with leading zeros is one as well.
IsVersion_LeadingZeros(digits) ==
    Len(digits) \in 1 .. 4 /\ \A i \in DOMAIN digits : digits[i] \in 52 .. 61

IsVersion(digits) ==
    /\ Len(digits) \in 1 .. 4
    /\ digits[1] \in 53 .. 61
    /\ \A i \in DOMAIN digits : digits[i] \in 52 .. 61

\* The characters of the text, with the dots between its segments.
Length(text) ==
    LET Chars(i) == IF i \in DOMAIN text THEN Len(text[i]) ELSE 0
    IN  Chars(1) + Chars(2) + Chars(3) + Chars(4) + Len(text) - 1

\* decodeToken: what the text stands for, nothing if it is no wrapped key.
DecodeToken(text) ==
    IF /\ Len(text) = 4
       /\ Length(text) <= MAX_WRAPPED_KEY_LENGTH
       /\ text[1] = TOKEN_PREFIX
       /\ IsVersion(text[2])
       /\ Decodes(text[3])
       /\ Decodes(text[4])
       /\ Len(DecodeBase64Url(text[3])) = IV_BYTE_LENGTH
       /\ Len(DecodeBase64Url(text[4])) = WRAPPED_CIPHERTEXT_BYTE_LENGTH
    THEN <<[version |-> Number(text[2]), iv |-> DecodeBase64Url(text[3]),
            ciphertext |-> DecodeBase64Url(text[4])]>>
    ELSE <<>>

-----------------------------------------------------------------------------
(***************************************************************************)
(* The envelope.                                                           *)
(***************************************************************************)
EnvelopeText(w, p) ==
    <<ENVELOPE_PREFIX>> \o WrappedKeyText(w)
        \o <<EncodeBase64Url(p.iv), EncodeBase64Url(p.ciphertext)>>

\* The wrapped key has to be a single segment.
WrappedPart_NoDots(text) == <<text[2]>>

\* The wrapped key has dots of its own: it is what is left in the middle.
WrappedPart(text) == SubSeq(text, 2, Len(text) - 2)

\* decryptSecret, up to dataKeyFor: nothing when it throws.
ParseEnvelope(text) ==
    LET iv == text[Len(text) - 1]
        ciphertext == text[Len(text)]
    IN  IF /\ Len(text) >= 4
           /\ text[1] = ENVELOPE_PREFIX
           /\ WrappedPart(text) # << <<>> >>
           /\ Decodes(iv)
           /\ Decodes(ciphertext)
           /\ Len(DecodeBase64Url(iv)) = IV_BYTE_LENGTH
        THEN <<[wrapped |-> WrappedPart(text), iv |-> DecodeBase64Url(iv),
                ciphertext |-> DecodeBase64Url(ciphertext)]>>
        ELSE <<>>

-----------------------------------------------------------------------------
(***************************************************************************)
(* The context, written down as <<key, value>> entries in any order.       *)
(***************************************************************************)
\* The comparison compares nothing.
Sort_AsListed(keys) == keys

\* Array.sort by UTF-16 code unit.
Sort(keys) == InOrder(Range(keys), KeyOrder)

\* JSON.stringify(Object.fromEntries(Object.entries(context).sort(...))).
CanonicalizeWritten(entries) ==
    LET keys == Listed(Sort(Listed([i \in DOMAIN entries |-> entries[i][1]])))
        ValueOf(k) == entries[CHOOSE i \in DOMAIN entries : entries[i][1] = k][2]
    IN  [i \in DOMAIN keys |-> <<keys[i], ValueOf(keys[i])>>]

-----------------------------------------------------------------------------
EncryptSecret ==
    /\ pc = "new"
    /\ pc' = "stored"
    /\ \E w \in WrappedKeys, p \in Payloads, c \in WrittenContexts :
           /\ sealed' = <<[key |-> w, payload |-> p, written |-> c]>>
           /\ blob' = EnvelopeText(w, p)
    /\ UNCHANGED <<parsed, written, key>>

\* A segment with a character changed, added or lost at one of its ends.
Edited(chars) ==
    {<<x>> \o chars : x \in EditChars} \union {Append(chars, x) : x \in EditChars}
    \union {[chars EXCEPT ![i] = x] : i \in {1, Len(chars)} \intersect DOMAIN chars, x \in EditChars}
    \union {SubSeq(chars, 1, Len(chars) - 1), SubSeq(chars, 2, Len(chars))}

\* What happens to text in a store or on its way (external): a segment is
\* edited, lost or doubled.
Edit ==
    /\ pc = "stored"
    /\ pc' = "edited"
    /\ \E i \in DOMAIN blob :
           LET before == SubSeq(blob, 1, i - 1)
               after == SubSeq(blob, i + 1, Len(blob))
           IN  blob' \in {before \o <<chars>> \o after : chars \in Edited(blob[i])}
                   \union {before \o after, before \o <<blob[i], blob[i]>> \o after}
    /\ UNCHANGED <<sealed, parsed, written, key>>

DecryptSecret ==
    /\ pc \in {"stored", "edited"}
    /\ parsed' = ParseEnvelope(blob)
    /\ pc' = IF parsed' = <<>> THEN "refused" ELSE "parsed"
    /\ written' \in WrittenContexts
    /\ UNCHANGED <<sealed, blob, key>>

UnwrapDek ==
    /\ pc = "parsed"
    /\ key' = DecodeToken(parsed[1].wrapped)
    /\ pc' = IF key' = <<>> THEN "refused" ELSE "done"
    /\ UNCHANGED <<sealed, blob, parsed, written>>

Next == EncryptSecret \/ Edit \/ DecryptSecret \/ UnwrapDek

Spec == Init /\ [][Next]_vars

-----------------------------------------------------------------------------
(***************************************************************************)
(* What stored text owes the services.                                     *)
(***************************************************************************)
\* One type invariant: whatever is decoded is a version, an iv and bytes of the
\* lengths that AES-GCM is then called with.
TypeOK ==
    /\ pc \in {"new", "stored", "edited", "parsed", "done", "refused"}
    /\ \A i \in DOMAIN parsed :
           /\ parsed[i].iv \in [1 .. IV_BYTE_LENGTH -> ByteValue]
           /\ \A j \in DOMAIN parsed[i].ciphertext : parsed[i].ciphertext[j] \in ByteValue
    /\ \A i \in DOMAIN key : key[i] \in KeyRecords

\* What was stored is read back, byte by byte and with its version, through
\* both formats, the dots of the one inside the other: nothing that wrapDek or
\* encryptSecret hands out is refused for its form (docs/index.md:54-58).
ReadsWhatWasSealed ==
    pc \in {"parsed", "done", "refused"} /\ blob = EnvelopeText(sealed[1].key, sealed[1].payload) =>
        /\ pc # "refused"
        /\ [iv |-> parsed[1].iv, ciphertext |-> parsed[1].ciphertext] = sealed[1].payload
        /\ pc = "done" => key[1] = sealed[1].key

\* A wrapped key has one text: what the worker accepts is, character by
\* character, the text it would give out itself, so no edit of it is the same
\* key under another cache key, and none that is on version n escapes a search
\* for cfkms1.n. (client/index.ts:208-209, docs/index.md:337-338).
OneTextPerKey == pc = "done" => parsed[1].wrapped = WrappedKeyText(key[1])

\* docs/index.md:64 "The order you write the keys in does not matter. Every
\* other byte does": whoever reads under the same entries gets the same
\* additional data, whoever reads under others gets other data, also when some
\* keys are array indices, which objects list first.
OrderDoesNotMatter ==
    written # <<>> =>
        LET Entries(c) == {c[i] : i \in DOMAIN c} IN
        (CanonicalizeWritten(written) = CanonicalizeWritten(sealed[1].written))
            <=> Entries(written) = Entries(sealed[1].written)
=============================================================================
