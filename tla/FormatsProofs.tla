--------------------------- MODULE FormatsProofs ---------------------------
(***************************************************************************)
(* That text at rest is read as it was written, for every key, payload,    *)
(* length and context.  First base64url and version numbers, each there    *)
(* and back; from them the wrapped key and the envelope; then contexts as  *)
(* written, on the lemmas of ContextProofs; last the inductive invariant   *)
(* and the theorems of Spec.                                               *)
(*                                                                         *)
(* Both directions matter.  Written and read back is what keeps secrets    *)
(* readable; read and written back is what makes a stored text the only    *)
(* text of its key.                                                        *)
(***************************************************************************)
EXTENDS Formats, ContextProofs

CharValue == 0 .. 63      \* a character of the base64url alphabet

\* The characters that so many bytes take, and the bytes of so many characters.
Encoded(length) == (8 * length + 5) \div 6
Decoded(length) == (6 * length) \div 8

\* The byte at a place of a sequence, zero behind its end: the padding bits.
ByteAt(bytes, n) == IF n \in DOMAIN bytes THEN bytes[n] ELSE 0

\* What the four characters of a group are made of.
LEMMA EncodedGroup ==
    ASSUME NEW bytes \in Seq(ByteValue), NEW g \in Nat
    PROVE  LET chars == EncodeBase64Url(bytes)
               length == Encoded(Len(bytes))
               B(n) == ByteAt(bytes, 3 * g + n)
           IN  /\ DOMAIN chars = 1 .. length
               /\ 4 * g + 1 <= length => chars[4 * g + 1] = B(1) \div 4
               /\ 4 * g + 2 <= length => chars[4 * g + 2] = (B(1) % 4) * 16 + B(2) \div 16
               /\ 4 * g + 3 <= length => chars[4 * g + 3] = (B(2) % 16) * 4 + B(3) \div 64
               /\ 4 * g + 4 <= length => chars[4 * g + 4] = B(3) % 64
  <1> DEFINE chars == EncodeBase64Url(bytes)
             length == Encoded(Len(bytes))
             B(n) == ByteAt(bytes, n)
             Char(group, place) ==
                 CASE place = 0 -> B(group + 1) \div 4
                   [] place = 1 -> (B(group + 1) % 4) * 16 + B(group + 2) \div 16
                   [] place = 2 -> (B(group + 2) % 16) * 4 + B(group + 3) \div 64
                   [] place = 3 -> B(group + 3) % 64
  <1>1. chars = [i \in 1 .. length |-> Char(3 * ((i - 1) \div 4), (i - 1) % 4)]
    BY DEF EncodeBase64Url, Encoded, ByteAt
  <1>2. length \in Nat
    BY DEF Encoded
  <1>3. ASSUME NEW p \in 1 .. 4, 4 * g + p <= length
        PROVE  chars[4 * g + p] = Char(3 * g, p - 1)
    <2>1. (4 * g + p - 1) \div 4 = g /\ (4 * g + p - 1) % 4 = p - 1 /\ 4 * g + p \in 1 .. length
      BY <1>2, <1>3
    <2> HIDE DEF chars, length, Char
    <2> QED  BY <1>1, <2>1
  <1>4. /\ Char(3 * g, 0) = B(3 * g + 1) \div 4
        /\ Char(3 * g, 1) = (B(3 * g + 1) % 4) * 16 + B(3 * g + 2) \div 16
        /\ Char(3 * g, 2) = (B(3 * g + 2) % 16) * 4 + B(3 * g + 3) \div 64
        /\ Char(3 * g, 3) = B(3 * g + 3) % 64
    <2> HIDE DEF B
    <2> QED  OBVIOUS
  <1>5. DOMAIN chars = 1 .. length
    BY <1>1
  <1> HIDE DEF chars, length, Char
  <1>6. /\ 4 * g + 1 <= length => chars[4 * g + 1] = Char(3 * g, 0)
        /\ 4 * g + 2 <= length => chars[4 * g + 2] = Char(3 * g, 1)
        /\ 4 * g + 3 <= length => chars[4 * g + 3] = Char(3 * g, 2)
        /\ 4 * g + 4 <= length => chars[4 * g + 4] = Char(3 * g, 3)
    BY <1>3
  <1> QED  BY <1>4, <1>5, <1>6 DEF chars, length

\* What the three bytes of a group are made of.
LEMMA DecodedGroup ==
    ASSUME NEW chars \in Seq(CharValue), NEW g \in Nat
    PROVE  LET bytes == DecodeBase64Url(chars)
               length == Decoded(Len(chars))
               C(n) == chars[4 * g + n]
           IN  /\ DOMAIN bytes = 1 .. length
               /\ 3 * g + 1 <= length => bytes[3 * g + 1] = C(1) * 4 + C(2) \div 16
               /\ 3 * g + 2 <= length => bytes[3 * g + 2] = (C(2) % 16) * 16 + C(3) \div 4
               /\ 3 * g + 3 <= length => bytes[3 * g + 3] = (C(3) % 4) * 64 + C(4)
  <1> DEFINE bytes == DecodeBase64Url(chars)
             length == Decoded(Len(chars))
             C(n) == chars[n]
             ByteFor(group, place) ==
                 CASE place = 0 -> C(group + 1) * 4 + C(group + 2) \div 16
                   [] place = 1 -> (C(group + 2) % 16) * 16 + C(group + 3) \div 4
                   [] place = 2 -> (C(group + 3) % 4) * 64 + C(group + 4)
  <1>1. bytes = [i \in 1 .. length |-> ByteFor(4 * ((i - 1) \div 3), (i - 1) % 3)]
    BY DEF DecodeBase64Url, Decoded
  <1>2. length \in Nat
    BY DEF Decoded
  <1>3. ASSUME NEW p \in 1 .. 3, 3 * g + p <= length
        PROVE  bytes[3 * g + p] = ByteFor(4 * g, p - 1)
    <2>1. (3 * g + p - 1) \div 3 = g /\ (3 * g + p - 1) % 3 = p - 1 /\ 3 * g + p \in 1 .. length
      BY <1>2, <1>3
    <2> HIDE DEF bytes, length, ByteFor
    <2> QED  BY <1>1, <2>1
  <1>4. /\ ByteFor(4 * g, 0) = C(4 * g + 1) * 4 + C(4 * g + 2) \div 16
        /\ ByteFor(4 * g, 1) = (C(4 * g + 2) % 16) * 16 + C(4 * g + 3) \div 4
        /\ ByteFor(4 * g, 2) = (C(4 * g + 3) % 4) * 64 + C(4 * g + 4)
    <2> HIDE DEF C
    <2> QED  OBVIOUS
  <1>5. DOMAIN bytes = 1 .. length
    BY <1>1
  <1> HIDE DEF bytes, length, ByteFor
  <1>6. /\ 3 * g + 1 <= length => bytes[3 * g + 1] = ByteFor(4 * g, 0)
        /\ 3 * g + 2 <= length => bytes[3 * g + 2] = ByteFor(4 * g, 1)
        /\ 3 * g + 3 <= length => bytes[3 * g + 3] = ByteFor(4 * g, 2)
    BY <1>3
  <1> QED  BY <1>4, <1>5, <1>6 DEF bytes, length

\* A place in a text is one of four characters of some group.
LEMMA PlaceInFour ==
    ASSUME NEW i \in Nat \ {0}
    PROVE  \E g \in Nat : i \in {4 * g + 1, 4 * g + 2, 4 * g + 3, 4 * g + 4}
  <1>1. (i - 1) \div 4 \in Nat
    OBVIOUS
  <1>2. i \in {4 * ((i - 1) \div 4) + 1, 4 * ((i - 1) \div 4) + 2, 4 * ((i - 1) \div 4) + 3, 4 * ((i - 1) \div 4) + 4}
    OBVIOUS
  <1> QED  BY <1>1, <1>2

\* The same among groups of three bytes.
LEMMA PlaceInThree ==
    ASSUME NEW i \in Nat \ {0}
    PROVE  \E g \in Nat : i \in {3 * g + 1, 3 * g + 2, 3 * g + 3}
  <1>1. (i - 1) \div 3 \in Nat
    OBVIOUS
  <1>2. i \in {3 * ((i - 1) \div 3) + 1, 3 * ((i - 1) \div 3) + 2, 3 * ((i - 1) \div 3) + 3}
    OBVIOUS
  <1> QED  BY <1>1, <1>2

\* The bits of bytes that make a character are six of them.
LEMMA SixBits ==
    ASSUME NEW a \in ByteValue, NEW b \in ByteValue
    PROVE  /\ a \div 4 \in CharValue
           /\ (a % 4) * 16 + b \div 16 \in CharValue
           /\ (a % 16) * 4 + b \div 64 \in CharValue
           /\ a % 64 \in CharValue
  BY DEF ByteValue, CharValue

\* The bits that make a byte.
LEMMA EightBits ==
    ASSUME NEW a \in CharValue, NEW b \in CharValue
    PROVE  /\ a * 4 + b \div 16 \in ByteValue
           /\ (a % 16) * 16 + b \div 4 \in ByteValue
           /\ (a % 4) * 64 + b \in ByteValue
  BY DEF ByteValue, CharValue

\* The character outside the alphabet is no character of it.
LEMMA ForeignIsForeign == Foreign \notin CharValue /\ Foreign \in Nat
  <1>1. Foreign \in Nat \ (0 .. 63)
    BY FormatsAssumption
  <1> QED  BY <1>1 DEF CharValue

\* Whatever is encoded is in the alphabet, and is no text that atob refuses.
LEMMA EncodedIsText ==
    ASSUME NEW bytes \in Seq(ByteValue)
    PROVE  /\ EncodeBase64Url(bytes) \in Seq(CharValue)
           /\ Len(EncodeBase64Url(bytes)) = Encoded(Len(bytes))
           /\ Decodes(EncodeBase64Url(bytes))
  <1> DEFINE chars == EncodeBase64Url(bytes)
             length == Encoded(Len(bytes))
  <1>1. length \in Nat /\ length % 4 # 1
    BY DEF Encoded
  <1>2. DOMAIN chars = 1 .. length /\ chars = [i \in 1 .. length |-> chars[i]]
    BY DEF EncodeBase64Url, Encoded
  <1>3. \A n \in Nat : ByteAt(bytes, n) \in ByteValue
    <2>1. DOMAIN bytes = 1 .. Len(bytes) /\ \A n \in 1 .. Len(bytes) : bytes[n] \in ByteValue
      OBVIOUS
    <2> QED  BY <2>1 DEF ByteAt, ByteValue
  <1>4. ASSUME NEW i \in 1 .. length
        PROVE  chars[i] \in CharValue
    <2>1. i \in Nat \ {0} /\ i <= length
      BY <1>1
    <2>2. PICK g \in Nat : i \in {4 * g + 1, 4 * g + 2, 4 * g + 3, 4 * g + 4}
      BY <2>1, PlaceInFour
    <2> DEFINE B(n) == ByteAt(bytes, 3 * g + n)
    <2>3. B(1) \in ByteValue /\ B(2) \in ByteValue /\ B(3) \in ByteValue
      BY <1>3
    <2>4. chars[i] \in {B(1) \div 4, (B(1) % 4) * 16 + B(2) \div 16, (B(2) % 16) * 4 + B(3) \div 64, B(3) % 64}
      BY <2>1, <2>2, EncodedGroup
    <2> HIDE DEF B, chars
    <2> QED  BY <2>3, <2>4, SixBits
  <1> HIDE DEF chars, length
  <1>5. chars \in [1 .. length -> CharValue]
    BY <1>2, <1>4
  <1>6. chars \in Seq(CharValue) /\ Len(chars) = length
    BY <1>1, <1>5
  <1>7. \A i \in DOMAIN chars : chars[i] # Foreign
    BY <1>5, ForeignIsForeign
  <1> QED  BY <1>1, <1>6, <1>7 DEF chars, length, Decodes, InAlphabet

\* Whatever is decoded is a sequence of bytes.
LEMMA DecodedIsBytes ==
    ASSUME NEW chars \in Seq(CharValue)
    PROVE  /\ DecodeBase64Url(chars) \in [1 .. Decoded(Len(chars)) -> ByteValue]
           /\ DecodeBase64Url(chars) \in Seq(ByteValue)
           /\ Len(DecodeBase64Url(chars)) = Decoded(Len(chars))
  <1> DEFINE bytes == DecodeBase64Url(chars)
             length == Decoded(Len(chars))
  <1>1. length \in Nat
    BY DEF Decoded
  <1>2. DOMAIN bytes = 1 .. length /\ bytes = [i \in 1 .. length |-> bytes[i]]
    BY DEF DecodeBase64Url, Decoded
  <1>3. ASSUME NEW i \in 1 .. length
        PROVE  bytes[i] \in ByteValue
    <2>1. i \in Nat \ {0} /\ i <= length
      BY <1>1
    <2>2. PICK g \in Nat : i \in {3 * g + 1, 3 * g + 2, 3 * g + 3}
      BY <2>1, PlaceInThree
    <2>3. \A n \in 1 .. Len(chars) : chars[n] \in CharValue
      OBVIOUS
    <2>4. /\ i = 3 * g + 1 => 4 * g + 2 <= Len(chars)
          /\ i = 3 * g + 2 => 4 * g + 3 <= Len(chars)
          /\ i = 3 * g + 3 => 4 * g + 4 <= Len(chars)
      BY <2>1, <2>2 DEF Decoded
    <2> DEFINE C(n) == chars[4 * g + n]
    <2>5. CASE i = 3 * g + 1
      <3>1. bytes[i] = C(1) * 4 + C(2) \div 16 /\ C(1) \in CharValue /\ C(2) \in CharValue
        BY <2>1, <2>3, <2>4, <2>5, DecodedGroup
      <3> HIDE DEF C, bytes
      <3> QED  BY <3>1, EightBits
    <2>6. CASE i = 3 * g + 2
      <3>1. bytes[i] = (C(2) % 16) * 16 + C(3) \div 4 /\ C(2) \in CharValue /\ C(3) \in CharValue
        BY <2>1, <2>3, <2>4, <2>6, DecodedGroup
      <3> HIDE DEF C, bytes
      <3> QED  BY <3>1, EightBits
    <2>7. CASE i = 3 * g + 3
      <3>1. bytes[i] = (C(3) % 4) * 64 + C(4) /\ C(3) \in CharValue /\ C(4) \in CharValue
        BY <2>1, <2>3, <2>4, <2>7, DecodedGroup
      <3> HIDE DEF C, bytes
      <3> QED  BY <3>1, EightBits
    <2> QED  BY <2>2, <2>5, <2>6, <2>7
  <1> HIDE DEF bytes, length
  <1>4. bytes \in [1 .. length -> ByteValue]
    BY <1>2, <1>3
  <1>5. bytes \in Seq(ByteValue) /\ Len(bytes) = length
    BY <1>1, <1>4
  <1> QED  BY <1>4, <1>5 DEF bytes, length
-----------------------------------------------------------------------------
(***************************************************************************)
(* base64url, there and back.                                              *)
(***************************************************************************)
\* A number and the few bits below it come apart again.
LEMMA Unpacked ==
    ASSUME NEW q \in Nat
    PROVE  /\ \A r \in 0 .. 15 : (q * 16 + r) \div 16 = q /\ (q * 16 + r) % 16 = r
           /\ \A r \in 0 .. 3 : (q * 4 + r) \div 4 = q /\ (q * 4 + r) % 4 = r
  OBVIOUS

\* Three bytes are the bits of their four characters.
LEMMA BytesOfChars ==
    ASSUME NEW a \in ByteValue, NEW b \in ByteValue, NEW c \in ByteValue
    PROVE  /\ (a \div 4) * 4 + ((a % 4) * 16 + b \div 16) \div 16 = a
           /\ (((a % 4) * 16 + b \div 16) % 16) * 16 + ((b % 16) * 4 + c \div 64) \div 4 = b
           /\ (((b % 16) * 4 + c \div 64) % 4) * 64 + (c % 64) = c
  <1>1. a % 4 \in Nat /\ b \div 16 \in 0 .. 15 /\ (a \div 4) * 4 + (a % 4) = a
    BY DEF ByteValue
  <1>2. b % 16 \in Nat /\ c \div 64 \in 0 .. 3 /\ (b \div 16) * 16 + (b % 16) = b
    BY DEF ByteValue
  <1>3. c % 64 \in Nat /\ (c \div 64) * 64 + (c % 64) = c
    BY DEF ByteValue
  <1>4. ((a % 4) * 16 + b \div 16) \div 16 = a % 4 /\ ((a % 4) * 16 + b \div 16) % 16 = b \div 16
    BY <1>1, Unpacked
  <1>5. ((b % 16) * 4 + c \div 64) \div 4 = b % 16 /\ ((b % 16) * 4 + c \div 64) % 4 = c \div 64
    BY <1>2, Unpacked
  <1> QED  BY <1>1, <1>2, <1>3, <1>4, <1>5

\* Four characters are the bits of their three bytes.
LEMMA CharsOfBytes ==
    ASSUME NEW p \in CharValue, NEW q \in CharValue, NEW r \in CharValue, NEW s \in CharValue,
           NEW a, NEW b, NEW c,
           a = p * 4 + q \div 16, b = (q % 16) * 16 + r \div 4, c = (r % 4) * 64 + s
    PROVE  /\ a \div 4 = p
           /\ (a % 4) * 16 + b \div 16 = q
           /\ (b % 16) * 4 + c \div 64 = r
           /\ c % 64 = s
  BY DEF CharValue

\* Bytes are read back as they were written, however many they are.
LEMMA DecodesWhatWasEncoded ==
    ASSUME NEW bytes \in Seq(ByteValue)
    PROVE  DecodeBase64Url(EncodeBase64Url(bytes)) = bytes
  <1> DEFINE chars == EncodeBase64Url(bytes)
             read == DecodeBase64Url(chars)
             length == Len(bytes)
  <1>1. length \in Nat /\ Decoded(Encoded(length)) = length
    BY DEF Decoded, Encoded
  <1>2. chars \in Seq(CharValue) /\ Len(chars) = Encoded(length)
    BY EncodedIsText
  <1>3. read \in Seq(ByteValue) /\ Len(read) = length
    BY <1>1, <1>2, DecodedIsBytes
  <1>4. \A n \in Nat : ByteAt(bytes, n) \in ByteValue
    <2>1. DOMAIN bytes = 1 .. Len(bytes) /\ \A n \in 1 .. Len(bytes) : bytes[n] \in ByteValue
      OBVIOUS
    <2> QED  BY <2>1 DEF ByteAt, ByteValue
  <1>5. ASSUME NEW i \in 1 .. length
        PROVE  read[i] = bytes[i]
    <2>1. i \in Nat \ {0} /\ i <= length /\ bytes[i] = ByteAt(bytes, i)
      BY <1>1 DEF ByteAt
    <2>2. PICK g \in Nat : i \in {3 * g + 1, 3 * g + 2, 3 * g + 3}
      BY <2>1, PlaceInThree
    <2>3. PICK a \in ByteValue, b \in ByteValue, c \in ByteValue :
              /\ a = ByteAt(bytes, 3 * g + 1)
              /\ b = ByteAt(bytes, 3 * g + 2)
              /\ c = ByteAt(bytes, 3 * g + 3)
      BY <1>4
    <2>4. /\ i = 3 * g + 1 => 4 * g + 2 <= Len(chars)
          /\ i = 3 * g + 2 => 4 * g + 3 <= Len(chars)
          /\ i = 3 * g + 3 => 4 * g + 4 <= Len(chars)
      BY <1>2, <2>1, <2>2 DEF Encoded
    <2>5. /\ 4 * g + 1 <= Len(chars) => chars[4 * g + 1] = a \div 4
          /\ 4 * g + 2 <= Len(chars) => chars[4 * g + 2] = (a % 4) * 16 + b \div 16
          /\ 4 * g + 3 <= Len(chars) => chars[4 * g + 3] = (b % 16) * 4 + c \div 64
          /\ 4 * g + 4 <= Len(chars) => chars[4 * g + 4] = c % 64
      BY <1>2, <2>3, EncodedGroup
    <2> HIDE DEF chars, read
    <2>6. /\ 3 * g + 1 <= length => read[3 * g + 1] = chars[4 * g + 1] * 4 + chars[4 * g + 2] \div 16
          /\ 3 * g + 2 <= length =>
                 read[3 * g + 2] = (chars[4 * g + 2] % 16) * 16 + chars[4 * g + 3] \div 4
          /\ 3 * g + 3 <= length => read[3 * g + 3] = (chars[4 * g + 3] % 4) * 64 + chars[4 * g + 4]
      <3>1. read = DecodeBase64Url(chars) /\ length = Decoded(Len(chars))
        BY <1>1, <1>2 DEF read
      <3>2. /\ 3 * g + 1 <= Decoded(Len(chars)) =>
                   DecodeBase64Url(chars)[3 * g + 1] = chars[4 * g + 1] * 4 + chars[4 * g + 2] \div 16
            /\ 3 * g + 2 <= Decoded(Len(chars)) =>
                   DecodeBase64Url(chars)[3 * g + 2] = (chars[4 * g + 2] % 16) * 16 + chars[4 * g + 3] \div 4
            /\ 3 * g + 3 <= Decoded(Len(chars)) =>
                   DecodeBase64Url(chars)[3 * g + 3] = (chars[4 * g + 3] % 4) * 64 + chars[4 * g + 4]
        BY <1>2, DecodedGroup
      <3> QED  BY ONLY <3>1, <3>2
    <2>7. CASE i = 3 * g + 1
      <3>1. chars[4 * g + 1] = a \div 4 /\ chars[4 * g + 2] = (a % 4) * 16 + b \div 16
        BY <1>2, <2>4, <2>5, <2>7 DEF Encoded
      <3> QED  BY <2>1, <2>3, <2>6, <2>7, <3>1, BytesOfChars
    <2>8. CASE i = 3 * g + 2
      <3>1. chars[4 * g + 2] = (a % 4) * 16 + b \div 16 /\ chars[4 * g + 3] = (b % 16) * 4 + c \div 64
        BY <1>2, <2>4, <2>5, <2>8 DEF Encoded
      <3> QED  BY <2>1, <2>3, <2>6, <2>8, <3>1, BytesOfChars
    <2>9. CASE i = 3 * g + 3
      <3>1. chars[4 * g + 3] = (b % 16) * 4 + c \div 64 /\ chars[4 * g + 4] = c % 64
        BY <1>2, <2>4, <2>5, <2>9 DEF Encoded
      <3>2. read[3 * g + 3] = (chars[4 * g + 3] % 4) * 64 + chars[4 * g + 4]
        BY <2>1, <2>6, <2>9
      <3>3. (((b % 16) * 4 + c \div 64) % 4) * 64 + (c % 64) = c
        BY BytesOfChars
      <3> QED  BY <2>1, <2>3, <2>9, <3>1, <3>2, <3>3
    <2> QED  BY <2>2, <2>7, <2>8, <2>9
  <1> HIDE DEF read
  <1>6. DOMAIN read = DOMAIN bytes
    BY <1>1, <1>3
  <1> QED  BY <1>3, <1>5, <1>6 DEF read

\* Whole groups have one text: no bit of it is left over.
LEMMA EncodesWhatWasDecoded ==
    ASSUME NEW chars \in Seq(CharValue), Len(chars) % 4 = 0
    PROVE  EncodeBase64Url(DecodeBase64Url(chars)) = chars
  <1> DEFINE bytes == DecodeBase64Url(chars)
             text == EncodeBase64Url(bytes)
             length == Len(chars)
  <1>1. length \in Nat /\ Encoded(Decoded(length)) = length
    BY DEF Decoded, Encoded
  <1>2. bytes \in Seq(ByteValue) /\ Len(bytes) = Decoded(length)
    BY DecodedIsBytes
  <1>3. text \in Seq(CharValue) /\ Len(text) = length
    BY <1>1, <1>2, EncodedIsText
  <1>4. ASSUME NEW i \in 1 .. length
        PROVE  text[i] = chars[i]
    <2>1. i \in Nat \ {0} /\ i <= length
      BY <1>1
    <2>2. PICK g \in Nat : i \in {4 * g + 1, 4 * g + 2, 4 * g + 3, 4 * g + 4}
      BY <2>1, PlaceInFour
    <2>3. 4 * g + 4 <= length /\ 3 * g + 3 <= Decoded(length)
      BY <1>1, <2>1, <2>2 DEF Decoded
    <2>4. \A n \in 1 .. length : chars[n] \in CharValue
      OBVIOUS
    <2>5. PICK p \in CharValue, q \in CharValue, r \in CharValue, s \in CharValue :
              /\ p = chars[4 * g + 1]
              /\ q = chars[4 * g + 2]
              /\ r = chars[4 * g + 3]
              /\ s = chars[4 * g + 4]
      BY <1>1, <2>3, <2>4
    <2>6. /\ bytes[3 * g + 1] = p * 4 + q \div 16
          /\ bytes[3 * g + 2] = (q % 16) * 16 + r \div 4
          /\ bytes[3 * g + 3] = (r % 4) * 64 + s
      <3>1. 3 * g + 1 <= Decoded(length) /\ 3 * g + 2 <= Decoded(length)
        BY <1>1, <2>3 DEF Decoded
      <3>2. /\ bytes[3 * g + 1] = chars[4 * g + 1] * 4 + chars[4 * g + 2] \div 16
            /\ bytes[3 * g + 2] = (chars[4 * g + 2] % 16) * 16 + chars[4 * g + 3] \div 4
            /\ bytes[3 * g + 3] = (chars[4 * g + 3] % 4) * 64 + chars[4 * g + 4]
        BY <2>3, <3>1, DecodedGroup
      <3> HIDE DEF bytes
      <3> QED  BY <2>5, <3>2
    <2> HIDE DEF bytes, text
    <2>7. \A n \in 1 .. 3 : ByteAt(bytes, 3 * g + n) = bytes[3 * g + n]
      BY <1>1, <1>2, <2>3 DEF ByteAt, Decoded
    <2>8. /\ text[4 * g + 1] = bytes[3 * g + 1] \div 4
          /\ text[4 * g + 2] = (bytes[3 * g + 1] % 4) * 16 + bytes[3 * g + 2] \div 16
          /\ text[4 * g + 3] = (bytes[3 * g + 2] % 16) * 4 + bytes[3 * g + 3] \div 64
          /\ text[4 * g + 4] = bytes[3 * g + 3] % 64
      BY <1>1, <1>2, <2>3, <2>7, EncodedGroup, SMTT(20) DEF text
    <2>9. /\ text[4 * g + 1] = p
          /\ text[4 * g + 2] = q
          /\ text[4 * g + 3] = r
          /\ text[4 * g + 4] = s
      BY <2>6, <2>8, CharsOfBytes
    <2> QED  BY <2>2, <2>5, <2>9
  <1> HIDE DEF text
  <1>5. DOMAIN text = DOMAIN chars
    BY <1>3
  <1> QED  BY <1>3, <1>4, <1>5 DEF text

-----------------------------------------------------------------------------
(***************************************************************************)
(* Version numbers, there and back.                                        *)
(***************************************************************************)
\* The powers of ten that four places have.
LEMMA PowersOfTen == 10 ^ 0 = 1 /\ 10 ^ 1 = 10 /\ 10 ^ 2 = 100 /\ 10 ^ 3 = 1000 /\ 10 ^ 4 = 10000
  OBVIOUS

\* The digits of a version that has length of them.
DigitsIn(v, length) == [i \in 1 .. length |-> 52 + ((v \div (10 ^ (length - i))) % 10)]

\* The digits are as many as the version is long, by its size.
LEMMA DigitsOfLength ==
    ASSUME NEW v \in Nat, v >= 1, v < 10000
    PROVE  /\ v < 10 => Digits(v) = DigitsIn(v, 1)
           /\ v >= 10 /\ v < 100 => Digits(v) = DigitsIn(v, 2)
           /\ v >= 100 /\ v < 1000 => Digits(v) = DigitsIn(v, 3)
           /\ v >= 1000 => Digits(v) = DigitsIn(v, 4)
  <1> DEFINE P(n) == v < 10 ^ n /\ (n = 1 \/ v >= (10 ^ (n - 1)))
             chosen == CHOOSE n \in 1 .. 4 : P(n)
  <1>1. Digits(v) = DigitsIn(v, chosen)
    BY DEF Digits, DigitsIn
  <1>2. /\ P(1) <=> v < 10
        /\ P(2) <=> v < 100 /\ v >= 10
        /\ P(3) <=> v < 1000 /\ v >= 100
        /\ P(4) <=> v < 10000 /\ v >= 1000
    BY PowersOfTen
  <1> HIDE DEF P
  <1>3. \A n \in 1 .. 4 : n = 1 \/ n = 2 \/ n = 3 \/ n = 4
    OBVIOUS
  <1>4. ASSUME NEW length \in 1 .. 4, P(length), \A n \in 1 .. 4 : P(n) => n = length
        PROVE  chosen = length
    BY <1>4
  <1> HIDE DEF chosen
  <1>5. ASSUME v < 10
        PROVE  chosen = 1
    BY <1>2, <1>3, <1>4, <1>5
  <1>6. ASSUME v >= 10, v < 100
        PROVE  chosen = 2
    BY <1>2, <1>3, <1>4, <1>6
  <1>7. ASSUME v >= 100, v < 1000
        PROVE  chosen = 3
    BY <1>2, <1>3, <1>4, <1>7
  <1>8. ASSUME v >= 1000
        PROVE  chosen = 4
    BY <1>2, <1>3, <1>4, <1>8
  <1> QED  BY <1>1, <1>5, <1>6, <1>7, <1>8

\* The number that one digit stands for.
LEMMA OneDigitIsRead ==
    ASSUME NEW d, Len(d) = 1, DOMAIN d = 1 .. 1, d[1] \in Int
    PROVE  Number(d) = (d[1] - 52)
  <1> DEFINE Place(i) == IF i \in DOMAIN d THEN (d[i] - 52) * (10 ^ (Len(d) - i)) ELSE 0
             p == d[1] - 52
  <1>1. Number(d) = Place(1) + Place(2) + Place(3) + Place(4)
    BY DEF Number
  <1>2. p \in Int
    OBVIOUS
  <1>3. Place(1) = p /\ Place(2) = 0 /\ Place(3) = 0 /\ Place(4) = 0
    BY <1>2, PowersOfTen
  <1> HIDE DEF Place, p
  <1>4. Number(d) = p
    BY <1>1, <1>2, <1>3
  <1> QED  BY <1>4 DEF p

\* The number that two digits stand for.
LEMMA TwoDigitsAreRead ==
    ASSUME NEW d, Len(d) = 2, DOMAIN d = 1 .. 2, d[1] \in Int, d[2] \in Int
    PROVE  Number(d) = 10 * (d[1] - 52) + (d[2] - 52)
  <1> DEFINE Place(i) == IF i \in DOMAIN d THEN (d[i] - 52) * (10 ^ (Len(d) - i)) ELSE 0
             p == d[1] - 52
             q == d[2] - 52
  <1>1. Number(d) = Place(1) + Place(2) + Place(3) + Place(4)
    BY DEF Number
  <1>2. p \in Int /\ q \in Int
    OBVIOUS
  <1>3. Place(1) = 10 * p /\ Place(2) = q /\ Place(3) = 0 /\ Place(4) = 0
    BY <1>2, PowersOfTen
  <1> HIDE DEF Place, p, q
  <1>4. Number(d) = 10 * p + q
    BY <1>1, <1>2, <1>3
  <1> QED  BY <1>4 DEF p, q

\* The number that three digits stand for.
LEMMA ThreeDigitsAreRead ==
    ASSUME NEW d, Len(d) = 3, DOMAIN d = 1 .. 3, d[1] \in Int, d[2] \in Int, d[3] \in Int
    PROVE  Number(d) = 100 * (d[1] - 52) + 10 * (d[2] - 52) + (d[3] - 52)
  <1> DEFINE Place(i) == IF i \in DOMAIN d THEN (d[i] - 52) * (10 ^ (Len(d) - i)) ELSE 0
             p == d[1] - 52
             q == d[2] - 52
             r == d[3] - 52
  <1>1. Number(d) = Place(1) + Place(2) + Place(3) + Place(4)
    BY DEF Number
  <1>2. p \in Int /\ q \in Int /\ r \in Int
    OBVIOUS
  <1>3. Place(1) = 100 * p /\ Place(2) = 10 * q /\ Place(3) = r /\ Place(4) = 0
    BY <1>2, PowersOfTen
  <1> HIDE DEF Place, p, q, r
  <1>4. Number(d) = 100 * p + 10 * q + r
    BY <1>1, <1>2, <1>3
  <1> QED  BY <1>4 DEF p, q, r

\* The number four digits stand for.
ValueOfFour(d) == 1000 * (d[1] - 52) + 100 * (d[2] - 52) + 10 * (d[3] - 52) + (d[4] - 52)

\* The number that four digits stand for.
LEMMA FourDigitsAreRead ==
    ASSUME NEW d, Len(d) = 4, DOMAIN d = 1 .. 4, d[1] \in Int, d[2] \in Int, d[3] \in Int, d[4] \in Int
    PROVE  Number(d) = ValueOfFour(d)
  <1> DEFINE Place(i) == IF i \in DOMAIN d THEN (d[i] - 52) * (10 ^ (Len(d) - i)) ELSE 0
             p == d[1] - 52
             q == d[2] - 52
             r == d[3] - 52
             s == d[4] - 52
  <1>1. Number(d) = Place(1) + Place(2) + Place(3) + Place(4)
    BY DEF Number
  <1>2. p \in Int /\ q \in Int /\ r \in Int /\ s \in Int
    OBVIOUS
  <1>3. Place(1) = 1000 * p /\ Place(2) = 100 * q /\ Place(3) = 10 * r /\ Place(4) = s
    BY <1>2, PowersOfTen
  <1> HIDE DEF Place, p, q, r, s
  <1>4. Number(d) = 1000 * p + 100 * q + 10 * r + s
    BY <1>1, <1>2, <1>3
  <1> QED  BY <1>4 DEF p, q, r, s, ValueOfFour

\* How a version of one digit is written.
LEMMA OneDigitIsWritten ==
    ASSUME NEW v \in Nat, v >= 1, v < 10
    PROVE  Digits(v) = <<52 + v>>
  <1>1. Digits(v) = DigitsIn(v, 1)
    BY DigitsOfLength
  <1>2. /\ (v \div (10 ^ 0)) % 10 = v
    BY PowersOfTen
  <1> QED  BY <1>1, <1>2 DEF DigitsIn

\* How a version of two digits is written.
LEMMA TwoDigitsAreWritten ==
    ASSUME NEW v \in Nat, v >= 10, v < 100
    PROVE  Digits(v) = <<52 + (v \div 10), 52 + (v % 10)>>
  <1>1. Digits(v) = DigitsIn(v, 2)
    BY DigitsOfLength
  <1>2. /\ (v \div (10 ^ 1)) % 10 = (v \div 10)
        /\ (v \div (10 ^ 0)) % 10 = (v % 10)
    BY PowersOfTen
  <1> QED  BY <1>1, <1>2 DEF DigitsIn

\* How a version of three digits is written.
LEMMA ThreeDigitsAreWritten ==
    ASSUME NEW v \in Nat, v >= 100, v < 1000
    PROVE  Digits(v) = <<52 + (v \div 100), 52 + ((v \div 10) % 10), 52 + (v % 10)>>
  <1>1. Digits(v) = DigitsIn(v, 3)
    BY DigitsOfLength
  <1>2. /\ (v \div (10 ^ 2)) % 10 = (v \div 100)
        /\ (v \div (10 ^ 1)) % 10 = ((v \div 10) % 10)
        /\ (v \div (10 ^ 0)) % 10 = (v % 10)
    BY PowersOfTen
  <1> QED  BY <1>1, <1>2 DEF DigitsIn

\* How a version of four digits is written.
LEMMA FourDigitsAreWritten ==
    ASSUME NEW v \in Nat, v >= 1000, v < 10000
    PROVE  Digits(v) = <<52 + (v \div 1000), 52 + ((v \div 100) % 10), 52 + ((v \div 10) % 10), 52 + (v % 10)>>
  <1>1. Digits(v) = DigitsIn(v, 4)
    BY DigitsOfLength
  <1>2. /\ (v \div (10 ^ 3)) % 10 = (v \div 1000)
        /\ (v \div (10 ^ 2)) % 10 = ((v \div 100) % 10)
        /\ (v \div (10 ^ 1)) % 10 = ((v \div 10) % 10)
        /\ (v \div (10 ^ 0)) % 10 = (v % 10)
    BY PowersOfTen
  <1> QED  BY <1>1, <1>2 DEF DigitsIn

\* A version is written without leading zeros and read back.
LEMMA VersionsAreRead ==
    ASSUME NEW v \in Version
    PROVE  /\ Digits(v) \in Seq(CharValue)
           /\ IsVersion(Digits(v))
           /\ Number(Digits(v)) = v
  <1> DEFINE d == Digits(v)
  <1>1. v \in Nat /\ v >= 1 /\ v < 10000
    BY DEF Version
  <1>2. ASSUME Len(d) \in 1 .. 4, DOMAIN d = 1 .. Len(d), d = [i \in 1 .. Len(d) |-> d[i]],
               d[1] \in 53 .. 61, \A i \in 1 .. Len(d) : d[i] \in 52 .. 61
        PROVE  d \in Seq(CharValue) /\ IsVersion(d)
    <2>1. d \in [1 .. Len(d) -> CharValue]
      BY <1>2 DEF CharValue
    <2> QED  BY <1>2, <2>1 DEF IsVersion
  <1>3. CASE v < 10
    <2>1. d = <<52 + v>>
      BY <1>1, <1>3, OneDigitIsWritten
    <2>2. Len(d) = 1 /\ DOMAIN d = 1 .. 1 /\ d = [i \in 1 .. 1 |-> d[i]]
      BY <2>1
    <2>3. d[1] \in 53 .. 61
      BY <1>1, <1>3, <2>1
    <2>4. v = (d[1] - 52)
      BY <1>1, <1>3, <2>1
    <2> HIDE DEF d
    <2>5. Len(d) \in 1 .. 4 /\ DOMAIN d = 1 .. Len(d) /\ \A i \in 1 .. Len(d) : d[i] \in 52 .. 61
      BY <2>2, <2>3
    <2>6. Number(d) = (d[1] - 52)
      BY <2>2, <2>3, OneDigitIsRead
    <2>7. Number(d) = v
      BY <2>4, <2>6
    <2> QED  BY <1>2, <2>2, <2>3, <2>5, <2>7 DEF d
  <1>4. CASE v >= 10 /\ v < 100
    <2>1. d = <<52 + (v \div 10), 52 + (v % 10)>>
      BY <1>1, <1>4, TwoDigitsAreWritten
    <2>2. Len(d) = 2 /\ DOMAIN d = 1 .. 2 /\ d = [i \in 1 .. 2 |-> d[i]]
      BY <2>1
    <2>3. d[1] \in 53 .. 61 /\ d[2] \in 52 .. 61
      BY <1>1, <1>4, <2>1
    <2>4. v = 10 * (d[1] - 52) + (d[2] - 52)
      BY <1>1, <1>4, <2>1
    <2> HIDE DEF d
    <2>5. Len(d) \in 1 .. 4 /\ DOMAIN d = 1 .. Len(d) /\ \A i \in 1 .. Len(d) : d[i] \in 52 .. 61
      BY <2>2, <2>3
    <2>6. Number(d) = 10 * (d[1] - 52) + (d[2] - 52)
      BY <2>2, <2>3, TwoDigitsAreRead
    <2>7. Number(d) = v
      BY <2>4, <2>6
    <2> QED  BY <1>2, <2>2, <2>3, <2>5, <2>7 DEF d
  <1>5. CASE v >= 100 /\ v < 1000
    <2>1. d = <<52 + (v \div 100), 52 + ((v \div 10) % 10), 52 + (v % 10)>>
      BY <1>1, <1>5, ThreeDigitsAreWritten
    <2>2. Len(d) = 3 /\ DOMAIN d = 1 .. 3 /\ d = [i \in 1 .. 3 |-> d[i]]
      BY <2>1
    <2>3. d[1] \in 53 .. 61 /\ d[2] \in 52 .. 61 /\ d[3] \in 52 .. 61
      BY <1>1, <1>5, <2>1
    <2>4. v = 100 * (d[1] - 52) + 10 * (d[2] - 52) + (d[3] - 52)
      BY <1>1, <1>5, <2>1
    <2> HIDE DEF d
    <2>5. Len(d) \in 1 .. 4 /\ DOMAIN d = 1 .. Len(d) /\ \A i \in 1 .. Len(d) : d[i] \in 52 .. 61
      BY <2>2, <2>3
    <2>6. Number(d) = 100 * (d[1] - 52) + 10 * (d[2] - 52) + (d[3] - 52)
      BY <2>2, <2>3, ThreeDigitsAreRead
    <2>7. Number(d) = v
      BY <2>4, <2>6
    <2> QED  BY <1>2, <2>2, <2>3, <2>5, <2>7 DEF d
  <1>6. CASE v >= 1000
    <2>1. d = <<52 + (v \div 1000), 52 + ((v \div 100) % 10), 52 + ((v \div 10) % 10), 52 + (v % 10)>>
      BY <1>1, <1>6, FourDigitsAreWritten
    <2>2. Len(d) = 4 /\ DOMAIN d = 1 .. 4 /\ d = [i \in 1 .. 4 |-> d[i]]
      BY <2>1
    <2>3. d[1] \in 53 .. 61 /\ d[2] \in 52 .. 61 /\ d[3] \in 52 .. 61 /\ d[4] \in 52 .. 61
      BY <1>1, <1>6, <2>1
    <2>4. v = 1000 * (d[1] - 52) + 100 * (d[2] - 52) + 10 * (d[3] - 52) + (d[4] - 52)
      BY <1>1, <1>6, <2>1
    <2> HIDE DEF d
    <2>5. Len(d) \in 1 .. 4 /\ DOMAIN d = 1 .. Len(d) /\ \A i \in 1 .. Len(d) : d[i] \in 52 .. 61
      BY <2>2, <2>3
    <2>6. Number(d) = 1000 * (d[1] - 52) + 100 * (d[2] - 52) + 10 * (d[3] - 52) + (d[4] - 52)
      <3>1. d[1] \in Int /\ d[2] \in Int /\ d[3] \in Int /\ d[4] \in Int
        BY <2>3
      <3>2. Number(d) = ValueOfFour(d)
        BY ONLY <2>2, <3>1, FourDigitsAreRead, Zenon
      <3> QED  BY <3>2 DEF ValueOfFour
    <2>7. Number(d) = v
      BY <2>4, <2>6
    <2> QED  BY <1>2, <2>2, <2>3, <2>5, <2>7 DEF d
  <1> QED  BY <1>1, <1>3, <1>4, <1>5, <1>6

\* Numbers of up to four digits are versions.
LEMMA VersionRange ==
    ASSUME NEW v \in Nat, v >= 1, v < 10000
    PROVE  v \in Version
  BY SMTT(20) DEF Version

\* What is accepted as a version is how that version is written.
LEMMA VersionsHaveOneText ==
    ASSUME NEW d \in Seq(CharValue), IsVersion(d)
    PROVE  Number(d) \in Version /\ Digits(Number(d)) = d
  <1> DEFINE v == Number(d)
  <1>1. /\ Len(d) \in 1 .. 4 /\ DOMAIN d = 1 .. Len(d)
        /\ d[1] \in 53 .. 61 /\ \A i \in 1 .. Len(d) : d[i] \in 52 .. 61
    BY DEF IsVersion
  <1>2. CASE Len(d) = 1
    <2> DEFINE p == d[1] - 52
    <2>1. p \in 1 .. 9
      BY <1>1, <1>2
    <2>2. v = p
      BY <1>1, <1>2, OneDigitIsRead
    <2>3. d = <<52 + p>>
      BY <1>1, <1>2
    <2> HIDE DEF v, p
    <2>4. v \in Nat /\ v >= 1 /\ v < 10
      BY <2>1, <2>2
    <2>5. v = p
      BY <2>1, <2>2
    <2>6. Digits(v) = <<52 + v>>
      BY <2>4, OneDigitIsWritten
    <2>7. v \in Version
      BY <2>4, VersionRange
    <2> QED  BY <2>3, <2>5, <2>6, <2>7 DEF v
  <1>3. CASE Len(d) = 2
    <2> DEFINE p == d[1] - 52
               q == d[2] - 52
    <2>1. p \in 1 .. 9 /\ q \in 0 .. 9
      BY <1>1, <1>3
    <2>2. v = 10 * p + q
      BY <1>1, <1>3, TwoDigitsAreRead
    <2>3. d = <<52 + p, 52 + q>>
      BY <1>1, <1>3
    <2> HIDE DEF v, p, q
    <2>4. v \in Nat /\ v >= 10 /\ v < 100
      BY <2>1, <2>2
    <2>5. v \div 10 = p /\ v % 10 = q
      BY <2>1, <2>2
    <2>6. Digits(v) = <<52 + (v \div 10), 52 + (v % 10)>>
      BY <2>4, TwoDigitsAreWritten
    <2>7. v \in Version
      BY <2>4, VersionRange
    <2> QED  BY <2>3, <2>5, <2>6, <2>7 DEF v
  <1>4. CASE Len(d) = 3
    <2> DEFINE p == d[1] - 52
               q == d[2] - 52
               r == d[3] - 52
    <2>1. p \in 1 .. 9 /\ q \in 0 .. 9 /\ r \in 0 .. 9
      BY <1>1, <1>4
    <2>2. v = 100 * p + 10 * q + r
      <3>1. d[1] \in Int /\ d[2] \in Int /\ d[3] \in Int
        BY <1>1, <1>4
      <3>2. Len(d) = 3 /\ DOMAIN d = 1 .. 3
        BY <1>1, <1>4
      <3> QED  BY <3>1, <3>2, ThreeDigitsAreRead
    <2>3. d = <<52 + p, 52 + q, 52 + r>>
      BY <1>1, <1>4
    <2> HIDE DEF v, p, q, r
    <2>4. v \in Nat /\ v >= 100 /\ v < 1000
      BY <2>1, <2>2
    <2>5. v \div 100 = p /\ (v \div 10) % 10 = q /\ v % 10 = r
      BY <2>1, <2>2
    <2>6. Digits(v) = <<52 + (v \div 100), 52 + ((v \div 10) % 10), 52 + (v % 10)>>
      BY <2>4, ThreeDigitsAreWritten
    <2>7. v \in Version
      BY <2>4, VersionRange
    <2> QED  BY <2>3, <2>5, <2>6, <2>7 DEF v
  <1>5. CASE Len(d) = 4
    <2> DEFINE p == d[1] - 52
               q == d[2] - 52
               r == d[3] - 52
               s == d[4] - 52
    <2>1. p \in 1 .. 9 /\ q \in 0 .. 9 /\ r \in 0 .. 9 /\ s \in 0 .. 9
      BY <1>1, <1>5
    <2>2. v = 1000 * p + 100 * q + 10 * r + s
      <3>1. d[1] \in Int /\ d[2] \in Int /\ d[3] \in Int /\ d[4] \in Int
        BY <1>1, <1>5
      <3>2. Len(d) = 4 /\ DOMAIN d = 1 .. 4
        BY <1>1, <1>5
      <3>3. Number(d) = ValueOfFour(d)
        BY ONLY <3>1, <3>2, FourDigitsAreRead, Zenon
      <3> QED  BY <3>3 DEF ValueOfFour
    <2>3. d = <<52 + p, 52 + q, 52 + r, 52 + s>>
      BY <1>1, <1>5, SMTT(30)
    <2> HIDE DEF v, p, q, r, s
    <2>4. v \in Nat /\ v >= 1000 /\ v < 10000
      BY <2>1, <2>2
    <2>5. v \div 1000 = p /\ (v \div 100) % 10 = q /\ (v \div 10) % 10 = r /\ v % 10 = s
      BY <2>1, <2>2, SMTT(30)
    <2>6. Digits(v) = <<52 + (v \div 1000), 52 + ((v \div 100) % 10), 52 + ((v \div 10) % 10), 52 + (v % 10)>>
      BY <2>4, FourDigitsAreWritten
    <2>7. v \in Version
      BY <2>4, VersionRange
    <2>8. Digits(v) = d
      BY <2>3, <2>5, <2>6
    <2> QED  BY <2>7, <2>8 DEF v
  <1>6. Len(d) \in {1, 2, 3, 4}
    BY <1>1
  <1> QED  BY <1>2, <1>3, <1>4, <1>5, <1>6

-----------------------------------------------------------------------------
(***************************************************************************)
(* Wrapped keys and envelopes.                                             *)
(***************************************************************************)
\* A character as it may stand in a store.
Char == CharValue \union {Foreign}
\* A text, as its segments.
Text == Seq(Seq(Char))

\* A function from the first numbers is a sequence of that length.
LEMMA FunctionIsSequence ==
    ASSUME NEW S, NEW n \in Nat, NEW f \in [1 .. n -> S]
    PROVE  f \in Seq(S) /\ Len(f) = n
  OBVIOUS

\* And a sequence is such a function.
LEMMA SequenceIsFunction ==
    ASSUME NEW S, NEW f \in Seq(S)
    PROVE  Len(f) \in Nat /\ DOMAIN f = 1 .. Len(f) /\ \A i \in 1 .. Len(f) : f[i] \in S
  OBVIOUS

\* What is sealed: the assumption of Formats, by its parts.
LEMMA SealedTypes ==
    /\ \A w \in WrappedKeys :
           /\ w \in KeyRecords
           /\ w = [version |-> w.version, iv |-> w.iv, ciphertext |-> w.ciphertext]
           /\ w.iv \in Seq(ByteValue) /\ Len(w.iv) = 12
           /\ w.ciphertext \in Seq(ByteValue) /\ Len(w.ciphertext) = 48
    /\ \A p \in Payloads :
           /\ p = [iv |-> p.iv, ciphertext |-> p.ciphertext]
           /\ p.iv \in Seq(ByteValue) /\ Len(p.iv) = 12
           /\ p.ciphertext \in Seq(ByteValue)
  <1>1. ASSUME NEW w \in WrappedKeys
        PROVE  /\ w \in KeyRecords
               /\ w = [version |-> w.version, iv |-> w.iv, ciphertext |-> w.ciphertext]
               /\ w.iv \in Seq(ByteValue) /\ Len(w.iv) = 12
               /\ w.ciphertext \in Seq(ByteValue) /\ Len(w.ciphertext) = 48
    <2>1. w \in KeyRecords
      BY FormatsAssumption
    <2>2. w.iv \in [1 .. 12 -> ByteValue] /\ w.ciphertext \in [1 .. 48 -> ByteValue]
      BY <2>1 DEF KeyRecords, IV_BYTE_LENGTH, WRAPPED_CIPHERTEXT_BYTE_LENGTH
    <2>3. w = [version |-> w.version, iv |-> w.iv, ciphertext |-> w.ciphertext]
      BY <2>1 DEF KeyRecords
    <2>4. w.iv \in Seq(ByteValue) /\ Len(w.iv) = 12
      <3>1. w.iv \in [1 .. 12 -> ByteValue]
        BY <2>2
      <3> QED  BY ONLY <3>1, FunctionIsSequence, 12 \in Nat, ZenonT(30)
    <2>5. w.ciphertext \in Seq(ByteValue) /\ Len(w.ciphertext) = 48
      <3>1. w.ciphertext \in [1 .. 48 -> ByteValue]
        BY <2>2
      <3> QED  BY ONLY <3>1, FunctionIsSequence, 48 \in Nat, ZenonT(30)
    <2> QED  BY <2>1, <2>3, <2>4, <2>5
  <1>2. ASSUME NEW p \in Payloads
        PROVE  /\ p = [iv |-> p.iv, ciphertext |-> p.ciphertext]
               /\ p.iv \in Seq(ByteValue) /\ Len(p.iv) = 12
               /\ p.ciphertext \in Seq(ByteValue)
    <2>1. p \in [iv : [1 .. 12 -> ByteValue], ciphertext : Seq(ByteValue)]
      BY FormatsAssumption DEF IV_BYTE_LENGTH
    <2>2. /\ p = [iv |-> p.iv, ciphertext |-> p.ciphertext]
          /\ p.iv \in [1 .. 12 -> ByteValue] /\ p.ciphertext \in Seq(ByteValue)
      BY <2>1
    <2>3. p.iv \in Seq(ByteValue) /\ Len(p.iv) = 12
      <3>1. p.iv \in [1 .. 12 -> ByteValue]
        BY <2>2
      <3> QED  BY ONLY <3>1, FunctionIsSequence, 12 \in Nat
    <2> QED  BY <2>2, <2>3
  <1> QED  BY <1>1, <1>2

\* The lengths of an iv and a wrapped ciphertext, as bytes and as text.
LEMMA TextLengths ==
    /\ Encoded(12) = 16 /\ Encoded(48) = 64
    /\ \A length \in Nat : length % 4 # 1 /\ Decoded(length) = 12 => length % 4 = 0
    /\ \A length \in Nat : length % 4 # 1 /\ Decoded(length) = 48 => length % 4 = 0
  BY DEF Encoded, Decoded

\* The test of the alphabet leaves the alphabet.
LEMMA AlphabetIsTested ==
    ASSUME NEW chars \in Seq(Char), Decodes(chars)
    PROVE  chars \in Seq(CharValue) /\ Len(chars) % 4 # 1
  BY DEF Decodes, InAlphabet, Char

\* A wrapped key is read back as the key that was wrapped.
LEMMA WrappedKeysAreRead ==
    ASSUME NEW w \in WrappedKeys
    PROVE  WrappedKeyText(w) \in Text /\ DecodeToken(WrappedKeyText(w)) = <<w>>
  <1> DEFINE version == Digits(w.version)
             iv == EncodeBase64Url(w.iv)
             ciphertext == EncodeBase64Url(w.ciphertext)
             text == <<TOKEN_PREFIX, version, iv, ciphertext>>
  <1>1. /\ w = [version |-> w.version, iv |-> w.iv, ciphertext |-> w.ciphertext]
        /\ w.version \in Version
        /\ w.iv \in Seq(ByteValue) /\ Len(w.iv) = 12
        /\ w.ciphertext \in Seq(ByteValue) /\ Len(w.ciphertext) = 48
    BY SealedTypes DEF KeyRecords
  <1>2. version \in Seq(CharValue) /\ IsVersion(version) /\ Number(version) = w.version
    BY <1>1, VersionsAreRead
  <1>3. iv \in Seq(CharValue) /\ Len(iv) = 16 /\ Decodes(iv) /\ DecodeBase64Url(iv) = w.iv
    <2>1. iv \in Seq(CharValue) /\ Len(iv) = Encoded(12) /\ Decodes(iv)
      BY <1>1, EncodedIsText, ZenonT(30)
    <2> QED  BY <1>1, <2>1, TextLengths, DecodesWhatWasEncoded
  <1>4. /\ ciphertext \in Seq(CharValue) /\ Len(ciphertext) = 64
        /\ Decodes(ciphertext) /\ DecodeBase64Url(ciphertext) = w.ciphertext
    <2>1. ciphertext \in Seq(CharValue) /\ Len(ciphertext) = Encoded(48) /\ Decodes(ciphertext)
      BY <1>1, EncodedIsText, ZenonT(30)
    <2> QED  BY <1>1, <2>1, TextLengths, DecodesWhatWasEncoded
  <1>5. TOKEN_PREFIX \in Seq(CharValue) /\ Len(TOKEN_PREFIX) = 6
    BY DEF TOKEN_PREFIX, CharValue
  <1>6. WrappedKeyText(w) = text
    BY DEF WrappedKeyText
  <1> HIDE DEF version, iv, ciphertext
  <1>7. text \in Seq(Seq(CharValue))
    BY <1>2, <1>3, <1>4, <1>5
  <1>8. Length(text) <= 256
    <2>1. Len(version) \in 1 .. 4
      BY <1>2 DEF IsVersion
    <2>2. Length(text) = Len(TOKEN_PREFIX) + Len(version) + Len(iv) + Len(ciphertext) + 4 - 1
      BY DEF Length
    <2>3. Len(TOKEN_PREFIX) = 6 /\ Len(iv) = 16 /\ Len(ciphertext) = 64
      BY <1>3, <1>4, <1>5
    <2> HIDE DEF text
    <2>4. PICK n \in 1 .. 4 : Len(version) = n
      BY <2>1
    <2>5. Length(text) = 6 + n + 16 + 64 + 4 - 1
      BY <2>2, <2>3, <2>4
    <2> QED  BY <2>5
  <1>9. DecodeToken(text) = <<[version |-> w.version, iv |-> w.iv, ciphertext |-> w.ciphertext]>>
    BY <1>1, <1>2, <1>3, <1>4, <1>8
       DEF DecodeToken, MAX_WRAPPED_KEY_LENGTH, IV_BYTE_LENGTH, WRAPPED_CIPHERTEXT_BYTE_LENGTH
  <1>10. text \in Text
    <2>1. Seq(CharValue) \subseteq Seq(Char)
      BY DEF Char
    <2> QED  BY <1>7, <2>1, SeqMonotonic DEF Text
  <1> QED  BY <1>1, <1>6, <1>9, <1>10

\* A text that is accepted as a wrapped key is the one text of that key.
LEMMA WrappedKeysHaveOneText ==
    ASSUME NEW text \in Text, DecodeToken(text) # <<>>
    PROVE  \E k \in KeyRecords : DecodeToken(text) = <<k>> /\ WrappedKeyText(k) = text
  <1> DEFINE iv == DecodeBase64Url(text[3])
             ciphertext == DecodeBase64Url(text[4])
             k == [version |-> Number(text[2]), iv |-> iv, ciphertext |-> ciphertext]
  <1>1. /\ Len(text) = 4
        /\ text[1] = TOKEN_PREFIX
        /\ IsVersion(text[2])
        /\ Decodes(text[3]) /\ Len(iv) = IV_BYTE_LENGTH
        /\ Decodes(text[4]) /\ Len(ciphertext) = WRAPPED_CIPHERTEXT_BYTE_LENGTH
        /\ DecodeToken(text) = <<k>>
    BY DEF DecodeToken
  <1>2. text[2] \in Seq(Char) /\ text[3] \in Seq(Char) /\ text[4] \in Seq(Char)
    <2>1. Len(text) = 4
      BY <1>1
    <2>2. \A i \in 1 .. Len(text) : text[i] \in Seq(Char)
      BY SequenceIsFunction DEF Text
    <2> QED  BY <2>1, <2>2
  <1>3. text[2] \in Seq(CharValue)
    <2>1. \A i \in DOMAIN text[2] : text[2][i] \in 52 .. 61
      BY <1>1 DEF IsVersion
    <2>2. \A i \in DOMAIN text[2] : text[2][i] \in CharValue
      BY <2>1 DEF CharValue
    <2> QED  BY <1>2, <2>2
  <1>4. Number(text[2]) \in Version /\ Digits(Number(text[2])) = text[2]
    BY <1>1, <1>3, VersionsHaveOneText
  <1>5. iv \in [1 .. IV_BYTE_LENGTH -> ByteValue] /\ EncodeBase64Url(iv) = text[3]
    <2>1. text[3] \in Seq(CharValue) /\ Len(text[3]) % 4 # 1
      BY <1>1, <1>2, AlphabetIsTested
    <2>2. iv \in [1 .. Decoded(Len(text[3])) -> ByteValue] /\ Len(iv) = Decoded(Len(text[3]))
      BY <2>1, DecodedIsBytes
    <2>3. Len(text[3]) \in Nat
      BY <2>1, SequenceIsFunction
    <2>4. Len(iv) = 12
      BY <1>1 DEF IV_BYTE_LENGTH
    <2>5. Len(text[3]) % 4 = 0
      <3> DEFINE length == Len(text[3])
      <3>1. length \in Nat /\ length % 4 # 1 /\ Decoded(length) = 12
        BY <2>1, <2>2, <2>3, <2>4
      <3> HIDE DEF length
      <3>2. length % 4 = 0
        BY <3>1, TextLengths
      <3> QED  BY <3>2 DEF length
    <2> QED  BY <1>1, <2>1, <2>2, <2>5, EncodesWhatWasDecoded
  <1>6. /\ ciphertext \in [1 .. WRAPPED_CIPHERTEXT_BYTE_LENGTH -> ByteValue]
        /\ EncodeBase64Url(ciphertext) = text[4]
    <2>1. text[4] \in Seq(CharValue) /\ Len(text[4]) % 4 # 1
      BY <1>1, <1>2, AlphabetIsTested
    <2>2. /\ ciphertext \in [1 .. Decoded(Len(text[4])) -> ByteValue]
          /\ Len(ciphertext) = Decoded(Len(text[4]))
      BY <2>1, DecodedIsBytes
    <2>3. Len(text[4]) \in Nat
      BY <2>1, SequenceIsFunction
    <2>4. Len(ciphertext) = 48
      BY <1>1 DEF WRAPPED_CIPHERTEXT_BYTE_LENGTH
    <2>5. Len(text[4]) % 4 = 0
      <3> DEFINE length == Len(text[4])
      <3>1. length \in Nat /\ length % 4 # 1 /\ Decoded(length) = 48
        BY <2>1, <2>2, <2>3, <2>4
      <3> HIDE DEF length
      <3>2. length % 4 = 0
        BY <3>1, TextLengths
      <3> QED  BY <3>2 DEF length
    <2> QED  BY <1>1, <2>1, <2>2, <2>5, EncodesWhatWasDecoded
  <1>7. k \in KeyRecords
    BY <1>4, <1>5, <1>6 DEF KeyRecords
  <1>8. WrappedKeyText(k) = <<text[1], text[2], text[3], text[4]>>
    BY <1>1, <1>4, <1>5, <1>6 DEF WrappedKeyText
  <1>9. text = <<text[1], text[2], text[3], text[4]>>
    BY <1>1 DEF Text
  <1> QED  BY <1>1, <1>7, <1>8, <1>9

\* A sequence of four, member by member.
LEMMA FourInATuple ==
    ASSUME NEW S, NEW f \in Seq(S), Len(f) = 4
    PROVE  f = <<f[1], f[2], f[3], f[4]>>
  OBVIOUS

\* Seven members, as an envelope has segments.
LEMMA SevenInATuple ==
    ASSUME NEW S, NEW f \in Seq(S), Len(f) = 7
    PROVE  f = <<f[1], f[2], f[3], f[4], f[5], f[6], f[7]>>
  OBVIOUS

\* Four segments between one and two: seven, with the four in the middle.
LEMMA SevenSegments ==
    ASSUME NEW S, NEW a \in S, NEW k \in Seq(S), Len(k) = 4, NEW c \in S, NEW d \in S
    PROVE  <<a>> \o k \o <<c, d>> = <<a, k[1], k[2], k[3], k[4], c, d>>
  <1> DEFINE first == <<a>>
             last == <<c, d>>
             front == first \o k
             all == front \o last
  <1>1. /\ first \in Seq(S) /\ Len(first) = 1 /\ first[1] = a
        /\ last \in Seq(S) /\ Len(last) = 2 /\ last[1] = c /\ last[2] = d
    OBVIOUS
  <1> HIDE DEF first, last
  <1>2. /\ front \in Seq(S)
        /\ Len(front) = Len(first) + Len(k)
        /\ \A i \in 1 .. Len(first) + Len(k) :
               front[i] = IF i <= Len(first) THEN first[i] ELSE k[i - Len(first)]
    BY <1>1, ConcatProperties
  <1> HIDE DEF front
  <1>3. /\ Len(front) = 5 /\ front[1] = a
        /\ front[2] = k[1] /\ front[3] = k[2] /\ front[4] = k[3] /\ front[5] = k[4]
    BY <1>1, <1>2
  <1>4. front \in Seq(S) /\ last \in Seq(S)
    BY <1>1, <1>2
  <1>5. /\ all \in Seq(S)
        /\ Len(all) = Len(front) + Len(last)
        /\ \A i \in 1 .. Len(front) + Len(last) :
               all[i] = IF i <= Len(front) THEN front[i] ELSE last[i - Len(front)]
    BY <1>4, ConcatProperties
  <1> HIDE DEF all
  <1>6. /\ Len(all) = 7 /\ all[1] = front[1] /\ all[2] = front[2] /\ all[3] = front[3]
        /\ all[4] = front[4] /\ all[5] = front[5] /\ all[6] = c /\ all[7] = d
    BY <1>1, <1>3, <1>5
  <1>7. all \in Seq(S) /\ Len(all) = 7
    BY <1>5, <1>6
  <1>8. all = <<all[1], all[2], all[3], all[4], all[5], all[6], all[7]>>
    BY <1>7, SevenInATuple
  <1> QED  BY <1>3, <1>6, <1>8 DEF all, front, first, last

\* What lies between the first segment and the last two.
LEMMA MiddleSegments ==
    ASSUME NEW S, NEW s \in Seq(S), Len(s) = 7
    PROVE  SubSeq(s, 2, 5) = <<s[2], s[3], s[4], s[5]>>
  <1> DEFINE t == SubSeq(s, 2, 5)
  <1>1. \A i \in 2 .. 5 : s[i] \in S
    <2>1. \A i \in 1 .. Len(s) : s[i] \in S
      BY SequenceIsFunction
    <2> QED  BY <2>1
  <1>2. Len(t) = 4 /\ t \in Seq(S) /\ \A i \in 1 .. 5 - 2 + 1 : t[i] = s[2 + i - 1]
    BY <1>1, SubSeqProperties
  <1> HIDE DEF t
  <1>3. t[1] = s[2] /\ t[2] = s[3] /\ t[3] = s[4] /\ t[4] = s[5]
    BY <1>2
  <1>4. t = <<t[1], t[2], t[3], t[4]>>
    BY <1>2, FourInATuple
  <1> QED  BY <1>3, <1>4 DEF t

\* An envelope is read back: the wrapped key in the middle, dots and all, and
\* the bytes of the payload.
LEMMA EnvelopesAreRead ==
    ASSUME NEW w \in WrappedKeys, NEW p \in Payloads
    PROVE  /\ EnvelopeText(w, p) \in Text
           /\ ParseEnvelope(EnvelopeText(w, p)) =
                  <<[wrapped |-> WrappedKeyText(w), iv |-> p.iv, ciphertext |-> p.ciphertext]>>
  <1> DEFINE k == WrappedKeyText(w)
             iv == EncodeBase64Url(p.iv)
             ciphertext == EncodeBase64Url(p.ciphertext)
             text == <<ENVELOPE_PREFIX, k[1], k[2], k[3], k[4], iv, ciphertext>>
  <1>1. p.iv \in Seq(ByteValue) /\ Len(p.iv) = 12 /\ p.ciphertext \in Seq(ByteValue)
    BY SealedTypes
  <1>2. iv \in Seq(CharValue) /\ Decodes(iv) /\ DecodeBase64Url(iv) = p.iv
    BY <1>1, EncodedIsText, DecodesWhatWasEncoded
  <1>3. /\ ciphertext \in Seq(CharValue) /\ Decodes(ciphertext)
        /\ DecodeBase64Url(ciphertext) = p.ciphertext
    BY <1>1, EncodedIsText, DecodesWhatWasEncoded
  <1>4. k \in Seq(Seq(Char)) /\ Len(k) = 4 /\ k # << <<>> >>
    BY WrappedKeysAreRead DEF Text, WrappedKeyText
  <1>5. ENVELOPE_PREFIX \in Seq(CharValue)
    BY DEF ENVELOPE_PREFIX, CharValue
  <1>6. Seq(CharValue) \subseteq Seq(Char)
    BY DEF Char
  <1>7. EnvelopeText(w, p) = <<ENVELOPE_PREFIX>> \o k \o <<iv, ciphertext>>
    BY DEF EnvelopeText
  <1> HIDE DEF k, iv, ciphertext
  <1>8. ENVELOPE_PREFIX \in Seq(Char) /\ iv \in Seq(Char) /\ ciphertext \in Seq(Char)
    BY <1>2, <1>3, <1>5, <1>6
  <1>9. EnvelopeText(w, p) = text
    BY <1>4, <1>7, <1>8, SevenSegments, SMTT(20)
  <1>10. text \in Seq(Seq(Char))
    <2>1. \A i \in 1 .. Len(k) : k[i] \in Seq(Char)
      BY <1>4, SequenceIsFunction
    <2>2. k[1] \in Seq(Char) /\ k[2] \in Seq(Char) /\ k[3] \in Seq(Char) /\ k[4] \in Seq(Char)
      BY <1>4, <2>1
    <2> QED  BY <1>8, <2>2
  <1>11. /\ Len(text) = 7 /\ text[1] = ENVELOPE_PREFIX
         /\ text[Len(text) - 1] = iv /\ text[Len(text)] = ciphertext
         /\ text[2] = k[1] /\ text[3] = k[2] /\ text[4] = k[3] /\ text[5] = k[4]
    OBVIOUS
  <1> HIDE DEF text
  <1>12. WrappedPart(text) = k
    <2>1. WrappedPart(text) = SubSeq(text, 2, 5)
      BY <1>11 DEF WrappedPart
    <2>2. k = <<k[1], k[2], k[3], k[4]>>
      BY <1>4, FourInATuple
    <2> QED  BY <1>10, <1>11, <2>1, <2>2, MiddleSegments
  <1>13. ParseEnvelope(text) = <<[wrapped |-> k, iv |-> p.iv, ciphertext |-> p.ciphertext]>>
    BY <1>1, <1>2, <1>3, <1>4, <1>11, <1>12 DEF ParseEnvelope, IV_BYTE_LENGTH
  <1> QED  BY <1>9, <1>10, <1>13 DEF k, Text

\* What is taken out of a text has the type that AES-GCM is called with.
LEMMA EnvelopesAreTyped ==
    ASSUME NEW text \in Text, ParseEnvelope(text) # <<>>
    PROVE  \E wrapped \in Text, iv \in [1 .. IV_BYTE_LENGTH -> ByteValue], ciphertext \in Seq(ByteValue) :
               ParseEnvelope(text) = <<[wrapped |-> wrapped, iv |-> iv, ciphertext |-> ciphertext]>>
  <1> DEFINE ivText == text[Len(text) - 1]
             ciphertextText == text[Len(text)]
             wrapped == WrappedPart(text)
             iv == DecodeBase64Url(ivText)
             ciphertext == DecodeBase64Url(ciphertextText)
  <1>1. /\ Len(text) >= 4
        /\ Decodes(ivText) /\ Decodes(ciphertextText)
        /\ Len(iv) = IV_BYTE_LENGTH
        /\ ParseEnvelope(text) = <<[wrapped |-> wrapped, iv |-> iv, ciphertext |-> ciphertext]>>
    BY DEF ParseEnvelope
  <1>2. text \in Seq(Seq(Char)) /\ Len(text) \in Nat
    BY DEF Text
  <1>3. ivText \in Seq(Char) /\ ciphertextText \in Seq(Char)
    <2>1. Len(text) >= 4
      BY <1>1
    <2>2. Len(text) - 1 \in 1 .. Len(text) /\ Len(text) \in 1 .. Len(text)
      BY <1>2, <2>1
    <2> QED  BY <1>2, <2>2, SequenceIsFunction
  <1>4. iv \in [1 .. IV_BYTE_LENGTH -> ByteValue]
    <2>1. ivText \in Seq(CharValue)
      BY <1>1, <1>3, AlphabetIsTested
    <2>2. iv \in [1 .. Decoded(Len(ivText)) -> ByteValue] /\ Len(iv) = Decoded(Len(ivText))
      BY <2>1, DecodedIsBytes
    <2> QED  BY <1>1, <2>2
  <1>5. ciphertext \in Seq(ByteValue)
    BY <1>1, <1>3, AlphabetIsTested, DecodedIsBytes
  <1>6. wrapped \in Text
    <2>1. Len(text) >= 4
      BY <1>1
    <2>2. 2 \in 1 .. Len(text) + 1 /\ Len(text) - 2 \in 2 - 1 .. Len(text)
      BY <1>2, <2>1
    <2> QED  BY <1>2, <2>2, SubSeqProperties DEF WrappedPart, Text
  <1> QED  BY <1>1, <1>4, <1>5, <1>6

-----------------------------------------------------------------------------
(***************************************************************************)
(* The contexts as written.                                                *)
(***************************************************************************)
\* The entries of a context as written, their keys, and the value of a key.
Entries(c) == {c[i] : i \in DOMAIN c}
KeysOf(c) == {c[i][1] : i \in DOMAIN c}
ValueOf(c, k) == c[CHOOSE i \in DOMAIN c : c[i][1] = k][2]

\* The keys that a written context is canonicalized under, in their order.
WrittenKeys(c) == Listed(Sort(Listed([i \in DOMAIN c |-> c[i][1]])))

\* The assumption of Formats about contexts, for one of them.
LEMMA WrittenTypes ==
    \A c \in WrittenContexts :
        /\ c \in Seq(Range(c))
        /\ \A i \in DOMAIN c : c[i] = <<c[i][1], c[i][2]>> /\ c[i][1] \in Range(KeyOrder)
        /\ \A i, j \in DOMAIN c : c[i][1] = c[j][1] => i = j
  BY FormatsAssumption

\* The two orders depend on the set of the keys alone, and no key is lost or
\* doubled by them.
LEMMA WrittenKeysEnumerate ==
    ASSUME NEW c \in WrittenContexts
    PROVE  /\ WrittenKeys(c) = InOrder(KeysOf(c), IntegerKeys \o InOrder(KeysOf(c), KeyOrder))
           /\ WrittenKeys(c) \in Seq(KeysOf(c))
           /\ Range(WrittenKeys(c)) = KeysOf(c)
  <1> DEFINE X == Range(KeyOrder)
             keys == [i \in DOMAIN c |-> c[i][1]]
             listed == Listed(keys)
             sorted == InOrder(KeysOf(c), KeyOrder)
  <1>1. /\ c \in Seq(Range(c))
        /\ \A i \in DOMAIN c : c[i][1] \in X
    BY WrittenTypes
  <1>2. Range(keys) = KeysOf(c) /\ KeysOf(c) \subseteq X
    BY <1>1 DEF Range, KeysOf
  <1>3. keys \in Seq(X)
    <2>1. DOMAIN c = 1 .. Len(c) /\ Len(c) \in Nat
      BY <1>1, SequenceIsFunction
    <2>2. keys \in [1 .. Len(c) -> X]
      BY <1>1, <2>1
    <2> QED  BY <2>1, <2>2, FunctionIsSequence
  <1> HIDE DEF keys
  <1>4. IntegerKeys \in Seq(X) /\ KeyOrder \in Seq(X)
    BY KeyOrderAssumption
  <1> HIDE DEF X
  <1>5. IntegerKeys \o keys \in Seq(X) /\ KeysOf(c) \subseteq Range(IntegerKeys \o keys)
    BY <1>2, <1>3, <1>4, RangeConcatenation, ConcatProperties
  <1>6. Range(listed) = KeysOf(c)
    BY <1>2, <1>5, InOrderEnumerates DEF Listed
  <1> HIDE DEF listed
  <1>7. Sort(listed) = sorted
    BY <1>6 DEF Sort
  <1>8. sorted \in Seq(KeysOf(c)) /\ Range(sorted) = KeysOf(c)
    BY <1>2, <1>4, InOrderEnumerates DEF X
  <1> HIDE DEF sorted
  <1>9. WrittenKeys(c) = InOrder(KeysOf(c), IntegerKeys \o sorted)
    BY <1>7, <1>8 DEF WrittenKeys, Listed, listed, keys
  <1>10. sorted \in Seq(X)
    BY <1>2, <1>8, SeqMonotonic
  <1>11. IntegerKeys \o sorted \in Seq(X) /\ KeysOf(c) \subseteq Range(IntegerKeys \o sorted)
    BY <1>4, <1>8, <1>10, RangeConcatenation, ConcatProperties
  <1>12. WrittenKeys(c) \in Seq(KeysOf(c)) /\ Range(WrittenKeys(c)) = KeysOf(c)
    BY <1>9, <1>11, InOrderEnumerates
  <1> QED  BY <1>9, <1>12 DEF sorted

\* The value of an entry is what its key stands for.
LEMMA EntriesByKey ==
    ASSUME NEW c \in WrittenContexts
    PROVE  /\ \A i \in DOMAIN c : ValueOf(c, c[i][1]) = c[i][2]
           /\ Entries(c) = {<<k, ValueOf(c, k)>> : k \in KeysOf(c)}
  <1>1. /\ \A i \in DOMAIN c : c[i] = <<c[i][1], c[i][2]>>
        /\ \A i, j \in DOMAIN c : c[i][1] = c[j][1] => i = j
    BY WrittenTypes
  <1>2. ASSUME NEW i \in DOMAIN c
        PROVE  ValueOf(c, c[i][1]) = c[i][2]
    <2>1. (CHOOSE j \in DOMAIN c : c[j][1] = c[i][1]) = i
      BY <1>1
    <2> QED  BY <2>1 DEF ValueOf
  <1> QED  BY <1>1, <1>2 DEF Entries, KeysOf

\* The canonical form lists the entries, and nothing but the entries.
LEMMA CanonicalForm ==
    ASSUME NEW c \in WrittenContexts
    PROVE  /\ CanonicalizeWritten(c) =
                  [i \in DOMAIN WrittenKeys(c) |-> <<WrittenKeys(c)[i], ValueOf(c, WrittenKeys(c)[i])>>]
           /\ Range(CanonicalizeWritten(c)) = Entries(c)
  <1> DEFINE keys == WrittenKeys(c)
  <1>1. CanonicalizeWritten(c) = [i \in DOMAIN keys |-> <<keys[i], ValueOf(c, keys[i])>>]
    BY DEF CanonicalizeWritten, WrittenKeys, ValueOf
  <1>2. Range(keys) = KeysOf(c)
    BY WrittenKeysEnumerate
  <1>3. Entries(c) = {<<k, ValueOf(c, k)>> : k \in KeysOf(c)}
    BY EntriesByKey
  <1> HIDE DEF keys
  <1>4. Range(CanonicalizeWritten(c)) = {<<k, ValueOf(c, k)>> : k \in Range(keys)}
    BY <1>1 DEF Range
  <1> QED  BY <1>1, <1>2, <1>3, <1>4 DEF keys

\* The additional data are the same exactly if the entries are.
LEMMA CanonicalFormsAreEntries ==
    ASSUME NEW c \in WrittenContexts, NEW d \in WrittenContexts
    PROVE  CanonicalizeWritten(c) = CanonicalizeWritten(d) <=> Entries(c) = Entries(d)
  <1>1. ASSUME CanonicalizeWritten(c) = CanonicalizeWritten(d)
        PROVE  Entries(c) = Entries(d)
    BY <1>1, CanonicalForm
  <1>2. ASSUME Entries(c) = Entries(d)
        PROVE  CanonicalizeWritten(c) = CanonicalizeWritten(d)
    <2>1. KeysOf(c) = {e[1] : e \in Entries(c)} /\ KeysOf(d) = {e[1] : e \in Entries(d)}
      BY DEF KeysOf, Entries
    <2>2. KeysOf(c) = KeysOf(d)
      BY <1>2, <2>1
    <2>3. WrittenKeys(c) = WrittenKeys(d)
      BY <2>2, WrittenKeysEnumerate
    <2>4. ASSUME NEW k \in KeysOf(c)
          PROVE  ValueOf(c, k) = ValueOf(d, k)
      <3>1. <<k, ValueOf(c, k)>> \in Entries(d)
        BY <1>2, EntriesByKey
      <3>2. PICK l \in KeysOf(d) : <<k, ValueOf(c, k)>> = <<l, ValueOf(d, l)>>
        BY <3>1, EntriesByKey
      <3> QED  BY <3>2
    <2>5. \A i \in DOMAIN WrittenKeys(c) : WrittenKeys(c)[i] \in KeysOf(c)
      BY WrittenKeysEnumerate DEF Range
    <2> QED  BY <2>3, <2>4, <2>5, CanonicalForm
  <1> QED  BY <1>1, <1>2

-----------------------------------------------------------------------------
(***************************************************************************)
(* The inductive invariant: the blob is text whatever happened to it in    *)
(* the store, what was taken out of it is what parsing it gives, and       *)
(* reading stops at the first refusal.                                     *)
(***************************************************************************)
\* Something was sealed, and what is stored is text, edited or not.
SealedInv ==
    /\ pc \in {"new", "stored", "edited", "parsed", "done", "refused"}
    /\ pc = "new" => blob = <<>> /\ sealed = <<>>
    /\ pc # "new" =>
           /\ blob \in Text
           /\ \E w \in WrappedKeys, p \in Payloads, c \in WrittenContexts :
                  sealed = <<[key |-> w, payload |-> p, written |-> c]>>

\* What was taken out of the envelope is what parsing it gives.
ParsedInv ==
    /\ pc \in {"new", "stored", "edited"} => parsed = <<>> /\ written = <<>>
    /\ pc \in {"parsed", "done", "refused"} =>
           parsed = ParseEnvelope(blob) /\ written \in WrittenContexts
    /\ pc \in {"parsed", "done"} => parsed # <<>>

\* What was taken out of the wrapped key is what decoding it gives.
KeyInv ==
    /\ pc # "done" => key = <<>>
    /\ pc = "done" => key = DecodeToken(parsed[1].wrapped) /\ key # <<>>
    /\ pc = "refused" => parsed = <<>> \/ DecodeToken(parsed[1].wrapped) = <<>>

IInv == SealedInv /\ ParsedInv /\ KeyInv

\* Nothing was sealed, stored or read at first.
LEMMA InitHolds == Init => IInv
  BY DEF Init, IInv, SealedInv, ParsedInv, KeyInv

\* An edit of text is text.
LEMMA EditedIsText ==
    ASSUME NEW chars \in Seq(Char), NEW edited \in Edited(chars)
    PROVE  edited \in Seq(Char)
  <1> DEFINE added == {<<x>> \o chars : x \in EditChars}
             appended == {Append(chars, x) : x \in EditChars}
             changed == {[chars EXCEPT ![i] = x] :
                             i \in {1, Len(chars)} \intersect DOMAIN chars, x \in EditChars}
             lost == {SubSeq(chars, 1, Len(chars) - 1), SubSeq(chars, 2, Len(chars))}
  <1>1. EditChars \subseteq Char
    BY FormatsAssumption DEF Char, CharValue
  <1>2. added \subseteq Seq(Char)
    <2>1. \A x \in Char : <<x>> \o chars \in Seq(Char)
      <3>1. \A x \in Char : <<x>> \in Seq(Char)
        OBVIOUS
      <3> QED  BY <3>1, ConcatProperties
    <2> QED  BY <1>1, <2>1
  <1>3. appended \subseteq Seq(Char)
    BY <1>1
  <1>4. changed \subseteq Seq(Char)
    <2>1. \A i \in DOMAIN chars, x \in Char : [chars EXCEPT ![i] = x] \in Seq(Char)
      OBVIOUS
    <2> QED  BY <1>1, <2>1
  <1>5. lost \subseteq Seq(Char)
    <2>1. Len(chars) \in Nat /\ \A i \in 1 .. Len(chars) : chars[i] \in Char
      BY SequenceIsFunction
    <2>2. SubSeq(chars, 1, Len(chars) - 1) \in Seq(Char)
      BY <2>1, SubSeqProperties
    <2>3. SubSeq(chars, 2, Len(chars)) \in Seq(Char)
      BY <2>1, SubSeqProperties
    <2> QED  BY <2>2, <2>3
  <1>6. Edited(chars) = added \union appended \union changed \union lost
    BY DEF Edited
  <1> HIDE DEF added, appended, changed, lost
  <1> QED  BY <1>2, <1>3, <1>4, <1>5, <1>6

\* What the store does to an envelope leaves it text.
LEMMA EditKeepsText ==
    ASSUME blob \in Text, Edit
    PROVE  blob' \in Text
  <1>1. blob \in Seq(Seq(Char)) /\ Len(blob) \in Nat /\ DOMAIN blob = 1 .. Len(blob)
        /\ \A i \in 1 .. Len(blob) : blob[i] \in Seq(Char)
    BY SequenceIsFunction DEF Text
  <1>2. PICK i \in DOMAIN blob :
            LET before == SubSeq(blob, 1, i - 1)
                after == SubSeq(blob, i + 1, Len(blob))
            IN  blob' \in {before \o <<chars>> \o after : chars \in Edited(blob[i])}
                    \union {before \o after, before \o <<blob[i], blob[i]>> \o after}
    BY DEF Edit
  <1> DEFINE before == SubSeq(blob, 1, i - 1)
             after == SubSeq(blob, i + 1, Len(blob))
  <1>3. \/ \E chars \in Edited(blob[i]) : blob' = before \o <<chars>> \o after
        \/ blob' = before \o after
        \/ blob' = before \o <<blob[i], blob[i]>> \o after
    BY <1>2
  <1>4. before \in Seq(Seq(Char))
    <2>1. \A j \in 1 .. i - 1 : blob[j] \in Seq(Char)
      BY <1>1
    <2> QED  BY <1>1, <2>1, SubSeqProperties
  <1>5. after \in Seq(Seq(Char))
    <2>1. \A j \in i + 1 .. Len(blob) : blob[j] \in Seq(Char)
      BY <1>1
    <2> QED  BY <1>1, <2>1, SubSeqProperties
  <1> HIDE DEF before, after
  <1>6. ASSUME NEW middle \in Seq(Seq(Char))
        PROVE  before \o middle \o after \in Seq(Seq(Char))
    BY <1>4, <1>5, ConcatProperties
  <1>7. ASSUME NEW chars \in Seq(Char)
        PROVE  <<chars>> \in Seq(Seq(Char)) /\ <<chars, chars>> \in Seq(Seq(Char))
    OBVIOUS
  <1>8. blob[i] \in Seq(Char)
    BY <1>1
  <1>9. \A chars \in Edited(blob[i]) : chars \in Seq(Char)
    BY <1>8, EditedIsText
  <1>10. before \o after \in Seq(Seq(Char))
    BY <1>4, <1>5, ConcatProperties
  <1> QED  BY <1>3, <1>6, <1>7, <1>8, <1>9, <1>10 DEF Text

\* Sealing stores the text of what was sealed.
LEMMA EncryptSecretKeeps ==
    ASSUME IInv, EncryptSecret
    PROVE  IInv'
  <1>1. PICK w \in WrappedKeys, p \in Payloads, c \in WrittenContexts :
            /\ sealed' = <<[key |-> w, payload |-> p, written |-> c]>>
            /\ blob' = EnvelopeText(w, p)
    BY DEF EncryptSecret
  <1>2. blob' \in Text
    BY <1>1, EnvelopesAreRead
  <1>3. pc = "new" /\ pc' = "stored" /\ UNCHANGED <<parsed, written, key>>
    BY DEF EncryptSecret
  <1>4. SealedInv'
    BY <1>1, <1>2, <1>3 DEF SealedInv
  <1>5. ParsedInv'
    BY <1>3 DEF IInv, ParsedInv
  <1>6. KeyInv'
    BY <1>3 DEF IInv, KeyInv
  <1> QED  BY <1>4, <1>5, <1>6 DEF IInv

\* An edit leaves text, and a record of what was sealed.
LEMMA EditKeeps ==
    ASSUME IInv, Edit
    PROVE  IInv'
  <1>1. pc = "stored" /\ pc' = "edited" /\ UNCHANGED <<sealed, parsed, written, key>>
    BY DEF Edit
  <1>2. blob \in Text
    BY <1>1 DEF IInv, SealedInv
  <1>3. blob' \in Text
    BY <1>2, EditKeepsText
  <1>4. SealedInv'
    BY <1>1, <1>3 DEF IInv, SealedInv
  <1>5. ParsedInv'
    BY <1>1 DEF IInv, ParsedInv
  <1>6. KeyInv'
    BY <1>1 DEF IInv, KeyInv
  <1> QED  BY <1>4, <1>5, <1>6 DEF IInv

\* Reading takes out what parsing gives, or refuses.
LEMMA DecryptSecretKeeps ==
    ASSUME IInv, DecryptSecret
    PROVE  IInv'
  <1>1. /\ pc \in {"stored", "edited"}
        /\ parsed' = ParseEnvelope(blob)
        /\ pc' = IF parsed' = <<>> THEN "refused" ELSE "parsed"
        /\ written' \in WrittenContexts
        /\ UNCHANGED <<sealed, blob, key>>
    BY DEF DecryptSecret
  <1>2. SealedInv'
    BY <1>1 DEF IInv, SealedInv
  <1>3. ParsedInv'
    BY <1>1 DEF ParsedInv
  <1>4. KeyInv'
    BY <1>1 DEF IInv, KeyInv
  <1> QED  BY <1>2, <1>3, <1>4 DEF IInv

\* Unwrapping takes out what decoding gives, or refuses.
LEMMA UnwrapDekKeeps ==
    ASSUME IInv, UnwrapDek
    PROVE  IInv'
  <1>1. /\ pc = "parsed"
        /\ key' = DecodeToken(parsed[1].wrapped)
        /\ pc' = IF key' = <<>> THEN "refused" ELSE "done"
        /\ UNCHANGED <<sealed, blob, parsed, written>>
    BY DEF UnwrapDek
  <1>2. SealedInv'
    BY <1>1 DEF IInv, SealedInv
  <1>3. ParsedInv'
    BY <1>1 DEF IInv, ParsedInv
  <1>4. KeyInv'
    BY <1>1 DEF KeyInv
  <1> QED  BY <1>2, <1>3, <1>4 DEF IInv

\* Every step keeps the invariant.
LEMMA StepKeeps == IInv /\ [Next]_vars => IInv'
  <1> SUFFICES ASSUME IInv, [Next]_vars
               PROVE  IInv'
    OBVIOUS
  <1>1. CASE UNCHANGED vars
    BY <1>1 DEF vars, IInv, SealedInv, ParsedInv, KeyInv
  <1> QED
    BY <1>1, EncryptSecretKeeps, EditKeeps, DecryptSecretKeeps, UnwrapDekKeeps DEF Next

\* The invariant holds of every behaviour.
LEMMA InvariantHolds == Spec => []IInv
  BY InitHolds, StepKeeps, PTL DEF Spec

\* Whatever is decoded is a version, an iv and bytes of the lengths AES-GCM is
\* called with, also when the text was edited in the store.
THEOREM TypeCorrect == Spec => []TypeOK
  <1>1. IInv => TypeOK
    <2> SUFFICES ASSUME IInv
                 PROVE  TypeOK
      OBVIOUS
    <2>1. pc \in {"new", "stored", "edited", "parsed", "done", "refused"}
      BY DEF IInv, SealedInv
    <2>2. ASSUME parsed # <<>>
          PROVE  \E wrapped \in Text, iv \in [1 .. IV_BYTE_LENGTH -> ByteValue],
                     ciphertext \in Seq(ByteValue) :
                     parsed = <<[wrapped |-> wrapped, iv |-> iv, ciphertext |-> ciphertext]>>
      <3>1. blob \in Text /\ parsed = ParseEnvelope(blob)
        BY <2>2 DEF IInv, SealedInv, ParsedInv
      <3> QED  BY <2>2, <3>1, EnvelopesAreTyped
    <2>3. \A i \in DOMAIN parsed :
              /\ parsed[i].iv \in [1 .. IV_BYTE_LENGTH -> ByteValue]
              /\ \A j \in DOMAIN parsed[i].ciphertext : parsed[i].ciphertext[j] \in ByteValue
      <3>1. CASE parsed = <<>>
        BY <3>1
      <3>2. CASE parsed # <<>>
        <4>1. PICK wrapped \in Text, iv \in [1 .. IV_BYTE_LENGTH -> ByteValue],
                   ciphertext \in Seq(ByteValue) :
                   parsed = <<[wrapped |-> wrapped, iv |-> iv, ciphertext |-> ciphertext]>>
          BY <2>2, <3>2
        <4>2. DOMAIN parsed = {1} /\ parsed[1].iv = iv /\ parsed[1].ciphertext = ciphertext
          BY <4>1
        <4>3. \A j \in DOMAIN ciphertext : ciphertext[j] \in ByteValue
          BY SequenceIsFunction
        <4> QED  BY <4>2, <4>3
      <3> QED  BY <3>1, <3>2
    <2>4. \A i \in DOMAIN key : key[i] \in KeyRecords
      <3>1. CASE pc # "done"
        BY <3>1 DEF IInv, KeyInv
      <3>2. CASE pc = "done"
        <4>1. parsed # <<>> /\ key = DecodeToken(parsed[1].wrapped) /\ key # <<>>
          BY <3>2 DEF IInv, ParsedInv, KeyInv
        <4>2. parsed[1].wrapped \in Text
          BY <2>2, <4>1
        <4>3. PICK k \in KeyRecords : key = <<k>>
          BY <4>1, <4>2, WrappedKeysHaveOneText
        <4> QED  BY <4>3
      <3> QED  BY <3>1, <3>2
    <2> QED  BY <2>1, <2>3, <2>4 DEF TypeOK
  <1> QED  BY <1>1, InvariantHolds, PTL

\* What was sealed and stored is read back byte by byte and with its version,
\* for every key, payload and length there is: encryptSecret and wrapDek hand
\* out nothing that decryptSecret or decodeToken refuses for its form.
THEOREM SealedIsRead == Spec => []ReadsWhatWasSealed
  <1>1. IInv => ReadsWhatWasSealed
    <2> SUFFICES ASSUME IInv, pc \in {"parsed", "done", "refused"},
                        blob = EnvelopeText(sealed[1].key, sealed[1].payload)
                 PROVE  /\ pc # "refused"
                        /\ [iv |-> parsed[1].iv, ciphertext |-> parsed[1].ciphertext] = sealed[1].payload
                        /\ pc = "done" => key[1] = sealed[1].key
      BY DEF ReadsWhatWasSealed
    <2>1. PICK w \in WrappedKeys, p \in Payloads : sealed[1].key = w /\ sealed[1].payload = p
      BY DEF IInv, SealedInv
    <2>2. parsed = <<[wrapped |-> WrappedKeyText(w), iv |-> p.iv, ciphertext |-> p.ciphertext]>>
      BY <2>1, EnvelopesAreRead DEF IInv, ParsedInv
    <2>3. parsed # <<>> /\ parsed[1].wrapped = WrappedKeyText(w)
          /\ parsed[1].iv = p.iv /\ parsed[1].ciphertext = p.ciphertext
      BY <2>2
    <2>4. DecodeToken(parsed[1].wrapped) = <<w>>
      BY <2>3, WrappedKeysAreRead
    <2>5. pc # "refused" /\ (pc = "done" => key[1] = w)
      BY <2>3, <2>4 DEF IInv, KeyInv
    <2>6. p = [iv |-> p.iv, ciphertext |-> p.ciphertext]
      BY SealedTypes
    <2> QED  BY <2>1, <2>3, <2>5, <2>6
  <1> QED  BY <1>1, InvariantHolds, PTL

\* A wrapped key that the worker accepts is, character by character, the text
\* it would give out for that key itself: base64url with bits left over, or a
\* version with a zero in front, is never a second text of the same key.
THEOREM KeysHaveOneText == Spec => []OneTextPerKey
  <1>1. IInv => OneTextPerKey
    <2> SUFFICES ASSUME IInv, pc = "done"
                 PROVE  parsed[1].wrapped = WrappedKeyText(key[1])
      BY DEF OneTextPerKey
    <2>1. /\ blob \in Text /\ parsed = ParseEnvelope(blob) /\ parsed # <<>>
          /\ key = DecodeToken(parsed[1].wrapped) /\ key # <<>>
      BY DEF IInv, SealedInv, ParsedInv, KeyInv
    <2>2. parsed[1].wrapped \in Text
      BY <2>1, EnvelopesAreTyped
    <2>3. PICK k \in KeyRecords : key = <<k>> /\ WrappedKeyText(k) = parsed[1].wrapped
      BY <2>1, <2>2, WrappedKeysHaveOneText
    <2> QED  BY <2>3
  <1> QED  BY <1>1, InvariantHolds, PTL

\* The order a context is written in does not matter and everything else does:
\* two services get the same additional data exactly if they wrote the same
\* entries, whichever of the keys an object lists by number.
THEOREM OrderIsForgotten == Spec => []OrderDoesNotMatter
  <1>1. IInv => OrderDoesNotMatter
    <2> SUFFICES ASSUME IInv, written # <<>>
                 PROVE  (CanonicalizeWritten(written) = CanonicalizeWritten(sealed[1].written))
                            <=> Entries(written) = Entries(sealed[1].written)
      BY DEF OrderDoesNotMatter, Entries
    <2>1. written \in WrittenContexts /\ pc # "new"
      BY DEF IInv, SealedInv, ParsedInv
    <2>2. sealed[1].written \in WrittenContexts
      BY <2>1 DEF IInv, SealedInv
    <2> QED  BY <2>1, <2>2, CanonicalFormsAreEntries
  <1> QED  BY <1>1, InvariantHolds, PTL
=============================================================================
